------------------------- MODULE OrderIssues_proofs --------------------------
(***************************************************************************)
(* The safety of the order issues, for every number of handlers, orders    *)
(* and edits.                                                              *)
(*                                                                         *)
(* IInv holds however the handlers interleave: corrections are unique and  *)
(* audited.  AloneInv says what a handler that nobody disturbed knows: the *)
(* issue it found is the issue there is, and a scan has reported all it    *)
(* found but what it has yet to do.                                        *)
(*                                                                         *)
(* All that matters there of what is detected is that one reading of an    *)
(* order says one thing of each type (OnePerType).  The amounts come last: *)
(* a correction that a handler computed and that nobody got ahead of       *)
(* leaves nothing to correct (CorrectionReconciles).                       *)
(***************************************************************************)
EXTENDS OrderIssues, Allocation_proofs

-----------------------------------------------------------------------------
(* Lists and the index *)

IsList(s) == s \in Seq(Range(s))

LEMMA AppendToList ==
    ASSUME NEW s, IsList(s), NEW e
    PROVE  /\ IsList(Append(s, e))
           /\ DOMAIN Append(s, e) = DOMAIN s \cup {Len(s) + 1}
           /\ Len(s) + 1 \notin DOMAIN s
           /\ \A n \in DOMAIN s : Append(s, e)[n] = s[n]
           /\ Append(s, e)[Len(s) + 1] = e
           /\ Range(Append(s, e)) = Range(s) \cup {e}
<1> DEFINE t == Append(s, e)
<1>1. s \in Seq(Range(s))
  BY DEF IsList
<1>2. /\ DOMAIN t = DOMAIN s \cup {Len(s) + 1} /\ Len(s) + 1 \notin DOMAIN s
      /\ \A n \in DOMAIN s : t[n] = s[n]
      /\ t[Len(s) + 1] = e
  BY <1>1
<1>3. t \in Seq(Range(s) \cup {e})
  BY <1>1
<1> HIDE DEF t
<1>4. Range(t) = Range(s) \cup {e}
  BY <1>2 DEF Range
<1>5. t \in Seq(Range(t))
  BY <1>3, <1>4
<1> QED
  BY <1>2, <1>4, <1>5 DEF IsList, t

LEMMA SeqIsList ==
    ASSUME NEW S, NEW s \in Seq(S)
    PROVE  IsList(s)
<1>1. s \in [1 .. Len(s) -> S] /\ DOMAIN s = 1 .. Len(s) /\ Len(s) \in Nat
  OBVIOUS
<1>2. s \in [1 .. Len(s) -> Range(s)]
  BY <1>1 DEF Range
<1> QED
  BY <1>1, <1>2 DEF IsList

\* One reading of an order says one thing of each type.
LEMMA OnePerType ==
    ASSUME NEW order, NEW i \in Detected(order), NEW j \in Detected(order), i.type = j.type
    PROVE  i = j
<1>1. \A m \in DetectOrderIssues(order) : m.type \in {Mismatch, Missing, InvalidTotal}
  BY DEF DetectOrderIssues, WithoutTotal, Issue
<1>2. \A m, n \in DetectOrderIssues(order) : m = n
  BY DEF DetectOrderIssues, WithoutTotal
<1>3. \A m \in DetectCommissionIssues(order) :
         /\ m.type \in {MissingBeautician, DeletedBeautician, MissingCommission, InvalidCommission}
         /\ m = Issue(m.type, 0, 0)
  BY DEF DetectCommissionIssues, Issue
<1>4. {Mismatch, Missing, InvalidTotal}
        \cap {MissingBeautician, DeletedBeautician, MissingCommission, InvalidCommission} = {}
  BY DEF Mismatch, Missing, InvalidTotal, MissingBeautician, DeletedBeautician,
         MissingCommission, InvalidCommission
<1> QED
  BY <1>1, <1>2, <1>3, <1>4 DEF Detected

-----------------------------------------------------------------------------
(* Corrections *)

Status == {"open", "resolved", "accepted"}

IssueOK(issue) ==
    /\ DOMAIN issue = {"status", "date", "expected", "actual", "history"}
    /\ issue.status \in Status
    /\ IsList(issue.history)

\* What a handler keeps: the key of an issue that exists when it acts on one,
\* and where to go on when it upserts.
Upserting(h) == {"pc", "todo"} \subseteq DOMAIN h /\ h.op \in {"scan", "recheck"}

HandlerOK(h, keys) ==
    /\ h.pc \in {"idle", "find", "write", "stale", "load", "push", "close"}
    /\ h.pc \in {"load", "push", "close"} => h.key \in keys
    /\ h.pc = "close" => h.status \in Status
    /\ h.pc = "find" => Upserting(h)
    /\ h.pc = "write" => h.handler.pc = "find" /\ Upserting(h.handler)

Typed ==
    /\ orders = [o \in Order |-> orders[o]]
    /\ \A o \in Order : "history" \in DOMAIN orders[o] /\ IsList(orders[o].history)
    /\ \A k \in DOMAIN issues : IssueOK(issues[k])
    /\ DOMAIN client = Client
    /\ \A c \in Client : HandlerOK(client[c], DOMAIN issues)
    /\ alone \in [Client -> BOOLEAN] /\ cut \subseteq DOMAIN issues
    /\ faults \in Nat

\* A correction is of an issue that exists.
CorrectionsKnown ==
    \A o \in Order : \A n \in DOMAIN orders[o].history :
        orders[o].history[n].issue # NoIssue => orders[o].history[n].issue \in DOMAIN issues

IInv ==
    /\ Typed
    /\ CorrectionsKnown
    /\ AdjustedOnce
    /\ AdjustmentsAudited

LEMMA InitIInv == Init => IInv
<1> SUFFICES ASSUME Init PROVE IInv
  OBVIOUS
<1> USE DEF Init
<1>1. ASSUME NEW o \in Order
      PROVE  /\ "history" \in DOMAIN orders[o] /\ IsList(orders[o].history)
             /\ \A n \in DOMAIN orders[o].history : orders[o].history[n].issue = NoIssue
  <2>1. orders[o].history \in Seq(Payment) /\ "history" \in DOMAIN orders[o]
    <3>1. orders[o] \in OrderDocument
      BY ConstantsAssumption
    <3> QED
      BY <3>1 DEF OrderDocument
  <2>2. \A n \in DOMAIN orders[o].history : orders[o].history[n] \in Payment
    BY <2>1
  <2> QED
    BY <2>1, <2>2, SeqIsList DEF Payment
<1>2. Typed
  BY <1>1, ConstantsAssumption DEF Typed, Idle, HandlerOK
<1> QED
  BY <1>1, <1>2 DEF IInv, CorrectionsKnown, AdjustedOnce, AdjustmentsAudited

\* The index only grows, and so do the histories of its issues.
IndexGrows ==
    /\ DOMAIN issues \subseteq DOMAIN issues'
    /\ \A k \in DOMAIN issues : Range(issues[k].history) \subseteq Range(issues'[k].history)
    /\ \A k \in DOMAIN issues' : IssueOK(issues'[k])

LEMMA SameIndexGrows ==
    ASSUME Typed, UNCHANGED issues
    PROVE  IndexGrows
  BY DEF Typed, IndexGrows

\* A command of a handler that leaves the orders alone.
LEMMA HandlerStep ==
    ASSUME IInv, UNCHANGED orders, IndexGrows,
           NEW c \in Client, NEW state, client' = [client EXCEPT ![c] = state],
           HandlerOK(state, DOMAIN issues'),
           alone' \in [Client -> BOOLEAN], faults' \in Nat,
           cut \subseteq cut', cut' \subseteq cut \cup DOMAIN issues,
           \/ client[c].pc # "close" \/ ~client[c].wrote \/ client[c].key \in cut'
           \/ client[c].resolution \in Range(issues'[client[c].key].history)
    PROVE  IInv'
<1>0. Typed /\ CorrectionsKnown /\ AdjustedOnce /\ AdjustmentsAudited
  BY DEF IInv
<1>1. DOMAIN client' = Client /\ client'[c] = state /\ \A d \in Client \ {c} : client'[d] = client[d]
  BY <1>0 DEF Typed
<1>2. \A d \in Client : HandlerOK(client'[d], DOMAIN issues')
  BY <1>0, <1>1 DEF Typed, IndexGrows, HandlerOK
<1>3. Typed'
  BY <1>0, <1>1, <1>2 DEF Typed, IndexGrows
<1>4. CorrectionsKnown' /\ AdjustedOnce'
  BY <1>0 DEF CorrectionsKnown, AdjustedOnce, IndexGrows
<1>5. ASSUME NEW o \in Order, NEW n \in DOMAIN orders[o].history,
             orders[o].history[n].issue # NoIssue
      PROVE  LET e == orders[o].history[n]
             IN  \/ Resolution("align_payment_record", e.amount) \in Range(issues'[e.issue].history)
                 \/ Aligning(e.issue, e.amount)'
                 \/ e.issue \in cut'
  <2> DEFINE e == orders[o].history[n]
  <2>1. e.issue \in DOMAIN issues
    BY <1>0, <1>5 DEF CorrectionsKnown
  <2>2. CASE Resolution("align_payment_record", e.amount) \in Range(issues[e.issue].history)
    BY <2>1, <2>2 DEF IndexGrows
  <2>3. CASE Aligning(e.issue, e.amount)
    <3>1. PICK d \in Client : /\ client[d].pc = "close" /\ client[d].key = e.issue
                              /\ client[d].wrote
                              /\ client[d].resolution = Resolution("align_payment_record", e.amount)
      BY <2>3 DEF Aligning
    <3>2. CASE d = c
      BY <3>1, <3>2
    <3>3. CASE d # c
      BY <1>1, <3>1, <3>3 DEF Aligning
    <3> QED
      BY <3>2, <3>3
  <2>4. CASE e.issue \in cut
    BY <2>4
  <2> QED
    BY <1>0, <1>5, <2>2, <2>3, <2>4 DEF AdjustmentsAudited
<1> QED
  BY <1>3, <1>4, <1>5 DEF IInv, AdjustmentsAudited

LEMMA ContinueStep ==
    ASSUME IInv, UNCHANGED orders, IndexGrows,
           NEW c \in Client, NEW state, Continue(c, state),
           HandlerOK(state, DOMAIN issues'),
           \/ client[c].pc # "close"
           \/ client[c].resolution \in Range(issues'[client[c].key].history)
    PROVE  IInv'
<1>1. alone' \in [Client -> BOOLEAN]
  BY DEF Continue
<1>2. faults' = faults /\ faults \in Nat /\ client' = [client EXCEPT ![c] = state]
  BY DEF Continue, IInv, Typed
<1>3. faults' \in Nat /\ cut' = cut
  BY <1>2 DEF Continue
<1> QED
  BY <1>1, <1>2, <1>3, HandlerStep

LEMMA BeginStep ==
    ASSUME IInv, UNCHANGED <<orders, issues>>, NEW c \in Client, NEW state, Begin(c, state),
           HandlerOK(state, DOMAIN issues)
    PROVE  IInv'
<1>1. alone' \in [Client -> BOOLEAN] /\ IndexGrows
  BY SameIndexGrows DEF Begin, IInv
<1>2. /\ faults' = faults /\ faults \in Nat /\ client' = [client EXCEPT ![c] = state]
      /\ client[c].pc # "close"
  BY DEF Begin, IInv, Typed, Idle
<1>3. faults' \in Nat /\ cut' = cut
  BY <1>2 DEF Begin
<1>4. HandlerOK(state, DOMAIN issues')
  OBVIOUS
<1> QED
  BY <1>1, <1>2, <1>3, <1>4, HandlerStep

\* The commands that only look.
LEMMA LookStep ==
    ASSUME IInv, NEW c \in Client,
           \/ ScanOrders(c) \/ ActOnOrderIssue(c) \/ UpsertFind(c)
           \/ RecheckOrderIssue(c) \/ AlignOrderPayment(c)
    PROVE  IInv'
<1>0. IndexGrows /\ HandlerOK(client[c], DOMAIN issues) /\ UNCHANGED <<orders, issues>>
  BY SameIndexGrows
     DEF IInv, Typed, ScanOrders, ActOnOrderIssue, UpsertFind, RecheckOrderIssue, AlignOrderPayment
<1>1. CASE ScanOrders(c)
  <2>1. \E range \in Ranges : \E found : Begin(c,
            [pc |-> IF found = {} THEN "stale" ELSE "find",
             op |-> "scan", range |-> range, todo |-> found, detected |-> {f.key : f \in found}])
    BY <1>1 DEF ScanOrders
  <2>2. PICK range \in Ranges : \E found : Begin(c,
            [pc |-> IF found = {} THEN "stale" ELSE "find",
             op |-> "scan", range |-> range, todo |-> found, detected |-> {f.key : f \in found}])
    BY <2>1
  <2>3. PICK found : Begin(c,
            [pc |-> IF found = {} THEN "stale" ELSE "find",
             op |-> "scan", range |-> range, todo |-> found, detected |-> {f.key : f \in found}])
    BY <2>2
  <2> DEFINE state == [pc |-> IF found = {} THEN "stale" ELSE "find", op |-> "scan",
                       range |-> range, todo |-> found, detected |-> {f.key : f \in found}]
  <2>4. /\ {"pc", "todo"} \subseteq DOMAIN state /\ state.op = "scan"
        /\ state.pc \in {"stale", "find"}
    OBVIOUS
  <2>5. Begin(c, state)
    BY <2>3
  <2> HIDE DEF state
  <2>6. HandlerOK(state, DOMAIN issues)
    BY <2>4 DEF HandlerOK, Upserting
  <2> QED
    BY <1>0, <2>5, <2>6, BeginStep
<1>2. CASE ActOnOrderIssue(c)
  <2>1. PICK k \in DOMAIN issues, op \in {"recheck", "accept", "align"} :
          Begin(c, IF op = "accept"
                    THEN [pc |-> "close", key |-> k, status |-> "accepted",
                          resolution |-> Resolution("accept_variance", 0), wrote |-> FALSE]
                    ELSE [pc |-> "load", op |-> op, key |-> k])
    BY <1>2 DEF ActOnOrderIssue
  <2> QED
    BY <1>0, <2>1, BeginStep DEF HandlerOK, Status
<1>3. CASE UpsertFind(c)
  <2>1. PICK f \in client[c].todo :
          Continue(c, [pc |-> "write", of |-> f, handler |-> client[c],
             existing |-> IF f.key \in DOMAIN issues THEN issues[f.key] ELSE NoIssue])
    BY <1>3 DEF UpsertFind
  <2> DEFINE state == [pc |-> "write", of |-> f, handler |-> client[c],
                       existing |-> IF f.key \in DOMAIN issues THEN issues[f.key] ELSE NoIssue]
  <2>2. client[c].pc = "find" /\ state.pc = "write" /\ state.handler = client[c]
    BY <1>3 DEF UpsertFind
  <2>3. Continue(c, state)
    BY <2>1
  <2> HIDE DEF state
  <2>4. HandlerOK(state, DOMAIN issues)
    BY <1>0, <2>2 DEF HandlerOK
  <2> QED
    BY <1>0, <2>2, <2>3, <2>4, ContinueStep
<1>4. CASE RecheckOrderIssue(c)
  <2> DEFINE k == client[c].key
             same == {f \in Found(k[1]) : f.key = k}
  <2>1. client[c].pc = "load" /\ k \in DOMAIN issues
    BY <1>0, <1>4 DEF RecheckOrderIssue, HandlerOK
  <2>2. Continue(c, IF same = {} THEN ClosingRechecked(k)
                    ELSE [pc |-> "find", op |-> "recheck", todo |-> same])
    BY <1>4 DEF RecheckOrderIssue
  <2> HIDE DEF same
  <2> QED
    BY <1>0, <2>1, <2>2, ContinueStep DEF HandlerOK, Upserting, ClosingRechecked, Status
<1>5. CASE AlignOrderPayment(c)
  <2> DEFINE k == client[c].key
  <2>1. client[c].pc = "load" /\ k \in DOMAIN issues
    BY <1>0, <1>5 DEF AlignOrderPayment, HandlerOK
  <2>2. PICK state : /\ Continue(c, state)
                     /\ \/ state = Idle
                        \/ state = ClosingRechecked(k)
                        \/ \E amount : state = [pc |-> "push", key |-> k, adjustment |-> amount]
    BY <1>5 DEF AlignOrderPayment
  <2>3. HandlerOK(state, DOMAIN issues)
    BY <2>1, <2>2 DEF HandlerOK, Idle, ClosingRechecked, Status
  <2> QED
    BY <1>0, <2>1, <2>2, <2>3, ContinueStep
<1> QED
  BY <1>1, <1>2, <1>3, <1>4, <1>5

\* What is left to upsert is where the handler goes on.
LEMMA UpsertedOK ==
    ASSUME IInv, NEW c \in Client, client[c].pc = "write", NEW keys
    PROVE  HandlerOK(Upserted(c), keys) /\ HandlerOK(client[c].handler, keys)
<1> DEFINE h == client[c].handler
<1>1. h.pc = "find" /\ Upserting(h)
  BY DEF IInv, Typed, HandlerOK
<1> HIDE DEF h
<1>2. HandlerOK(h, keys)
  BY <1>1 DEF HandlerOK
<1>3. ASSUME NEW todo, NEW pc \in {"stale", "find"}
      PROVE  HandlerOK([h EXCEPT !.todo = todo, !.pc = pc], keys)
  <2> DEFINE g == [h EXCEPT !.todo = todo, !.pc = pc]
  <2>1. DOMAIN g = DOMAIN h /\ g.pc = pc /\ g.op = h.op
    BY <1>1 DEF Upserting
  <2> HIDE DEF g
  <2>2. HandlerOK(g, keys)
    BY <1>1, <2>1 DEF HandlerOK, Upserting
  <2> QED
    BY <2>2 DEF g
<1> DEFINE todo == h.todo \ {client[c].of}
           pc == IF todo = {} THEN "stale" ELSE "find"
<1>4. pc \in {"stale", "find"} /\ HandlerOK(Idle, keys)
  BY DEF HandlerOK, Idle
<1> HIDE DEF todo, pc
<1>5. HandlerOK([h EXCEPT !.todo = todo, !.pc = pc], keys)
  BY <1>3, <1>4
<1> QED
  BY <1>2, <1>4, <1>5 DEF Upserted, h, todo, pc

LEMMA UpdatedIssue ==
    ASSUME NEW issue, IssueOK(issue), NEW f, NEW reopen
    PROVE  LET new == Updated(issue, f, reopen)
           IN  /\ IssueOK(new)
               /\ new.history = issue.history
               /\ new.status = IF reopen THEN "open" ELSE issue.status
               /\ new.expected = f.expected /\ new.actual = f.actual
<1> DEFINE new == Updated(issue, f, reopen)
<1>1. /\ DOMAIN new = DOMAIN issue /\ new.history = issue.history
      /\ new.status = IF reopen THEN "open" ELSE issue.status
      /\ new.expected = f.expected /\ new.actual = f.actual
  BY DEF IssueOK, Updated
<1> HIDE DEF new
<1>2. IssueOK(new)
  BY <1>1 DEF IssueOK, Status
<1> QED
  BY <1>1, <1>2 DEF new

\* The commands that write to the index.
LEMMA UpsertStep ==
    ASSUME IInv, NEW c \in Client, UpsertInsert(c) \/ UpsertUpdate(c)
    PROVE  IInv'
<1>0. Typed /\ \A k \in DOMAIN issues : IssueOK(issues[k])
  BY DEF IInv, Typed
<1> DEFINE f == client[c].of
<1>1. CASE UpsertInsert(c)
  <2>1. CASE f.key \in DOMAIN issues
    <3>1. Continue(c, client[c].handler) /\ client[c].pc = "write" /\ UNCHANGED <<orders, issues>>
      BY <1>1, <2>1 DEF UpsertInsert
    <3> QED
      BY <1>0, <3>1, SameIndexGrows, UpsertedOK, ContinueStep
  <2>2. CASE f.key \notin DOMAIN issues
    <3> DEFINE issue == [status |-> "open", date |-> f.date, expected |-> f.expected,
                         actual |-> f.actual, history |-> <<>>]
    <3>1. /\ Continue(c, Upserted(c)) /\ client[c].pc = "write" /\ UNCHANGED orders
          /\ issues' = Put(issues, f.key, issue)
      BY <1>1, <2>2 DEF UpsertInsert
    <3>2. IssueOK(issue)
      <4>1. <<>> \in Seq({})
        OBVIOUS
      <4>2. IsList(<<>>)
        BY <4>1, SeqIsList
      <4> QED
        BY <4>2 DEF IssueOK, Status
    <3> HIDE DEF issue
    <3>3. /\ DOMAIN issues' = DOMAIN issues \cup {f.key}
          /\ issues'[f.key] = issue
          /\ \A l \in DOMAIN issues : issues'[l] = issues[l]
      <4>1. \A index : f.key \notin DOMAIN index =>
               /\ DOMAIN Put(index, f.key, issue) = DOMAIN index \cup {f.key}
               /\ Put(index, f.key, issue)[f.key] = issue
               /\ \A l \in DOMAIN index : Put(index, f.key, issue)[l] = index[l]
        BY DEF Put
      <4> QED
        BY <2>2, <3>1, <4>1
    <3>4. IndexGrows
      BY <1>0, <3>2, <3>3 DEF IndexGrows
    <3> QED
      BY <3>1, <3>4, UpsertedOK, ContinueStep
  <2> QED
    BY <2>1, <2>2
<1>2. CASE UpsertUpdate(c)
  <2> DEFINE reopen == Reopens(client[c].existing, f)
  <2>1. /\ Continue(c, Upserted(c)) /\ client[c].pc = "write" /\ UNCHANGED orders
        /\ issues' = [issues EXCEPT ![f.key] = Updated(issues[f.key], f, reopen)]
    BY <1>2 DEF UpsertUpdate
  <2>2. IndexGrows
    BY <1>0, <2>1, UpdatedIssue DEF IndexGrows
  <2> QED
    BY <2>1, <2>2, UpsertedOK, ContinueStep
<1> QED
  BY <1>1, <1>2

LEMMA ClosedIssue ==
    ASSUME NEW issue, IssueOK(issue), NEW status \in Status, NEW resolution
    PROVE  /\ IssueOK(Closed(issue, status, resolution))
           /\ Range(issue.history) \subseteq Range(Closed(issue, status, resolution).history)
           /\ resolution \in Range(Closed(issue, status, resolution).history)
<1> DEFINE new == Closed(issue, status, resolution)
<1>1. /\ DOMAIN new = DOMAIN issue /\ new.status = status
      /\ new.history = Append(issue.history, resolution)
  BY DEF Closed, IssueOK
<1> HIDE DEF new
<1>2. IssueOK(new) /\ Range(new.history) = Range(issue.history) \cup {resolution}
  BY <1>1, AppendToList DEF IssueOK
<1> QED
  BY <1>2 DEF new

LEMMA CloseStep ==
    ASSUME IInv, NEW c \in Client, CloseStale(c) \/ CloseOrderIssue(c)
    PROVE  IInv'
<1>0. /\ Typed /\ \A k \in DOMAIN issues : IssueOK(issues[k])
      /\ HandlerOK(client[c], DOMAIN issues) /\ \A keys : HandlerOK(Idle, keys)
  BY DEF IInv, Typed, Idle, HandlerOK
<1>1. CASE CloseStale(c)
  <2>1. /\ Continue(c, Idle) /\ client[c].pc = "stale" /\ UNCHANGED orders
        /\ DOMAIN issues' = DOMAIN issues
        /\ \A k \in DOMAIN issues :
              \/ issues'[k] = issues[k]
              \/ issues'[k] = Closed(issues[k], "resolved", Resolution("auto_recheck", 0))
    BY <1>1 DEF CloseStale
  <2>2. IndexGrows
    BY <1>0, <2>1, ClosedIssue DEF IndexGrows, Status
  <2> QED
    BY <1>0, <2>1, <2>2, ContinueStep
<1>2. CASE CloseOrderIssue(c)
  <2> DEFINE k == client[c].key
             new == Closed(issues[k], client[c].status, client[c].resolution)
  <2>1. /\ Continue(c, Idle) /\ client[c].pc = "close" /\ UNCHANGED orders
        /\ issues' = [issues EXCEPT ![k] = new]
    BY <1>2 DEF CloseOrderIssue
  <2>2. k \in DOMAIN issues /\ client[c].status \in Status
    BY <1>0, <2>1 DEF HandlerOK
  <2>3. /\ IssueOK(new) /\ Range(issues[k].history) \subseteq Range(new.history)
        /\ client[c].resolution \in Range(new.history)
    BY <1>0, <2>2, ClosedIssue
  <2> HIDE DEF new
  <2>4. IndexGrows /\ issues'[k] = new
    BY <1>0, <2>1, <2>2, <2>3 DEF IndexGrows
  <2> QED
    BY <1>0, <2>1, <2>3, <2>4, ContinueStep
<1> QED
  BY <1>1, <1>2

\* An entry at the end of the history of an order.
LEMMA RecordedOrder ==
    ASSUME NEW order, "history" \in DOMAIN order, IsList(order.history), NEW e
    PROVE  LET new == Recorded(order, e)
               n == Len(order.history) + 1
           IN  /\ "history" \in DOMAIN new /\ IsList(new.history)
               /\ DOMAIN new.history = DOMAIN order.history \cup {n}
               /\ n \notin DOMAIN order.history
               /\ \A m \in DOMAIN order.history : new.history[m] = order.history[m]
               /\ new.history[n] = e
<1>1. /\ DOMAIN Recorded(order, e) = DOMAIN order
      /\ Recorded(order, e).history = Append(order.history, e)
  BY DEF Recorded
<1> QED
  BY <1>1, AppendToList

\* What one order gets changes nothing in the others.
LEMMA RecordStep ==
    ASSUME Typed, NEW o \in Order, NEW e, orders'[o] = Recorded(orders[o], e),
           \A p \in Order : p # o => orders'[p] = orders[p]
    PROVE  /\ \A p \in Order : "history" \in DOMAIN orders'[p] /\ IsList(orders'[p].history)
           /\ \A p \in Order : \A n \in DOMAIN orders'[p].history :
                 \/ n \in DOMAIN orders[p].history /\ orders'[p].history[n] = orders[p].history[n]
                 \/ /\ p = o /\ n = Len(orders[o].history) + 1
                    /\ orders'[p].history[n] = e
<1> DEFINE new == Recorded(orders[o], e)
<1>1. \A p \in Order : "history" \in DOMAIN orders[p] /\ IsList(orders[p].history)
  BY DEF Typed
<1>2. /\ "history" \in DOMAIN new /\ IsList(new.history)
      /\ DOMAIN new.history = DOMAIN orders[o].history \cup {Len(orders[o].history) + 1}
      /\ \A m \in DOMAIN orders[o].history : new.history[m] = orders[o].history[m]
      /\ new.history[Len(orders[o].history) + 1] = e
  BY <1>1, RecordedOrder
<1>3. orders'[o] = new /\ \A p \in Order : p # o => orders'[p] = orders[p]
  OBVIOUS
<1> HIDE DEF new
<1>4. \A p \in Order : "history" \in DOMAIN orders'[p] /\ IsList(orders'[p].history)
  BY <1>1, <1>2, <1>3
<1>5. ASSUME NEW p \in Order, NEW n \in DOMAIN orders'[p].history
      PROVE  \/ n \in DOMAIN orders[p].history /\ orders'[p].history[n] = orders[p].history[n]
             \/ /\ p = o /\ n = Len(orders[o].history) + 1
                /\ orders'[p].history[n] = e
  <2>1. CASE p = o
    BY <1>2, <1>3, <2>1
  <2>2. CASE p # o
    BY <1>3, <2>2
  <2> QED
    BY <2>1, <2>2
<1> QED
  BY <1>4, <1>5

\* The handler is about to record a correction.
AlignedBy(h, k, amount) ==
    h.pc = "close" /\ h.key = k /\ h.wrote /\ h.resolution = Resolution("align_payment_record", amount)

\* A correction is written when there is none, and the handler that wrote it
\* is to record it.
LEMMA PushStep ==
    ASSUME IInv, NEW c \in Client, PushAdjustment(c)
    PROVE  IInv'
<1> DEFINE k == client[c].key
           amount == client[c].adjustment
           entry == [label |-> "adjustment", amount |-> amount, issue |-> k]
           state == [pc |-> "close", key |-> k, status |-> "resolved",
                     resolution |-> Resolution("align_payment_record", amount),
                     wrote |-> ~AdjustedBy(orders[k[1]], k)]
<1>1. /\ client[c].pc = "push" /\ k \in DOMAIN issues /\ Continue(c, state) /\ UNCHANGED issues
      /\ Typed /\ CorrectionsKnown /\ AdjustedOnce /\ AdjustmentsAudited
  BY DEF IInv, Typed, HandlerOK, PushAdjustment
<1>2. /\ state.pc = "close" /\ state.key = k /\ state.status = "resolved"
      /\ state.resolution = Resolution("align_payment_record", amount)
      /\ state.wrote = ~AdjustedBy(orders[k[1]], k)
  OBVIOUS
<1>3. entry.amount = amount /\ entry.issue = k
  OBVIOUS
<1>4. orders' = IF AdjustedBy(orders[k[1]], k) THEN orders
                ELSE [orders EXCEPT ![k[1]] = Recorded(@, entry)]
  BY DEF PushAdjustment
<1> HIDE DEF state, entry
<1>5. HandlerOK(state, DOMAIN issues)
  BY <1>1, <1>2 DEF HandlerOK, Status
<1>6. CASE orders' = orders
  <2>1. HandlerOK(state, DOMAIN issues') /\ IndexGrows
    BY <1>1, <1>5, SameIndexGrows
  <2>2. client[c].pc # "close" /\ UNCHANGED orders /\ Continue(c, state)
    BY <1>1, <1>6
  <2> QED
    BY <2>1, <2>2, ContinueStep
<1>7. CASE k[1] \notin Order
  BY <1>1, <1>4, <1>6, <1>7 DEF Typed
<1>8. CASE k[1] \in Order /\ ~AdjustedBy(orders[k[1]], k)
  <2> DEFINE o == k[1]
             h == orders[o].history
  <2>1. /\ orders' = [p \in Order |-> orders'[p]]
        /\ \A p \in Order : "history" \in DOMAIN orders'[p] /\ IsList(orders'[p].history)
        /\ \A p \in Order : \A n \in DOMAIN orders'[p].history :
              \/ n \in DOMAIN orders[p].history /\ orders'[p].history[n] = orders[p].history[n]
              \/ /\ p = o /\ n = Len(h) + 1
                 /\ orders'[p].history[n] = entry
    <3>1. orders = [p \in Order |-> orders[p]] /\ o \in Order
      BY <1>1, <1>8 DEF Typed
    <3>2. orders' = [orders EXCEPT ![o] = Recorded(orders[o], entry)]
      BY <1>4, <1>8
    <3> HIDE DEF o
    <3>3. /\ orders' = [p \in Order |-> orders'[p]]
          /\ orders'[o] = Recorded(orders[o], entry)
          /\ \A p \in Order : p # o => orders'[p] = orders[p]
      BY <3>1, <3>2
    <3> QED
      BY <1>1, <3>1, <3>3, RecordStep
  <2>2. \A n \in DOMAIN h : h[n].issue # k
    BY <1>8 DEF AdjustedBy
  <2>3. /\ DOMAIN client' = Client /\ client'[c] = state
        /\ \A d \in Client \ {c} : client'[d] = client[d]
        /\ alone' \in [Client -> BOOLEAN] /\ faults' = faults /\ cut' = cut
    BY <1>1 DEF Continue, Typed
  <2>4. \A d \in Client : HandlerOK(client'[d], DOMAIN issues')
    BY <1>1, <1>5, <2>3 DEF Typed
  <2>5. Typed'
    BY <1>1, <2>1, <2>3, <2>4 DEF Typed
  <2>6. CorrectionsKnown'
    BY <1>1, <1>3, <2>1 DEF CorrectionsKnown
  <2>7. AdjustedOnce'
    <3>1. ASSUME NEW p \in Order, NEW m \in DOMAIN orders'[p].history,
                 NEW n \in DOMAIN orders'[p].history,
                 orders'[p].history[m].issue # NoIssue,
                 orders'[p].history[m].issue = orders'[p].history[n].issue
          PROVE  m = n
      BY <1>1, <1>3, <2>1, <2>2, <3>1 DEF AdjustedOnce
    <3> QED
      BY <3>1 DEF AdjustedOnce
  <2>8. AdjustmentsAudited'
    <3>1. AlignedBy(client'[c], k, amount)
      BY <1>2, <1>8, <2>3 DEF AlignedBy
    <3>2. \A d \in Client : client[d].pc = "close" => client'[d] = client[d]
      BY <1>1, <2>3
    <3>3. ASSUME NEW p \in Order, NEW n \in DOMAIN orders'[p].history,
                 orders'[p].history[n].issue # NoIssue
          PROVE  LET e == orders'[p].history[n]
                 IN  \/ Resolution("align_payment_record", e.amount) \in Range(issues'[e.issue].history)
                     \/ \E d \in Client : AlignedBy(client'[d], e.issue, e.amount)
                     \/ e.issue \in cut'
      <4>1. CASE orders'[p].history[n] = entry
        BY <1>3, <3>1, <4>1
      <4>2. CASE n \in DOMAIN orders[p].history /\ orders'[p].history[n] = orders[p].history[n]
        BY <1>1, <2>3, <3>2, <3>3, <4>2 DEF AdjustmentsAudited, Aligning, AlignedBy
      <4> QED
        BY <2>1, <4>1, <4>2
    <3> QED
      BY <3>3 DEF AdjustmentsAudited, Aligning, AlignedBy
  <2> QED
    BY <2>5, <2>6, <2>7, <2>8 DEF IInv
<1> QED
  BY <1>4, <1>6, <1>7, <1>8

\* What others write to an order is no correction.
LEMMA EditStep ==
    ASSUME IInv, NEW o \in Order, EditOrder(o)
    PROVE  IInv'
<1>1. /\ UNCHANGED <<issues, client, cut, faults>> /\ alone' = [d \in Client |-> FALSE]
      /\ Typed /\ CorrectionsKnown /\ AdjustedOnce /\ AdjustmentsAudited
  BY DEF EditOrder, IInv
<1>2. /\ orders' = [p \in Order |-> orders'[p]]
      /\ \A p \in Order : "history" \in DOMAIN orders'[p] /\ IsList(orders'[p].history)
      /\ \A p \in Order : \A n \in DOMAIN orders'[p].history :
            \/ n \in DOMAIN orders[p].history /\ orders'[p].history[n] = orders[p].history[n]
            \/ orders'[p].history[n].issue = NoIssue
  <2>1. CASE \E r \in Revisions : orders' = [orders EXCEPT ![o] = Overwritten(@, r)]
    <3>1. PICK r \in Revisions : orders' = [orders EXCEPT ![o] = Overwritten(@, r)]
      BY <2>1
    <3> DEFINE new == Overwritten(orders[o], r)
    <3>2. "history" \notin DOMAIN r /\ "history" \in DOMAIN orders[o]
      BY <1>1, ConstantsAssumption DEF Typed
    <3>3. "history" \in DOMAIN new /\ new.history = orders[o].history
      BY <3>2 DEF Overwritten
    <3>4. orders' = [orders EXCEPT ![o] = new]
      BY <3>1
    <3> HIDE DEF new
    <3> QED
      BY <1>1, <3>3, <3>4 DEF Typed
  <2>2. CASE \E e \in Payments : orders' = [orders EXCEPT ![o] = Recorded(orders[o], e)]
    <3>1. PICK e \in Payments : orders' = [orders EXCEPT ![o] = Recorded(orders[o], e)]
      BY <2>2
    <3>2. e.issue = NoIssue
      BY ConstantsAssumption DEF Payment
    <3>3. /\ orders' = [p \in Order |-> orders'[p]]
          /\ orders'[o] = Recorded(orders[o], e)
          /\ \A p \in Order : p # o => orders'[p] = orders[p]
      BY <1>1, <3>1 DEF Typed
    <3> QED
      BY <1>1, <3>2, <3>3, RecordStep
  <2> QED
    BY <2>1, <2>2 DEF EditOrder
<1>3. Typed'
  BY <1>1, <1>2 DEF Typed
<1>4. CorrectionsKnown'
  BY <1>1, <1>2 DEF CorrectionsKnown
<1>5. AdjustedOnce'
  BY <1>1, <1>2 DEF AdjustedOnce
<1>6. AdjustmentsAudited'
  BY <1>1, <1>2 DEF AdjustmentsAudited, Aligning
<1> QED
  BY <1>3, <1>4, <1>5, <1>6 DEF IInv

LEMMA AbandonStep ==
    ASSUME IInv, NEW c \in Client, Abandon(c)
    PROVE  IInv'
<1>1. /\ client' = [client EXCEPT ![c] = Idle] /\ alone' \in [Client -> BOOLEAN]
      /\ UNCHANGED <<orders, issues>> /\ faults' = faults + 1 /\ faults \in Nat
  BY DEF Abandon, IInv, Typed
<1>2. faults' \in Nat /\ cut \subseteq cut' /\ cut' \subseteq cut \cup DOMAIN issues
  BY <1>1 DEF Abandon
<1>3. HandlerOK(Idle, DOMAIN issues') /\ IndexGrows
  BY <1>1, SameIndexGrows DEF HandlerOK, Idle, IInv
<1>4. client[c].pc # "close" \/ ~client[c].wrote \/ client[c].key \in cut'
  BY DEF Abandon, IInv, Typed, HandlerOK
<1> QED
  BY <1>1, <1>2, <1>3, <1>4, HandlerStep

LEMMA NextIInv == IInv /\ [Next]_vars => IInv'
<1> SUFFICES ASSUME IInv, [Next]_vars PROVE IInv'
  OBVIOUS
<1>1. ASSUME NEW c \in Client, ScanOrders(c) \/ ActOnOrderIssue(c) \/ Handle(c) \/ Abandon(c)
      PROVE  IInv'
  BY <1>1, LookStep, UpsertStep, CloseStep, PushStep, AbandonStep DEF Handle
<1>2. ASSUME NEW o \in Order, EditOrder(o) PROVE IInv'
  BY <1>2, EditStep
<1>3. CASE UNCHANGED vars
  BY <1>3 DEF vars, IInv, Typed, CorrectionsKnown, AdjustedOnce, AdjustmentsAudited, Aligning
<1> QED
  BY <1>1, <1>2, <1>3 DEF Next

\* The invariant holds of every behaviour.
THEOREM Invariance == Spec => []IInv
  BY InitIInv, NextIInv, PTL DEF Spec

\* However many admins align an issue at once, and however often, the order
\* gets one correction for it.
THEOREM CorrectionsUnique == Spec => []AdjustedOnce
<1>1. IInv => AdjustedOnce
  BY DEF IInv
<1> QED
  BY <1>1, Invariance, PTL

\* A correction in a payment history is accounted for in the history of its
\* issue, unless the handler that wrote it is still to do so or was itself cut
\* off in between, however many other handlers failed.
THEOREM CorrectionsAudited == Spec => []AdjustmentsAudited
<1>1. IInv => AdjustmentsAudited
  BY DEF IInv
<1> QED
  BY <1>1, Invariance, PTL

-----------------------------------------------------------------------------
(* What a handler knows that nobody disturbed *)

\* What a scan of the range finds, as ScanOrders computes it.
FoundIn(range) == UNION {Found(o) : o \in {p \in Order : InScan(p, range)}}

\* The index says of a discrepancy what the scan found.
Told(f, index) ==
    /\ f.key \in DOMAIN index
    /\ index[f.key].status \in {"open", "accepted"}
    /\ Difference(index[f.key]) = f.actual - f.expected

Reporting(h, found, index) ==
    /\ DOMAIN h = {"pc", "op", "range", "todo", "detected"}
    /\ h.op = "scan"
    /\ h.todo \subseteq found
    /\ h.detected = {f.key : f \in found}
    /\ \A f \in found \ h.todo : Told(f, index)

Knows(c) ==
    LET h == client[c]
    IN  /\ h.pc = "write" =>
              /\ h.existing = IF h.of.key \in DOMAIN issues THEN issues[h.of.key] ELSE NoIssue
              /\ h.handler.op = "scan" =>
                    h.of \in h.handler.todo /\ Reporting(h.handler, FoundIn(h.handler.range), issues)
        /\ h.pc = "find" /\ h.op = "scan" => Reporting(h, FoundIn(h.range), issues)
        /\ h.pc = "stale" => h.todo = {} /\ Reporting(h, FoundIn(h.range), issues)

AloneInv == \A c \in Client : alone[c] => Knows(c)

LEMMA InitAloneInv == Init => AloneInv
  BY DEF Init, AloneInv

\* What is found in a range has one document per key.
LEMMA FoundOnce ==
    ASSUME NEW range, NEW f \in FoundIn(range), NEW g \in FoundIn(range), f.key = g.key
    PROVE  f = g
<1>1. ASSUME NEW e \in FoundIn(range)
      PROVE  \E o \in Order : \E i \in Detected(orders[o]) :
                e = [key |-> <<o, i.type>>, date |-> orders[o].date,
                     expected |-> i.expected, actual |-> i.actual]
  BY <1>1 DEF FoundIn, Found
<1>2. PICK o \in Order : \E i \in Detected(orders[o]) :
        f = [key |-> <<o, i.type>>, date |-> orders[o].date,
             expected |-> i.expected, actual |-> i.actual]
  BY <1>1
<1>3. PICK i \in Detected(orders[o]) :
        f = [key |-> <<o, i.type>>, date |-> orders[o].date,
             expected |-> i.expected, actual |-> i.actual]
  BY <1>2
<1>4. PICK p \in Order : \E j \in Detected(orders[p]) :
        g = [key |-> <<p, j.type>>, date |-> orders[p].date,
             expected |-> j.expected, actual |-> j.actual]
  BY <1>1
<1>5. PICK j \in Detected(orders[p]) :
        g = [key |-> <<p, j.type>>, date |-> orders[p].date,
             expected |-> j.expected, actual |-> j.actual]
  BY <1>4
<1>6. o = p /\ i.type = j.type
  BY <1>3, <1>5
<1>7. i = j
  BY <1>6, OnePerType
<1> QED
  BY <1>3, <1>5, <1>6, <1>7

LEMMA SameFound ==
    ASSUME UNCHANGED orders, NEW range
    PROVE  FoundIn(range)' = FoundIn(range)
  BY DEF FoundIn, Found, InScan

\* Only the handler itself takes a step that leaves it alone.
LEMMA Solo ==
    ASSUME NEW c \in Client, NEW state, Continue(c, state), NEW d \in Client, alone'[d]
    PROVE  d = c /\ alone[c] /\ state # Idle
  BY DEF Continue

LEMMA BeginAlone ==
    ASSUME NEW c \in Client, NEW state, Begin(c, state), NEW d \in Client, alone'[d]
    PROVE  d = c
  BY DEF Begin

LEMMA NextClient ==
    ASSUME Typed, NEW c \in Client, NEW state, Continue(c, state) \/ Begin(c, state)
    PROVE  client'[c] = state /\ \A d \in Client : d # c => client'[d] = client[d]
  BY DEF Typed, Continue, Begin

\* A scan that is alone knows what it found.
LEMMA ScanKnows ==
    ASSUME IInv, NEW c \in Client, ScanOrders(c), NEW d \in Client, alone'[d]
    PROVE  Knows(d)'
<1>1. PICK range \in Ranges : /\ Begin(c, [pc |-> IF FoundIn(range) = {} THEN "stale" ELSE "find",
                                  op |-> "scan", range |-> range, todo |-> FoundIn(range),
                                  detected |-> {f.key : f \in FoundIn(range)}])
                              /\ UNCHANGED <<orders, issues>>
  BY DEF ScanOrders, FoundIn
<1> DEFINE found == FoundIn(range)
<1> HIDE DEF found
<1> DEFINE state == [pc |-> IF found = {} THEN "stale" ELSE "find",
                     op |-> "scan", range |-> range, todo |-> found,
                     detected |-> {f.key : f \in found}]
<1>2. /\ DOMAIN state = {"pc", "op", "range", "todo", "detected"}
      /\ state.op = "scan" /\ state.range = range /\ state.todo = found
      /\ state.detected = {f.key : f \in found}
      /\ state.pc = IF found = {} THEN "stale" ELSE "find"
  OBVIOUS
<1>3. Begin(c, state)
  BY <1>1 DEF found
<1> HIDE DEF state
<1>4. d = c /\ client'[c] = state
  BY <1>3, BeginAlone, NextClient DEF IInv
<1>5. FoundIn(range)' = found /\ issues' = issues
  BY <1>1, SameFound DEF found
<1>6. Reporting(state, found, issues)
  BY <1>2 DEF Reporting
<1> QED
  BY <1>2, <1>4, <1>5, <1>6 DEF Knows

\* Finding the issue of one detection.
LEMMA FindKnows ==
    ASSUME IInv, AloneInv, NEW c \in Client, UpsertFind(c), NEW d \in Client, alone'[d]
    PROVE  Knows(d)'
<1>1. PICK f \in client[c].todo :
        Continue(c, [pc |-> "write", of |-> f, handler |-> client[c],
                     existing |-> IF f.key \in DOMAIN issues THEN issues[f.key] ELSE NoIssue])
  BY DEF UpsertFind
<1>2. client[c].pc = "find" /\ UNCHANGED <<orders, issues>>
  BY DEF UpsertFind
<1> DEFINE state == [pc |-> "write", of |-> f, handler |-> client[c],
                     existing |-> IF f.key \in DOMAIN issues THEN issues[f.key] ELSE NoIssue]
<1>3. /\ state.pc = "write" /\ state.of = f /\ state.handler = client[c]
      /\ state.existing = IF f.key \in DOMAIN issues THEN issues[f.key] ELSE NoIssue
  OBVIOUS
<1>4. Continue(c, state)
  BY <1>1
<1> HIDE DEF state
<1>5. d = c /\ alone[c] /\ client'[c] = state
  BY <1>4, Solo, NextClient DEF IInv
<1>6. client[c].op = "scan" => Reporting(client[c], FoundIn(client[c].range), issues)
  BY <1>2, <1>5 DEF AloneInv, Knows
<1>7. \A range : FoundIn(range)' = FoundIn(range)
  BY <1>2, SameFound
<1> QED
  BY <1>2, <1>3, <1>5, <1>6, <1>7 DEF Knows

\* The index after an upsert tells what was upserted.
LEMMA UpsertTells ==
    ASSUME IInv, AloneInv, NEW c \in Client, alone[c], UpsertInsert(c) \/ UpsertUpdate(c)
    PROVE  LET f == client[c].of
           IN  /\ Continue(c, Upserted(c))
               /\ Told(f, issues')
               /\ \A k \in DOMAIN issues : k # f.key => k \in DOMAIN issues' /\ issues'[k] = issues[k]
               /\ f.key \in DOMAIN issues =>
                     UpsertUpdate(c) /\ issues' = [issues EXCEPT ![f.key] =
                                           Updated(issues[f.key], f, Reopens(issues[f.key], f))]
<1> DEFINE f == client[c].of
<1>1. /\ client[c].pc = "write"
      /\ client[c].existing = IF f.key \in DOMAIN issues THEN issues[f.key] ELSE NoIssue
  BY DEF AloneInv, Knows, UpsertInsert, UpsertUpdate
<1>2. \A k \in DOMAIN issues : IssueOK(issues[k])
  BY DEF IInv, Typed
<1>3. f.key \in DOMAIN issues => issues[f.key] # NoIssue
  <2>1. DOMAIN NoIssue = {}
    BY DEF NoIssue
  <2> QED
    BY <1>2, <2>1 DEF IssueOK
<1>4. CASE f.key \notin DOMAIN issues
  <2> DEFINE issue == [status |-> "open", date |-> f.date, expected |-> f.expected,
                       actual |-> f.actual, history |-> <<>>]
  <2>1. Continue(c, Upserted(c)) /\ issues' = Put(issues, f.key, issue)
    BY <1>1, <1>4 DEF UpsertInsert, UpsertUpdate
  <2>2. issue.status = "open" /\ Difference(issue) = f.actual - f.expected
    BY DEF Difference
  <2> HIDE DEF issue
  <2>3. \A index : /\ DOMAIN Put(index, f.key, issue) = DOMAIN index \cup {f.key}
                   /\ Put(index, f.key, issue)[f.key] = issue
                   /\ \A l \in DOMAIN index : l # f.key => Put(index, f.key, issue)[l] = index[l]
    BY DEF Put
  <2>4. /\ DOMAIN issues' = DOMAIN issues \cup {f.key} /\ issues'[f.key] = issue
        /\ \A l \in DOMAIN issues : l # f.key => issues'[l] = issues[l]
    BY <2>1, <2>3
  <2> QED
    BY <1>4, <2>1, <2>2, <2>4 DEF Told
<1>5. CASE f.key \in DOMAIN issues
  <2> DEFINE reopen == Reopens(issues[f.key], f)
             new == Updated(issues[f.key], f, reopen)
  <2>1. /\ UpsertUpdate(c) /\ Continue(c, Upserted(c))
        /\ issues' = [issues EXCEPT ![f.key] = Updated(issues[f.key], f, reopen)]
    BY <1>1, <1>3, <1>5 DEF UpsertInsert, UpsertUpdate
  <2>2. /\ new.status = (IF reopen THEN "open" ELSE issues[f.key].status)
        /\ new.expected = f.expected /\ new.actual = f.actual
    BY <1>2, <1>5, UpdatedIssue
  <2>3. issues[f.key].status \in Status
    BY <1>2, <1>5 DEF IssueOK
  <2>4. new.status \in {"open", "accepted"} /\ Difference(new) = f.actual - f.expected
    BY <2>2, <2>3 DEF Status, Reopens, Difference
  <2> HIDE DEF new
  <2>5. DOMAIN issues' = DOMAIN issues /\ issues'[f.key] = new
        /\ \A l \in DOMAIN issues : l # f.key => issues'[l] = issues[l]
    BY <1>5, <2>1 DEF new
  <2> QED
    BY <1>5, <2>1, <2>4, <2>5 DEF Told
<1> QED
  BY <1>4, <1>5

\* One thing less to do, and told.
LEMMA UpsertKnows ==
    ASSUME IInv, AloneInv, NEW c \in Client, UpsertInsert(c) \/ UpsertUpdate(c),
           NEW d \in Client, alone'[d]
    PROVE  Knows(d)'
<1> DEFINE f == client[c].of
           h == client[c].handler
           todo == h.todo \ {f}
           found == FoundIn(h.range)
<1>1. d = c /\ alone[c] /\ client[c].pc = "write" /\ UNCHANGED orders
  BY Solo DEF UpsertInsert, UpsertUpdate
<1>2. /\ Continue(c, Upserted(c)) /\ Told(f, issues')
      /\ \A k \in DOMAIN issues : k # f.key => k \in DOMAIN issues' /\ issues'[k] = issues[k]
  BY <1>1, UpsertTells
<1>3. client'[c] = Upserted(c)
  BY <1>2, NextClient DEF IInv
<1>4. h.pc = "find" /\ Upserting(h)
  BY <1>1 DEF IInv, Typed, HandlerOK
<1>5. CASE h.op = "recheck"
  <2>1. client'[c] = Idle
    BY <1>3, <1>5 DEF Upserted
  <2> QED
    BY <1>1, <2>1 DEF Knows, Idle
<1>6. CASE h.op = "scan"
  <2>1. f \in h.todo /\ Reporting(h, found, issues)
    BY <1>1, <1>6 DEF AloneInv, Knows
  <2> DEFINE new == [h EXCEPT !.todo = todo, !.pc = IF todo = {} THEN "stale" ELSE "find"]
  <2>2. client'[c] = new
    BY <1>3, <1>6 DEF Upserted
  <2>3. /\ DOMAIN new = DOMAIN h /\ new.todo = todo /\ new.op = h.op /\ new.range = h.range
        /\ new.detected = h.detected
        /\ new.pc = IF todo = {} THEN "stale" ELSE "find"
    <3> HIDE DEF todo, h
    <3> QED
      BY <2>1 DEF Reporting
  <2> HIDE DEF new
  <2>4. ASSUME NEW g \in found \ todo PROVE Told(g, issues')
    <3>1. CASE g = f
      BY <1>2, <3>1
    <3>2. CASE g # f
      <4>1. g \in found /\ f \in found /\ Told(g, issues)
        BY <2>1, <3>2 DEF Reporting
      <4>2. g.key # f.key
        BY <3>2, <4>1, FoundOnce
      <4> QED
        BY <1>2, <4>1, <4>2 DEF Told
    <3> QED
      BY <3>1, <3>2
  <2>5. Reporting(new, found, issues')
    <3>1. todo \subseteq found
      BY <2>1 DEF Reporting
    <3> HIDE DEF todo, found, h
    <3> QED
      BY <1>6, <2>1, <2>3, <2>4, <3>1 DEF Reporting
  <2>6. FoundIn(client[c].range)' = found
    <3>1. \A range : FoundIn(range)' = FoundIn(range)
      BY <1>1, SameFound
    <3> QED
      BY <2>2, <2>3, <3>1
  <2> HIDE DEF found, todo
  <2>7. client'[c] = new /\ new.pc # "write" /\ (new.pc = "stale" => new.todo = {})
    BY <2>2, <2>3
  <2> QED
    BY <1>1, <2>5, <2>6, <2>7 DEF Knows
<1> QED
  BY <1>4, <1>5, <1>6 DEF Upserting

\* What goes on to load, push or close, or is done, knows nothing.
LEMMA NothingToKnow ==
    ASSUME IInv, NEW c \in Client, NEW state, Begin(c, state) \/ Continue(c, state),
           state.pc \notin {"write", "stale"}, state.pc = "find" => state.op # "scan",
           NEW d \in Client, alone'[d]
    PROVE  Knows(d)'
<1>1. d = c
  BY Solo, BeginAlone
<1>2. client'[c] = state
  BY NextClient DEF IInv
<1> QED
  BY <1>1, <1>2 DEF Knows

LEMMA NextAloneInv == IInv /\ AloneInv /\ [Next]_vars => AloneInv'
<1> SUFFICES ASSUME IInv, AloneInv, [Next]_vars, NEW d \in Client, alone'[d]
             PROVE  Knows(d)'
  BY DEF AloneInv
<1>1. ASSUME NEW c \in Client, ActOnOrderIssue(c) PROVE Knows(d)'
  <2>1. PICK k \in DOMAIN issues, op \in {"recheck", "accept", "align"} :
          Begin(c, IF op = "accept"
                    THEN [pc |-> "close", key |-> k, status |-> "accepted",
                          resolution |-> Resolution("accept_variance", 0), wrote |-> FALSE]
                    ELSE [pc |-> "load", op |-> op, key |-> k])
    BY <1>1 DEF ActOnOrderIssue
  <2> QED
    BY <2>1, NothingToKnow
<1>2. ASSUME NEW c \in Client, CloseStale(c) \/ CloseOrderIssue(c) PROVE Knows(d)'
  BY <1>2, NothingToKnow DEF CloseStale, CloseOrderIssue, Idle
<1>3. ASSUME NEW c \in Client, RecheckOrderIssue(c) PROVE Knows(d)'
  <2> DEFINE k == client[c].key
             same == {f \in Found(k[1]) : f.key = k}
  <2>1. Continue(c, IF same = {} THEN ClosingRechecked(k)
                    ELSE [pc |-> "find", op |-> "recheck", todo |-> same])
    BY <1>3 DEF RecheckOrderIssue
  <2> HIDE DEF same
  <2> QED
    BY <2>1, NothingToKnow DEF ClosingRechecked
<1>4. ASSUME NEW c \in Client, AlignOrderPayment(c) PROVE Knows(d)'
  <2>1. PICK state : /\ Continue(c, state)
                     /\ \/ state = Idle
                        \/ state = ClosingRechecked(client[c].key)
                        \/ \E amount : state = [pc |-> "push", key |-> client[c].key,
                                                adjustment |-> amount]
    BY <1>4 DEF AlignOrderPayment
  <2>2. state.pc \in {"idle", "close", "push"}
    BY <2>1 DEF Idle, ClosingRechecked
  <2> QED
    BY <2>1, <2>2, NothingToKnow
<1>5. ASSUME NEW c \in Client, PushAdjustment(c) PROVE Knows(d)'
  <2>1. PICK state : Continue(c, state) /\ state.pc = "close"
    BY <1>5 DEF PushAdjustment
  <2> QED
    BY <2>1, NothingToKnow
<1>6. ASSUME NEW c \in Client, Abandon(c) PROVE FALSE
  BY <1>6 DEF Abandon
<1>7. ASSUME NEW o \in Order, EditOrder(o) PROVE FALSE
  BY <1>7 DEF EditOrder
<1>8. CASE UNCHANGED vars
  <2>1. \A range : FoundIn(range)' = FoundIn(range)
    BY <1>8, SameFound DEF vars
  <2>2. client' = client /\ issues' = issues /\ Knows(d)
    BY <1>8 DEF vars, AloneInv
  <2> QED
    BY <2>1, <2>2 DEF Knows
<1> QED
  BY <1>1, <1>2, <1>3, <1>4, <1>5, <1>6, <1>7, <1>8, ScanKnows, FindKnows, UpsertKnows
     DEF Next, Handle

LEMMA AloneInvariance == Spec => [](IInv /\ AloneInv)
<1>1. Init => IInv /\ AloneInv
  BY InitIInv, InitAloneInv
<1>2. IInv /\ AloneInv /\ [Next]_vars => (IInv /\ AloneInv)'
  BY NextIInv, NextAloneInv
<1> QED
  BY <1>1, <1>2, PTL DEF Spec

\* A handler that goes on and is not cut off takes a command of its own.
LEMMA OwnCommand ==
    ASSUME IInv, [Next]_vars, NEW c \in Client, client'[c] # client[c], faults' = faults,
           client[c] # Idle
    PROVE  Handle(c)
<1>1. ASSUME NEW d \in Client, ScanOrders(d) \/ ActOnOrderIssue(d) PROVE FALSE
  <2>1. PICK state : Begin(d, state)
    BY <1>1 DEF ScanOrders, ActOnOrderIssue
  <2> QED
    BY <2>1, NextClient DEF IInv, Begin
<1>2. ASSUME NEW d \in Client, Handle(d), d # c PROVE FALSE
  <2>1. PICK state : Continue(d, state)
    <3>1. ASSUME AlignOrderPayment(d) PROVE \E state : Continue(d, state)
      BY <3>1 DEF AlignOrderPayment
    <3>2. ASSUME UpsertInsert(d) PROVE \E state : Continue(d, state)
      BY <3>2 DEF UpsertInsert
    <3> QED
      BY <1>2, <3>1, <3>2 DEF Handle, UpsertFind, UpsertUpdate, CloseStale,
         RecheckOrderIssue, PushAdjustment, CloseOrderIssue
  <2> QED
    BY <1>2, <2>1, NextClient DEF IInv
<1>3. ASSUME NEW d \in Client, Abandon(d) PROVE FALSE
  <2>1. faults' = faults + 1 /\ faults \in Nat
    BY <1>3 DEF Abandon, IInv, Typed
  <2> QED
    BY <2>1
<1>4. ASSUME NEW o \in Order, EditOrder(o) PROVE FALSE
  BY <1>4 DEF EditOrder
<1>5. CASE UNCHANGED vars
  BY <1>5 DEF vars
<1> QED
  BY <1>1, <1>2, <1>3, <1>4, <1>5 DEF Next

-----------------------------------------------------------------------------
(* The two promises of a handler that nobody disturbed *)

LEMMA AcceptedStep ==
    ASSUME IInv, AloneInv, [Next]_vars, NEW c \in Client, NEW k \in DOMAIN issues,
           client[c].pc = "write", alone[c], client'[c] # client[c],
           client[c].of.key = k, issues[k].status = "accepted", faults' = faults
    PROVE  issues'[k].status = "open" <=> Difference(issues'[k]) # Difference(issues[k])
<1> DEFINE f == client[c].of
           reopen == Reopens(issues[k], f)
           new == Updated(issues[k], f, reopen)
<1>1. UpsertInsert(c) \/ UpsertUpdate(c)
  <2>1. Handle(c)
    BY OwnCommand DEF Idle
  <2> QED
    BY <2>1 DEF Handle, UpsertFind, CloseStale, RecheckOrderIssue, AlignOrderPayment,
       PushAdjustment, CloseOrderIssue
<1>2. issues' = [issues EXCEPT ![k] = Updated(issues[k], f, Reopens(issues[k], f))]
  BY <1>1, UpsertTells
<1>3. /\ new.status = (IF reopen THEN "open" ELSE issues[k].status)
      /\ new.expected = f.expected /\ new.actual = f.actual
  BY UpdatedIssue DEF IInv, Typed
<1>4. issues'[k] = new
  BY <1>2
<1>5. reopen <=> Difference(issues[k]) # f.actual - f.expected
  BY DEF Reopens, Difference
<1> HIDE DEF new, reopen
<1> QED
  BY <1>3, <1>4, <1>5 DEF Difference

\* An accepted variance stands until it changes: a handler that runs by itself
\* reopens it exactly when it finds a different amount.
THEOREM AcceptedStands == Spec => AcceptedVarianceStands
<1>1. IInv /\ AloneInv /\ [Next]_vars =>
        [\A c \in Client, k \in DOMAIN issues :
            /\ client[c].pc = "write" /\ alone[c] /\ client'[c] # client[c]
            /\ client[c].of.key = k /\ issues[k].status = "accepted" /\ faults' = faults
            => (issues'[k].status = "open" <=> Difference(issues'[k]) # Difference(issues[k]))]_vars
  BY AcceptedStep
<1> QED
  BY <1>1, AloneInvariance, PTL DEF Spec, AcceptedVarianceStands

LEMMA ClosingCompletes ==
    ASSUME IInv, AloneInv, [Next]_vars, NEW c \in Client, NEW range \in Ranges,
           client[c].pc = "stale", client[c].range = range, alone[c],
           client'[c] = Idle, faults' = faults
    PROVE  IndexComplete(range)'
<1> DEFINE h == client[c]
           found == FoundIn(range)
<1>1. CloseStale(c)
  <2>1. Handle(c)
    BY OwnCommand DEF Idle
  <2> QED
    BY <2>1 DEF Handle, UpsertFind, UpsertInsert, UpsertUpdate, RecheckOrderIssue,
       AlignOrderPayment, PushAdjustment, CloseOrderIssue
<1>2. h.todo = {} /\ h.detected = {f.key : f \in found} /\ \A f \in found : Told(f, issues)
  BY DEF AloneInv, Knows, Reporting
<1>3. /\ UNCHANGED orders /\ DOMAIN issues' = DOMAIN issues
      /\ \A k \in DOMAIN issues :
            issues'[k] = IF /\ issues[k].status = "open"
                            /\ InRange(issues[k].date, range)
                            /\ k \notin h.detected
                         THEN Closed(issues[k], "resolved", Resolution("auto_recheck", 0))
                         ELSE issues[k]
  BY <1>1 DEF CloseStale
<1>4. ASSUME NEW o \in Order, InScan(o, range), NEW i \in Detected(orders[o])
      PROVE  Reported(o, i)'
  <2> DEFINE f == [key |-> <<o, i.type>>, date |-> orders[o].date,
                   expected |-> i.expected, actual |-> i.actual]
  <2>1. f \in found
    <3>1. f \in Found(o)
      BY DEF Found
    <3> HIDE DEF f
    <3> QED
      BY <1>4, <3>1 DEF FoundIn
  <2>2. f.key = <<o, i.type>> /\ f.actual = i.actual /\ f.expected = i.expected
    OBVIOUS
  <2> HIDE DEF f, found
  <2>3. Told(f, issues) /\ f.key \in h.detected
    BY <1>2, <2>1
  <2>4. f.key \in DOMAIN issues' /\ issues'[f.key] = issues[f.key]
    BY <1>3, <2>3 DEF Told
  <2> QED
    BY <2>2, <2>3, <2>4 DEF Told, Reported
<1>5. ASSUME NEW k \in DOMAIN issues', issues'[k].status = "open", InRange(issues'[k].date, range)
      PROVE  InScan(k[1], range) /\ \E i \in Detected(orders[k[1]]) : i.type = k[2]
  <2>1. Closed(issues[k], "resolved", Resolution("auto_recheck", 0)).status = "resolved"
    BY <1>3, <1>5 DEF Closed, IInv, Typed, IssueOK
  <2>2. issues'[k] = issues[k] /\ k \in h.detected
    BY <1>3, <1>5, <2>1
  <2>3. PICK f \in found : f.key = k
    BY <1>2, <2>2
  <2>4. PICK o \in Order : InScan(o, range) /\ f \in Found(o)
    BY <2>3 DEF FoundIn
  <2>5. PICK i \in Detected(orders[o]) : f.key = <<o, i.type>>
    BY <2>4 DEF Found
  <2> QED
    BY <2>3, <2>4, <2>5
<1> QED
  BY <1>3, <1>4, <1>5 DEF IndexComplete, InScan

\* A scan that runs by itself leaves a complete index of its range, whatever
\* interleavings, faults and edits it starts from.
THEOREM ScanCompletesIndex == Spec => ScanRecreatesIndex
<1>1. IInv /\ AloneInv /\ [Next]_vars =>
        [\A c \in Client, range \in Ranges :
            /\ client[c].pc = "stale" /\ client[c].range = range /\ alone[c]
            /\ client'[c] = Idle /\ faults' = faults
            => IndexComplete(range)']_vars
  BY ClosingCompletes
<1> QED
  BY <1>1, AloneInvariance, PTL DEF Spec, ScanRecreatesIndex

-----------------------------------------------------------------------------
(* What a correction does to the amounts *)

LEMMA SumOfAppended ==
    ASSUME NEW n \in Nat, NEW F, NEW G, DOMAIN F = 1 .. n, DOMAIN G = 1 .. (n + 1),
           Additive(F), Additive(G), \A i \in 1 .. n : G[i] = F[i]
    PROVE  SumTo(G, n + 1) = SumTo(F, n) + G[n + 1]
<1>1. \A i \in 1 .. n : At(G, i) = At(F, i)
  BY DEF At
<1>2. SumTo(G, n) = SumTo(F, n)
  BY <1>1, SumToSame
<1>3. At(G, n + 1) = G[n + 1]
  BY DEF At
<1> QED
  BY <1>2, <1>3, SumToRec

\* What the entries that pass a test contribute.
LEMMA CountedOfAppended ==
    ASSUME NEW history, IsList(history), NEW e, e.amount \in Int,
           \A n \in DOMAIN history : history[n].amount \in Int
    PROVE  /\ Total(history, Counted) \in Int
           /\ Total(Append(history, e), Counted)
                = Total(history, Counted) + IF Counted(e) THEN e.amount ELSE 0
<1> DEFINE n == Len(history)
           longer == Append(history, e)
           F == [i \in DOMAIN history |-> IF Counted(history[i]) THEN history[i].amount ELSE 0]
           G == [i \in DOMAIN longer |-> IF Counted(longer[i]) THEN longer[i].amount ELSE 0]
<1>1. /\ n \in Nat /\ DOMAIN history = 1 .. n /\ DOMAIN longer = 1 .. (n + 1)
      /\ Len(longer) = n + 1 /\ longer[n + 1] = e
      /\ \A i \in 1 .. n : longer[i] = history[i]
  BY DEF IsList
<1>2. Total(history, Counted) = SumTo(F, n) /\ Total(longer, Counted) = SumTo(G, n + 1)
  BY <1>1 DEF Total
<1> HIDE DEF longer
<1>3. /\ DOMAIN F = 1 .. n /\ DOMAIN G = 1 .. (n + 1) /\ Additive(F) /\ Additive(G)
      /\ \A i \in 1 .. n : G[i] = F[i]
      /\ G[n + 1] = IF Counted(e) THEN e.amount ELSE 0
  BY <1>1 DEF Additive
<1> HIDE DEF F, G
<1>4. SumTo(F, n) \in Int /\ SumTo(G, n + 1) = SumTo(F, n) + G[n + 1]
  BY <1>1, <1>3, SumOfAppended, SumToRec
<1> QED
  BY <1>2, <1>3, <1>4 DEF longer

LEMMA TipsOfAppended ==
    ASSUME NEW history, IsList(history), NEW e, e.amount \in Int,
           \A n \in DOMAIN history : history[n].amount \in Int
    PROVE  /\ Total(history, SeparateTip) \in Int
           /\ Total(Append(history, e), SeparateTip)
                = Total(history, SeparateTip) + IF SeparateTip(e) THEN e.amount ELSE 0
<1> DEFINE n == Len(history)
           longer == Append(history, e)
           F == [i \in DOMAIN history |-> IF SeparateTip(history[i]) THEN history[i].amount ELSE 0]
           G == [i \in DOMAIN longer |-> IF SeparateTip(longer[i]) THEN longer[i].amount ELSE 0]
<1>1. /\ n \in Nat /\ DOMAIN history = 1 .. n /\ DOMAIN longer = 1 .. (n + 1)
      /\ Len(longer) = n + 1 /\ longer[n + 1] = e
      /\ \A i \in 1 .. n : longer[i] = history[i]
  BY DEF IsList
<1>2. Total(history, SeparateTip) = SumTo(F, n) /\ Total(longer, SeparateTip) = SumTo(G, n + 1)
  BY <1>1 DEF Total
<1> HIDE DEF longer
<1>3. /\ DOMAIN F = 1 .. n /\ DOMAIN G = 1 .. (n + 1) /\ Additive(F) /\ Additive(G)
      /\ \A i \in 1 .. n : G[i] = F[i]
      /\ G[n + 1] = IF SeparateTip(e) THEN e.amount ELSE 0
  BY <1>1 DEF Additive
<1> HIDE DEF F, G
<1>4. SumTo(F, n) \in Int /\ SumTo(G, n + 1) = SumTo(F, n) + G[n + 1]
  BY <1>1, <1>3, SumOfAppended, SumToRec
<1> QED
  BY <1>2, <1>3, <1>4 DEF longer

\* The amounts of an order are there to be read.
Readable(order) ==
    /\ {"date", "base", "tip", "paid", "total", "history"} \subseteq DOMAIN order
    /\ {order.date, order.base, order.tip, order.paid} \subseteq Int
    /\ order.total \in Int \cup {NoTotal}
    /\ \A n \in DOMAIN order.history : order.history[n].amount \in Int

\* Tips count when they are what is missing, and never when nothing is.
LEMMA NearestReceived ==
    ASSUME NEW order, NEW expected \in Int, NEW received \in Int, NEW tips \in Int,
           ReceivedCandidates(order).received = received, ReceivedCandidates(order).tips = tips
    PROVE  LET actual == ReceivedForExpected(order, expected)
           IN  /\ actual = received \/ (tips > 0 /\ actual = received + tips)
               /\ received = expected => actual = expected
               /\ tips > 0 /\ received + tips = expected => actual = expected
  BY DEF ReceivedForExpected, Abs

LEMMA CorrectionReconciles ==
    ASSUME NEW order, Readable(order), IsList(order.history), order.history # <<>>,
           NEW i \in DetectOrderIssues(order), i.type \in {Mismatch, Missing},
           NEW e, e.label = "adjustment", e.amount = -Difference(i)
    PROVE  DetectOrderIssues(Recorded(order, e)) = {}
<1> DEFINE new == Recorded(order, e)
           expected == IF TipIncluded(order) THEN order.total ELSE order.total + order.tip
           actual == ReceivedForExpected(order, expected)
           received == Total(order.history, Counted)
           tips == Total(order.history, SeparateTip)
<1>1. order.total # NoTotal /\ (TipIncluded(order) \/ TipSeparate(order))
  BY DEF DetectOrderIssues, WithoutTotal, Issue, Mismatch, Missing, InvalidTotal
<1>2. i.expected = expected /\ i.actual = actual
  <2> HIDE DEF expected, actual
  <2>1. i \in {Issue(IF actual = 0 /\ expected > 0 THEN Missing ELSE Mismatch, expected, actual)}
    BY <1>1 DEF DetectOrderIssues, expected, actual
  <2> QED
    BY <2>1 DEF Issue
<1>3. expected \in Int
  BY <1>1 DEF Readable
<1>4. ReceivedCandidates(order).received = received /\ ReceivedCandidates(order).tips = tips
  BY DEF ReceivedCandidates
<1>5. received \in Int /\ tips \in Int
  <2>1. \A n \in DOMAIN order.history : order.history[n].amount \in Int
    BY DEF Readable
  <2>2. [amount |-> 0].amount \in Int
    OBVIOUS
  <2> QED
    BY <2>1, <2>2, CountedOfAppended, TipsOfAppended
<1> HIDE DEF received, tips, expected
<1>6. actual = received \/ (tips > 0 /\ actual = received + tips)
  BY <1>3, <1>4, <1>5, NearestReceived
<1> HIDE DEF actual
<1>7. actual \in Int /\ e.amount \in Int /\ e.amount = expected - actual
  BY <1>2, <1>3, <1>5, <1>6 DEF Difference
<1>8. Counted(e) /\ ~SeparateTip(e)
  BY DEF Counted, SeparateTip
<1>9. /\ new.total = order.total /\ new.base = order.base /\ new.tip = order.tip
      /\ new.history = Append(order.history, e)
  BY DEF Recorded, Readable
<1> HIDE DEF new
<1>10. ReceivedCandidates(new).received = received + e.amount /\ ReceivedCandidates(new).tips = tips
  <2>1. new.history # <<>>
    BY <1>9 DEF IsList
  <2>2. \A n \in DOMAIN order.history : order.history[n].amount \in Int
    BY DEF Readable
  <2>3. /\ Total(new.history, Counted) = received + e.amount
        /\ Total(new.history, SeparateTip) = tips + 0
    BY <1>7, <1>8, <1>9, <2>2, CountedOfAppended, TipsOfAppended DEF received, tips
  <2> QED
    BY <1>5, <2>1, <2>3 DEF ReceivedCandidates
<1>11. \/ received + e.amount = expected
       \/ tips > 0 /\ received + e.amount + tips = expected
  BY <1>3, <1>5, <1>6, <1>7
<1>12. ReceivedForExpected(new, expected) = expected
  <2>1. received + e.amount \in Int
    BY <1>5, <1>7
  <2> QED
    BY <1>3, <1>5, <1>10, <1>11, <2>1, NearestReceived
<1>13. (TipIncluded(new) <=> TipIncluded(order)) /\ (TipSeparate(new) <=> TipSeparate(order))
  BY <1>9 DEF TipIncluded, TipSeparate
<1>14. expected = IF TipIncluded(new) THEN new.total ELSE new.total + new.tip
  BY <1>9, <1>13 DEF expected
<1> QED
  BY <1>1, <1>9, <1>12, <1>13, <1>14 DEF DetectOrderIssues, new

\* What one reading says is a type and two amounts.
LEMMA DetectedAmounts ==
    ASSUME NEW order, Readable(order), IsList(order.history), NEW i \in Detected(order)
    PROVE  i.type \in IssueType /\ i.expected \in Int /\ i.actual \in Int
<1> USE DEF IssueType
<1>1. CASE i \in DetectCommissionIssues(order)
  BY <1>1 DEF DetectCommissionIssues, Issue
<1>2. CASE i \in DetectOrderIssues(order) /\ order.total = NoTotal
  BY <1>2 DEF DetectOrderIssues, WithoutTotal, Issue, Readable
<1>3. CASE i \in DetectOrderIssues(order) /\ order.total # NoTotal
                /\ ~TipIncluded(order) /\ ~TipSeparate(order)
  BY <1>3 DEF DetectOrderIssues, Issue, Readable
<1>4. CASE i \in DetectOrderIssues(order) /\ order.total # NoTotal
                /\ (TipIncluded(order) \/ TipSeparate(order))
  <2> DEFINE expected == IF TipIncluded(order) THEN order.total ELSE order.total + order.tip
             actual == ReceivedForExpected(order, expected)
  <2>1. expected \in Int
    BY <1>4 DEF Readable
  <2> HIDE DEF expected
  <2>2. ReceivedCandidates(order).received \in Int /\ ReceivedCandidates(order).tips \in Int
    <3>1. CASE order.history = <<>>
      BY <3>1 DEF ReceivedCandidates, Readable
    <3>2. CASE order.history # <<>>
      <4>1. \A n \in DOMAIN order.history : order.history[n].amount \in Int
        BY DEF Readable
      <4>2. [amount |-> 0].amount \in Int
        OBVIOUS
      <4>3. Total(order.history, Counted) \in Int /\ Total(order.history, SeparateTip) \in Int
        BY <4>1, <4>2, CountedOfAppended, TipsOfAppended
      <4> QED
        BY <3>2, <4>3 DEF ReceivedCandidates
    <3> QED
      BY <3>1, <3>2
  <2>3. actual \in Int
    BY <2>1, <2>2, NearestReceived
  <2> HIDE DEF actual
  <2>4. i \in {Issue(IF actual = 0 /\ expected > 0 THEN Missing ELSE Mismatch, expected, actual)}
    BY <1>4 DEF DetectOrderIssues, expected, actual
  <2> QED
    BY <2>1, <2>3, <2>4 DEF Issue
<1> QED
  BY <1>1, <1>2, <1>3, <1>4 DEF Detected

-----------------------------------------------------------------------------
(* Amounts are integers wherever they are kept, and issues are of orders *)

Aligned == {Mismatch, Missing}

FoundOK(f) == f.key \in IssueKey /\ {f.date, f.expected, f.actual} \subseteq Int

KeptOK(h) ==
    /\ h.pc = "find" => \A f \in h.todo : FoundOK(f)
    /\ h.pc = "write" => FoundOK(h.of) /\ \A f \in h.handler.todo : FoundOK(f)
    /\ h.pc = "load" /\ h.op = "align" => h.key[2] \in Aligned
    /\ h.pc = "push" => h.adjustment \in Int /\ h.key[2] \in Aligned
    /\ h.pc = "close" => h.resolution.adjustment \in Int

AmountsOK(issue) ==
    /\ {issue.date, issue.expected, issue.actual} \subseteq Int
    /\ \A n \in DOMAIN issue.history : issue.history[n].adjustment \in Int

IndexOK(index) == \A k \in DOMAIN index : k \in IssueKey /\ AmountsOK(index[k])

Bounded ==
    requests \in 0 .. MaxRequests /\ edits \in 0 .. MaxEdits /\ faults \in 0 .. MaxFaults

AmountsInv ==
    /\ \A o \in Order : Readable(orders[o])
    /\ IndexOK(issues)
    /\ \A c \in Client : KeptOK(client[c])
    /\ Bounded

\* The correction a handler that nobody disturbed is about to write is what
\* its order lacks.
Correcting(c) ==
    LET order == orders[client[c].key[1]]
    IN  /\ order.history # <<>>
        /\ \E i \in DetectOrderIssues(order) :
              i.type = client[c].key[2] /\ client[c].adjustment = -Difference(i)

AlignInv == \A c \in Client : alone[c] /\ client[c].pc = "push" => Correcting(c)

LEMMA FoundAmounts ==
    ASSUME IInv, AmountsInv, NEW o \in Order, NEW f \in Found(o)
    PROVE  FoundOK(f)
<1>1. PICK i \in Detected(orders[o]) :
        f = [key |-> <<o, i.type>>, date |-> orders[o].date,
             expected |-> i.expected, actual |-> i.actual]
  BY DEF Found
<1>2. Readable(orders[o]) /\ IsList(orders[o].history)
  BY DEF IInv, Typed, AmountsInv
<1>3. i.type \in IssueType /\ i.expected \in Int /\ i.actual \in Int
  BY <1>2, DetectedAmounts
<1>4. orders[o].date \in Int
  BY <1>2 DEF Readable
<1> QED
  BY <1>1, <1>3, <1>4 DEF FoundOK, IssueKey

LEMMA InitAmounts == Init => AmountsInv /\ AlignInv
<1> SUFFICES ASSUME Init PROVE AmountsInv /\ AlignInv
  OBVIOUS
<1> USE DEF Init
<1>1. ASSUME NEW o \in Order PROVE Readable(orders[o])
  <2>1. orders[o] \in OrderDocument
    BY ConstantsAssumption
  <2>2. \A n \in DOMAIN orders[o].history : orders[o].history[n] \in Payment
    BY <2>1 DEF OrderDocument
  <2> QED
    BY <2>1, <2>2 DEF OrderDocument, Payment, Readable
<1>2. KeptOK(Idle) /\ Idle.pc # "push"
  BY DEF KeptOK, Idle
<1> QED
  BY <1>1, <1>2, ConstantsAssumption DEF AmountsInv, AlignInv, IndexOK, Bounded

\* A handler that goes on or begins.
LEMMA AmountsStep ==
    ASSUME IInv, AmountsInv, NEW c \in Client, NEW state, KeptOK(state),
           Continue(c, state) \/ Begin(c, state),
           \A o \in Order : Readable(orders'[o]), IndexOK(issues'),
           state.pc = "push" /\ alone'[c] => Correcting(c)'
    PROVE  AmountsInv' /\ AlignInv'
<1>1. client'[c] = state /\ \A d \in Client : d # c => client'[d] = client[d]
  BY NextClient DEF IInv
<1>2. \A d \in Client : KeptOK(client'[d])
  BY <1>1 DEF AmountsInv
<1>3. Bounded'
  BY ConstantsAssumption DEF AmountsInv, Bounded, Continue, Begin
<1>4. AlignInv'
  BY <1>1, Solo, BeginAlone DEF AlignInv
<1> QED
  BY <1>2, <1>3, <1>4 DEF AmountsInv

LEMMA UpsertedAmounts ==
    ASSUME IInv, AmountsInv, NEW c \in Client, client[c].pc = "write"
    PROVE  /\ KeptOK(Upserted(c)) /\ Upserted(c).pc # "push"
           /\ KeptOK(client[c].handler) /\ client[c].handler.pc # "push"
<1> DEFINE h == client[c].handler
           todo == h.todo \ {client[c].of}
<1>1. h.pc = "find" /\ Upserting(h) /\ \A f \in h.todo : FoundOK(f)
  BY DEF IInv, Typed, HandlerOK, AmountsInv, KeptOK
<1>2. \A f \in todo : FoundOK(f)
  BY <1>1
<1> HIDE DEF h
<1>3. KeptOK(h)
  BY <1>1 DEF KeptOK
<1> DEFINE pc == IF todo = {} THEN "stale" ELSE "find"
<1>4. pc \in {"stale", "find"}
  OBVIOUS
<1> HIDE DEF todo, pc
<1>5. KeptOK(Idle) /\ Idle.pc = "idle"
  BY DEF KeptOK, Idle
<1>6. /\ KeptOK([h EXCEPT !.todo = todo, !.pc = pc])
      /\ [h EXCEPT !.todo = todo, !.pc = pc].pc = pc
  BY <1>1, <1>2, <1>4 DEF KeptOK, Upserting
<1> QED
  BY <1>1, <1>3, <1>4, <1>5, <1>6 DEF Upserted, h, todo, pc

\* The commands that look.
LEMMA LookAmounts ==
    ASSUME IInv, AmountsInv, NEW c \in Client,
           \/ ScanOrders(c) \/ ActOnOrderIssue(c) \/ UpsertFind(c) \/ RecheckOrderIssue(c)
    PROVE  AmountsInv' /\ AlignInv'
<1>0. /\ UNCHANGED <<orders, issues>> /\ \A o \in Order : Readable(orders'[o])
      /\ IndexOK(issues) /\ IndexOK(issues')
  BY DEF AmountsInv, ScanOrders, ActOnOrderIssue, UpsertFind, RecheckOrderIssue
<1>1. CASE ScanOrders(c)
  <2>1. PICK range \in Ranges : Begin(c, [pc |-> IF FoundIn(range) = {} THEN "stale" ELSE "find",
                                   op |-> "scan", range |-> range, todo |-> FoundIn(range),
                                   detected |-> {f.key : f \in FoundIn(range)}])
    BY <1>1 DEF ScanOrders, FoundIn
  <2>2. \A f \in FoundIn(range) : FoundOK(f)
    BY FoundAmounts DEF FoundIn
  <2> DEFINE found == FoundIn(range)
  <2> HIDE DEF found
  <2> DEFINE state == [pc |-> IF found = {} THEN "stale" ELSE "find",
                       op |-> "scan", range |-> range, todo |-> found,
                       detected |-> {f.key : f \in found}]
  <2>3. state.todo = found /\ state.pc \in {"stale", "find"}
    OBVIOUS
  <2>4. Begin(c, state)
    BY <2>1 DEF found
  <2> HIDE DEF state
  <2>5. KeptOK(state)
    BY <2>2, <2>3 DEF KeptOK, found
  <2> QED
    BY <1>0, <2>3, <2>4, <2>5, AmountsStep
<1>2. CASE ActOnOrderIssue(c)
  <2>1. PICK state : /\ Begin(c, state)
                     /\ \/ state.pc = "close" /\ state.resolution.adjustment = 0
                        \/ state.pc = "load" /\ (state.op = "align" => state.key[2] \in Aligned)
    <3>1. PICK k \in DOMAIN issues, op \in {"recheck", "accept", "align"} :
            /\ op = "align" => k[2] \in {Mismatch, Missing}
            /\ Begin(c, IF op = "accept"
                        THEN [pc |-> "close", key |-> k, status |-> "accepted",
                              resolution |-> Resolution("accept_variance", 0), wrote |-> FALSE]
                        ELSE [pc |-> "load", op |-> op, key |-> k])
      BY <1>2 DEF ActOnOrderIssue
    <3> QED
      BY <3>1 DEF Aligned, Resolution
  <2>2. KeptOK(state)
    BY <2>1 DEF KeptOK
  <2> QED
    BY <1>0, <2>1, <2>2, AmountsStep
<1>3. CASE UpsertFind(c)
  <2>1. PICK f \in client[c].todo :
          Continue(c, [pc |-> "write", of |-> f, handler |-> client[c],
             existing |-> IF f.key \in DOMAIN issues THEN issues[f.key] ELSE NoIssue])
    BY <1>3 DEF UpsertFind
  <2> DEFINE state == [pc |-> "write", of |-> f, handler |-> client[c],
                       existing |-> IF f.key \in DOMAIN issues THEN issues[f.key] ELSE NoIssue]
  <2>2. state.pc = "write" /\ state.of = f /\ state.handler = client[c]
    OBVIOUS
  <2>3. Continue(c, state)
    BY <2>1
  <2> HIDE DEF state
  <2>4. \A g \in client[c].todo : FoundOK(g)
    BY <1>3 DEF UpsertFind, AmountsInv, KeptOK
  <2>5. KeptOK(state)
    BY <2>2, <2>4 DEF KeptOK
  <2> QED
    BY <1>0, <2>2, <2>3, <2>5, AmountsStep
<1>4. CASE RecheckOrderIssue(c)
  <2> DEFINE k == client[c].key
             same == {f \in Found(k[1]) : f.key = k}
  <2>1. client[c].pc = "load" /\ k \in DOMAIN issues
    BY <1>4 DEF RecheckOrderIssue, IInv, Typed, HandlerOK
  <2>2. k[1] \in Order
    BY <1>0, <2>1 DEF IndexOK, IssueKey
  <2>3. \A f \in same : FoundOK(f)
    BY <2>2, FoundAmounts
  <2>4. Continue(c, IF same = {} THEN ClosingRechecked(k)
                    ELSE [pc |-> "find", op |-> "recheck", todo |-> same])
    BY <1>4 DEF RecheckOrderIssue
  <2> HIDE DEF same
  <2>5. PICK state : /\ Continue(c, state)
                     /\ \/ state.pc = "close" /\ state.resolution.adjustment = 0
                        \/ state.pc = "find" /\ state.todo = same
    BY <2>4 DEF ClosingRechecked, Resolution
  <2>6. KeptOK(state)
    BY <2>3, <2>5 DEF KeptOK
  <2> QED
    BY <1>0, <2>5, <2>6, AmountsStep
<1> QED
  BY <1>1, <1>2, <1>3, <1>4

\* What an alignment is about to write is computed from the order as it is.
LEMMA AlignAmounts ==
    ASSUME IInv, AmountsInv, NEW c \in Client, AlignOrderPayment(c)
    PROVE  AmountsInv' /\ AlignInv'
<1> DEFINE k == client[c].key
           order == orders[k[1]]
           same == {i \in DetectOrderIssues(order) : i.type = k[2]}
<1>1. /\ UNCHANGED <<orders, issues>> /\ \A o \in Order : Readable(orders'[o])
      /\ IndexOK(issues) /\ IndexOK(issues')
  BY DEF AmountsInv, AlignOrderPayment
<1>2. client[c].pc = "load" /\ k \in DOMAIN issues /\ k[2] \in Aligned
  BY DEF AlignOrderPayment, AmountsInv, KeptOK, IInv, Typed, HandlerOK
<1>3. k[1] \in Order
  BY <1>1, <1>2 DEF IndexOK, IssueKey
<1>4. CASE Continue(c, Idle) \/ Continue(c, ClosingRechecked(k))
  <2>1. /\ KeptOK(Idle) /\ KeptOK(ClosingRechecked(k))
        /\ Idle.pc # "push" /\ ClosingRechecked(k).pc # "push"
    BY DEF KeptOK, Idle, ClosingRechecked, Resolution
  <2> QED
    BY <1>1, <1>4, <2>1, AmountsStep
<1>5. CASE /\ order.history # <<>>
           /\ \E i \in same : Continue(c, [pc |-> "push", key |-> k, adjustment |-> -Difference(i)])
  <2>1. PICK i \in same : Continue(c, [pc |-> "push", key |-> k, adjustment |-> -Difference(i)])
    BY <1>5
  <2> DEFINE state == [pc |-> "push", key |-> k, adjustment |-> -Difference(i)]
  <2>2. state.pc = "push" /\ state.key = k /\ state.adjustment = -Difference(i)
    OBVIOUS
  <2>3. Continue(c, state)
    BY <2>1
  <2> HIDE DEF state
  <2>4. i.expected \in Int /\ i.actual \in Int
    <3>1. Readable(order) /\ IsList(order.history)
      BY <1>3 DEF AmountsInv, IInv, Typed
    <3>2. i \in Detected(order)
      BY DEF Detected
    <3> QED
      BY <3>1, <3>2, DetectedAmounts
  <2>5. KeptOK(state)
    BY <1>2, <2>2, <2>4 DEF KeptOK, Difference
  <2>6. client'[c] = state
    BY <2>3, NextClient DEF IInv
  <2>7. Correcting(c)'
    <3>1. /\ client'[c].key = k /\ client'[c].adjustment = -Difference(i) /\ orders' = orders
          /\ order.history # <<>> /\ i \in DetectOrderIssues(order) /\ i.type = k[2]
      BY <1>1, <1>5, <2>2, <2>6
    <3> QED
      BY <3>1 DEF Correcting
  <2> QED
    BY <1>1, <2>3, <2>5, <2>7, AmountsStep
<1> QED
  BY <1>4, <1>5 DEF AlignOrderPayment

\* The commands that write to the index.
LEMMA UpsertAmounts ==
    ASSUME IInv, AmountsInv, NEW c \in Client, UpsertInsert(c) \/ UpsertUpdate(c)
    PROVE  AmountsInv' /\ AlignInv'
<1> DEFINE f == client[c].of
<1>1. /\ client[c].pc = "write" /\ UNCHANGED orders
      /\ \A o \in Order : Readable(orders'[o])
      /\ \A k \in DOMAIN issues : IssueOK(issues[k]) /\ k \in IssueKey /\ AmountsOK(issues[k])
  BY DEF UpsertInsert, UpsertUpdate, AmountsInv, IndexOK, IInv, Typed
<1>2. FoundOK(f)
  BY <1>1 DEF AmountsInv, KeptOK
<1>3. CASE UpsertInsert(c) /\ f.key \in DOMAIN issues
  <2>1. Continue(c, client[c].handler) /\ IndexOK(issues')
    BY <1>3 DEF UpsertInsert, AmountsInv, IndexOK
  <2> QED
    BY <1>1, <2>1, UpsertedAmounts, AmountsStep
<1>4. CASE UpsertInsert(c) /\ f.key \notin DOMAIN issues
  <2> DEFINE issue == [status |-> "open", date |-> f.date, expected |-> f.expected,
                       actual |-> f.actual, history |-> <<>>]
  <2>1. Continue(c, Upserted(c)) /\ issues' = Put(issues, f.key, issue)
    BY <1>4 DEF UpsertInsert
  <2>2. AmountsOK(issue)
    BY <1>2 DEF AmountsOK, FoundOK
  <2> HIDE DEF issue
  <2>3. /\ DOMAIN issues' = DOMAIN issues \cup {f.key}
        /\ \A k \in DOMAIN issues' : issues'[k] = issue \/ (k \in DOMAIN issues /\ issues'[k] = issues[k])
    <3>1. \A index : /\ DOMAIN Put(index, f.key, issue) = DOMAIN index \cup {f.key}
                     /\ Put(index, f.key, issue)[f.key] = issue
                     /\ \A l \in DOMAIN index : l # f.key => Put(index, f.key, issue)[l] = index[l]
      BY DEF Put
    <3> QED
      BY <2>1, <3>1
  <2>4. IndexOK(issues')
    BY <1>1, <1>2, <2>2, <2>3 DEF IndexOK, FoundOK
  <2> QED
    BY <1>1, <2>1, <2>4, UpsertedAmounts, AmountsStep
<1>5. CASE UpsertUpdate(c)
  <2> DEFINE new == Updated(issues[f.key], f, Reopens(client[c].existing, f))
  <2>1. Continue(c, Upserted(c)) /\ issues' = [issues EXCEPT ![f.key] = new]
    BY <1>5 DEF UpsertUpdate
  <2>2. f.key \in DOMAIN issues => AmountsOK(new)
    <3>1. f.key \in DOMAIN issues =>
            /\ new.date = f.date /\ new.expected = f.expected /\ new.actual = f.actual
            /\ new.history = issues[f.key].history
      BY <1>1 DEF Updated, IssueOK
    <3> HIDE DEF new
    <3> QED
      BY <1>1, <1>2, <3>1 DEF AmountsOK, FoundOK
  <2> HIDE DEF new
  <2>3. IndexOK(issues')
    BY <1>1, <2>1, <2>2 DEF IndexOK
  <2> QED
    BY <1>1, <2>1, <2>3, UpsertedAmounts, AmountsStep
<1> QED
  BY <1>3, <1>4, <1>5

LEMMA ClosedAmounts ==
    ASSUME NEW issue, IssueOK(issue), AmountsOK(issue), NEW status,
           NEW resolution, resolution.adjustment \in Int
    PROVE  AmountsOK(Closed(issue, status, resolution))
<1> DEFINE new == Closed(issue, status, resolution)
<1>1. /\ new.date = issue.date /\ new.expected = issue.expected /\ new.actual = issue.actual
      /\ new.history = Append(issue.history, resolution)
  BY DEF Closed, IssueOK
<1> HIDE DEF new
<1>2. \A n \in DOMAIN new.history : new.history[n].adjustment \in Int
  BY <1>1, AppendToList DEF IssueOK, AmountsOK
<1> QED
  BY <1>1, <1>2 DEF AmountsOK, new

LEMMA CloseAmounts ==
    ASSUME IInv, AmountsInv, NEW c \in Client, CloseStale(c) \/ CloseOrderIssue(c)
    PROVE  AmountsInv' /\ AlignInv'
<1>1. /\ Continue(c, Idle) /\ KeptOK(Idle) /\ Idle.pc # "push" /\ UNCHANGED orders
      /\ \A o \in Order : Readable(orders'[o])
      /\ \A k \in DOMAIN issues : IssueOK(issues[k]) /\ k \in IssueKey /\ AmountsOK(issues[k])
  BY DEF CloseStale, CloseOrderIssue, KeptOK, Idle, AmountsInv, IndexOK, IInv, Typed
<1>2. CASE CloseStale(c)
  <2>1. /\ DOMAIN issues' = DOMAIN issues
        /\ \A k \in DOMAIN issues :
              \/ issues'[k] = issues[k]
              \/ issues'[k] = Closed(issues[k], "resolved", Resolution("auto_recheck", 0))
    BY <1>2 DEF CloseStale
  <2>2. Resolution("auto_recheck", 0).adjustment \in Int
    BY DEF Resolution
  <2>3. IndexOK(issues')
    BY <1>1, <2>1, <2>2, ClosedAmounts DEF IndexOK
  <2> QED
    BY <1>1, <2>3, AmountsStep
<1>3. CASE CloseOrderIssue(c)
  <2> DEFINE k == client[c].key
             new == Closed(issues[k], client[c].status, client[c].resolution)
  <2>1. client[c].pc = "close" /\ issues' = [issues EXCEPT ![k] = new]
    BY <1>3 DEF CloseOrderIssue
  <2>2. k \in DOMAIN issues /\ client[c].resolution.adjustment \in Int
    BY <2>1 DEF IInv, Typed, HandlerOK, AmountsInv, KeptOK
  <2>3. AmountsOK(new)
    BY <1>1, <2>2, ClosedAmounts
  <2> HIDE DEF new
  <2>4. IndexOK(issues')
    BY <1>1, <2>1, <2>3 DEF IndexOK
  <2> QED
    BY <1>1, <2>4, AmountsStep
<1> QED
  BY <1>2, <1>3

\* An order with one more entry can still be read.
LEMMA RecordedReadable ==
    ASSUME NEW order, Readable(order), IsList(order.history), NEW e, e.amount \in Int
    PROVE  Readable(Recorded(order, e))
<1> DEFINE new == Recorded(order, e)
<1>1. /\ DOMAIN new = DOMAIN order /\ new.date = order.date /\ new.base = order.base
      /\ new.tip = order.tip /\ new.paid = order.paid /\ new.total = order.total
      /\ new.history = Append(order.history, e)
  BY DEF Recorded, Readable
<1> HIDE DEF new
<1>2. \A n \in DOMAIN new.history : new.history[n].amount \in Int
  BY <1>1, AppendToList DEF Readable
<1> QED
  BY <1>1, <1>2 DEF Readable, new

LEMMA PushAmounts ==
    ASSUME IInv, AmountsInv, NEW c \in Client, PushAdjustment(c)
    PROVE  AmountsInv' /\ AlignInv'
<1> DEFINE k == client[c].key
           amount == client[c].adjustment
           entry == [label |-> "adjustment", amount |-> amount, issue |-> k]
           state == [pc |-> "close", key |-> k, status |-> "resolved",
                     resolution |-> Resolution("align_payment_record", amount),
                     wrote |-> ~AdjustedBy(orders[k[1]], k)]
<1>1. /\ client[c].pc = "push" /\ k \in DOMAIN issues /\ amount \in Int
      /\ Continue(c, state) /\ UNCHANGED issues /\ IndexOK(issues')
      /\ orders' = IF AdjustedBy(orders[k[1]], k) THEN orders
                   ELSE [orders EXCEPT ![k[1]] = Recorded(orders[k[1]], entry)]
  BY DEF PushAdjustment, IInv, Typed, HandlerOK, AmountsInv, KeptOK
<1>2. KeptOK(state) /\ state.pc # "push" /\ entry.amount \in Int
  BY <1>1 DEF KeptOK, Resolution
<1>3. orders = [p \in Order |-> orders[p]] /\ \A o \in Order : Readable(orders[o]) /\ IsList(orders[o].history)
  BY DEF AmountsInv, IInv, Typed
<1> HIDE DEF state, entry
<1>4. \A o \in Order : orders'[o] = orders[o] \/ orders'[o] = Recorded(orders[o], entry)
  BY <1>1, <1>3
<1>5. \A o \in Order : Readable(orders'[o])
  BY <1>2, <1>3, <1>4, RecordedReadable
<1> QED
  BY <1>1, <1>2, <1>5, AmountsStep

LEMMA EditAmounts ==
    ASSUME IInv, AmountsInv, NEW o \in Order, EditOrder(o)
    PROVE  AmountsInv' /\ AlignInv'
<1>1. /\ UNCHANGED <<issues, client, faults, requests>> /\ alone' = [d \in Client |-> FALSE]
      /\ edits < MaxEdits /\ edits' = edits + 1
  BY DEF EditOrder
<1>2. /\ orders = [p \in Order |-> orders[p]]
      /\ \A p \in Order : Readable(orders[p]) /\ IsList(orders[p].history)
  BY DEF AmountsInv, IInv, Typed
<1>3. \A p \in Order : \/ orders'[p] = orders[p]
                       \/ \E r \in Revisions : orders'[p] = Overwritten(orders[p], r)
                       \/ \E e \in Payments : orders'[p] = Recorded(orders[p], e)
  BY <1>2 DEF EditOrder
<1>4. ASSUME NEW p \in Order, NEW r \in Revisions PROVE Readable(Overwritten(orders[p], r))
  <2> DEFINE order == orders[p]
             new == Overwritten(order, r)
  <2>1. /\ DOMAIN new = DOMAIN order \cup DOMAIN r
        /\ \A x \in DOMAIN order : new[x] = IF x \in DOMAIN r THEN r[x] ELSE order[x]
    BY DEF Overwritten
  <2>2. /\ Readable(order) /\ "history" \notin DOMAIN r
        /\ \A x \in {"date", "base", "tip", "paid"} : x \in DOMAIN r => r[x] \in Int
        /\ "total" \in DOMAIN r => r["total"] \in Int \cup {NoTotal}
    BY <1>2, ConstantsAssumption, Zenon
  <2> HIDE DEF new, order
  <2>3. new.history = order.history
    BY <2>1, <2>2 DEF Readable
  <2>4. /\ {new.date, new.base, new.tip, new.paid} \subseteq Int
        /\ new.total \in Int \cup {NoTotal}
    <3>1. \A x \in {"date", "base", "tip", "paid"} : x \in DOMAIN order /\ order[x] \in Int
      BY <2>2 DEF Readable
    <3>2. ASSUME NEW x \in {"date", "base", "tip", "paid"} PROVE new[x] \in Int
      <4>1. new[x] = IF x \in DOMAIN r THEN r[x] ELSE order[x]
        BY <2>1, <3>1
      <4>2. x \in DOMAIN r => r[x] \in Int
        BY <2>2
      <4> QED
        BY <3>1, <4>1, <4>2
    <3>3. "total" \in DOMAIN order /\ order["total"] \in Int \cup {NoTotal}
      BY <2>2 DEF Readable
    <3>4. new["total"] \in Int \cup {NoTotal}
      BY <2>1, <2>2, <3>3
    <3> QED
      BY <3>2, <3>4
  <2>5. Readable(new)
    BY <2>1, <2>2, <2>3, <2>4 DEF Readable
  <2> QED
    BY <2>5 DEF new, order
<1>5. \A p \in Order, e \in Payments : Readable(Recorded(orders[p], e))
  BY <1>2, ConstantsAssumption, RecordedReadable DEF Payment
<1>6. \A p \in Order : Readable(orders'[p])
  BY <1>2, <1>3, <1>4, <1>5
<1>7. Bounded'
  BY <1>1, ConstantsAssumption DEF AmountsInv, Bounded
<1> QED
  BY <1>1, <1>6, <1>7 DEF AmountsInv, AlignInv

LEMMA AbandonAmounts ==
    ASSUME IInv, AmountsInv, NEW c \in Client, Abandon(c)
    PROVE  AmountsInv' /\ AlignInv'
<1>1. /\ client' = [client EXCEPT ![c] = Idle] /\ alone' = [d \in Client |-> FALSE]
      /\ UNCHANGED <<orders, issues, requests, edits>>
      /\ faults < MaxFaults /\ faults' = faults + 1
  BY DEF Abandon
<1>2. \A d \in Client : client'[d] = Idle \/ client'[d] = client[d]
  BY <1>1 DEF IInv, Typed
<1>3. \A d \in Client : KeptOK(client'[d])
  BY <1>2 DEF AmountsInv, KeptOK, Idle
<1>4. Bounded'
  BY <1>1, ConstantsAssumption DEF AmountsInv, Bounded
<1> QED
  BY <1>1, <1>3, <1>4 DEF AmountsInv, AlignInv

LEMMA NextAmounts == IInv /\ AmountsInv /\ AlignInv /\ [Next]_vars => (AmountsInv /\ AlignInv)'
<1> SUFFICES ASSUME IInv, AmountsInv, AlignInv, [Next]_vars PROVE AmountsInv' /\ AlignInv'
  OBVIOUS
<1>1. ASSUME NEW c \in Client, ScanOrders(c) \/ ActOnOrderIssue(c) \/ Handle(c) \/ Abandon(c)
      PROVE  AmountsInv' /\ AlignInv'
  BY <1>1, LookAmounts, AlignAmounts, UpsertAmounts, CloseAmounts, PushAmounts, AbandonAmounts
     DEF Handle
<1>2. ASSUME NEW o \in Order, EditOrder(o) PROVE AmountsInv' /\ AlignInv'
  BY <1>2, EditAmounts
<1>3. CASE UNCHANGED vars
  BY <1>3 DEF vars, AmountsInv, AlignInv, Bounded, Correcting
<1> QED
  BY <1>1, <1>2, <1>3 DEF Next

LEMMA AmountsInvariance == Spec => [](IInv /\ AmountsInv /\ AlignInv)
<1>1. Init => IInv /\ AmountsInv /\ AlignInv
  BY InitIInv, InitAmounts
<1>2. IInv /\ AmountsInv /\ AlignInv /\ [Next]_vars => (IInv /\ AmountsInv /\ AlignInv)'
  BY NextIInv, NextAmounts
<1> QED
  BY <1>1, <1>2, PTL DEF Spec

\* The documents of orders and issues, and what handlers keep, have their
\* types: issues are of orders there are, and amounts are integers.
THEOREM TypeCorrect == Spec => []TypeOK
<1>1. IInv /\ AmountsInv => TypeOK
  <2> SUFFICES ASSUME IInv, AmountsInv PROVE TypeOK
    OBVIOUS
  <2>1. DOMAIN orders = Order
    <3>1. orders = [o \in Order |-> orders[o]]
      BY DEF IInv, Typed
    <3>2. DOMAIN [o \in Order |-> orders[o]] = Order
      OBVIOUS
    <3> QED
      BY <3>1, <3>2
  <2>2. \A k \in DOMAIN issues : k \in IssueKey /\ AmountsOK(issues[k]) /\ issues[k].status \in Status
    BY DEF IInv, Typed, IssueOK, AmountsInv, IndexOK
  <2>3. \A c \in Client : client[c].pc \in {"idle", "find", "write", "stale", "load", "push", "close"}
    BY DEF IInv, Typed, HandlerOK
  <2>4. Bounded /\ alone \in [Client -> BOOLEAN] /\ cut \subseteq DOMAIN issues
    BY DEF IInv, Typed, AmountsInv
  <2> QED
    BY <2>1, <2>2, <2>3, <2>4 DEF TypeOK, AmountsOK, Status, Bounded
<1> QED
  BY <1>1, AmountsInvariance, PTL

LEMMA AlignmentStep ==
    ASSUME IInv, AmountsInv, AlignInv, [Next]_vars, NEW c \in Client,
           client[c].pc = "push", alone[c], client'[c].pc = "close",
           ~AdjustedBy(orders[client[c].key[1]], client[c].key)
    PROVE  DetectOrderIssues(orders'[client[c].key[1]]) = {}
<1> DEFINE k == client[c].key
           order == orders[k[1]]
           entry == [label |-> "adjustment", amount |-> client[c].adjustment, issue |-> k]
<1>1. faults' = faults
  <2>1. ASSUME NEW d \in Client, Abandon(d) PROVE FALSE
    <3>1. client' = [client EXCEPT ![d] = Idle] /\ DOMAIN client = Client
      BY <2>1 DEF Abandon, IInv, Typed
    <3> QED
      BY <3>1 DEF Idle
  <2>2. ASSUME NEW d \in Client, ScanOrders(d) \/ ActOnOrderIssue(d) PROVE faults' = faults
    BY <2>2 DEF ScanOrders, ActOnOrderIssue, Begin
  <2>3. ASSUME NEW d \in Client, AlignOrderPayment(d) PROVE faults' = faults
    BY <2>3 DEF AlignOrderPayment, Continue
  <2>4. ASSUME NEW d \in Client, UpsertInsert(d) PROVE faults' = faults
    BY <2>4 DEF UpsertInsert, Continue
  <2>5. ASSUME NEW d \in Client, Handle(d) PROVE faults' = faults
    BY <2>3, <2>4, <2>5 DEF Handle, UpsertFind, UpsertUpdate, CloseStale, RecheckOrderIssue,
       PushAdjustment, CloseOrderIssue, Continue
  <2>6. ASSUME NEW o \in Order, EditOrder(o) PROVE faults' = faults
    BY <2>6 DEF EditOrder
  <2> QED
    BY <2>1, <2>2, <2>5, <2>6 DEF Next, vars
<1>2. PushAdjustment(c)
  <2>1. Handle(c)
    BY <1>1, OwnCommand DEF Idle
  <2> QED
    BY <2>1 DEF Handle, UpsertFind, UpsertInsert, UpsertUpdate, CloseStale, RecheckOrderIssue,
       AlignOrderPayment, CloseOrderIssue
<1>3. k \in IssueKey /\ k[1] \in Order /\ k[2] \in Aligned
  BY DEF IInv, Typed, HandlerOK, AmountsInv, IndexOK, KeptOK, IssueKey
<1>4. PICK i \in DetectOrderIssues(order) : i.type = k[2] /\ client[c].adjustment = -Difference(i)
  BY DEF AlignInv, Correcting
<1>5. Readable(order) /\ IsList(order.history) /\ order.history # <<>>
  BY <1>3 DEF AmountsInv, IInv, Typed, AlignInv, Correcting
<1>6. entry.label = "adjustment" /\ entry.amount = -Difference(i)
  BY <1>4
<1>7. orders' = [orders EXCEPT ![k[1]] = Recorded(order, entry)] /\ DOMAIN orders = Order
  <2>1. orders = [o \in Order |-> orders[o]]
    BY DEF IInv, Typed
  <2> HIDE DEF entry
  <2>2. DOMAIN orders = Order
    BY <2>1
  <2> QED
    BY <1>2, <2>2 DEF PushAdjustment, entry
<1> HIDE DEF entry
<1>8. orders'[k[1]] = Recorded(order, entry)
  BY <1>3, <1>7
<1>9. DetectOrderIssues(Recorded(order, entry)) = {}
  BY <1>3, <1>4, <1>5, <1>6, CorrectionReconciles DEF Aligned
<1> QED
  BY <1>8, <1>9

\* When an alignment that ran by itself closes its issue, the order
\* reconciles, unless the issue was aligned before and came back.
THEOREM AlignmentsReconcile == Spec => AlignmentReconciles
<1>1. IInv /\ AmountsInv /\ AlignInv /\ [Next]_vars =>
        [\A c \in Client :
            /\ client[c].pc = "push" /\ alone[c] /\ client'[c].pc = "close"
            /\ ~AdjustedBy(orders[client[c].key[1]], client[c].key)
            => DetectOrderIssues(orders'[client[c].key[1]]) = {}]_vars
  BY AlignmentStep
<1> QED
  BY <1>1, AmountsInvariance, PTL DEF Spec, AlignmentReconciles
=============================================================================
