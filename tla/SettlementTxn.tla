---------------------------- MODULE SettlementTxn ----------------------------
(***************************************************************************)
(* The transactions behind AllocateSettlement and UpdateSettlement: the    *)
(* callback reads a snapshot, updates one row after the other, writes the  *)
(* settlement and commits; a write that meets one of another transaction,  *)
(* or of a single command since the snapshot, makes WithTransaction run    *)
(* the callback again.  Settlements has the same operations in one step.   *)
(*                                                                         *)
(* session[s] is a request being served:                                   *)
(*   idle      none                                                        *)
(*   begin     the callback is about to run (again)                        *)
(*   writing   the snapshot is fixed; todo are the row updates to come,    *)
(*             written the rows already updated                            *)
(*   ready     the settlement is written too, nothing is committed         *)
(*                                                                         *)
(* Nobody else sees what a transaction wrote before it commits.  snapshot  *)
(* is the ledger it read, result that snapshot after all its updates, doc  *)
(* the settlement it stores, and changed what others have committed since. *)
(* The filters on settled_amount_paise always match within one snapshot.   *)
(* The mode without transactions (standalone development databases) is     *)
(* left out.                                                               *)
(***************************************************************************)
EXTENDS Settlements, FiniteSets

CONSTANTS
    Session,        \* HTTP requests being served at once
    MaxRetries      \* bound: runs of one callback after the first

ASSUME SessionAssumption == MaxRetries \in Nat

VARIABLE session

txnVars == <<ledger, settlements, refreshes, session>>

Idle == [at |-> "idle"]

PayRequest(p)          == [kind |-> "pay", payout |-> p]
EditRequest(k, amount) == [kind |-> "edit", k |-> k, amount |-> amount]

Requests ==
    {PayRequest(p) : p \in Payout}
        \cup {EditRequest(k, amount) : k \in DOMAIN settlements,
                                       amount \in EditAmount}

Begun(request, runs) == [at |-> "begin", request |-> request, runs |-> runs]

InTransaction(s) == session[s].at \in {"writing", "ready"}

-----------------------------------------------------------------------------
(* What a run of the callback will write, read from one snapshot *)

\* Allocations in the order buildAllocations appends them: deductions first,
\* each group in the order of the query.
AppendedBefore(rows, allocs, i, j) ==
    \/ allocs[i] < 0 /\ allocs[j] > 0
    \/ (allocs[i] < 0) = (allocs[j] < 0) /\ Precedes(rows, i, j)

AllocationOrder(rows, allocs) ==
    LET paid == {i \in DOMAIN allocs : allocs[i] # 0}
    IN  {order \in [1 .. Cardinality(paid) -> paid] :
            /\ {order[n] : n \in DOMAIN order} = paid
            /\ \A m, n \in DOMAIN order :
                  m < n => AppendedBefore(rows, allocs, order[m], order[n])}

Plan(request, runs, todo, result, doc) ==
    [at |-> "writing", request |-> request, runs |-> runs, todo |-> todo,
     written |-> {}, snapshot |-> ledger, result |-> result, doc |-> doc,
     changed |-> [rows |-> {}, keys |-> {}]]

\* The pending rows of the snapshot that a payout may use.
PayoutPlan(request, runs) ==
    LET p      == request.payout
        allocs == BuildAllocations(ledger, Pending(p), p.amount)
    IN  {Plan(request, runs, todo,
              AddAllocations(ledger, allocs, AllocatedStatus),
              [key |-> p.key, worker |-> p.worker, bucket |-> p.bucket,
               from |-> p.from, to |-> p.to, amount |-> p.amount,
               allocations |-> allocs, revisions |-> <<>>])
           : todo \in AllocationOrder(ledger, allocs)}

Edited(s, amount, allocs) ==
    [s EXCEPT !.amount = amount, !.allocations = allocs,
              !.revisions = Append(@, Revision(s))]

\* The rows whose shares are taken back, and then those that receive a share.
EditOrder(shares, reversed, allocs) ==
    {back \o forth : back \in AllocationOrder(ledger, shares),
                     forth \in AllocationOrder(reversed, allocs)}

\* With the amount unchanged only the settlement is written.  Otherwise the
\* old shares are taken back first, and what is read next sees that.
EditPlan(request, runs) ==
    LET s        == settlements[request.k]
        reversed == ReverseAllocations(ledger, s.allocations)
        pending  == PendingOf(reversed, s.worker, s.bucket, s.from, s.to)
        allocs   == BuildAllocations(reversed, pending, request.amount)
    IN  IF request.amount = s.amount
          THEN {Plan(request, runs, <<>>, ledger, Edited(s, s.amount, s.allocations))}
          ELSE {Plan(request, runs, todo,
                     AddAllocations(reversed, allocs, EntryStatus),
                     Edited(s, request.amount, allocs))
                  : todo \in EditOrder(s.allocations, reversed, allocs)}

CanPay(p) ==
    /\ p.rows # {} => Pending(p) = p.rows
    /\ CanAllocate(ledger, Pending(p), p.amount)

CanEdit(k, amount) ==
    LET s        == settlements[k]
        reversed == ReverseAllocations(ledger, s.allocations)
    IN  amount # s.amount =>
            CanAllocate(reversed,
                PendingOf(reversed, s.worker, s.bucket, s.from, s.to), amount)

-----------------------------------------------------------------------------
(* Serving a request *)

Receive(s, request) ==
    /\ session[s].at = "idle"
    /\ request.kind = "edit" => Len(settlements[request.k].revisions) < MaxEdits
    /\ session' = [session EXCEPT ![s] = Begun(request, 0)]
    /\ UNCHANGED <<ledger, settlements, refreshes>>

\* The key is found, or the request cannot be met: answered, nothing written.
Answer(s) ==
    LET request == session[s].request
    IN  /\ session[s].at = "begin"
        /\ CASE request.kind = "pay" ->
                   \/ \E k \in DOMAIN settlements :
                         settlements[k].key = request.payout.key
                   \/ ~CanPay(request.payout)
             [] request.kind = "edit" -> ~CanEdit(request.k, request.amount)
        /\ session' = [session EXCEPT ![s] = Idle]
        /\ UNCHANGED <<ledger, settlements, refreshes>>

ReadForPayout(s) ==
    LET request == session[s].request
    IN  /\ session[s].at = "begin" /\ request.kind = "pay"
        /\ \A k \in DOMAIN settlements : settlements[k].key # request.payout.key
        /\ CanPay(request.payout)
        /\ \E plan \in PayoutPlan(request, session[s].runs) :
              session' = [session EXCEPT ![s] = plan]
        /\ UNCHANGED <<ledger, settlements, refreshes>>

ReadForEdit(s) ==
    LET request == session[s].request
    IN  /\ session[s].at = "begin" /\ request.kind = "edit"
        /\ CanEdit(request.k, request.amount)
        /\ Len(settlements[request.k].revisions) < MaxEdits
        /\ \E plan \in EditPlan(request, session[s].runs) :
              session' = [session EXCEPT ![s] = plan]
        /\ UNCHANGED <<ledger, settlements, refreshes>>

-----------------------------------------------------------------------------
(* Writes of a transaction *)

Writers(i) == {s \in Session : InTransaction(s) /\ i \in session[s].written}

\* Another open transaction wrote row i, or it was written since the snapshot.
RowConflict(s, i) ==
    \/ Writers(i) \ {s} # {}
    \/ i \in session[s].changed.rows

\* mutant of DocConflict: the unique index sees committed keys only.
DocChanged(s) == session[s].doc.key \in session[s].changed.keys

\* The same for the settlement: the unique (office_id, idempotency_key) index
\* for an insert, the document for an edit.
DocConflict(s) ==
    \/ session[s].doc.key \in session[s].changed.keys
    \/ \E other \in Session \ {s} :
          /\ session[other].at = "ready"
          /\ session[other].doc.key = session[s].doc.key

UpdateRow(s) ==
    /\ session[s].at = "writing" /\ session[s].todo # <<>>
    /\ ~RowConflict(s, Head(session[s].todo))
    /\ session' = [session EXCEPT
            ![s].todo = Tail(@),
            ![s].written = @ \cup {Head(session[s].todo)}]
    /\ UNCHANGED <<ledger, settlements, refreshes>>

StoreSettlement(s) ==
    /\ session[s].at = "writing" /\ session[s].todo = <<>>
    /\ ~DocConflict(s)
    /\ session' = [session EXCEPT ![s].at = "ready"]
    /\ UNCHANGED <<ledger, settlements, refreshes>>

\* The transaction is aborted and WithTransaction runs the callback again,
\* until its time is up (the bound).
RunAgain(s) ==
    /\ session' = [session EXCEPT
            ![s] = IF @.runs < MaxRetries THEN Begun(@.request, @.runs + 1) ELSE Idle]
    /\ UNCHANGED <<ledger, settlements, refreshes>>

Conflict(s) ==
    /\ session[s].at = "writing"
    /\ IF session[s].todo = <<>> THEN DocConflict(s)
                                 ELSE RowConflict(s, Head(session[s].todo))
    /\ RunAgain(s)

\* A transient error of the commit command itself.
CommitFails(s) == session[s].at = "ready" /\ RunAgain(s)

\* The request is cancelled, the process stops, or a command fails for good.
Abort(s) ==
    /\ session[s].at # "idle"
    /\ session' = [session EXCEPT ![s] = Idle]
    /\ UNCHANGED <<ledger, settlements, refreshes>>

\* The transactions left open learn that rows and keys changed.
Noted(open, rows, keys) ==
    [s \in Session |->
        IF open[s].at \in {"writing", "ready"}
          THEN [open[s] EXCEPT !.changed = [rows |-> @.rows \cup rows,
                                            keys |-> @.keys \cup keys]]
          ELSE open[s]]

\* rows with the updates of s.
Merged(rows, s) ==
    [i \in DOMAIN rows |->
        IF i \in session[s].written THEN session[s].result[i] ELSE rows[i]]

Commit(s) ==
    LET t == session[s]
    IN  /\ t.at = "ready"
        /\ ledger' = Merged(ledger, s)
        /\ settlements' = IF t.request.kind = "pay"
                            THEN Append(settlements, t.doc)
                            ELSE [settlements EXCEPT ![t.request.k] = t.doc]
        /\ session' = Noted([session EXCEPT ![s] = Idle], t.written, {t.doc.key})
        /\ UNCHANGED refreshes

-----------------------------------------------------------------------------
(* Single commands beside the transactions *)

\* It waits for an open transaction that wrote the row.
WriteRefresh(r) ==
    /\ Writers(r.id) = {}
    /\ RefreshSourceEntry(r)
    /\ session' = IF ledger' = ledger THEN session
                                      ELSE Noted(session, {r.id}, {})

SingleCommand ==
    \/ \E e \in SourceEntry :
          (InsertSourceEntry(e) \/ FindStaleEntry(e)) /\ UNCHANGED session
    \/ \E r \in refreshes : AbandonRefresh(r) /\ UNCHANGED session
    \/ \E r \in refreshes : WriteRefresh(r)
    \/ \E a \in Adjustment : CreateAdjustment(a) /\ UNCHANGED session

-----------------------------------------------------------------------------
TxnInit == Init /\ session = [s \in Session |-> Idle]

Serve(s) ==
    \/ \E request \in Requests : Receive(s, request)
    \/ Answer(s) \/ ReadForPayout(s) \/ ReadForEdit(s)
    \/ UpdateRow(s) \/ StoreSettlement(s)
    \/ Conflict(s) \/ CommitFails(s) \/ Abort(s)
    \/ Commit(s)

TxnNext == SingleCommand \/ \E s \in Session : Serve(s)

TxnSpec == TxnInit /\ [][TxnNext]_txnVars

-----------------------------------------------------------------------------
(* Properties: TxnSpec has those of Settlements, above all ImplementsPayouts, *)
(* which says that a transaction, however it ran, commits as one step.       *)

\* Types of the collections and of the requests being served.
RequestDoc ==
    [kind : {"pay"}, payout : Payout]
        \cup [kind : {"edit"}, k : Nat \ {0}, amount : EditAmount]

Waiting == [at : {"begin"}, request : RequestDoc, runs : 0 .. MaxRetries]

Transaction ==
    [at : {"writing", "ready"}, request : RequestDoc, runs : 0 .. MaxRetries,
     todo : Seq(Nat \ {0}), written : SUBSET (Nat \ {0}), snapshot : Seq(Row),
     result : Seq(Row), doc : Settlement,
     changed : [rows : SUBSET (Nat \ {0}), keys : SUBSET PayoutKey]]

TxnTypeOK ==
    /\ TypeOK
    /\ session \in [Session -> {Idle} \cup Waiting \cup Transaction]

=============================================================================
