----------------------------- MODULE Settlements -----------------------------
(***************************************************************************)
(* The earnings ledger and the payouts settled against it, for one office  *)
(* (every query of repository.go is scoped to one).                        *)
(*                                                                         *)
(* ledger       earnings_ledger: a sequence of rows, a row's position is   *)
(*              its _id; (office_id, idempotency_key) is a unique index    *)
(* settlements  earnings_settlements: likewise                             *)
(* refreshes    calls of PutSourceEntry that found an open row with other  *)
(*              contents and have yet to send their conditional update     *)
(*                                                                         *)
(* An action is one atomic step of the database: a single-document         *)
(* command, or a committed transaction of runAtomicWrite.  What a          *)
(* transaction reads on the way is left to a module of its own.            *)
(***************************************************************************)
EXTENDS Allocation

CONSTANTS
    LedgerKey,      \* idempotency keys of ledger rows
    PayoutKey,      \* idempotency keys of settlements
    Worker,         \* a worker id together with its worker type
    Bucket,         \* settlement buckets
    SourceEntry,    \* what the order, trip and bonus sources can evaluate to
    Adjustment,     \* manual adjustments an admin can post
    Payout,         \* settlement requests an admin can post
    EditAmount,     \* amounts an admin can change a settlement to
    MaxEdits        \* bound: edits of one settlement

ASSUME ConstantsAssumption ==
    /\ SourceEntry \subseteq [key : LedgerKey, worker : Worker, bucket : Bucket,
                              date : Nat, amount : Nat, paid : BOOLEAN]
    /\ Adjustment \subseteq [key : LedgerKey, worker : Worker, bucket : Bucket,
                             date : Nat, amount : Int \ {0}]
    /\ Payout \subseteq [key : PayoutKey, worker : Worker, bucket : Bucket,
                         from : Nat, to : Nat, amount : Nat \ {0},
                         rows : SUBSET (Nat \ {0})]
    /\ EditAmount \subseteq Nat \ {0}
    /\ MaxEdits \in Nat

VARIABLES ledger, settlements, refreshes

vars == <<ledger, settlements, refreshes>>

-----------------------------------------------------------------------------
(* Documents *)

Status == {"open", "partially_settled", "settled"}

Row == [key : LedgerKey, worker : Worker, bucket : Bucket, date : Nat,
        amount : Int, settled : Int, status : Status]

\* Allocations are the shares of the rows 1, 2, ...: 0 for an untouched row.
RevisionDoc == [amount : Nat \ {0}, allocations : Seq(Int)]

Settlement == [key : PayoutKey, worker : Worker, bucket : Bucket, from : Nat,
               to : Nat, amount : Nat \ {0}, allocations : Seq(Int),
               revisions : Seq(RevisionDoc)]

RowIds == DOMAIN ledger

\* sourceEntry: a source that was already paid out arrives settled.
SourceRow(e) ==
    [key |-> e.key, worker |-> e.worker, bucket |-> e.bucket, date |-> e.date,
     amount |-> e.amount, settled |-> IF e.paid THEN e.amount ELSE 0,
     status |-> IF e.paid THEN "settled" ELSE "open"]

AdjustmentRow(a) ==
    [key |-> a.key, worker |-> a.worker, bucket |-> a.bucket, date |-> a.date,
     amount |-> a.amount, settled |-> 0, status |-> "open"]

KeyUsed(key) == \E i \in RowIds : ledger[i].key = key

\* mutant of Refreshable: partially settled rows are still rewritten.
NotFullySettled(row) == row.status # "settled"

\* Only an unpaid projection may be rewritten from its source.
Refreshable(row) == row.status = "open" /\ row.settled = 0

-----------------------------------------------------------------------------
(* Materialized rows and adjustments *)

\* The $setOnInsert upsert of PutSourceEntry inserts the row.
InsertSourceEntry(e) ==
    /\ ~KeyUsed(e.key)
    /\ ledger' = Append(ledger, SourceRow(e))
    /\ UNCHANGED <<settlements, refreshes>>

\* The upsert returns a stored row that is open and differs from the source.
\* In every other case PutSourceEntry returns here and changes nothing.
FindStaleEntry(e) ==
    \E i \in RowIds :
        /\ ledger[i].key = e.key
        /\ Refreshable(ledger[i])
        /\ ledger[i] # SourceRow(e)
        /\ refreshes' = refreshes \cup {[id |-> i, row |-> SourceRow(e)]}
        /\ UNCHANGED <<ledger, settlements>>

\* mutant of RefreshSourceEntry: the update is addressed by _id alone.
RefreshUnconditionally(r) ==
    /\ r \in refreshes
    /\ refreshes' = refreshes \ {r}
    /\ ledger' = [ledger EXCEPT ![r.id] = r.row]
    /\ UNCHANGED settlements

\* The second command of PutSourceEntry: rewrite the row unless a payout
\* reached it in the meantime (MatchedCount = 0, counted as a conflict).
RefreshSourceEntry(r) ==
    /\ r \in refreshes
    /\ refreshes' = refreshes \ {r}
    /\ ledger' = IF Refreshable(ledger[r.id])
                   THEN [ledger EXCEPT ![r.id] = r.row]
                   ELSE ledger
    /\ UNCHANGED settlements

\* The process stops, or the command fails, between the two.
AbandonRefresh(r) ==
    /\ r \in refreshes
    /\ refreshes' = refreshes \ {r}
    /\ UNCHANGED <<ledger, settlements>>

\* CreateAdjustment: an upsert; a replayed key returns the stored row.
CreateAdjustment(a) ==
    /\ ~KeyUsed(a.key)
    /\ ledger' = Append(ledger, AdjustmentRow(a))
    /\ UNCHANGED <<settlements, refreshes>>

-----------------------------------------------------------------------------
(* Payouts *)

\* Rows of rows that a settlement's worker, bucket and range select.
PendingOf(rows, worker, bucket, from, to) ==
    {i \in DOMAIN rows :
        /\ rows[i].worker = worker
        /\ rows[i].bucket = bucket
        /\ from <= rows[i].date /\ rows[i].date <= to
        /\ rows[i].status \in {"open", "partially_settled"}}

\* entry_ids narrows the query, and every requested row must be found.
Pending(p) ==
    LET found == PendingOf(ledger, p.worker, p.bucket, p.from, p.to)
    IN  IF p.rows = {} THEN found ELSE found \cap p.rows

\* The fields a payout writes ($set of settled_amount_paise and status).
SetSettled(row, settled, status) ==
    [row EXCEPT !.settled = settled, !.status = status]

\* Adding shares to the rows, with the status the operation computes.
AddAllocations(rows, allocs, StatusOf(_, _)) ==
    [i \in DOMAIN rows |->
        LET settled == rows[i].settled + At(allocs, i)
        IN  IF At(allocs, i) = 0
              THEN rows[i]
              ELSE SetSettled(rows[i], settled, StatusOf(rows[i].amount, settled))]

\* mutant of ReverseAllocations: an edit forgets to reverse.
NoReversal(rows, allocs) == rows

ReverseAllocations(rows, allocs) ==
    [i \in DOMAIN rows |->
        LET settled == rows[i].settled - At(allocs, i)
        IN  IF At(allocs, i) = 0
              THEN rows[i]
              ELSE SetSettled(rows[i], settled, EntryStatus(rows[i].amount, settled))]

\* AllocateSettlement.  A used key returns the stored settlement and writes
\* nothing; so do the three errors the guards exclude.
AllocateSettlement(p) ==
    /\ \A k \in DOMAIN settlements : settlements[k].key # p.key
    /\ p.rows # {} => Pending(p) = p.rows
    /\ CanAllocate(ledger, Pending(p), p.amount)
    /\ LET allocs == BuildAllocations(ledger, Pending(p), p.amount)
       IN  /\ ledger' = AddAllocations(ledger, allocs, AllocatedStatus)
           /\ settlements' = Append(settlements,
                [key |-> p.key, worker |-> p.worker, bucket |-> p.bucket,
                 from |-> p.from, to |-> p.to, amount |-> p.amount,
                 allocations |-> allocs, revisions |-> <<>>])
    /\ UNCHANGED refreshes

Revision(s) == [amount |-> s.amount, allocations |-> s.allocations]

\* UpdateSettlement with the amount unchanged: only payment details.
EditDetails(k) ==
    /\ Len(settlements[k].revisions) < MaxEdits
    /\ settlements' = [settlements EXCEPT
            ![k].revisions = Append(@, Revision(settlements[k]))]
    /\ UNCHANGED <<ledger, refreshes>>

\* UpdateSettlement with another amount: reverse, then allocate anew over all
\* pending rows of the range (entry_ids is not stored, so not applied again).
EditAmountOf(k, amount) ==
    LET s        == settlements[k]
        reversed == ReverseAllocations(ledger, s.allocations)
        pending  == PendingOf(reversed, s.worker, s.bucket, s.from, s.to)
        allocs   == BuildAllocations(reversed, pending, amount)
    IN  /\ Len(s.revisions) < MaxEdits
        /\ amount # s.amount
        /\ CanAllocate(reversed, pending, amount)
        /\ ledger' = AddAllocations(reversed, allocs, EntryStatus)
        /\ settlements' = [settlements EXCEPT
                ![k] = [s EXCEPT !.amount = amount,
                                 !.allocations = allocs,
                                 !.revisions = Append(@, Revision(s))]]
        /\ UNCHANGED refreshes

-----------------------------------------------------------------------------
Init ==
    /\ ledger = <<>>
    /\ settlements = <<>>
    /\ refreshes = {}

Next ==
    \/ \E e \in SourceEntry : InsertSourceEntry(e) \/ FindStaleEntry(e)
    \/ \E r \in refreshes : RefreshSourceEntry(r) \/ AbandonRefresh(r)
    \/ \E a \in Adjustment : CreateAdjustment(a)
    \/ \E p \in Payout : AllocateSettlement(p)
    \/ \E k \in DOMAIN settlements :
          EditDetails(k) \/ \E amount \in EditAmount : EditAmountOf(k, amount)

Spec == Init /\ [][Next]_vars

-----------------------------------------------------------------------------
(* Properties *)

\* Row i's share of settlement k, and what all of them paid on row i.
Share(setts, k, i) == At(setts[k].allocations, i)

PaidOn(setts, i) ==
    SumTo([k \in DOMAIN setts |-> Share(setts, k, i)], Len(setts))

\* Types of the three collections.
TypeOK ==
    /\ ledger \in Seq(Row)
    /\ settlements \in Seq(Settlement)
    /\ \A k \in DOMAIN settlements :
          Len(settlements[k].allocations) <= Len(ledger)
    /\ refreshes \subseteq [id : RowIds, row : Row]

\* Status and settled amount of a row agree, a positive row is never paid
\* beyond its amount and a deduction is consumed in full or not at all
\* (buildAllocations, and the settled/status pairs the two operations write).
RowConsistent(r) ==
    /\ r.status = "open" => r.settled = 0
    /\ r.status = "partially_settled" => 0 < r.settled /\ r.settled < r.amount
    /\ r.status = "settled" => r.settled = r.amount

RowsConsistent == \A i \in RowIds : RowConsistent(ledger[i])

\* Conservation between the two collections: a row's settled amount is exactly
\* what the recorded settlements paid on it, unless the row arrived settled
\* from its source, and then no settlement ever pays on it.  Allocation,
\* reversal and source refreshes must all keep this.
Conserved(row, paid) ==
    row.settled = paid \/ (paid = 0 /\ row.status = "settled")

Conservation == \A i \in RowIds : Conserved(ledger[i], PaidOn(settlements, i))

\* The allocations of a settlement, deductions included, add up to the amount
\* paid out (the loop only succeeds when nothing remains).
SettlementsBalance ==
    \A k \in DOMAIN settlements :
        SumTo(settlements[k].allocations, Len(ledger)) = settlements[k].amount

\* A settlement pays only rows of its worker, its bucket and its date range,
\* also after the row's source moved to another worker or date.
InScope(row, s) ==
    /\ row.worker = s.worker
    /\ row.bucket = s.bucket
    /\ s.from <= row.date /\ row.date <= s.to

SharesInScope ==
    \A k \in DOMAIN settlements : \A i \in RowIds :
        Share(settlements, k, i) # 0 => InScope(ledger[i], settlements[k])

\* "Once any amount is settled, the row remains immutable": no step, not even
\* a refresh that was decided before the payout, rewrites what a paid row is.
SameIdentity(old, new) ==
    /\ new.key = old.key
    /\ new.worker = old.worker
    /\ new.bucket = old.bucket
    /\ new.date = old.date
    /\ new.amount = old.amount

PaidRowsImmutable ==
    [][\A i \in RowIds :
          ledger[i].settled # 0 => SameIdentity(ledger[i], ledger'[i])]_vars

\* A payout over all pending rows of a range leaves no debt there: what is
\* still pending never adds up to less than zero ("a partial payout can never
\* leave a misleading zero/negative payable", AllocateSettlement).
PendingTotal(rows, p) ==
    Owed(rows, PendingOf(rows, p.worker, p.bucket, p.from, p.to))

NoDebtAfterPayout ==
    [][\A p \in Payout : p.rows = {} /\ AllocateSettlement(p)
            => PendingTotal(ledger', p) >= 0]_vars

\* Every step is one the abstract ledger allows: a payout appears together
\* with the rows it pays, an edit with its reversal and its audit record, and
\* nothing else moves money ("keeping the ledger totals and entry statuses
\* consistent", UpdateSettlement).
Promised == INSTANCE Payouts WITH ledger <- ledger, settlements <- settlements

ImplementsPayouts == Promised!Spec
=============================================================================
