----------------------------- MODULE Allocation ------------------------------
(***************************************************************************)
(* buildAllocations and its neighbours (repository.go): which ledger rows  *)
(* a payout settles, and by how much.  The two loops of the Go function    *)
(* are given in closed form: a credit row receives what the request still  *)
(* owes after every deduction was added to it and every credit sorted      *)
(* before the row was filled.  AllocationLoop holds the loops themselves,  *)
(* and checks that both agree.                                             *)
(*                                                                         *)
(* A ledger is a sequence of rows.  The position of a row is its id: ids   *)
(* are ObjectIDs created in insertion order, as created_at is.             *)
(***************************************************************************)
EXTENDS Sums, Sequences

Outstanding(row) == row.amount - row.settled

\* Sort order of the allocation query: amount, service date, creation.
Precedes(rows, i, j) ==
    \/ rows[i].amount < rows[j].amount
    \/ /\ rows[i].amount = rows[j].amount
       /\ \/ rows[i].date < rows[j].date
          \/ rows[i].date = rows[j].date /\ i < j

\* mutant of Deductions: the first loop is missing.
NoDeductions(rows, P) == {}

Deductions(rows, P) == {i \in P : Outstanding(rows[i]) < 0}
Credits(rows, P)    == {i \in P : Outstanding(rows[i]) > 0}

\* What the rows of S still owe (or deduct) in total.
Owed(rows, S) == SumTo([i \in S |-> Outstanding(rows[i])], Len(rows))

\* mutant of Payable: deductions are consumed without raising the remainder.
PayableUnraised(rows, P, requested) == requested

\* The positive amount to distribute: a deduction, consumed in full, raises it.
Payable(rows, P, requested) == requested - Owed(rows, Deductions(rows, P))

\* What is left of it when the second loop reaches row i.
Remaining(rows, P, requested, i) ==
    Payable(rows, P, requested)
        - Owed(rows, {j \in Credits(rows, P) : Precedes(rows, j, i)})

\* The share of every row; a row that is not allocated has share 0.
BuildAllocations(rows, P, requested) ==
    [i \in DOMAIN rows |->
        CASE i \in Deductions(rows, P) -> Outstanding(rows[i])
          [] i \in Credits(rows, P) /\ Remaining(rows, P, requested, i) > 0 ->
                Least(Outstanding(rows[i]), Remaining(rows, P, requested, i))
          [] OTHER -> 0]

\* Neither ErrNoPendingEarnings nor ErrSettlementExceedsPending.
CanAllocate(rows, P, requested) ==
    /\ P # {}
    /\ Payable(rows, P, requested) <= Owed(rows, Credits(rows, P))

\* mutant of AllocatedStatus: a full payment is taken for a partial one.
AlwaysPartial(amount, settled) == "partially_settled"

\* Status written by AllocateSettlement.
AllocatedStatus(amount, settled) ==
    IF settled = amount THEN "settled" ELSE "partially_settled"

\* settlementEntryStatus, used by UpdateSettlement.
EntryStatus(amount, settled) ==
    CASE settled = amount -> "settled"
      [] settled # amount /\ settled = 0 -> "open"
      [] OTHER -> "partially_settled"
=============================================================================
