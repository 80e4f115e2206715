-------------------------- MODULE MCAllocationLoop ---------------------------
(* Every ledger of up to three rows: deductions, empty and partly paid rows. *)
EXTENDS AllocationLoop

CONSTANT MaxRows

MCRow == {[amount |-> a, settled |-> s, date |-> d] :
             a \in -1 .. 2, s \in 0 .. 1, d \in 1 .. 2}

\* A partly paid row is a credit that still owes something.
MCLedger == UNION {[1 .. n -> {r \in MCRow : r.settled = 0 \/ r.settled < r.amount}] :
                      n \in 0 .. MaxRows}

MCRequested == 1 .. 5
=============================================================================
