------------------------------- MODULE Payouts -------------------------------
(***************************************************************************)
(* What the ledger promises about payouts, whatever carries them out: every *)
(* step pays a settlement, edits one, or projects a single row, and nothing *)
(* else ever happens to the two collections.  Settlements implements this  *)
(* with atomic operations, SettlementTxn with transactions that read,      *)
(* conflict and retry.                                                     *)
(***************************************************************************)
EXTENDS Sums, Sequences

VARIABLES ledger, settlements

\* Row i of rows can be paid share for settlement s: within its scope, a
\* deduction consumed in full, a credit not beyond what is outstanding.
Payable(row, s, share) ==
    /\ row.worker = s.worker /\ row.bucket = s.bucket
    /\ s.from <= row.date /\ row.date <= s.to
    /\ LET outstanding == row.amount - row.settled
       IN  share = outstanding \/ (0 < share /\ share < outstanding)

\* The shares of s are payable from rows and add up to its amount.
Covers(rows, s) ==
    /\ Len(s.allocations) <= Len(rows)
    /\ SumTo(s.allocations, Len(rows)) = s.amount
    /\ \A i \in DOMAIN rows :
          At(s.allocations, i) # 0 => Payable(rows[i], s, At(s.allocations, i))

StatusOf(amount, settled) ==
    CASE settled = amount -> "settled"
      [] settled # amount /\ settled = 0 -> "open"
      [] OTHER -> "partially_settled"

\* rows with the shares settled, or taken back (sign = -1).
Moved(rows, shares, sign) ==
    [i \in DOMAIN rows |->
        LET settled == rows[i].settled + sign * At(shares, i)
        IN  IF At(shares, i) = 0
              THEN rows[i]
              ELSE [rows[i] EXCEPT !.settled = settled,
                                   !.status = StatusOf(rows[i].amount, settled)]]

\* A settlement with a new key appears together with what it pays.
Pay ==
    /\ Len(settlements') = Len(settlements) + 1
    /\ LET s == settlements'[Len(settlements')]
       IN  /\ settlements' = Append(settlements, s)
           /\ \A k \in DOMAIN settlements : settlements[k].key # s.key
           /\ s.revisions = <<>>
           /\ Covers(ledger, s)
           /\ ledger' = Moved(ledger, s.allocations, 1)

\* An edit replaces the amount and the shares, and records what it replaced.
Edit ==
    \E k \in DOMAIN settlements :
        LET old      == settlements[k]
            new      == settlements'[k]
            reversed == Moved(ledger, old.allocations, -1)
        IN  /\ settlements' =
                  [settlements EXCEPT ![k] =
                      [old EXCEPT !.amount = new.amount,
                                  !.allocations = new.allocations,
                                  !.revisions = Append(@,
                                      [amount |-> old.amount,
                                       allocations |-> old.allocations])]]
            /\ \/ /\ new.amount = old.amount
                  /\ new.allocations = old.allocations
                  /\ UNCHANGED ledger
               \/ /\ new.amount # old.amount
                  /\ Covers(reversed, new)
                  /\ ledger' = Moved(reversed, new.allocations, 1)

\* A new row has a new key; a row is rewritten only while nothing is paid.
Project ==
    /\ UNCHANGED settlements
    /\ \/ /\ Len(ledger') = Len(ledger) + 1
          /\ LET row == ledger'[Len(ledger')]
             IN  /\ ledger' = Append(ledger, row)
                 /\ \A i \in DOMAIN ledger : ledger[i].key # row.key
       \/ \E i \in DOMAIN ledger :
             /\ ledger[i].settled = 0 /\ ledger[i].status = "open"
             /\ ledger' = [ledger EXCEPT ![i] = ledger'[i]]
             /\ ledger'[i].key = ledger[i].key

Init == ledger = <<>> /\ settlements = <<>>

Next == Pay \/ Edit \/ Project

Spec == Init /\ [][Next]_<<ledger, settlements>>
=============================================================================
