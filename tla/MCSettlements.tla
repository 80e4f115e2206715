---------------------------- MODULE MCSettlements ----------------------------
(***************************************************************************)
(* A small office for TLC: two sources of one worker, one of which can     *)
(* change amount, move to another worker or date, or arrive already paid;  *)
(* a deduction; and two payouts over different ranges.                     *)
(***************************************************************************)
EXTENDS Settlements

CONSTANTS w1, w2, commission

MCLedgerKey == {"order1", "order2", "deduction"}
MCPayoutKey == {"pay1", "pay2"}
MCWorker == {w1, w2}
MCBucket == {commission}

Source(key, worker, date, amount, paid) ==
    [key |-> key, worker |-> worker, bucket |-> commission, date |-> date,
     amount |-> amount, paid |-> paid]

MCSourceEntry ==
    {Source("order1", w1, 1, 2, FALSE), Source("order1", w1, 2, 3, FALSE),
     Source("order1", w2, 1, 2, FALSE), Source("order1", w1, 1, 2, TRUE),
     Source("order2", w1, 1, 3, FALSE)}

MCAdjustment ==
    {[key |-> "deduction", worker |-> w1, bucket |-> commission, date |-> 1,
      amount |-> -1]}

Request(key, from, to, amount, rows) ==
    [key |-> key, worker |-> w1, bucket |-> commission, from |-> from, to |-> to,
     amount |-> amount, rows |-> rows]

MCPayout ==
    {Request("pay1", 1, 1, amount, {}) : amount \in 1 .. 4}
        \cup {Request("pay2", 1, 2, amount, {}) : amount \in 1 .. 4}
        \cup {Request("pay2", 1, 2, amount, rows) :
                 amount \in 1 .. 3, rows \in {{1}, {2}, {1, 3}}}

MCEditAmount == 1 .. 4
=============================================================================
