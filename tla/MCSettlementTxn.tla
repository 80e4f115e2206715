--------------------------- MODULE MCSettlementTxn ---------------------------
(***************************************************************************)
(* Two requests at once for TLC: one worker with an order that can change, *)
(* a second order and a deduction; a payout over everything, one under the *)
(* same key and one under another; edits of what they created.             *)
(***************************************************************************)
EXTENDS SettlementTxn, TLC

CONSTANTS w1, w2, commission

MCLedgerKey == {"order1", "order2", "deduction"}
MCPayoutKey == {"pay1", "pay2"}
MCWorker == {w1, w2}
MCBucket == {commission}

Source(key, worker, amount) ==
    [key |-> key, worker |-> worker, bucket |-> commission, date |-> 1,
     amount |-> amount, paid |-> FALSE]

MCSourceEntry ==
    {Source("order1", w1, 2), Source("order1", w2, 2), Source("order2", w1, 2)}

MCAdjustment ==
    {[key |-> "deduction", worker |-> w1, bucket |-> commission, date |-> 1,
      amount |-> -1]}

Request(key, amount, rows) ==
    [key |-> key, worker |-> w1, bucket |-> commission, from |-> 1, to |-> 1,
     amount |-> amount, rows |-> rows]

MCPayout ==
    {Request("pay1", 2, {}), Request("pay2", 1, {2})}

MCEditAmount == {1, 2}

Symmetric == Permutations(Session)
=============================================================================
