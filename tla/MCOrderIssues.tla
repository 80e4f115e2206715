---------------------------- MODULE MCOrderIssues ----------------------------
(***************************************************************************)
(* One order for TLC: charges of 10 and a tip of 4, served on the first    *)
(* day.  At first some of its total of 14 is paid, or nothing is recorded  *)
(* and its commission cannot be attributed.  Then payments exceed the      *)
(* total or complete it with the tip apart, the total turns out to be      *)
(* without the tip or gets lost, and the order is moved to the next day or *)
(* deleted.                                                                *)
(***************************************************************************)
EXTENDS OrderIssues

CONSTANTS order1, c1, c2

Entry(label, amount) == [label |-> label, amount |-> amount, issue |-> NoIssue]

Underpaid ==
    [date |-> 1, scannable |-> TRUE, beautician |-> "active", snapshot |-> "valid",
     base |-> 10, tip |-> 4, total |-> 14, paid |-> 0,
     history |-> <<Entry("payment", 6), Entry("refund", 3)>>]

Legacy == [Underpaid EXCEPT !.beautician = "deleted", !.snapshot = "invalid", !.history = <<>>]

MCInitialOrders == [Order -> {Underpaid, Legacy}]

MCUnderpaid == [Order -> {Underpaid}]

MCRevisions ==
    {[date |-> 2], [scannable |-> FALSE], [total |-> 10],
     [total |-> NoTotal, beautician |-> "none", snapshot |-> "none"]}

MCPayments == {Entry("payment", 12), Entry("tip", 4)}

MCNothing == {}

MCRanges == {[from |-> 1, to |-> 1], [from |-> 1, to |-> 2]}

Symmetry == Permutations(Client)
=============================================================================
