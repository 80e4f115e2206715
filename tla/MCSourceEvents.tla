--------------------------- MODULE MCSourceEvents ----------------------------
(***************************************************************************)
(* A month of four days for TLC.  Two orders, served on the first and the  *)
(* second day, reach both targets together, and the first changes once; a  *)
(* trip of the second day needs no other source.  The configurations       *)
(* choose the sources and the partitions.                                  *)
(***************************************************************************)
EXTENDS SourceEvents

CONSTANTS order1, order2, trip, p1, p2

State(date, own, general, cost) ==
    [date |-> date, eligible |-> TRUE, paid |-> FALSE,
     own |-> own, general |-> general, cost |-> cost]

\* The first order gets more expensive, and its commission with it.
MCHistory ==
    [s \in Source |->
        CASE s = order1 -> <<State(1, 1, 1, 1), State(1, 2, 2, 2)>>
          [] s = order2 -> <<State(2, 0, 1, 1)>>
          [] s = trip -> <<State(2, 3, 0, 0)>>]

MCOnePartition == [s \in Source |-> p1]
MCTwoPartitions == [s \in Source |-> IF s = order1 THEN p1 ELSE p2]

Days(from, to) == [from |-> from, to |-> to]
MCSecondDay == {Days(2, 2)}
MCBothDays == {Days(1, 2)}
MCNoDays == {}
=============================================================================
