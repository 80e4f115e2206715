--------------------------- MODULE AllocationLoop ----------------------------
(***************************************************************************)
(* The two loops of buildAllocations, one iteration per step, on a list of *)
(* rows in the order of the allocation query.  Allocation gives the shares *)
(* in closed form; here the loops compute them, and agree.                 *)
(***************************************************************************)
EXTENDS Allocation, FiniteSets

CONSTANTS
    Ledger,      \* ledgers to allocate from
    Requested    \* amounts to allocate

LedgerRow == [amount : Int, settled : Int, date : Int]

ASSUME LoopAssumption ==
    /\ Ledger \subseteq Seq(LedgerRow)
    /\ Requested \subseteq Nat

VARIABLES
    stored, found,   \* the ledger, and the ids the query returned
    asked,
    pc,              \* "find", "deductions", "credits" or "return"
    entries,         \* the ids in query order
    next,            \* position of the loop in entries
    remaining,
    allocations,     \* what the loops appended: [entry, amount]
    err

loopVars == <<stored, found, asked, pc, entries, next, remaining, allocations, err>>
inputs == <<stored, found, asked>>

Outcome == {"none", "ErrNoPendingEarnings", "ErrSettlementExceedsPending"}

-----------------------------------------------------------------------------
\* What the query returned, in its sort order.
InQueryOrder ==
    {s \in [1 .. Cardinality(found) -> found] :
        \A m, n \in DOMAIN s : m < n => Precedes(stored, s[m], s[n])}

\* The call: the entries arrive sorted; without any the function returns.
Find ==
    /\ pc = "find"
    /\ entries' \in InQueryOrder
    /\ IF found = {}
         THEN pc' = "return" /\ err' = "ErrNoPendingEarnings"
         ELSE pc' = "deductions" /\ UNCHANGED err
    /\ remaining' = asked
    /\ UNCHANGED <<inputs, next, allocations>>

Current == entries[next]

AppendShare(amount) ==
    /\ allocations' = Append(allocations, [entry |-> Current, amount |-> amount])
    /\ remaining' = remaining - amount

SkipInFirstLoop(outstanding) == outstanding >= 0

\* An iteration of the first loop: a deduction is consumed in full.
ConsumeDeduction ==
    /\ pc = "deductions" /\ next <= Len(entries)
    /\ LET outstanding == Outstanding(stored[Current])
       IN  IF SkipInFirstLoop(outstanding)
             THEN UNCHANGED <<allocations, remaining>>
             ELSE AppendShare(outstanding)
    /\ next' = next + 1
    /\ UNCHANGED <<inputs, pc, entries, err>>

SecondLoop ==
    /\ pc = "deductions" /\ next > Len(entries)
    /\ pc' = "credits" /\ next' = 1
    /\ UNCHANGED <<inputs, entries, remaining, allocations, err>>

SkipInSecondLoop(outstanding) == outstanding <= 0 \/ remaining = 0

\* An iteration of the second loop: a credit receives what remains, at most.
FillCredit ==
    /\ pc = "credits" /\ next <= Len(entries)
    /\ LET outstanding == Outstanding(stored[Current])
       IN  IF SkipInSecondLoop(outstanding)
             THEN UNCHANGED <<allocations, remaining>>
             ELSE AppendShare(Least(outstanding, remaining))
    /\ next' = next + 1
    /\ UNCHANGED <<inputs, pc, entries, err>>

\* mutant of Result: only an overshoot is refused.
ResultUnchecked == IF remaining < 0 THEN "ErrSettlementExceedsPending" ELSE "none"

Result == IF remaining # 0 THEN "ErrSettlementExceedsPending" ELSE "none"

Return ==
    /\ pc = "credits" /\ next > Len(entries)
    /\ pc' = "return" /\ err' = Result
    /\ UNCHANGED <<inputs, entries, next, remaining, allocations>>

LoopInit ==
    /\ stored \in Ledger
    /\ found \in SUBSET DOMAIN stored
    /\ asked \in Requested
    /\ pc = "find" /\ entries = <<>> /\ next = 1
    /\ remaining = 0 /\ allocations = <<>> /\ err = "none"

LoopNext == Find \/ ConsumeDeduction \/ SecondLoop \/ FillCredit \/ Return

LoopSpec == LoopInit /\ [][LoopNext]_loopVars

-----------------------------------------------------------------------------
(* Properties *)

\* Types; no share of zero is ever recorded.
LoopTypeOK ==
    /\ pc \in {"find", "deductions", "credits", "return"}
    /\ entries \in Seq(found)
    /\ next \in 1 .. Len(stored) + 1
    /\ remaining \in Int
    /\ \A n \in DOMAIN allocations :
          allocations[n].entry \in found /\ allocations[n].amount \in Int \ {0}
    /\ err \in Outcome

\* What the loops appended for a row.
Appended(i) ==
    SumTo([n \in DOMAIN allocations |->
             IF allocations[n].entry = i THEN allocations[n].amount ELSE 0],
          Len(allocations))

\* buildAllocations fails exactly when the closed form says so, and what it
\* returns otherwise are the shares of the closed form.
AgreesWithClosedForm ==
    pc = "return" =>
        /\ err = "none" <=> CanAllocate(stored, found, asked)
        /\ err = "none" => \A i \in DOMAIN stored :
               Appended(i) = BuildAllocations(stored, found, asked)[i]

=============================================================================
