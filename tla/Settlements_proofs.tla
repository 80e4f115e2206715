------------------------- MODULE Settlements_proofs --------------------------
(***************************************************************************)
(* The safety of the payout operations, for every set of sources, payouts  *)
(* and edits.                                                              *)
(*                                                                         *)
(* Good(rows, setts) says that a ledger and a list of settlements agree.   *)
(* An allocation and a reversal each keep it (ReverseGood, AddGood), so    *)
(* an edit, which reverses and then allocates in one transaction, does.    *)
(*                                                                         *)
(* The second part is about SettlementTxn, where the operations are many   *)
(* steps.  TxnInv adds what an open transaction knows: its snapshot is     *)
(* still the ledger but for the rows it was told of, it updates none of    *)
(* those, and the shares it stores were handed out over that snapshot.  So *)
(* its commit is the operation on the ledger as it is by then, and the     *)
(* lemmas of the first part (PayStep, EditStep, PayPromised, EditPromised) *)
(* apply.                                                                  *)
(*                                                                         *)
(* At the end stand the two loops of buildAllocations (AllocationLoop).    *)
(***************************************************************************)
EXTENDS SettlementTxn, AllocationLoop, Allocation_proofs, FiniteSetTheorems

\* A share consumes a deduction in full, or part or all of a credit.
Fits(share, amount) ==
    \/ amount < 0 /\ share = amount
    \/ 0 < share /\ share <= amount

\* A ledger and the settlements paid from it agree: types, consistent rows,
\* shares in scope and of the right sign, and conservation.
Good(rows, setts) ==
    /\ rows \in Seq(Row)
    /\ setts \in Seq(Settlement)
    /\ \A k \in DOMAIN setts : Len(setts[k].allocations) <= Len(rows)
    /\ \A i \in DOMAIN rows : RowConsistent(rows[i])
    /\ \A k \in DOMAIN setts : \A i \in DOMAIN rows :
          Share(setts, k, i) # 0 =>
             InScope(rows[i], setts[k]) /\ Fits(Share(setts, k, i), rows[i].amount)
    /\ \A i \in DOMAIN rows : Conserved(rows[i], PaidOn(setts, i))

-----------------------------------------------------------------------------
(* Shares and what is paid on a row *)

\* A settlement's shares are integers, and zero beyond its allocations.
LEMMA ShareInt ==
    ASSUME NEW setts \in Seq(Settlement), NEW k \in DOMAIN setts, NEW i
    PROVE  Share(setts, k, i) \in Int
<1>0. setts[k] \in Settlement
  OBVIOUS
<1>1. setts[k].allocations \in Seq(Int)
  BY <1>0 DEF Settlement
<1>2. Additive(setts[k].allocations)
  BY <1>1 DEF Additive
<1> QED
  BY <1>2, AtInt DEF Share

\* The list PaidOn totals.
SharesOf(setts, i) == [k \in DOMAIN setts |-> Share(setts, k, i)]

\* PaidOn totals the shares of row i, which are integers.
LEMMA SharesOfFacts ==
    ASSUME NEW setts \in Seq(Settlement), NEW i
    PROVE  /\ Additive(SharesOf(setts, i))
           /\ \A k \in 1 .. Len(setts) : At(SharesOf(setts, i), k) = Share(setts, k, i)
           /\ PaidOn(setts, i) = SumTo(SharesOf(setts, i), Len(setts))
           /\ PaidOn(setts, i) \in Int
<1>1. DOMAIN setts = 1 .. Len(setts) /\ Len(setts) \in Nat
  OBVIOUS
<1>2. Additive(SharesOf(setts, i))
  BY ShareInt DEF Additive, SharesOf
<1>3. \A k \in 1 .. Len(setts) : At(SharesOf(setts, i), k) = Share(setts, k, i)
  BY <1>1 DEF At, SharesOf
<1>4. PaidOn(setts, i) = SumTo(SharesOf(setts, i), Len(setts))
  BY DEF PaidOn, SharesOf
<1> QED
  BY <1>1, <1>2, <1>3, <1>4, SumToRec

\* Only settlement k changed: the paid total changes by the difference.
LEMMA PaidOnChange ==
    ASSUME NEW setts \in Seq(Settlement), NEW new \in Seq(Settlement),
           Len(new) = Len(setts), NEW k \in DOMAIN setts, NEW i,
           \A j \in DOMAIN setts : j # k => new[j] = setts[j]
    PROVE  PaidOn(new, i) = PaidOn(setts, i) - Share(setts, k, i) + Share(new, k, i)
<1>1. DOMAIN setts = 1 .. Len(setts) /\ DOMAIN new = 1 .. Len(setts) /\ Len(setts) \in Nat
  OBVIOUS
<1> DEFINE F == SharesOf(setts, i)
           G == SharesOf(new, i)
<1>2. \A j \in 1 .. Len(setts) : j # k => At(G, j) = At(F, j)
  BY <1>1, SharesOfFacts DEF Share
<1>3. Additive(F) /\ Additive(G)
  BY SharesOfFacts
<1> HIDE DEF F, G
<1>4. SumTo(G, Len(setts)) = SumTo(F, Len(setts)) - At(F, k) + At(G, k)
  BY <1>1, <1>2, <1>3, SumToChange
<1> QED
  BY <1>1, <1>4, SharesOfFacts DEF F, G

\* A new settlement adds its share.
LEMMA PaidOnAppend ==
    ASSUME NEW setts \in Seq(Settlement), NEW s \in Settlement, NEW i
    PROVE  PaidOn(Append(setts, s), i) = PaidOn(setts, i) + At(s.allocations, i)
<1> DEFINE new == Append(setts, s)
           n == Len(setts)
           F == SharesOf(setts, i)
           G == SharesOf(new, i)
<1>1. /\ new \in Seq(Settlement) /\ n \in Nat /\ Len(new) = n + 1
      /\ DOMAIN setts = 1 .. n /\ DOMAIN new = 1 .. n + 1
      /\ new[n + 1] = s /\ \A j \in 1 .. n : new[j] = setts[j]
  OBVIOUS
<1> HIDE DEF new, n
<1>0. /\ \A j \in 1 .. n + 1 : At(G, j) = Share(new, j, i)
      /\ \A j \in 1 .. n : At(F, j) = Share(setts, j, i)
  <2>1. /\ \A j \in 1 .. Len(new) : At(SharesOf(new, i), j) = Share(new, j, i)
        /\ \A j \in 1 .. Len(setts) : At(SharesOf(setts, i), j) = Share(setts, j, i)
    BY <1>1, SharesOfFacts
  <2> QED
    BY <1>1, <2>1 DEF n
<1>2. \A j \in 1 .. n : At(G, j) = At(F, j)
  <2>1. \A j \in 1 .. n : j \in 1 .. n + 1
    BY <1>1
  <2> QED
    BY <1>0, <1>1, <2>1 DEF Share
<1>3. At(G, n + 1) = At(s.allocations, i)
  <2>1. n + 1 \in 1 .. n + 1
    BY <1>1
  <2> QED
    BY <1>0, <1>1, <2>1 DEF Share
<1>4. Additive(F) /\ Additive(G)
  BY <1>1, SharesOfFacts
<1>5. PaidOn(new, i) = SumTo(G, n + 1) /\ PaidOn(setts, i) = SumTo(F, n)
  BY <1>1, SharesOfFacts DEF n
<1> HIDE DEF F, G
<1>6. SumTo(G, n) = SumTo(F, n)
  BY <1>1, <1>2, <1>4, SumToSame
<1>7. SumTo(G, n + 1) = SumTo(G, n) + At(G, n + 1)
  BY <1>1, <1>4, SumToRec
<1> QED
  BY <1>3, <1>5, <1>6, <1>7 DEF new

-----------------------------------------------------------------------------
(* What buildAllocations returns *)

\* What rows owe is an integer.
LEMMA OwedInt ==
    ASSUME NEW rows \in Seq(Row), NEW S \in SUBSET DOMAIN rows
    PROVE  Owed(rows, S) \in Int
<1> DEFINE F == [i \in S |-> Outstanding(rows[i])]
<1>1. ASSUME NEW i \in S PROVE Outstanding(rows[i]) \in Int
  <2>1. rows[i] \in Row
    OBVIOUS
  <2> QED
    BY <2>1 DEF Row, Outstanding
<1>2. Additive(F)
  BY <1>1 DEF Additive
<1>3. Len(rows) \in Nat
  OBVIOUS
<1> HIDE DEF F
<1>4. SumTo(F, Len(rows)) \in Int
  BY <1>2, <1>3, SumToRec
<1> QED
  BY <1>4 DEF Owed, F

\* Only rows of P receive a share; a deduction its whole outstanding amount, a
\* credit a positive part of it.
SharesOut(rows, P, allocs) ==
    /\ allocs \in Seq(Int)
    /\ Len(allocs) <= Len(rows)
    /\ \A i \in DOMAIN rows : At(allocs, i) # 0 =>
          /\ i \in P
          /\ \/ Outstanding(rows[i]) < 0 /\ At(allocs, i) = Outstanding(rows[i])
             \/ 0 < At(allocs, i) /\ At(allocs, i) <= Outstanding(rows[i])

\* BuildAllocations hands out shares in that way.
LEMMA BuildAllocationsFacts ==
    ASSUME NEW rows \in Seq(Row), NEW P \in SUBSET DOMAIN rows, NEW requested \in Int
    PROVE  SharesOut(rows, P, BuildAllocations(rows, P, requested))
<1> DEFINE allocs == BuildAllocations(rows, P, requested)
<1>1. DOMAIN rows = 1 .. Len(rows) /\ Len(rows) \in Nat
  OBVIOUS
<1>2. ASSUME NEW i \in DOMAIN rows PROVE Outstanding(rows[i]) \in Int
  <2>1. rows[i] \in Row
    OBVIOUS
  <2> QED
    BY <2>1 DEF Row, Outstanding
<1>3. ASSUME NEW i \in DOMAIN rows PROVE Remaining(rows, P, requested, i) \in Int
  <2>1. Deductions(rows, P) \in SUBSET DOMAIN rows
    BY DEF Deductions
  <2>2. {j \in Credits(rows, P) : Precedes(rows, j, i)} \in SUBSET DOMAIN rows
    BY DEF Credits
  <2>3. Owed(rows, Deductions(rows, P)) \in Int
    BY <2>1, OwedInt
  <2>4. Owed(rows, {j \in Credits(rows, P) : Precedes(rows, j, i)}) \in Int
    BY <2>2, OwedInt
  <2> QED
    BY <2>3, <2>4 DEF Remaining, Payable
<1>4. ASSUME NEW i \in DOMAIN rows
      PROVE  /\ allocs[i] \in Int
             /\ allocs[i] # 0 =>
                   /\ i \in P
                   /\ \/ Outstanding(rows[i]) < 0 /\ allocs[i] = Outstanding(rows[i])
                      \/ 0 < allocs[i] /\ allocs[i] <= Outstanding(rows[i])
  <2>1. CASE i \in Deductions(rows, P)
    <3>1. i \in P /\ Outstanding(rows[i]) < 0 /\ i \notin Credits(rows, P)
      BY <1>2, <2>1 DEF Deductions, Credits
    <3>2. allocs[i] = Outstanding(rows[i])
      BY <2>1, <3>1 DEF BuildAllocations
    <3> QED
      BY <1>2, <3>1, <3>2
  <2>2. CASE i \in Credits(rows, P) /\ Remaining(rows, P, requested, i) > 0
    <3>1. Outstanding(rows[i]) > 0 /\ i \in P /\ i \notin Deductions(rows, P)
      BY <1>2, <2>2 DEF Credits, Deductions
    <3>2. allocs[i] = Least(Outstanding(rows[i]), Remaining(rows, P, requested, i))
      BY <2>2, <3>1 DEF BuildAllocations
    <3> QED
      BY <1>2, <1>3, <2>2, <3>1, <3>2 DEF Least
  <2>3. CASE /\ i \notin Deductions(rows, P)
             /\ ~ (i \in Credits(rows, P) /\ Remaining(rows, P, requested, i) > 0)
    BY <2>3 DEF BuildAllocations
  <2> QED
    BY <2>1, <2>2, <2>3
<1>5. DOMAIN allocs = DOMAIN rows
  BY DEF BuildAllocations
<1>6. allocs \in [1 .. Len(rows) -> Int]
  BY <1>1, <1>4, <1>5 DEF BuildAllocations
<1>7. allocs \in Seq(Int) /\ Len(allocs) = Len(rows)
  BY <1>1, <1>6
<1>8. \A i \in DOMAIN rows : At(allocs, i) = allocs[i]
  BY <1>5 DEF At
<1> QED
  BY <1>4, <1>7, <1>8 DEF SharesOut

-----------------------------------------------------------------------------
(* Reversal and allocation keep a ledger and its settlements in agreement *)

\* The types of one row of a ledger.
LEMMA RowTyped ==
    ASSUME NEW rows \in Seq(Row), NEW i \in DOMAIN rows
    PROVE  /\ rows[i] \in Row
           /\ rows[i].amount \in Int /\ rows[i].settled \in Int
           /\ rows[i].status \in Status
           /\ rows[i].date \in Nat
<1>1. rows[i] \in Row
  OBVIOUS
<1> QED
  BY <1>1 DEF Row

\* Writing a row's settled amount and status changes nothing else.
LEMMA RowUpdate ==
    ASSUME NEW r \in Row, NEW settled \in Int, NEW status \in Status
    PROVE  LET u == SetSettled(r, settled, status)
           IN  /\ u \in Row
               /\ u.settled = settled /\ u.status = status
               /\ u.key = r.key /\ u.worker = r.worker /\ u.bucket = r.bucket
               /\ u.date = r.date /\ u.amount = r.amount
BY DEF Row, SetSettled

\* A row with a share is paid by settlements only, and by at least that share;
\* a deduction has been consumed in full.
LEMMA SharedRow ==
    ASSUME NEW rows, NEW setts, Good(rows, setts),
           NEW k \in DOMAIN setts, NEW i \in DOMAIN rows, Share(setts, k, i) # 0
    PROVE  /\ rows[i].settled = PaidOn(setts, i)
           /\ rows[i].settled # 0
           /\ \/ /\ rows[i].amount < 0
                 /\ rows[i].settled = rows[i].amount
                 /\ Share(setts, k, i) = rows[i].amount
              \/ /\ 0 < Share(setts, k, i)
                 /\ Share(setts, k, i) <= rows[i].settled
                 /\ rows[i].settled <= rows[i].amount
<1> DEFINE F == SharesOf(setts, i)
           n == Len(setts)
           r == rows[i]
           x == Share(setts, k, i)
<1>1. rows \in Seq(Row) /\ setts \in Seq(Settlement) /\ n \in Nat /\ DOMAIN setts = 1 .. n
  BY DEF Good
<1>2. r.amount \in Int /\ r.settled \in Int /\ r.status \in Status
  BY <1>1, RowTyped
<1>3. \A j \in 1 .. n : Share(setts, j, i) \in Int
  BY <1>1, ShareInt
<1>4. RowConsistent(r) /\ Conserved(r, PaidOn(setts, i))
  BY DEF Good
<1>5. \A j \in 1 .. n : Share(setts, j, i) # 0 => Fits(Share(setts, j, i), r.amount)
  BY <1>1 DEF Good
<1>6. /\ Additive(F) /\ PaidOn(setts, i) = SumTo(F, n) /\ PaidOn(setts, i) \in Int
      /\ \A j \in 1 .. n : At(F, j) = Share(setts, j, i)
  BY <1>1, SharesOfFacts
<1> HIDE DEF F, n
<1>7. CASE r.amount < 0
  <2>1. \A j \in 1 .. n : At(F, j) <= 0
    BY <1>2, <1>3, <1>5, <1>6, <1>7 DEF Fits
  <2>2. PaidOn(setts, i) <= x
    BY <1>1, <1>6, <2>1, SumToNegative
  <2>3. x = r.amount
    BY <1>1, <1>2, <1>3, <1>5, <1>7 DEF Fits
  <2>4. r.settled = PaidOn(setts, i) /\ r.settled < 0
    BY <1>2, <1>4, <1>6, <1>7, <2>2, <2>3 DEF Conserved
  <2>5. r.settled = r.amount
    BY <1>2, <1>4, <1>7, <2>4 DEF RowConsistent, Status
  <2> QED
    BY <1>7, <2>3, <2>4, <2>5
<1>8. CASE r.amount >= 0
  <2>1. \A j \in 1 .. n : At(F, j) >= 0
    BY <1>2, <1>3, <1>5, <1>6, <1>8 DEF Fits
  <2>2. x <= PaidOn(setts, i)
    BY <1>1, <1>6, <2>1, SumToPositive
  <2>3. 0 < x /\ x <= r.amount
    BY <1>1, <1>2, <1>3, <1>5, <1>8 DEF Fits
  <2>4. r.settled = PaidOn(setts, i) /\ x <= r.settled /\ r.settled > 0
    BY <1>1, <1>2, <1>3, <1>4, <1>6, <2>2, <2>3 DEF Conserved
  <2>5. r.settled <= r.amount
    BY <1>2, <1>4, <2>4 DEF RowConsistent, Status
  <2> QED
    BY <2>3, <2>4, <2>5
<1> QED
  BY <1>2, <1>7, <1>8

\* Both settlements pay the same worker, bucket and range.
SameScope(s, t) ==
    s.worker = t.worker /\ s.bucket = t.bucket /\ s.from = t.from /\ s.to = t.to

\* Reversing the shares of a settlement, and emptying it, keeps agreement.
LEMMA ReverseGood ==
    ASSUME NEW rows, NEW setts, Good(rows, setts), NEW k \in DOMAIN setts,
           NEW s \in Settlement, SameScope(s, setts[k]), s.allocations = <<>>
    PROVE  Good(ReverseAllocations(rows, setts[k].allocations), [setts EXCEPT ![k] = s])
<1> DEFINE allocs == setts[k].allocations
           back == ReverseAllocations(rows, allocs)
           new == [setts EXCEPT ![k] = s]
<1>1. rows \in Seq(Row) /\ setts \in Seq(Settlement)
  BY DEF Good
<1>2. /\ DOMAIN rows = 1 .. Len(rows) /\ Len(rows) \in Nat
      /\ DOMAIN setts = 1 .. Len(setts) /\ Len(setts) \in Nat
  BY <1>1
<1>3. /\ new \in Seq(Settlement) /\ Len(new) = Len(setts) /\ DOMAIN new = DOMAIN setts
      /\ new[k] = s /\ \A j \in DOMAIN setts : j # k => new[j] = setts[j]
  BY <1>1
<1> HIDE DEF new
<1>4. \A i : Share(new, k, i) = 0
  BY <1>3 DEF Share, At
<1>5. \A i : \A j \in DOMAIN setts : j # k => Share(new, j, i) = Share(setts, j, i)
  BY <1>3 DEF Share
<1>6. ASSUME NEW i
      PROVE  PaidOn(new, i) = PaidOn(setts, i) - Share(setts, k, i)
  <2>1. PaidOn(new, i) = PaidOn(setts, i) - Share(setts, k, i) + Share(new, k, i)
    BY <1>1, <1>3, PaidOnChange
  <2>2. PaidOn(setts, i) \in Int /\ Share(setts, k, i) \in Int
    BY <1>1, SharesOfFacts, ShareInt
  <2> QED
    BY <1>4, <2>1, <2>2
<1>7. ASSUME NEW i \in DOMAIN rows
      PROVE  /\ back[i] \in Row
             /\ RowConsistent(back[i])
             /\ Conserved(back[i], PaidOn(new, i))
             /\ back[i].worker = rows[i].worker /\ back[i].bucket = rows[i].bucket
             /\ back[i].date = rows[i].date /\ back[i].amount = rows[i].amount
  <2> DEFINE r == rows[i]
             x == Share(setts, k, i)
  <2>1. r \in Row /\ r.amount \in Int /\ r.settled \in Int /\ r.status \in Status
    BY <1>1, RowTyped
  <2>2. RowConsistent(r) /\ Conserved(r, PaidOn(setts, i))
    BY DEF Good
  <2>3. x \in Int /\ x = At(allocs, i)
    BY <1>1, ShareInt DEF Share
  <2>4. CASE x = 0
    <3>1. back[i] = r
      BY <2>3, <2>4 DEF ReverseAllocations
    <3>2. PaidOn(new, i) = PaidOn(setts, i)
      <4>1. PaidOn(setts, i) \in Int
        BY <1>1, SharesOfFacts
      <4> QED
        BY <1>6, <2>4, <4>1
    <3> QED
      BY <2>1, <2>2, <3>1, <3>2
  <2>5. CASE x # 0
    <3>1. back[i] = SetSettled(r, r.settled - x, EntryStatus(r.amount, r.settled - x))
      BY <2>3, <2>5 DEF ReverseAllocations
    <3>2. /\ r.settled = PaidOn(setts, i)
          /\ \/ r.amount < 0 /\ r.settled = r.amount /\ x = r.amount
             \/ 0 < x /\ x <= r.settled /\ r.settled <= r.amount
      BY <2>5, SharedRow
    <3>3. EntryStatus(r.amount, r.settled - x)
            = IF r.settled - x = 0 THEN "open" ELSE "partially_settled"
      BY <2>1, <2>3, <3>2 DEF EntryStatus
    <3>4. /\ back[i] \in Row
          /\ back[i].settled = r.settled - x
          /\ back[i].status = IF r.settled - x = 0 THEN "open" ELSE "partially_settled"
          /\ back[i].amount = r.amount /\ back[i].worker = r.worker
          /\ back[i].bucket = r.bucket /\ back[i].date = r.date
      <4>1. r.settled - x \in Int /\ EntryStatus(r.amount, r.settled - x) \in Status
        BY <2>1, <2>3, <3>3 DEF Status
      <4> QED
        BY <2>1, <3>1, <3>3, <4>1, RowUpdate
    <3>5. RowConsistent(back[i])
      BY <2>1, <2>3, <3>2, <3>4 DEF RowConsistent
    <3>6. Conserved(back[i], PaidOn(new, i))
      BY <1>6, <3>2, <3>4 DEF Conserved
    <3> QED
      BY <3>4, <3>5, <3>6
  <2> QED
    BY <2>4, <2>5
<1>8. DOMAIN back = DOMAIN rows
  BY DEF ReverseAllocations
<1>9. back \in Seq(Row) /\ Len(back) = Len(rows)
  <2>1. back \in [1 .. Len(rows) -> Row]
    BY <1>2, <1>7, <1>8 DEF ReverseAllocations
  <2> QED
    BY <1>2, <2>1
<1>10. \A j \in DOMAIN new : Len(new[j].allocations) <= Len(back)
  BY <1>2, <1>3, <1>9 DEF Good
<1>11. ASSUME NEW j \in DOMAIN new, NEW i \in DOMAIN back, Share(new, j, i) # 0
       PROVE  InScope(back[i], new[j]) /\ Fits(Share(new, j, i), back[i].amount)
  <2>1. j # k /\ j \in DOMAIN setts /\ i \in DOMAIN rows
    BY <1>3, <1>4, <1>8, <1>11
  <2>2. new[j] = setts[j] /\ Share(new, j, i) = Share(setts, j, i)
    BY <1>3, <1>5, <2>1
  <2>3. InScope(rows[i], setts[j]) /\ Fits(Share(setts, j, i), rows[i].amount)
    BY <1>11, <2>1, <2>2 DEF Good
  <2> QED
    BY <1>7, <2>1, <2>2, <2>3 DEF InScope
<1> HIDE DEF back
<1>12. Good(back, new)
  BY <1>3, <1>7, <1>8, <1>9, <1>10, <1>11 DEF Good
<1> QED
  BY <1>12 DEF back, new

\* A settlement without shares changes nothing that is paid.
LEMMA AppendGood ==
    ASSUME NEW rows, NEW setts, Good(rows, setts),
           NEW s \in Settlement, s.allocations = <<>>
    PROVE  Good(rows, Append(setts, s))
<1> DEFINE new == Append(setts, s)
           n == Len(setts)
<1>1. rows \in Seq(Row) /\ setts \in Seq(Settlement) /\ Len(rows) \in Nat
  BY DEF Good
<1>2. /\ new \in Seq(Settlement) /\ n \in Nat /\ DOMAIN setts = 1 .. n
      /\ DOMAIN new = 1 .. n + 1 /\ new[n + 1] = s
      /\ \A j \in 1 .. n : new[j] = setts[j]
  BY <1>1
<1> HIDE DEF new, n
<1>3. \A i : Share(new, n + 1, i) = 0 /\ \A j \in 1 .. n : Share(new, j, i) = Share(setts, j, i)
  BY <1>2 DEF Share, At
<1>4. ASSUME NEW i PROVE PaidOn(new, i) = PaidOn(setts, i)
  <2>1. PaidOn(new, i) = PaidOn(setts, i) + At(s.allocations, i)
    BY <1>1, PaidOnAppend DEF new
  <2>2. At(s.allocations, i) = 0 /\ PaidOn(setts, i) \in Int
    BY <1>1, SharesOfFacts DEF At
  <2> QED
    BY <2>1, <2>2
<1>5. ASSUME NEW j \in DOMAIN new
      PROVE  /\ Len(new[j].allocations) <= Len(rows)
             /\ \A i \in DOMAIN rows : Share(new, j, i) # 0 =>
                   InScope(rows[i], new[j]) /\ Fits(Share(new, j, i), rows[i].amount)
  <2>1. CASE j = n + 1
    <3>1. Len(new[j].allocations) = 0
      BY <1>2, <2>1
    <3> QED
      BY <1>1, <1>3, <2>1, <3>1
  <2>2. CASE j \in 1 .. n
    BY <1>2, <1>3, <2>2 DEF Good
  <2> QED
    BY <1>2, <2>1, <2>2
<1>6. Good(rows, new)
  BY <1>1, <1>2, <1>4, <1>5 DEF Good
<1> QED
  BY <1>6 DEF new

\* A row that is still pending, and what a share makes of it.
LEMMA PendingRow ==
    ASSUME NEW row \in Row, RowConsistent(row),
           row.status \in {"open", "partially_settled"}, NEW share \in Int,
           \/ Outstanding(row) < 0 /\ share = Outstanding(row)
           \/ 0 < share /\ share <= Outstanding(row)
    PROVE  /\ Fits(share, row.amount)
           /\ row.settled + share # 0
           /\ RowConsistent(SetSettled(row, row.settled + share,
                               AllocatedStatus(row.amount, row.settled + share)))
<1> DEFINE settled == row.settled + share
           status == AllocatedStatus(row.amount, settled)
           u == SetSettled(row, settled, status)
<1>1. row.amount \in Int /\ row.settled \in Int /\ settled \in Int
  BY DEF Row
<1>2. \/ row.settled = 0
      \/ 0 < row.settled /\ row.settled < row.amount
  BY <1>1 DEF RowConsistent
<1>3. \/ row.amount < 0 /\ settled = row.amount /\ share = row.amount
      \/ 0 < share /\ 0 < settled /\ settled <= row.amount /\ share <= row.amount
  BY <1>1, <1>2 DEF Outstanding
<1>4. status \in Status /\ status = IF settled = row.amount THEN "settled" ELSE "partially_settled"
  BY DEF AllocatedStatus, Status
<1>5. u.settled = settled /\ u.status = status /\ u.amount = row.amount
  BY <1>1, <1>4, RowUpdate
<1>6. RowConsistent(u)
  BY <1>1, <1>3, <1>4, <1>5 DEF RowConsistent
<1> QED
  BY <1>1, <1>3, <1>6 DEF Fits

\* Giving shares of pending rows to a settlement that had none keeps agreement.
LEMMA AddGood ==
    ASSUME NEW rows, NEW setts, Good(rows, setts), NEW k \in DOMAIN setts,
           setts[k].allocations = <<>>,
           NEW s \in Settlement, SameScope(s, setts[k]),
           NEW P, P \subseteq PendingOf(rows, s.worker, s.bucket, s.from, s.to),
           SharesOut(rows, P, s.allocations)
    PROVE  /\ Good(AddAllocations(rows, s.allocations, AllocatedStatus), [setts EXCEPT ![k] = s])
           /\ \A i \in DOMAIN rows : At(s.allocations, i) # 0 =>
                 rows[i].settled + At(s.allocations, i) # 0
<1> DEFINE allocs == s.allocations
           paid == AddAllocations(rows, allocs, AllocatedStatus)
           new == [setts EXCEPT ![k] = s]
<1>1. rows \in Seq(Row) /\ setts \in Seq(Settlement)
  BY DEF Good
<1>2. /\ DOMAIN rows = 1 .. Len(rows) /\ Len(rows) \in Nat
      /\ DOMAIN setts = 1 .. Len(setts) /\ Len(setts) \in Nat
  BY <1>1
<1>3. /\ new \in Seq(Settlement) /\ Len(new) = Len(setts) /\ DOMAIN new = DOMAIN setts
      /\ new[k] = s /\ \A j \in DOMAIN setts : j # k => new[j] = setts[j]
  BY <1>1
<1> HIDE DEF new
<1>4. \A i : Share(setts, k, i) = 0 /\ Share(new, k, i) = At(allocs, i)
  BY <1>3 DEF Share, At
<1>5. \A i : \A j \in DOMAIN setts : j # k => Share(new, j, i) = Share(setts, j, i)
  BY <1>3 DEF Share
<1>6. ASSUME NEW i
      PROVE  /\ PaidOn(new, i) = PaidOn(setts, i) + At(allocs, i)
             /\ PaidOn(setts, i) \in Int /\ At(allocs, i) \in Int
  <2>1. PaidOn(new, i) = PaidOn(setts, i) - Share(setts, k, i) + Share(new, k, i)
    BY <1>1, <1>3, PaidOnChange
  <2>2. PaidOn(setts, i) \in Int /\ Share(new, k, i) \in Int
    BY <1>1, <1>3, SharesOfFacts, ShareInt
  <2> QED
    BY <1>4, <2>1, <2>2
<1>7. ASSUME NEW i \in DOMAIN rows
      PROVE  /\ paid[i] \in Row
             /\ RowConsistent(paid[i])
             /\ Conserved(paid[i], PaidOn(new, i))
             /\ paid[i].worker = rows[i].worker /\ paid[i].bucket = rows[i].bucket
             /\ paid[i].date = rows[i].date /\ paid[i].amount = rows[i].amount
             /\ At(allocs, i) # 0 =>
                   /\ InScope(rows[i], s) /\ Fits(At(allocs, i), rows[i].amount)
                   /\ rows[i].settled + At(allocs, i) # 0
  <2> DEFINE r == rows[i]
             x == At(allocs, i)
             u == SetSettled(r, r.settled + x, AllocatedStatus(r.amount, r.settled + x))
  <2>1. r \in Row /\ r.amount \in Int /\ r.settled \in Int /\ r.status \in Status
    BY <1>1, RowTyped
  <2>2. RowConsistent(r) /\ Conserved(r, PaidOn(setts, i))
    BY DEF Good
  <2>3. x \in Int /\ PaidOn(new, i) = PaidOn(setts, i) + x /\ PaidOn(setts, i) \in Int
    BY <1>6
  <2>4. CASE x = 0
    <3>1. paid[i] = r
      BY <2>4 DEF AddAllocations
    <3> QED
      BY <2>1, <2>2, <2>3, <2>4, <3>1
  <2>5. CASE x # 0
    <3>1. paid[i] = u
      BY <2>5 DEF AddAllocations
    <3>2. /\ i \in PendingOf(rows, s.worker, s.bucket, s.from, s.to)
          /\ \/ Outstanding(r) < 0 /\ x = Outstanding(r)
             \/ 0 < x /\ x <= Outstanding(r)
      BY <2>5 DEF SharesOut
    <3>3. InScope(r, s) /\ r.status \in {"open", "partially_settled"}
      BY <3>2 DEF PendingOf, InScope
    <3>4. Fits(x, r.amount) /\ r.settled + x # 0 /\ RowConsistent(u)
      BY <2>1, <2>2, <2>3, <3>2, <3>3, PendingRow
    <3>5. AllocatedStatus(r.amount, r.settled + x) \in Status /\ r.settled + x \in Int
      BY <2>1, <2>3 DEF AllocatedStatus, Status
    <3>6. /\ u \in Row /\ u.settled = r.settled + x
          /\ u.worker = r.worker /\ u.bucket = r.bucket
          /\ u.date = r.date /\ u.amount = r.amount
      BY <2>1, <3>5, RowUpdate
    <3>7. Conserved(u, PaidOn(new, i))
      BY <2>1, <2>2, <2>3, <3>3, <3>6 DEF Conserved
    <3> QED
      BY <3>1, <3>3, <3>4, <3>6, <3>7
  <2> QED
    BY <2>4, <2>5
<1>8. DOMAIN paid = DOMAIN rows
  BY DEF AddAllocations
<1>9. paid \in Seq(Row) /\ Len(paid) = Len(rows)
  <2>1. paid \in [1 .. Len(rows) -> Row]
    BY <1>2, <1>7, <1>8 DEF AddAllocations
  <2> QED
    BY <1>2, <2>1
<1>10. \A j \in DOMAIN new : Len(new[j].allocations) <= Len(paid)
  <2>1. Len(new[k].allocations) <= Len(paid)
    BY <1>2, <1>3, <1>9 DEF SharesOut
  <2> QED
    BY <1>3, <1>9, <2>1 DEF Good
<1>11. ASSUME NEW j \in DOMAIN new, NEW i \in DOMAIN paid, Share(new, j, i) # 0
       PROVE  InScope(paid[i], new[j]) /\ Fits(Share(new, j, i), paid[i].amount)
  <2>0. i \in DOMAIN rows /\ j \in DOMAIN setts
    BY <1>3, <1>8
  <2>1. InScope(rows[i], new[j]) /\ Fits(Share(new, j, i), rows[i].amount)
    <3>1. CASE j = k
      BY <1>3, <1>4, <1>7, <1>11, <2>0, <3>1
    <3>2. CASE j # k
      <4>1. new[j] = setts[j] /\ Share(new, j, i) = Share(setts, j, i)
        BY <1>3, <1>5, <2>0, <3>2
      <4> QED
        BY <1>11, <2>0, <4>1 DEF Good
    <3> QED
      BY <3>1, <3>2
  <2> QED
    BY <1>7, <2>0, <2>1 DEF InScope
<1>12. \A i \in DOMAIN rows : At(allocs, i) # 0 => rows[i].settled + At(allocs, i) # 0
  BY <1>7
<1> HIDE DEF paid
<1>13. Good(paid, new)
  BY <1>3, <1>7, <1>8, <1>9, <1>10, <1>11 DEF Good
<1> QED
  BY <1>12, <1>13 DEF paid, new

-----------------------------------------------------------------------------
(* New and refreshed rows, edited details *)

\* What PutSourceEntry and CreateAdjustment write: a row no payout has reached.
Unpaid(row) ==
    RowConsistent(row) /\ (row.settled = 0 \/ row.status = "settled")

\* A row without shares has been paid nothing.
LEMMA NothingPaid ==
    ASSUME NEW setts \in Seq(Settlement), NEW i,
           \A k \in DOMAIN setts : Share(setts, k, i) = 0
    PROVE  PaidOn(setts, i) = 0
<1> DEFINE F == SharesOf(setts, i)
           n == Len(setts)
<1>1. n \in Nat /\ DOMAIN setts = 1 .. n
  OBVIOUS
<1>2. /\ Additive(F) /\ PaidOn(setts, i) = SumTo(F, n) /\ PaidOn(setts, i) \in Int
      /\ \A j \in 1 .. n : At(F, j) = 0
  BY <1>1, SharesOfFacts
<1> HIDE DEF F, n
<1>3. SumTo(F, n) >= 0 /\ SumTo(F, n) <= 0
  BY <1>1, <1>2, SumToPositive, SumToNegative
<1> QED
  BY <1>2, <1>3

\* A new row no payout has reached keeps agreement.
LEMMA NewRowGood ==
    ASSUME NEW rows, NEW setts, Good(rows, setts), NEW row \in Row, Unpaid(row)
    PROVE  Good(Append(rows, row), setts)
<1> DEFINE new == Append(rows, row)
           n == Len(rows)
<1>1. rows \in Seq(Row) /\ setts \in Seq(Settlement)
  BY DEF Good
<1>2. /\ new \in Seq(Row) /\ n \in Nat /\ Len(new) = n + 1 /\ DOMAIN rows = 1 .. n
      /\ DOMAIN new = 1 .. n + 1 /\ new[n + 1] = row /\ \A i \in 1 .. n : new[i] = rows[i]
  BY <1>1
<1> HIDE DEF new
<1>3. \A k \in DOMAIN setts : Len(setts[k].allocations) <= n
  BY DEF Good
<1> HIDE DEF n
<1>4. ASSUME NEW k \in DOMAIN setts
      PROVE  /\ Share(setts, k, n + 1) = 0
             /\ Len(setts[k].allocations) <= n + 1
  <2>0. setts[k] \in Settlement
    BY <1>1
  <2>1. setts[k].allocations \in Seq(Int)
    BY <2>0 DEF Settlement
  <2>2. n + 1 \notin DOMAIN setts[k].allocations
    BY <1>2, <1>3, <2>1
  <2> QED
    BY <1>2, <1>3, <2>1, <2>2 DEF Share, At
<1>5. PaidOn(setts, n + 1) = 0
  BY <1>1, <1>4, NothingPaid
<1>6. RowConsistent(row) /\ Conserved(row, PaidOn(setts, n + 1))
  BY <1>5 DEF Unpaid, Conserved
<1>7. ASSUME NEW i \in DOMAIN new
      PROVE  /\ RowConsistent(new[i]) /\ Conserved(new[i], PaidOn(setts, i))
             /\ \A k \in DOMAIN setts : Share(setts, k, i) # 0 =>
                   InScope(new[i], setts[k]) /\ Fits(Share(setts, k, i), new[i].amount)
  <2>1. CASE i = n + 1
    BY <1>2, <1>4, <1>6, <2>1
  <2>2. CASE i \in 1 .. n
    BY <1>2, <2>2 DEF Good
  <2> QED
    BY <1>2, <2>1, <2>2
<1>8. Good(new, setts)
  BY <1>1, <1>2, <1>4, <1>7 DEF Good
<1> QED
  BY <1>8 DEF new

\* Rewriting a refreshable row keeps agreement.
LEMMA RefreshedRowGood ==
    ASSUME NEW rows, NEW setts, Good(rows, setts), NEW i \in DOMAIN rows,
           Refreshable(rows[i]), NEW row \in Row, Unpaid(row)
    PROVE  Good([rows EXCEPT ![i] = row], setts)
<1> DEFINE new == [rows EXCEPT ![i] = row]
<1>1. rows \in Seq(Row) /\ setts \in Seq(Settlement)
  BY DEF Good
<1>2. /\ new \in Seq(Row) /\ Len(new) = Len(rows) /\ DOMAIN new = DOMAIN rows
      /\ new[i] = row /\ \A j \in DOMAIN rows : j # i => new[j] = rows[j]
  BY <1>1
<1> HIDE DEF new
<1>3. \A k \in DOMAIN setts : Share(setts, k, i) = 0
  BY SharedRow DEF Refreshable
<1>4. Conserved(row, PaidOn(setts, i))
  <2>1. PaidOn(setts, i) = 0
    BY <1>1, <1>3, NothingPaid
  <2> QED
    BY <2>1 DEF Unpaid, Conserved
<1>5. ASSUME NEW j \in DOMAIN new
      PROVE  /\ RowConsistent(new[j]) /\ Conserved(new[j], PaidOn(setts, j))
             /\ \A k \in DOMAIN setts : Share(setts, k, j) # 0 =>
                   InScope(new[j], setts[k]) /\ Fits(Share(setts, k, j), new[j].amount)
  <2>1. CASE j = i
    BY <1>2, <1>3, <1>4, <2>1 DEF Unpaid
  <2>2. CASE j # i
    BY <1>2, <2>2 DEF Good
  <2> QED
    BY <2>1, <2>2
<1>6. Good(new, setts)
  BY <1>1, <1>2, <1>5 DEF Good
<1> QED
  BY <1>6 DEF new

\* A settlement that keeps its scope and its allocations.
LEMMA EditedGood ==
    ASSUME NEW rows, NEW setts, Good(rows, setts), NEW k \in DOMAIN setts,
           NEW s \in Settlement, SameScope(s, setts[k]),
           s.allocations = setts[k].allocations
    PROVE  Good(rows, [setts EXCEPT ![k] = s])
<1> DEFINE new == [setts EXCEPT ![k] = s]
<1>1. rows \in Seq(Row) /\ setts \in Seq(Settlement)
  BY DEF Good
<1>2. /\ new \in Seq(Settlement) /\ Len(new) = Len(setts) /\ DOMAIN new = DOMAIN setts
      /\ new[k] = s /\ \A j \in DOMAIN setts : j # k => new[j] = setts[j]
  BY <1>1
<1> HIDE DEF new
<1>3. \A j \in DOMAIN setts : new[j].allocations = setts[j].allocations /\ SameScope(new[j], setts[j])
  BY <1>2 DEF SameScope
<1>4. \A i : \A j \in DOMAIN setts : Share(new, j, i) = Share(setts, j, i)
  BY <1>3 DEF Share
<1>5. \A i : PaidOn(new, i) = PaidOn(setts, i)
  <2>1. \A i : SharesOf(new, i) = SharesOf(setts, i)
    BY <1>2, <1>4 DEF SharesOf
  <2> QED
    BY <1>2, <2>1 DEF PaidOn, SharesOf
<1>6. \A j \in DOMAIN new : Len(new[j].allocations) <= Len(rows)
  BY <1>2, <1>3 DEF Good
<1>7. \A j \in DOMAIN new : \A i \in DOMAIN rows :
         Share(new, j, i) # 0 =>
            InScope(rows[i], new[j]) /\ Fits(Share(new, j, i), rows[i].amount)
  BY <1>2, <1>3, <1>4 DEF Good, InScope, SameScope
<1>8. Good(rows, new)
  BY <1>1, <1>2, <1>5, <1>6, <1>7 DEF Good
<1> QED
  BY <1>8 DEF new

-----------------------------------------------------------------------------
(* The inductive invariant *)

\* A refresh in flight rewrites its row from a source with the row's key.
RefreshesKeepKeys ==
    \A r \in refreshes :
        /\ r.id \in RowIds
        /\ \E e \in SourceEntry : r.row = SourceRow(e) /\ ledger[r.id].key = e.key

LedgerKeysUnique == \A i, j \in RowIds : ledger[i].key = ledger[j].key => i = j

PayoutKeysUnique ==
    \A j, k \in DOMAIN settlements : settlements[j].key = settlements[k].key => j = k

\* Ledger and settlements agree, refreshes in flight concern rows with their
\* source's key, and keys are unique.
IInv ==
    /\ Good(ledger, settlements)
    /\ refreshes \subseteq [id : RowIds, row : Row]
    /\ RefreshesKeepKeys
    /\ LedgerKeysUnique
    /\ PayoutKeysUnique

\* The invariant holds each of the properties below.
LEMMA Consequences ==
    IInv => TypeOK /\ RowsConsistent /\ Conservation /\ SharesInScope
BY DEF IInv, Good, TypeOK, RowsConsistent, Conservation, SharesInScope, RowIds

\* A row made from a source is one no payout has reached.
LEMMA SourceRowUnpaid ==
    ASSUME NEW e \in SourceEntry
    PROVE  SourceRow(e) \in Row /\ Unpaid(SourceRow(e)) /\ SourceRow(e).key = e.key
<1>1. /\ e.key \in LedgerKey /\ e.worker \in Worker /\ e.bucket \in Bucket
      /\ e.date \in Nat /\ e.amount \in Nat
  BY ConstantsAssumption
<1> QED
  BY <1>1 DEF SourceRow, Row, Status, Unpaid, RowConsistent

\* So is a row made from an adjustment.
LEMMA AdjustmentRowUnpaid ==
    ASSUME NEW a \in Adjustment
    PROVE  AdjustmentRow(a) \in Row /\ Unpaid(AdjustmentRow(a)) /\ AdjustmentRow(a).key = a.key
<1>1. /\ a.key \in LedgerKey /\ a.worker \in Worker /\ a.bucket \in Bucket
      /\ a.date \in Nat /\ a.amount \in Int
  BY ConstantsAssumption
<1> QED
  BY <1>1 DEF AdjustmentRow, Row, Status, Unpaid, RowConsistent

\* Payouts rewrite settled amounts and statuses, and nothing else.
LEMMA AllocationsKeepIdentity ==
    ASSUME NEW rows \in Seq(Row), NEW allocs
    PROVE  LET added    == AddAllocations(rows, allocs, AllocatedStatus)
               reversed == ReverseAllocations(rows, allocs)
           IN  /\ DOMAIN added = DOMAIN rows /\ DOMAIN reversed = DOMAIN rows
               /\ \A i \in DOMAIN rows :
                     SameIdentity(rows[i], added[i]) /\ SameIdentity(rows[i], reversed[i])
<1>1. ASSUME NEW r \in Row, NEW settled, NEW status
      PROVE  SameIdentity(r, SetSettled(r, settled, status)) /\ SameIdentity(r, r)
  BY DEF Row, SetSettled, SameIdentity
<1>2. \A i \in DOMAIN rows : rows[i] \in Row
  OBVIOUS
<1> QED
  BY <1>1, <1>2 DEF AddAllocations, ReverseAllocations

\* Keys and refreshes carry over to a ledger whose rows keep their keys.
LEMMA KeysCarryOver ==
    ASSUME IInv, NEW new, DOMAIN new = RowIds,
           \A i \in RowIds : new[i].key = ledger[i].key,
           new = ledger', refreshes' \subseteq refreshes
    PROVE  /\ refreshes' \subseteq [id : RowIds', row : Row]
           /\ RefreshesKeepKeys'
           /\ LedgerKeysUnique'
<1>1. RowIds' = RowIds
  BY DEF RowIds
<1> QED
  BY <1>1 DEF IInv, RefreshesKeepKeys, LedgerKeysUnique

\* A row with a new key is appended.
LEMMA AppendStep ==
    ASSUME IInv, NEW row \in Row, Unpaid(row), ~KeyUsed(row.key),
           ledger' = Append(ledger, row), UNCHANGED <<settlements, refreshes>>
    PROVE  IInv'
<1> DEFINE n == Len(ledger)
<1>1. /\ ledger \in Seq(Row) /\ n \in Nat /\ RowIds = 1 .. n /\ RowIds' = 1 .. n + 1
      /\ ledger'[n + 1] = row /\ \A i \in 1 .. n : ledger'[i] = ledger[i]
  <2>1. ledger \in Seq(Row)
    BY DEF IInv, Good
  <2> QED
    BY <2>1 DEF RowIds
<1> HIDE DEF n
<1>2. Good(ledger, settlements)'
  <2>1. Good(Append(ledger, row), settlements)
    BY NewRowGood DEF IInv
  <2> QED
    BY <2>1 DEF Good, PaidOn, Share
<1>3. refreshes' \subseteq [id : RowIds', row : Row]
  BY <1>1 DEF IInv
<1>4. RefreshesKeepKeys'
  <2>1. ASSUME NEW r \in refreshes
        PROVE  /\ r.id \in RowIds'
               /\ \E e \in SourceEntry : r.row = SourceRow(e) /\ ledger'[r.id].key = e.key
    <3>1. /\ r.id \in RowIds
          /\ \E e \in SourceEntry : r.row = SourceRow(e) /\ ledger[r.id].key = e.key
      BY DEF IInv, RefreshesKeepKeys
    <3>2. r.id \in 1 .. n /\ r.id \in 1 .. n + 1
      BY <1>1, <3>1
    <3>3. r.id \in RowIds' /\ ledger'[r.id] = ledger[r.id]
      BY <1>1, <3>2
    <3> QED
      BY <3>1, <3>3
  <2> QED
    BY <2>1 DEF RefreshesKeepKeys
<1>5. LedgerKeysUnique'
  BY <1>1 DEF IInv, LedgerKeysUnique, KeyUsed
<1>6. PayoutKeysUnique'
  BY DEF IInv, PayoutKeysUnique
<1> QED
  BY <1>2, <1>3, <1>4, <1>5, <1>6 DEF IInv

\* Deciding a refresh keeps the invariant.
LEMMA FindStaleStep ==
    ASSUME IInv, NEW e \in SourceEntry, FindStaleEntry(e)
    PROVE  IInv'
<1>1. PICK i \in RowIds :
        /\ ledger[i].key = e.key
        /\ refreshes' = refreshes \cup {[id |-> i, row |-> SourceRow(e)]}
        /\ UNCHANGED <<ledger, settlements>>
  BY DEF FindStaleEntry
<1>2. SourceRow(e) \in Row
  BY SourceRowUnpaid
<1>3. refreshes' \subseteq [id : RowIds', row : Row]
  BY <1>1, <1>2 DEF IInv, RowIds
<1>4. RefreshesKeepKeys'
  <2>1. ASSUME NEW r \in refreshes'
        PROVE  /\ r.id \in RowIds
               /\ \E d \in SourceEntry : r.row = SourceRow(d) /\ ledger[r.id].key = d.key
    <3>1. CASE r \in refreshes
      BY <3>1 DEF IInv, RefreshesKeepKeys
    <3>2. CASE r = [id |-> i, row |-> SourceRow(e)]
      <4>1. r.id = i /\ r.row = SourceRow(e)
        BY <3>2
      <4> QED
        BY <1>1, <4>1
    <3> QED
      BY <1>1, <3>1, <3>2
  <2> QED
    BY <1>1, <2>1 DEF RefreshesKeepKeys, RowIds
<1> QED
  BY <1>1, <1>3, <1>4
     DEF IInv, Good, PaidOn, Share, LedgerKeysUnique, PayoutKeysUnique, RowIds

\* The conditional update of a refresh keeps the invariant.
LEMMA RefreshStep ==
    ASSUME IInv, NEW r \in refreshes, RefreshSourceEntry(r)
    PROVE  IInv'
<1>1. /\ ledger \in Seq(Row) /\ r \in [id : RowIds, row : Row] /\ r.id \in RowIds
      /\ refreshes' \subseteq refreshes /\ UNCHANGED settlements
  BY DEF IInv, Good, RefreshSourceEntry, RefreshesKeepKeys
<1>2. PICK e \in SourceEntry : r.row = SourceRow(e) /\ ledger[r.id].key = e.key
  BY DEF IInv, RefreshesKeepKeys
<1>3. r.row \in Row /\ Unpaid(r.row) /\ r.row.key = ledger[r.id].key
  BY <1>2, SourceRowUnpaid
<1>4. CASE Refreshable(ledger[r.id])
  <2>1. ledger' = [ledger EXCEPT ![r.id] = r.row]
    BY <1>4 DEF RefreshSourceEntry
  <2>2. DOMAIN ledger' = RowIds /\ \A i \in RowIds : ledger'[i].key = ledger[i].key
    BY <1>1, <1>3, <2>1 DEF RowIds
  <2>3. Good([ledger EXCEPT ![r.id] = r.row], settlements)
    BY <1>1, <1>3, <1>4, RefreshedRowGood DEF IInv, RowIds
  <2>4. Good(ledger, settlements)'
    BY <1>1, <2>1, <2>3 DEF Good, PaidOn, Share
  <2>5. PayoutKeysUnique'
    BY <1>1 DEF IInv, PayoutKeysUnique
  <2>6. /\ refreshes' \subseteq [id : RowIds', row : Row]
        /\ RefreshesKeepKeys' /\ LedgerKeysUnique'
    BY <1>1, <2>2, KeysCarryOver
  <2> QED
    BY <2>4, <2>5, <2>6 DEF IInv
<1>5. CASE ~Refreshable(ledger[r.id])
  <2>1. UNCHANGED ledger
    BY <1>5 DEF RefreshSourceEntry
  <2> QED
    BY <1>1, <2>1 DEF IInv, Good, PaidOn, Share, RefreshesKeepKeys, LedgerKeysUnique,
                      PayoutKeysUnique, RowIds
<1> QED
  BY <1>4, <1>5

\* Giving up a refresh keeps the invariant.
LEMMA AbandonStep ==
    ASSUME IInv, NEW r \in refreshes, AbandonRefresh(r)
    PROVE  IInv'
<1>1. refreshes' \subseteq refreshes /\ UNCHANGED <<ledger, settlements>>
  BY DEF AbandonRefresh
<1> QED
  BY <1>1 DEF IInv, Good, PaidOn, Share, RefreshesKeepKeys, LedgerKeysUnique,
              PayoutKeysUnique, RowIds

\* A new settlement is recorded, and its shares are added to pending rows.
LEMMA PayStep ==
    ASSUME IInv, NEW s \in Settlement,
           \A k \in DOMAIN settlements : settlements[k].key # s.key,
           NEW P, P \subseteq PendingOf(ledger, s.worker, s.bucket, s.from, s.to),
           SharesOut(ledger, P, s.allocations),
           ledger' = AddAllocations(ledger, s.allocations, AllocatedStatus),
           settlements' = Append(settlements, s), UNCHANGED refreshes
    PROVE  IInv'
<1> DEFINE none == <<>>
           bare == [s EXCEPT !.allocations = none]
           n == Len(settlements)
           paid == AddAllocations(ledger, s.allocations, AllocatedStatus)
<1>1. /\ Good(ledger, settlements) /\ ledger \in Seq(Row) /\ settlements \in Seq(Settlement)
      /\ n \in Nat /\ DOMAIN settlements = 1 .. n
  <2>1. Good(ledger, settlements) /\ ledger \in Seq(Row) /\ settlements \in Seq(Settlement)
    BY DEF IInv, Good
  <2> QED
    BY <2>1
<1>2. none \in Seq(Int)
  OBVIOUS
<1> HIDE DEF none
<1>3. bare \in Settlement /\ bare.allocations = none /\ SameScope(s, bare)
  BY <1>2 DEF Settlement, SameScope
<1> HIDE DEF bare, paid, n
<1>4. /\ Append(settlements, bare)[n + 1] = bare
      /\ n + 1 \in DOMAIN Append(settlements, bare)
      /\ DOMAIN Append(settlements, s) = 1 .. n + 1
      /\ Append(settlements, s)[n + 1] = s
      /\ \A k \in 1 .. n : Append(settlements, s)[k] = settlements[k]
      /\ [Append(settlements, bare) EXCEPT ![n + 1] = s] = Append(settlements, s)
  <2>1. ASSUME NEW t \in Settlement
        PROVE  /\ Append(settlements, t) \in Seq(Settlement)
               /\ DOMAIN Append(settlements, t) = 1 .. n + 1
               /\ Append(settlements, t)[n + 1] = t
               /\ \A k \in 1 .. n : Append(settlements, t)[k] = settlements[k]
    BY <1>1 DEF n
  <2>2. n + 1 \in 1 .. n + 1 /\ \A k \in 1 .. n + 1 : k = n + 1 \/ k \in 1 .. n
    BY <1>1
  <2> DEFINE a == Append(settlements, bare)
             b == Append(settlements, s)
  <2>3. /\ a \in Seq(Settlement) /\ b \in Seq(Settlement)
        /\ DOMAIN a = 1 .. n + 1 /\ DOMAIN b = 1 .. n + 1 /\ b[n + 1] = s
        /\ \A k \in 1 .. n : a[k] = b[k]
    BY <1>3, <2>1
  <2> HIDE DEF a, b
  <2>4. [a EXCEPT ![n + 1] = s] = b
    BY <2>2, <2>3
  <2> QED
    BY <1>3, <2>1, <2>2, <2>4 DEF a, b
<1>5. Good(ledger, Append(settlements, bare))
  BY <1>1, <1>3, AppendGood DEF none
<1> HIDE DEF Good
<1>6. Good(paid, [Append(settlements, bare) EXCEPT ![n + 1] = s])
  <2> DEFINE setts == Append(settlements, bare)
  <2>1. Good(ledger, setts) /\ n + 1 \in DOMAIN setts /\ setts[n + 1] = bare
    BY <1>4, <1>5
  <2> HIDE DEF setts
  <2>2. Good(AddAllocations(ledger, s.allocations, AllocatedStatus), [setts EXCEPT ![n + 1] = s])
    BY <1>3, <2>1, AddGood DEF none
  <2> QED
    BY <2>2 DEF setts, paid
<1>7. Good(ledger, settlements)'
  BY <1>4, <1>6 DEF paid
<1>8. DOMAIN paid = RowIds /\ \A i \in RowIds : paid[i].key = ledger[i].key
  BY <1>1, AllocationsKeepIdentity DEF paid, SameIdentity, RowIds
<1>9. /\ refreshes' \subseteq [id : RowIds', row : Row]
      /\ RefreshesKeepKeys' /\ LedgerKeysUnique'
  BY <1>8, KeysCarryOver DEF paid
<1>10. PayoutKeysUnique'
  BY <1>1, <1>4 DEF IInv, PayoutKeysUnique
<1> QED
  BY <1>7, <1>9, <1>10 DEF IInv

\* AllocateSettlement does that, with the shares of BuildAllocations.
LEMMA AllocateStep ==
    ASSUME IInv, NEW p \in Payout, AllocateSettlement(p)
    PROVE  IInv'
<1> DEFINE P == Pending(p)
           allocs == BuildAllocations(ledger, P, p.amount)
           s == [key |-> p.key, worker |-> p.worker, bucket |-> p.bucket,
                 from |-> p.from, to |-> p.to, amount |-> p.amount,
                 allocations |-> allocs, revisions |-> <<>>]
<1>1. ledger \in Seq(Row)
  BY DEF IInv, Good
<1>2. /\ ledger' = AddAllocations(ledger, allocs, AllocatedStatus)
      /\ settlements' = Append(settlements, s) /\ UNCHANGED refreshes
      /\ \A k \in DOMAIN settlements : settlements[k].key # p.key
  BY DEF AllocateSettlement
<1>3. /\ p.key \in PayoutKey /\ p.worker \in Worker /\ p.bucket \in Bucket
      /\ p.from \in Nat /\ p.to \in Nat /\ p.amount \in Nat \ {0}
  BY ConstantsAssumption
<1>4. P \subseteq PendingOf(ledger, p.worker, p.bucket, p.from, p.to) /\ P \in SUBSET DOMAIN ledger
  BY DEF Pending, PendingOf
<1>5. SharesOut(ledger, P, allocs)
  BY <1>1, <1>3, <1>4, BuildAllocationsFacts
<1> HIDE DEF P, allocs
<1>6. s \in Settlement
  BY <1>3, <1>5 DEF Settlement, SharesOut
<1>7. /\ s.allocations = allocs /\ s.worker = p.worker /\ s.bucket = p.bucket
      /\ s.from = p.from /\ s.to = p.to /\ s.key = p.key
  OBVIOUS
<1> HIDE DEF s
<1> QED
  BY <1>2, <1>4, <1>5, <1>6, <1>7, PayStep

\* A settlement's revisions stay revisions when it is edited.
LEMMA RevisionTyped ==
    ASSUME NEW s \in Settlement
    PROVE  Append(s.revisions, Revision(s)) \in Seq(RevisionDoc)
<1>1. s.revisions \in Seq(RevisionDoc) /\ Revision(s) \in RevisionDoc
  BY DEF Settlement, Revision, RevisionDoc
<1> QED
  BY <1>1

\* An edit of the payment details keeps the invariant.
LEMMA EditDetailsStep ==
    ASSUME IInv, NEW k \in DOMAIN settlements, EditDetails(k)
    PROVE  IInv'
<1> DEFINE old == settlements[k]
           s == [old EXCEPT !.revisions = Append(@, Revision(old))]
<1>1. /\ Good(ledger, settlements) /\ settlements \in Seq(Settlement) /\ old \in Settlement
  BY DEF IInv, Good
<1>2. Append(old.revisions, Revision(old)) \in Seq(RevisionDoc)
  BY <1>1, RevisionTyped
<1>3. s \in Settlement
  <2> DEFINE revs == Append(old.revisions, Revision(old))
  <2>1. s = [old EXCEPT !.revisions = revs] /\ revs \in Seq(RevisionDoc)
    BY <1>2
  <2> HIDE DEF revs, s
  <2> QED
    BY <1>1, <2>1 DEF Settlement
<1>4. SameScope(s, old) /\ s.allocations = old.allocations /\ s.key = old.key
  BY <1>1 DEF SameScope, Settlement
<1>5. settlements' = [settlements EXCEPT ![k] = s] /\ UNCHANGED <<ledger, refreshes>>
  BY DEF EditDetails
<1> HIDE DEF s
<1>6. Good(ledger, [settlements EXCEPT ![k] = s])
  BY <1>1, <1>3, <1>4, EditedGood
<1>7. Good(ledger, settlements)'
  BY <1>5, <1>6
<1>8. PayoutKeysUnique'
  BY <1>4, <1>5 DEF IInv, PayoutKeysUnique
<1> QED
  BY <1>5, <1>7, <1>8 DEF IInv, RefreshesKeepKeys, LedgerKeysUnique, RowIds

\* A share leaves no row at zero, so both operations write the same status.
LEMMA SameStatus ==
    ASSUME NEW rows \in Seq(Row), NEW allocs,
           \A i \in DOMAIN rows :
              At(allocs, i) # 0 => rows[i].settled + At(allocs, i) # 0
    PROVE  AddAllocations(rows, allocs, EntryStatus) = AddAllocations(rows, allocs, AllocatedStatus)
<1>1. ASSUME NEW i \in DOMAIN rows, At(allocs, i) # 0
      PROVE  EntryStatus(rows[i].amount, rows[i].settled + At(allocs, i))
                = AllocatedStatus(rows[i].amount, rows[i].settled + At(allocs, i))
  BY <1>1 DEF EntryStatus, AllocatedStatus
<1> QED
  BY <1>1 DEF AddAllocations

\* The ledger after the shares of settlement k were taken back.
Reversed(k) == ReverseAllocations(ledger, settlements[k].allocations)

\* Its rows are consistent, and so is what is paid on them without the shares.
LEMMA ReversedFacts ==
    ASSUME IInv, NEW k \in DOMAIN settlements
    PROVE  LET none == <<>>
               bare == [settlements[k] EXCEPT !.allocations = none]
           IN  /\ bare \in Settlement /\ SameScope(bare, settlements[k])
               /\ bare.allocations = none
               /\ Good(Reversed(k), [settlements EXCEPT ![k] = bare])
               /\ Reversed(k) \in Seq(Row)
               /\ DOMAIN Reversed(k) = RowIds /\ Len(Reversed(k)) = Len(ledger)
               /\ \A i \in RowIds : RowConsistent(Reversed(k)[i])
               /\ \A i \in RowIds : SameIdentity(ledger[i], Reversed(k)[i])
<1> DEFINE old == settlements[k]
           none == <<>>
           bare == [old EXCEPT !.allocations = none]
<1>1. /\ Good(ledger, settlements) /\ ledger \in Seq(Row)
      /\ settlements \in Seq(Settlement) /\ old \in Settlement
  BY DEF IInv, Good
<1>2. none \in Seq(Int)
  OBVIOUS
<1> HIDE DEF none
<1>3. bare \in Settlement /\ SameScope(bare, old) /\ bare.allocations = none
  BY <1>1, <1>2 DEF Settlement, SameScope
<1> HIDE DEF bare
<1>4. Good(Reversed(k), [settlements EXCEPT ![k] = bare])
  BY <1>1, <1>3, ReverseGood DEF Reversed, none
<1>5. Reversed(k) \in Seq(Row) /\ \A i \in DOMAIN Reversed(k) : RowConsistent(Reversed(k)[i])
  BY <1>4 DEF Good
<1>6. DOMAIN Reversed(k) = RowIds /\ \A i \in RowIds : SameIdentity(ledger[i], Reversed(k)[i])
  BY <1>1, AllocationsKeepIdentity DEF Reversed, RowIds
<1>7. Len(Reversed(k)) = Len(ledger)
  BY <1>1, <1>5, <1>6 DEF RowIds
<1> QED
  BY <1>3, <1>4, <1>5, <1>6, <1>7 DEF bare, none

\* A settlement is rewritten: its old shares are taken back, and its new ones
\* are added to rows that are pending then.
LEMMA EditStep ==
    ASSUME IInv, NEW k \in DOMAIN settlements, NEW s \in Settlement,
           SameScope(s, settlements[k]), s.key = settlements[k].key,
           NEW P, P \subseteq PendingOf(Reversed(k), s.worker, s.bucket, s.from, s.to),
           SharesOut(Reversed(k), P, s.allocations),
           ledger' = AddAllocations(Reversed(k), s.allocations, EntryStatus),
           settlements' = [settlements EXCEPT ![k] = s], UNCHANGED refreshes
    PROVE  /\ IInv'
           /\ \A i \in RowIds : SameIdentity(ledger[i], ledger'[i])
<1> DEFINE old == settlements[k]
           none == <<>>
           bare == [old EXCEPT !.allocations = none]
           cleared == [settlements EXCEPT ![k] = bare]
           paid == AddAllocations(Reversed(k), s.allocations, AllocatedStatus)
<1>1. /\ Good(ledger, settlements) /\ settlements \in Seq(Settlement)
  BY DEF IInv, Good
<1>2. /\ bare \in Settlement /\ SameScope(bare, old) /\ bare.allocations = none
      /\ Good(Reversed(k), cleared) /\ Reversed(k) \in Seq(Row)
      /\ DOMAIN Reversed(k) = RowIds
      /\ \A i \in RowIds : SameIdentity(ledger[i], Reversed(k)[i])
  BY ReversedFacts
<1> HIDE DEF bare
<1>3. /\ k \in DOMAIN cleared /\ cleared[k] = bare
      /\ [cleared EXCEPT ![k] = s] = [settlements EXCEPT ![k] = s]
  BY <1>1
<1> HIDE DEF cleared
<1>4. SameScope(s, cleared[k]) /\ cleared[k].allocations = <<>>
  BY <1>2, <1>3 DEF SameScope
<1>5. /\ Good(paid, [cleared EXCEPT ![k] = s])
      /\ \A i \in DOMAIN Reversed(k) : At(s.allocations, i) # 0 =>
            Reversed(k)[i].settled + At(s.allocations, i) # 0
  <2>1. Good(Reversed(k), cleared) /\ k \in DOMAIN cleared
    BY <1>2, <1>3 DEF cleared
  <2> QED
    BY <1>4, <2>1, AddGood
<1>6. ledger' = paid
  BY <1>2, <1>5, SameStatus
<1> HIDE DEF paid
<1>7. Good(ledger, settlements)'
  BY <1>3, <1>5, <1>6
<1>8. DOMAIN paid = RowIds /\ \A i \in RowIds : SameIdentity(ledger[i], paid[i])
  <2>1. DOMAIN paid = RowIds /\ \A i \in RowIds : SameIdentity(Reversed(k)[i], paid[i])
    BY <1>2, AllocationsKeepIdentity DEF paid
  <2> QED
    BY <1>2, <2>1 DEF SameIdentity
<1>9. /\ refreshes' \subseteq [id : RowIds', row : Row]
      /\ RefreshesKeepKeys' /\ LedgerKeysUnique'
  BY <1>6, <1>8, KeysCarryOver DEF SameIdentity
<1>10. PayoutKeysUnique'
  BY DEF IInv, PayoutKeysUnique
<1> QED
  BY <1>6, <1>7, <1>8, <1>9, <1>10 DEF IInv

\* UpdateSettlement does that, with the shares of BuildAllocations.
LEMMA EditAmountStep ==
    ASSUME IInv, NEW k \in DOMAIN settlements, NEW amount \in EditAmount,
           EditAmountOf(k, amount)
    PROVE  /\ IInv'
           /\ \A i \in RowIds : SameIdentity(ledger[i], ledger'[i])
<1> DEFINE old == settlements[k]
           P == PendingOf(Reversed(k), old.worker, old.bucket, old.from, old.to)
           allocs == BuildAllocations(Reversed(k), P, amount)
           revs == Append(old.revisions, Revision(old))
           s == [old EXCEPT !.amount = amount, !.allocations = allocs, !.revisions = revs]
<1>1. old \in Settlement
  BY DEF IInv, Good
<1>2. /\ ledger' = AddAllocations(Reversed(k), allocs, EntryStatus)
      /\ settlements' = [settlements EXCEPT ![k] = s] /\ UNCHANGED refreshes
  BY DEF EditAmountOf, Reversed
<1>3. Reversed(k) \in Seq(Row) /\ amount \in Nat \ {0} /\ P \in SUBSET DOMAIN Reversed(k)
  BY ReversedFacts, ConstantsAssumption DEF PendingOf
<1> HIDE DEF P
<1>4. SharesOut(Reversed(k), P, allocs)
  BY <1>3, BuildAllocationsFacts
<1> HIDE DEF allocs
<1>5. revs \in Seq(RevisionDoc) /\ allocs \in Seq(Int)
  BY <1>1, <1>4, RevisionTyped DEF SharesOut
<1> HIDE DEF revs
<1>6. /\ s \in Settlement /\ SameScope(s, old) /\ s.allocations = allocs /\ s.key = old.key
      /\ s.worker = old.worker /\ s.bucket = old.bucket /\ s.from = old.from /\ s.to = old.to
  BY <1>1, <1>3, <1>5 DEF Settlement, SameScope
<1> HIDE DEF s
<1>7. P \subseteq PendingOf(Reversed(k), s.worker, s.bucket, s.from, s.to)
  BY <1>6 DEF P
<1> QED
  BY <1>2, <1>4, <1>6, <1>7, EditStep

-----------------------------------------------------------------------------
(* Theorems *)

\* The invariant holds initially,
LEMMA InitIInv == Init => IInv
<1> SUFFICES ASSUME Init PROVE IInv
  OBVIOUS
<1>1. ledger = <<>> /\ settlements = <<>> /\ refreshes = {}
  BY DEF Init
<1>2. Good(ledger, settlements)
  BY <1>1 DEF Good
<1> QED
  BY <1>1, <1>2 DEF IInv, RefreshesKeepKeys, LedgerKeysUnique, PayoutKeysUnique, RowIds

\* every step keeps it,
LEMMA NextIInv == IInv /\ [Next]_vars => IInv'
<1> SUFFICES ASSUME IInv, [Next]_vars PROVE IInv'
  OBVIOUS
<1>1. ASSUME NEW e \in SourceEntry, InsertSourceEntry(e) PROVE IInv'
  BY <1>1, AppendStep, SourceRowUnpaid DEF InsertSourceEntry
<1>2. ASSUME NEW e \in SourceEntry, FindStaleEntry(e) PROVE IInv'
  BY <1>2, FindStaleStep
<1>3. ASSUME NEW r \in refreshes, RefreshSourceEntry(r) PROVE IInv'
  BY <1>3, RefreshStep
<1>4. ASSUME NEW r \in refreshes, AbandonRefresh(r) PROVE IInv'
  BY <1>4, AbandonStep
<1>5. ASSUME NEW a \in Adjustment, CreateAdjustment(a) PROVE IInv'
  BY <1>5, AppendStep, AdjustmentRowUnpaid DEF CreateAdjustment
<1>6. ASSUME NEW p \in Payout, AllocateSettlement(p) PROVE IInv'
  BY <1>6, AllocateStep
<1>7. ASSUME NEW k \in DOMAIN settlements, EditDetails(k) PROVE IInv'
  BY <1>7, EditDetailsStep
<1>8. ASSUME NEW k \in DOMAIN settlements, NEW amount \in EditAmount, EditAmountOf(k, amount)
      PROVE  IInv'
  BY <1>8, EditAmountStep
<1>9. CASE UNCHANGED vars
  BY <1>9 DEF vars, IInv, Good, PaidOn, Share, RefreshesKeepKeys, LedgerKeysUnique,
              PayoutKeysUnique, RowIds
<1> QED
  BY <1>1, <1>2, <1>3, <1>4, <1>5, <1>6, <1>7, <1>8, <1>9 DEF Next

\* and so it always holds.
LEMMA Invariance == Spec => []IInv
  BY InitIInv, NextIInv, PTL DEF Spec

\* Every reachable state of the three collections is well typed.
THEOREM TypeCorrect == Spec => []TypeOK
  BY Invariance, Consequences, PTL

\* Settled amount and status agree on every row, and no row is overpaid.
THEOREM RowsStayConsistent == Spec => []RowsConsistent
  BY Invariance, Consequences, PTL

\* What the settlements record is what the rows say was paid.
THEOREM PaymentsConserved == Spec => []Conservation
  BY Invariance, Consequences, PTL

\* No settlement ever pays a row outside its worker, bucket and range.
THEOREM SharesStayInScope == Spec => []SharesInScope
  BY Invariance, Consequences, PTL

-----------------------------------------------------------------------------
(* What a step may not do *)

\* What PaidRowsImmutable says of one step.
PaidRowsKept ==
    \A i \in RowIds : ledger[i].settled # 0 => SameIdentity(ledger[i], ledger'[i])

\* A step that keeps what every row is keeps the paid rows.
LEMMA RowsKept ==
    ASSUME \A i \in RowIds : SameIdentity(ledger[i], ledger'[i])
    PROVE  PaidRowsKept
BY DEF PaidRowsKept

\* A step that appends a row keeps the paid rows.
LEMMA AppendKeeps ==
    ASSUME ledger \in Seq(Row), NEW row, ledger' = Append(ledger, row)
    PROVE  PaidRowsKept
<1>1. \A i \in RowIds : ledger'[i] = ledger[i]
  BY DEF RowIds
<1> QED
  BY <1>1 DEF PaidRowsKept, SameIdentity

\* No step rewrites what a paid row is.
LEMMA StepKeepsPaidRows == IInv /\ [Next]_vars => [PaidRowsKept]_vars
<1> SUFFICES ASSUME IInv, Next PROVE PaidRowsKept
  OBVIOUS
<1>0. ledger \in Seq(Row)
  BY DEF IInv, Good
<1>1. ASSUME UNCHANGED ledger PROVE PaidRowsKept
  BY <1>1 DEF PaidRowsKept, SameIdentity
<1>2. ASSUME NEW e \in SourceEntry, InsertSourceEntry(e) PROVE PaidRowsKept
  BY <1>0, <1>2, AppendKeeps DEF InsertSourceEntry
<1>3. ASSUME NEW e \in SourceEntry, FindStaleEntry(e) PROVE PaidRowsKept
  BY <1>1, <1>3 DEF FindStaleEntry
<1>4. ASSUME NEW r \in refreshes, RefreshSourceEntry(r) PROVE PaidRowsKept
  <2>1. CASE Refreshable(ledger[r.id])
    <3>1. ledger' = [ledger EXCEPT ![r.id] = r.row] /\ ledger[r.id].settled = 0
      BY <1>4, <2>1 DEF RefreshSourceEntry, Refreshable
    <3>2. \A i \in RowIds : ledger[i].settled # 0 => ledger'[i] = ledger[i]
      BY <1>0, <3>1 DEF RowIds
    <3> QED
      BY <3>2 DEF PaidRowsKept, SameIdentity
  <2>2. CASE ~Refreshable(ledger[r.id])
    BY <1>1, <1>4, <2>2 DEF RefreshSourceEntry
  <2> QED
    BY <2>1, <2>2
<1>5. ASSUME NEW r \in refreshes, AbandonRefresh(r) PROVE PaidRowsKept
  BY <1>1, <1>5 DEF AbandonRefresh
<1>6. ASSUME NEW a \in Adjustment, CreateAdjustment(a) PROVE PaidRowsKept
  BY <1>0, <1>6, AppendKeeps DEF CreateAdjustment
<1>7. ASSUME NEW p \in Payout, AllocateSettlement(p) PROVE PaidRowsKept
  <2>1. ledger' = AddAllocations(ledger, BuildAllocations(ledger, Pending(p), p.amount), AllocatedStatus)
    BY <1>7 DEF AllocateSettlement
  <2> QED
    BY <1>0, <2>1, AllocationsKeepIdentity, RowsKept DEF RowIds
<1>8. ASSUME NEW k \in DOMAIN settlements, EditDetails(k) PROVE PaidRowsKept
  BY <1>1, <1>8 DEF EditDetails
<1>9. ASSUME NEW k \in DOMAIN settlements, NEW amount \in EditAmount, EditAmountOf(k, amount)
      PROVE  PaidRowsKept
  BY <1>9, EditAmountStep, RowsKept
<1> QED
  BY <1>2, <1>3, <1>4, <1>5, <1>6, <1>7, <1>8, <1>9 DEF Next

\* A paid row keeps its key, worker, bucket, date and amount for ever.
THEOREM PaidRowsStayImmutable == Spec => PaidRowsImmutable
<1>1. [PaidRowsKept]_vars => [\A i \in RowIds : ledger[i].settled # 0
                                  => SameIdentity(ledger[i], ledger'[i])]_vars
  BY DEF PaidRowsKept
<1> QED
  BY <1>1, Invariance, StepKeepsPaidRows, PTL DEF Spec, PaidRowsImmutable

-----------------------------------------------------------------------------
(* A payout over every pending row of a range leaves no debt there *)

\* A pending deduction receives its whole outstanding amount.
LEMMA DeductionsConsumed ==
    ASSUME NEW rows \in Seq(Row), NEW P, NEW requested, NEW i \in DOMAIN rows,
           i \in P, Outstanding(rows[i]) < 0
    PROVE  At(BuildAllocations(rows, P, requested), i) = Outstanding(rows[i])
<1>1. Outstanding(rows[i]) \in Int
  BY RowTyped DEF Outstanding
<1>2. i \in Deductions(rows, P) /\ i \notin Credits(rows, P)
  BY <1>1 DEF Deductions, Credits
<1>3. BuildAllocations(rows, P, requested)[i] = Outstanding(rows[i])
  BY <1>2 DEF BuildAllocations
<1>4. DOMAIN BuildAllocations(rows, P, requested) = DOMAIN rows
  BY DEF BuildAllocations
<1> QED
  BY <1>3, <1>4 DEF At

\* What a pending row still owes after the payout is not negative.
LEMMA NoDebtOnRow ==
    ASSUME NEW rows \in Seq(Row), NEW allocs, NEW worker, NEW bucket, NEW from, NEW to,
           SharesOut(rows, PendingOf(rows, worker, bucket, from, to), allocs),
           \A i \in PendingOf(rows, worker, bucket, from, to) :
              Outstanding(rows[i]) < 0 => At(allocs, i) = Outstanding(rows[i]),
           NEW i \in PendingOf(AddAllocations(rows, allocs, AllocatedStatus),
                               worker, bucket, from, to)
    PROVE  Outstanding(AddAllocations(rows, allocs, AllocatedStatus)[i]) >= 0
<1> DEFINE paid == AddAllocations(rows, allocs, AllocatedStatus)
           P == PendingOf(rows, worker, bucket, from, to)
           r == rows[i]
           x == At(allocs, i)
<1>1. /\ DOMAIN paid = DOMAIN rows /\ i \in DOMAIN rows
      /\ SameIdentity(r, paid[i])
  BY AllocationsKeepIdentity DEF PendingOf
<1>2. r \in Row /\ r.amount \in Int /\ r.settled \in Int
  BY <1>1, RowTyped
<1>3. CASE x = 0
  <2>1. paid[i] = r
    BY <1>1, <1>3 DEF AddAllocations
  <2>2. i \in P
    BY <1>1, <2>1 DEF PendingOf
  <2> QED
    BY <1>2, <1>3, <2>1, <2>2 DEF Outstanding
<1>4. CASE x # 0
  <2>1. x \in Int
    <3>1. Additive(allocs)
      BY DEF SharesOut, Additive
    <3> QED
      BY <3>1, AtInt
  <2>2. /\ i \in P
        /\ \/ Outstanding(r) < 0 /\ x = Outstanding(r)
           \/ 0 < x /\ x <= Outstanding(r)
    BY <1>1, <1>4 DEF SharesOut
  <2>3. paid[i].settled = r.settled + x /\ paid[i].amount = r.amount
    <3>1. paid[i] = SetSettled(r, r.settled + x, AllocatedStatus(r.amount, r.settled + x))
      BY <1>1, <1>4 DEF AddAllocations
    <3>2. AllocatedStatus(r.amount, r.settled + x) \in Status
      BY DEF AllocatedStatus, Status
    <3> HIDE DEF x, r
    <3>3. r.settled + x \in Int
      BY <1>2, <2>1
    <3> QED
      BY <1>2, <3>1, <3>2, <3>3, RowUpdate
  <2> QED
    BY <1>2, <2>1, <2>2, <2>3 DEF Outstanding
<1> QED
  BY <1>3, <1>4

\* What NoDebtAfterPayout says of one step.
PayoutClearsDebt ==
    \A p \in Payout :
        p.rows = {} /\ AllocateSettlement(p) => PendingTotal(ledger', p) >= 0

\* A payout over all pending rows leaves no debt.
LEMMA StepClearsDebt == IInv /\ [Next]_vars => [PayoutClearsDebt]_vars
<1> SUFFICES ASSUME IInv, NEW p \in Payout, p.rows = {}, AllocateSettlement(p)
             PROVE  PendingTotal(ledger', p) >= 0
  BY DEF PayoutClearsDebt
<1> DEFINE P == PendingOf(ledger, p.worker, p.bucket, p.from, p.to)
           allocs == BuildAllocations(ledger, P, p.amount)
           paid == AddAllocations(ledger, allocs, AllocatedStatus)
           left == PendingOf(paid, p.worker, p.bucket, p.from, p.to)
           F == [i \in left |-> Outstanding(paid[i])]
<1>1. ledger \in Seq(Row) /\ P \in SUBSET DOMAIN ledger /\ p.amount \in Int
  BY ConstantsAssumption DEF IInv, Good, PendingOf
<1>2. ledger' = paid
  BY DEF AllocateSettlement, Pending
<1>3. SharesOut(ledger, P, allocs)
  BY <1>1, BuildAllocationsFacts
<1>4. \A i \in P : Outstanding(ledger[i]) < 0 => At(allocs, i) = Outstanding(ledger[i])
  BY <1>1, DeductionsConsumed
<1>5. Good(ledger, settlements)'
  BY AllocateStep DEF IInv
<1>6. paid \in Seq(Row) /\ Len(paid) \in Nat /\ left \subseteq DOMAIN paid
  BY <1>2, <1>5 DEF Good, PendingOf
<1> HIDE DEF allocs
<1>7. \A i \in left : Outstanding(paid[i]) >= 0
  BY <1>1, <1>3, <1>4, NoDebtOnRow
<1> HIDE DEF paid, left
<1>8. \A i \in left : Outstanding(paid[i]) \in Int
  <2>1. \A i \in left : paid[i].amount \in Int /\ paid[i].settled \in Int
    BY <1>6, RowTyped
  <2> QED
    BY <2>1 DEF Outstanding
<1>9. Additive(F) /\ \A i \in 1 .. Len(paid) : At(F, i) >= 0
  BY <1>7, <1>8 DEF Additive, At
<1>10. SumTo(F, Len(paid)) >= 0
  BY <1>6, <1>9, SumToPositive
<1> QED
  BY <1>2, <1>10 DEF PendingTotal, Owed, left

\* After a payout over a whole range, what is pending there is not negative.
THEOREM NoDebtIsLeft == Spec => NoDebtAfterPayout
<1>1. [PayoutClearsDebt]_vars
        => [\A p \in Payout : p.rows = {} /\ AllocateSettlement(p)
               => PendingTotal(ledger', p) >= 0]_vars
  BY DEF PayoutClearsDebt
<1> QED
  BY <1>1, Invariance, StepClearsDebt, PTL DEF Spec, NoDebtAfterPayout

-----------------------------------------------------------------------------
(* The shares of every settlement add up to its amount *)

\* A typed ledger is a ledger in the sense of Allocation_proofs.
LEMMA RowsOfLedger ==
    ASSUME NEW rows \in Seq(Row)
    PROVE  Rows(rows)
BY RowTyped DEF Rows

\* The shares of a settlement over n rows add up to its amount.
Balanced(s, n) == SumTo(s.allocations, n) = s.amount

\* A list has the same total over any number of rows beyond its end.
LEMMA SumBeyond ==
    ASSUME NEW s \in Settlement, NEW n \in Nat, Len(s.allocations) <= n
    PROVE  SumTo(s.allocations, n + 1) = SumTo(s.allocations, n)
<1> DEFINE F == s.allocations
<1>1. F \in Seq(Int)
  BY DEF Settlement
<1>2. Additive(F) /\ At(F, n + 1) = 0
  BY <1>1 DEF Additive, At
<1> HIDE DEF F
<1>3. SumTo(F, n) \in Int /\ SumTo(F, n + 1) = SumTo(F, n) + At(F, n + 1)
  BY <1>2, SumToRec
<1> QED
  BY <1>2, <1>3 DEF F

\* A new row leaves every settlement balanced.
LEMMA BalanceAfterAppend ==
    ASSUME IInv, SettlementsBalance, NEW row, ledger' = Append(ledger, row),
           UNCHANGED settlements
    PROVE  SettlementsBalance'
<1>1. ledger \in Seq(Row) /\ settlements \in Seq(Settlement)
  BY DEF IInv, Good
<1>2. Len(ledger) \in Nat /\ Len(ledger') = Len(ledger) + 1
  BY <1>1
<1>3. ASSUME NEW k \in DOMAIN settlements
      PROVE  SumTo(settlements[k].allocations, Len(ledger) + 1) = settlements[k].amount
  <2>1. settlements[k] \in Settlement /\ Len(settlements[k].allocations) <= Len(ledger)
    BY <1>1 DEF IInv, Good
  <2>2. SumTo(settlements[k].allocations, Len(ledger)) = settlements[k].amount
    BY DEF SettlementsBalance
  <2> QED
    BY <1>2, <2>1, <2>2, SumBeyond
<1> QED
  BY <1>2, <1>3 DEF SettlementsBalance

\* Every step leaves every settlement balanced.
LEMMA StepKeepsBalance == IInv /\ SettlementsBalance /\ [Next]_vars => SettlementsBalance'
<1> SUFFICES ASSUME IInv, SettlementsBalance, [Next]_vars PROVE SettlementsBalance'
  OBVIOUS
<1>0. ledger \in Seq(Row) /\ settlements \in Seq(Settlement)
  BY DEF IInv, Good
<1>1. ASSUME UNCHANGED settlements, Len(ledger') = Len(ledger) PROVE SettlementsBalance'
  BY <1>1 DEF SettlementsBalance
<1>2. ASSUME NEW e \in SourceEntry, InsertSourceEntry(e) PROVE SettlementsBalance'
  BY <1>2, BalanceAfterAppend DEF InsertSourceEntry
<1>3. ASSUME NEW e \in SourceEntry, FindStaleEntry(e) PROVE SettlementsBalance'
  BY <1>1, <1>3 DEF FindStaleEntry
<1>4. ASSUME NEW r \in refreshes, RefreshSourceEntry(r) PROVE SettlementsBalance'
  BY <1>0, <1>1, <1>4 DEF RefreshSourceEntry
<1>5. ASSUME NEW r \in refreshes, AbandonRefresh(r) PROVE SettlementsBalance'
  BY <1>1, <1>5 DEF AbandonRefresh
<1>6. ASSUME NEW a \in Adjustment, CreateAdjustment(a) PROVE SettlementsBalance'
  BY <1>6, BalanceAfterAppend DEF CreateAdjustment
<1>7. ASSUME NEW p \in Payout, AllocateSettlement(p) PROVE SettlementsBalance'
  <2> DEFINE P == Pending(p)
             allocs == BuildAllocations(ledger, P, p.amount)
             s == [key |-> p.key, worker |-> p.worker, bucket |-> p.bucket,
                   from |-> p.from, to |-> p.to, amount |-> p.amount,
                   allocations |-> allocs, revisions |-> <<>>]
             n == Len(settlements)
  <2>1. /\ ledger' = AddAllocations(ledger, allocs, AllocatedStatus)
        /\ settlements' = Append(settlements, s)
        /\ CanAllocate(ledger, P, p.amount)
    BY <1>7 DEF AllocateSettlement
  <2>2. P \in SUBSET DOMAIN ledger /\ p.amount \in Nat
    BY ConstantsAssumption DEF Pending, PendingOf
  <2>3. SumTo(allocs, Len(ledger)) = p.amount
    BY <1>0, <2>1, <2>2, RowsOfLedger, SharesAddUp
  <2>4. Len(ledger') = Len(ledger)
    <3>1. ledger' \in Seq(Row) /\ DOMAIN ledger' = DOMAIN ledger
      BY <1>0, <1>7, <2>1, AllocateStep, AllocationsKeepIdentity DEF IInv, Good
    <3> QED
      BY <1>0, <3>1
  <2> HIDE DEF allocs
  <2>5. s.allocations = allocs /\ s.amount = p.amount
    OBVIOUS
  <2> HIDE DEF s
  <2>6. ASSUME NEW k \in DOMAIN settlements'
        PROVE  settlements'[k] = s \/ (k \in DOMAIN settlements /\ settlements'[k] = settlements[k])
    BY <1>0, <2>1
  <2> QED
    BY <2>3, <2>4, <2>5, <2>6 DEF SettlementsBalance
<1>8. ASSUME NEW k \in DOMAIN settlements, EditDetails(k) PROVE SettlementsBalance'
  <2> DEFINE s == [settlements[k] EXCEPT !.revisions = Append(@, Revision(settlements[k]))]
  <2>1. settlements' = [settlements EXCEPT ![k] = s] /\ UNCHANGED ledger
    BY <1>8 DEF EditDetails
  <2>2. s.allocations = settlements[k].allocations /\ s.amount = settlements[k].amount
    <3>1. settlements[k] \in Settlement
      BY <1>0
    <3> QED
      BY <3>1 DEF Settlement
  <2> HIDE DEF s
  <2> QED
    BY <1>0, <2>1, <2>2 DEF SettlementsBalance
<1>9. ASSUME NEW k \in DOMAIN settlements, NEW amount \in EditAmount, EditAmountOf(k, amount)
      PROVE  SettlementsBalance'
  <2> DEFINE old == settlements[k]
             back == ReverseAllocations(ledger, old.allocations)
             P == PendingOf(back, old.worker, old.bucket, old.from, old.to)
             allocs == BuildAllocations(back, P, amount)
             s == [old EXCEPT !.amount = amount, !.allocations = allocs,
                              !.revisions = Append(@, Revision(old))]
  <2>1. settlements' = [settlements EXCEPT ![k] = s] /\ CanAllocate(back, P, amount)
    BY <1>9 DEF EditAmountOf
  <2>2. P \in SUBSET DOMAIN back /\ amount \in Nat
    BY ConstantsAssumption DEF PendingOf
  <2>3. back \in Seq(Row) /\ Len(back) = Len(ledger)
    BY ReversedFacts DEF Reversed
  <2>4. SumTo(allocs, Len(ledger)) = amount
    BY <2>1, <2>2, <2>3, RowsOfLedger, SharesAddUp
  <2>5. Len(ledger') = Len(ledger)
    <3>1. ledger' \in Seq(Row)
      BY <1>9, EditAmountStep DEF IInv, Good
    <3>2. DOMAIN ledger' = DOMAIN ledger
      BY <1>9 DEF EditAmountOf, AddAllocations, ReverseAllocations
    <3> QED
      BY <1>0, <3>1, <3>2
  <2> HIDE DEF allocs
  <2>6. s.allocations = allocs /\ s.amount = amount
    <3>1. old \in Settlement
      BY <1>0
    <3> QED
      BY <3>1 DEF Settlement
  <2> HIDE DEF s
  <2> QED
    BY <1>0, <2>1, <2>4, <2>5, <2>6 DEF SettlementsBalance
<1>10. CASE UNCHANGED vars
  BY <1>1, <1>10 DEF vars
<1> QED
  BY <1>2, <1>3, <1>4, <1>5, <1>6, <1>7, <1>8, <1>9, <1>10 DEF Next

\* Every settlement, also an edited one, pays out exactly its amount.
THEOREM SettlementsStayBalanced == Spec => []SettlementsBalance
<1>1. Init => SettlementsBalance
  BY DEF Init, SettlementsBalance
<1> QED
  BY <1>1, Invariance, StepKeepsBalance, PTL DEF Spec

-----------------------------------------------------------------------------
(* The refinement of Payouts *)

\* The abstract ledger totals shares as the code's totals do.
LEMMA SameTotals ==
    ASSUME NEW F
    PROVE  /\ \A i : Promised!At(F, i) = At(F, i)
           /\ \A n : Promised!SumTo(F, n) = SumTo(F, n)
<1>1. \A i : Promised!At(F, i) = At(F, i)
  BY DEF Promised!At, At
<1>2. \A n : Promised!SumTo(F, n) = SumTo(F, n)
  BY DEF Promised!SumTo, SumTo, Promised!At, At
<1> QED
  BY <1>1, <1>2

\* Moving shares into rows, or out of them, is what the two operations do.
LEMMA MovedRows ==
    ASSUME NEW rows \in Seq(Row), NEW allocs \in Seq(Int)
    PROVE  /\ Promised!Moved(rows, allocs, 1) = AddAllocations(rows, allocs, EntryStatus)
           /\ Promised!Moved(rows, allocs, -1) = ReverseAllocations(rows, allocs)
<1>1. ASSUME NEW i \in DOMAIN rows
      PROVE  /\ Promised!At(allocs, i) = At(allocs, i) /\ At(allocs, i) \in Int
             /\ rows[i].settled + 1 * At(allocs, i) = rows[i].settled + At(allocs, i)
             /\ rows[i].settled + (-1) * At(allocs, i) = rows[i].settled - At(allocs, i)
  <2>1. Promised!At(allocs, i) = At(allocs, i) /\ At(allocs, i) \in Int
    BY SameTotals DEF At
  <2> QED
    BY <2>1, RowTyped
<1>2. \A amount, settled : Promised!StatusOf(amount, settled) = EntryStatus(amount, settled)
  BY DEF Promised!StatusOf, EntryStatus
<1> QED
  BY <1>1, <1>2 DEF Promised!Moved, AddAllocations, ReverseAllocations, SetSettled

\* What buildAllocations hands out covers a settlement: every share is payable
\* from its row, and they add up to the amount.
LEMMA SharesCover ==
    ASSUME NEW rows \in Seq(Row), \A i \in DOMAIN rows : RowConsistent(rows[i]),
           NEW s, s.amount \in Nat,
           NEW P, P \subseteq PendingOf(rows, s.worker, s.bucket, s.from, s.to),
           CanAllocate(rows, P, s.amount),
           s.allocations = BuildAllocations(rows, P, s.amount)
    PROVE  /\ s.allocations \in Seq(Int)
           /\ Promised!Covers(rows, s)
           /\ \A i \in DOMAIN rows :
                 At(s.allocations, i) # 0 => rows[i].settled + At(s.allocations, i) # 0
<1> DEFINE allocs == s.allocations
<1>1. P \in SUBSET DOMAIN rows
  BY DEF PendingOf
<1>2. SharesOut(rows, P, allocs)
  BY <1>1, BuildAllocationsFacts
<1>3. SumTo(allocs, Len(rows)) = s.amount
  BY <1>1, RowsOfLedger, SharesAddUp
<1> HIDE DEF allocs
<1>4. ASSUME NEW i \in DOMAIN rows, At(allocs, i) # 0
      PROVE  /\ Promised!Payable(rows[i], s, At(allocs, i))
             /\ rows[i].settled + At(allocs, i) # 0
  <2>1. rows[i] \in Row /\ rows[i].amount \in Int /\ rows[i].settled \in Int
    BY RowTyped
  <2>2. /\ rows[i].worker = s.worker /\ rows[i].bucket = s.bucket
        /\ s.from <= rows[i].date /\ rows[i].date <= s.to
        /\ rows[i].status \in {"open", "partially_settled"}
    BY <1>2, <1>4 DEF SharesOut, PendingOf
  <2>3. /\ At(allocs, i) \in Int
        /\ \/ Outstanding(rows[i]) < 0 /\ At(allocs, i) = Outstanding(rows[i])
           \/ 0 < At(allocs, i) /\ At(allocs, i) <= Outstanding(rows[i])
    BY <1>2, <1>4 DEF SharesOut, At
  <2>4. rows[i].settled + At(allocs, i) # 0
    BY <2>1, <2>2, <2>3, PendingRow
  <2>5. Promised!Payable(rows[i], s, At(allocs, i))
    BY <2>1, <2>2, <2>3 DEF Promised!Payable, Outstanding
  <2> QED
    BY <2>4, <2>5
<1>5. allocs \in Seq(Int) /\ Len(allocs) <= Len(rows)
  BY <1>2 DEF SharesOut
<1>6. Promised!Covers(rows, s)
  BY <1>3, <1>4, <1>5, SameTotals DEF Promised!Covers, allocs
<1> QED
  BY <1>4, <1>5, <1>6 DEF allocs

\* A row with a new key is a projection.
LEMMA AppendProjects ==
    ASSUME IInv, NEW row, ~KeyUsed(row.key), ledger' = Append(ledger, row),
           UNCHANGED settlements
    PROVE  Promised!Project
<1>1. ledger \in Seq(Row)
  BY DEF IInv, Good
<1>2. Len(ledger') = Len(ledger) + 1 /\ ledger'[Len(ledger')] = row
  BY <1>1
<1>3. \A i \in DOMAIN ledger : ledger[i].key # row.key
  BY DEF KeyUsed, RowIds
<1> QED
  BY <1>2, <1>3 DEF Promised!Project

\* A refresh rewrites a row nothing was paid on, and keeps its key.
LEMMA RefreshProjects ==
    ASSUME IInv, NEW r \in refreshes, RefreshSourceEntry(r)
    PROVE  Promised!Project \/ UNCHANGED <<ledger, settlements>>
<1>1. ledger \in Seq(Row) /\ r.id \in DOMAIN ledger /\ UNCHANGED settlements
  BY DEF IInv, Good, RefreshesKeepKeys, RefreshSourceEntry, RowIds
<1>2. CASE Refreshable(ledger[r.id])
  <2>1. ledger' = [ledger EXCEPT ![r.id] = r.row]
    BY <1>2 DEF RefreshSourceEntry
  <2>2. r.row.key = ledger[r.id].key
    BY SourceRowUnpaid DEF IInv, RefreshesKeepKeys
  <2>3. ledger'[r.id] = r.row /\ ledger'[r.id].key = ledger[r.id].key
    BY <1>1, <2>1, <2>2
  <2>4. ledger[r.id].settled = 0 /\ ledger[r.id].status = "open"
    BY <1>2 DEF Refreshable
  <2> QED
    BY <1>1, <2>1, <2>3, <2>4 DEF Promised!Project
<1>3. CASE ~Refreshable(ledger[r.id])
  BY <1>1, <1>3 DEF RefreshSourceEntry
<1> QED
  BY <1>2, <1>3

\* A settlement that covers its amount appears together with the rows it pays.
LEMMA PayPromised ==
    ASSUME IInv, NEW s, s.revisions = <<>>, s.allocations \in Seq(Int),
           \A k \in DOMAIN settlements : settlements[k].key # s.key,
           Promised!Covers(ledger, s),
           \A i \in DOMAIN ledger :
              At(s.allocations, i) # 0 => ledger[i].settled + At(s.allocations, i) # 0,
           ledger' = AddAllocations(ledger, s.allocations, AllocatedStatus),
           settlements' = Append(settlements, s)
    PROVE  Promised!Pay
<1>1. ledger \in Seq(Row) /\ settlements \in Seq(Settlement)
  BY DEF IInv, Good
<1>2. ledger' = Promised!Moved(ledger, s.allocations, 1)
  BY <1>1, SameStatus, MovedRows
<1>3. Len(settlements') = Len(settlements) + 1 /\ settlements'[Len(settlements')] = s
  BY <1>1
<1> QED
  BY <1>2, <1>3 DEF Promised!Pay

\* That of a payout does.
LEMMA AllocatePays ==
    ASSUME IInv, NEW p \in Payout, AllocateSettlement(p)
    PROVE  Promised!Pay
<1> DEFINE P == Pending(p)
           allocs == BuildAllocations(ledger, P, p.amount)
           s == [key |-> p.key, worker |-> p.worker, bucket |-> p.bucket,
                 from |-> p.from, to |-> p.to, amount |-> p.amount,
                 allocations |-> allocs, revisions |-> <<>>]
<1>1. ledger \in Seq(Row) /\ \A i \in DOMAIN ledger : RowConsistent(ledger[i])
  BY DEF IInv, Good
<1>2. /\ \A k \in DOMAIN settlements : settlements[k].key # p.key
      /\ CanAllocate(ledger, P, p.amount)
      /\ ledger' = AddAllocations(ledger, allocs, AllocatedStatus)
      /\ settlements' = Append(settlements, s)
  BY DEF AllocateSettlement
<1>3. P \subseteq PendingOf(ledger, p.worker, p.bucket, p.from, p.to) /\ p.amount \in Nat
  BY ConstantsAssumption DEF Pending
<1> HIDE DEF P
<1>4. /\ s.allocations \in Seq(Int)
      /\ Promised!Covers(ledger, s)
      /\ \A i \in DOMAIN ledger :
            At(s.allocations, i) # 0 => ledger[i].settled + At(s.allocations, i) # 0
  BY <1>1, <1>2, <1>3, SharesCover
<1>5. s.allocations = allocs /\ s.key = p.key /\ s.revisions = <<>>
  OBVIOUS
<1> HIDE DEF allocs, s
<1> QED
  BY <1>2, <1>4, <1>5, PayPromised

\* An edit of the details keeps the amount and records what was there.
LEMMA EditDetailsEdits ==
    ASSUME IInv, NEW k \in DOMAIN settlements, EditDetails(k)
    PROVE  Promised!Edit
<1> DEFINE old == settlements[k]
           revs == Append(old.revisions, Revision(old))
           s == [old EXCEPT !.revisions = revs]
<1>1. settlements \in Seq(Settlement) /\ old \in Settlement
  BY DEF IInv, Good
<1>2. settlements' = [settlements EXCEPT ![k] = s] /\ UNCHANGED ledger
  BY DEF EditDetails
<1>3. settlements'[k] = s
  BY <1>1, <1>2
<1>4. /\ revs = Append(old.revisions, [amount |-> old.amount, allocations |-> old.allocations])
  BY DEF Revision
<1> HIDE DEF revs
<1>5. /\ s.amount = old.amount /\ s.allocations = old.allocations
      /\ s = [old EXCEPT !.amount = s.amount, !.allocations = s.allocations, !.revisions = revs]
  BY <1>1 DEF Settlement
<1> HIDE DEF s
<1> QED
  BY <1>2, <1>3, <1>4, <1>5 DEF Promised!Edit

\* A settlement is rewritten with other shares that cover another amount.
LEMMA EditPromised ==
    ASSUME IInv, NEW k \in DOMAIN settlements, NEW s, s.allocations \in Seq(Int),
           s = [settlements[k] EXCEPT
                    !.amount = s.amount, !.allocations = s.allocations,
                    !.revisions = Append(settlements[k].revisions, Revision(settlements[k]))],
           s.amount # settlements[k].amount,
           Promised!Covers(Reversed(k), s),
           ledger' = AddAllocations(Reversed(k), s.allocations, EntryStatus),
           settlements' = [settlements EXCEPT ![k] = s]
    PROVE  Promised!Edit
<1> DEFINE old == settlements[k]
           revs == Append(old.revisions, Revision(old))
<1>1. /\ ledger \in Seq(Row) /\ settlements \in Seq(Settlement)
      /\ old \in Settlement /\ old.allocations \in Seq(Int)
  <2>1. ledger \in Seq(Row) /\ settlements \in Seq(Settlement) /\ old \in Settlement
    BY DEF IInv, Good
  <2> QED
    BY <2>1 DEF Settlement
<1>2. Reversed(k) = Promised!Moved(ledger, old.allocations, -1)
  BY <1>1, MovedRows DEF Reversed
<1>3. revs = Append(old.revisions, [amount |-> old.amount, allocations |-> old.allocations])
  BY DEF Revision
<1>4. s = [old EXCEPT !.amount = s.amount, !.allocations = s.allocations, !.revisions = revs]
  OBVIOUS
<1> HIDE DEF revs
<1>5. settlements'[k] = s
  BY <1>1
<1>6. ledger' = Promised!Moved(Reversed(k), s.allocations, 1)
  BY ReversedFacts, MovedRows
<1> QED
  BY <1>2, <1>3, <1>4, <1>5, <1>6 DEF Promised!Edit

\* An edit of the amount does that.
LEMMA EditAmountEdits ==
    ASSUME IInv, NEW k \in DOMAIN settlements, NEW amount \in EditAmount,
           EditAmountOf(k, amount)
    PROVE  Promised!Edit
<1> DEFINE old == settlements[k]
           P == PendingOf(Reversed(k), old.worker, old.bucket, old.from, old.to)
           allocs == BuildAllocations(Reversed(k), P, amount)
           revs == Append(old.revisions, Revision(old))
           s == [old EXCEPT !.amount = amount, !.allocations = allocs, !.revisions = revs]
<1>1. old \in Settlement
  BY DEF IInv, Good
<1>2. /\ amount # old.amount /\ CanAllocate(Reversed(k), P, amount)
      /\ ledger' = AddAllocations(Reversed(k), allocs, EntryStatus)
      /\ settlements' = [settlements EXCEPT ![k] = s]
  BY DEF EditAmountOf, Reversed
<1>3. Reversed(k) \in Seq(Row) /\ \A i \in DOMAIN Reversed(k) : RowConsistent(Reversed(k)[i])
  BY ReversedFacts
<1>4. amount \in Nat
  BY ConstantsAssumption
<1>5. /\ s.worker = old.worker /\ s.bucket = old.bucket /\ s.from = old.from /\ s.to = old.to
      /\ s.amount = amount /\ s.allocations = allocs
      /\ s = [old EXCEPT !.amount = s.amount, !.allocations = s.allocations, !.revisions = revs]
  <2> HIDE DEF allocs, revs
  <2> QED
    BY <1>1 DEF Settlement
<1> HIDE DEF s
<1>6. s.allocations \in Seq(Int) /\ Promised!Covers(Reversed(k), s)
  <2>1. P \subseteq PendingOf(Reversed(k), s.worker, s.bucket, s.from, s.to)
    BY <1>5
  <2> QED
    BY <1>2, <1>3, <1>4, <1>5, <2>1, SharesCover
<1> HIDE DEF allocs, P
<1> QED
  BY <1>2, <1>5, <1>6, EditPromised

\* Every step is one of the abstract ledger.
LEMMA StepImplements == IInv /\ [Next]_vars => [Promised!Next]_<<ledger, settlements>>
<1> SUFFICES ASSUME IInv, [Next]_vars
             PROVE  Promised!Next \/ UNCHANGED <<ledger, settlements>>
  OBVIOUS
<1> USE DEF Promised!Next
<1>1. ASSUME NEW e \in SourceEntry, InsertSourceEntry(e) PROVE Promised!Next
  BY <1>1, AppendProjects, SourceRowUnpaid DEF InsertSourceEntry
<1>2. ASSUME NEW e \in SourceEntry, FindStaleEntry(e) PROVE UNCHANGED <<ledger, settlements>>
  BY <1>2 DEF FindStaleEntry
<1>3. ASSUME NEW r \in refreshes, RefreshSourceEntry(r)
      PROVE  Promised!Next \/ UNCHANGED <<ledger, settlements>>
  BY <1>3, RefreshProjects
<1>4. ASSUME NEW r \in refreshes, AbandonRefresh(r) PROVE UNCHANGED <<ledger, settlements>>
  BY <1>4 DEF AbandonRefresh
<1>5. ASSUME NEW a \in Adjustment, CreateAdjustment(a) PROVE Promised!Next
  BY <1>5, AppendProjects, AdjustmentRowUnpaid DEF CreateAdjustment
<1>6. ASSUME NEW p \in Payout, AllocateSettlement(p) PROVE Promised!Next
  BY <1>6, AllocatePays
<1>7. ASSUME NEW k \in DOMAIN settlements, EditDetails(k) PROVE Promised!Next
  BY <1>7, EditDetailsEdits
<1>8. ASSUME NEW k \in DOMAIN settlements, NEW amount \in EditAmount, EditAmountOf(k, amount)
      PROVE  Promised!Next
  BY <1>8, EditAmountEdits
<1>9. CASE UNCHANGED vars
  BY <1>9 DEF vars
<1> QED
  BY <1>1, <1>2, <1>3, <1>4, <1>5, <1>6, <1>7, <1>8, <1>9 DEF Next

\* The operations of repository.go implement the abstract ledger: a payout
\* and an edit are one step each, and nothing else moves money.
THEOREM RefinesPayouts == Spec => ImplementsPayouts
<1>1. Init => Promised!Init
  BY DEF Init, Promised!Init
<1> QED
  BY <1>1, Invariance, StepImplements, PTL DEF Spec, ImplementsPayouts, Promised!Spec

-----------------------------------------------------------------------------
(* Transactions: what an open one knows *)

RowsOf(todo) == {todo[n] : n \in DOMAIN todo}

\* The shares of s are those of some pending rows of rows.
Allocates(rows, s) ==
    /\ rows \in Seq(Row)
    /\ \A i \in DOMAIN rows : RowConsistent(rows[i])
    /\ \E P \in SUBSET PendingOf(rows, s.worker, s.bucket, s.from, s.to) :
          /\ CanAllocate(rows, P, s.amount)
          /\ s.allocations = BuildAllocations(rows, P, s.amount)

\* Every row with a share is updated, or will be.
Reaches(t, allocs) ==
    \A i \in DOMAIN t.snapshot :
        At(allocs, i) # 0 => i \in t.written \cup RowsOf(t.todo)

\* rows are still those of the snapshot, but for what t was told of; and nobody
\* else changed a row that t updated.
SnapshotHolds(t, rows) ==
    /\ Len(t.snapshot) <= Len(rows)
    /\ t.written \cup RowsOf(t.todo) \subseteq DOMAIN t.snapshot
    /\ t.written \cap t.changed.rows = {}
    /\ \A i \in DOMAIN t.snapshot \ t.changed.rows : rows[i] = t.snapshot[i]

PayoutPlanned(t, setts) ==
    /\ t.doc.revisions = <<>>
    /\ Allocates(t.snapshot, t.doc)
    /\ t.result = AddAllocations(t.snapshot, t.doc.allocations, AllocatedStatus)
    /\ Reaches(t, t.doc.allocations)
    /\ t.doc.key \notin t.changed.keys =>
          \A k \in DOMAIN setts : setts[k].key # t.doc.key

DetailsPlanned(t, old) ==
    /\ t.doc = Edited(old, old.amount, old.allocations)
    /\ t.written = {} /\ t.todo = <<>>

AmountPlanned(t, old) ==
    LET reversed == ReverseAllocations(t.snapshot, old.allocations)
    IN  /\ t.doc.amount # old.amount
        /\ t.doc = Edited(old, t.doc.amount, t.doc.allocations)
        /\ Len(old.allocations) <= Len(t.snapshot)
        /\ Allocates(reversed, t.doc)
        /\ t.result = AddAllocations(reversed, t.doc.allocations, EntryStatus)
        /\ Reaches(t, old.allocations) /\ Reaches(t, t.doc.allocations)

EditPlanned(t, setts) ==
    LET k == t.request.k
    IN  /\ t.doc.key = setts[k].key
        /\ t.doc.key \notin t.changed.keys =>
              /\ Len(setts[k].revisions) < MaxEdits
              /\ DetailsPlanned(t, setts[k]) \/ AmountPlanned(t, setts[k])

Planned(t, setts) ==
    IF t.request.kind = "pay" THEN PayoutPlanned(t, setts) ELSE EditPlanned(t, setts)

ReadyOK(t) == t.at = "ready" => t.todo = <<>> /\ t.doc.key \notin t.changed.keys

Open(t) == t.at \in {"writing", "ready"}

SessionOK(t, rows, setts) ==
    /\ t.at # "idle" /\ t.request.kind = "edit" => t.request.k \in DOMAIN setts
    /\ Open(t) => SnapshotHolds(t, rows) /\ Planned(t, setts) /\ ReadyOK(t)

\* Two transactions never update the same row, and never insert the same key.
Apart(t, u) ==
    /\ t.written \cap u.written = {}
    /\ t.at = "ready" /\ u.at = "ready" => t.doc.key # u.doc.key

AnyRequest == {Idle} \cup Waiting \cup Transaction

TxnInv ==
    /\ IInv
    /\ session \in [Session -> AnyRequest]
    /\ \A s \in Session : SessionOK(session[s], ledger, settlements)
    /\ \A s, o \in Session :
          s # o /\ Open(session[s]) /\ Open(session[o]) => Apart(session[s], session[o])

-----------------------------------------------------------------------------
(* Steps of the requests, and what they leave to the others *)

\* A request whose at is one of an open transaction is one.
LEMMA OpenTyped ==
    ASSUME NEW t \in AnyRequest
    PROVE  /\ Open(t) <=> t \in Transaction
           /\ t.at = "begin" <=> t \in Waiting
           /\ t.at = "idle" <=> t = Idle
BY DEF AnyRequest, Idle, Waiting, Transaction, Open

\* A step of one request that commits nothing.
LEMMA SessionStep ==
    ASSUME TxnInv, NEW s \in Session, NEW t \in AnyRequest,
           SessionOK(t, ledger, settlements),
           \A o \in Session \ {s} : Open(t) /\ Open(session[o]) =>
              Apart(t, session[o]),
           session' = [session EXCEPT ![s] = t],
           UNCHANGED <<ledger, settlements, refreshes>>
    PROVE  TxnInv'
<1>1. IInv'
  BY DEF TxnInv, IInv, Good, PaidOn, Share, RefreshesKeepKeys, LedgerKeysUnique,
         PayoutKeysUnique, RowIds
<1>2. session' \in [Session -> AnyRequest] /\ \A o \in Session : session'[o] = IF o = s THEN t ELSE session[o]
  BY DEF TxnInv
<1>3. \A o \in Session : SessionOK(session'[o], ledger', settlements')
  BY <1>2 DEF TxnInv
<1>4. ASSUME NEW u, NEW v PROVE Apart(u, v) <=> Apart(v, u)
  BY DEF Apart
<1>5. \A p, o \in Session :
        p # o /\ Open(session'[p]) /\ Open(session'[o]) => Apart(session'[p], session'[o])
  BY <1>2, <1>4 DEF TxnInv
<1> QED
  BY <1>1, <1>2, <1>3, <1>5 DEF TxnInv

\* u is t, told that the rows R and the keys K have changed.
Told(t, u, R, K) ==
    /\ u.at = t.at /\ u.request = t.request /\ u.todo = t.todo
    /\ u.written = t.written /\ u.snapshot = t.snapshot /\ u.result = t.result
    /\ u.doc = t.doc
    /\ u.changed.rows = t.changed.rows \cup R
    /\ u.changed.keys = t.changed.keys \cup K

\* Between two states of the collections only rows of R and settlements with a
\* key of K change; both only grow, and keys stay.
OnlyChanged(rows, setts, rows2, setts2, R, K) ==
    /\ Len(rows) <= Len(rows2)
    /\ \A i \in DOMAIN rows \ R : rows2[i] = rows[i]
    /\ DOMAIN setts \subseteq DOMAIN setts2
    /\ \A k \in DOMAIN setts2 \ DOMAIN setts : setts2[k].key \in K
    /\ \A k \in DOMAIN setts :
          /\ setts2[k].key = setts[k].key
          /\ setts[k].key \notin K => setts2[k] = setts[k]

\* A transaction that is told what changed still knows what it knew.
LEMMA ToldOK ==
    ASSUME NEW rows \in Seq(Row), NEW rows2 \in Seq(Row), NEW setts, NEW setts2, NEW R, NEW K,
           OnlyChanged(rows, setts, rows2, setts2, R, K),
           NEW t \in Transaction, NEW u \in Transaction, Told(t, u, R, K),
           t.written \cap R = {}, t.at = "ready" => t.doc.key \notin K,
           SessionOK(t, rows, setts)
    PROVE  SessionOK(u, rows2, setts2)
<1>1. /\ Open(t) /\ SnapshotHolds(t, rows) /\ Planned(t, setts) /\ ReadyOK(t)
      /\ t.request.kind = "edit" => t.request.k \in DOMAIN setts
  BY DEF SessionOK, Open, Transaction
<1>2. SnapshotHolds(u, rows2)
  <2>1. /\ DOMAIN rows = 1 .. Len(rows) /\ Len(rows) \in Nat
        /\ Len(rows2) \in Nat /\ Len(t.snapshot) \in Nat
        /\ DOMAIN t.snapshot = 1 .. Len(t.snapshot) /\ Len(t.snapshot) <= Len(rows)
    BY <1>1 DEF Transaction, SnapshotHolds
  <2>2. DOMAIN t.snapshot \subseteq DOMAIN rows /\ Len(t.snapshot) <= Len(rows2)
    BY <2>1 DEF OnlyChanged
  <2>3. \A i \in DOMAIN t.snapshot \ u.changed.rows : rows2[i] = t.snapshot[i]
    BY <1>1, <2>2 DEF SnapshotHolds, OnlyChanged, Told
  <2> QED
    BY <1>1, <2>2, <2>3 DEF SnapshotHolds, Told
<1>3. \A allocs : Reaches(t, allocs) => Reaches(u, allocs)
  BY DEF Reaches, Told
<1>4. Planned(u, setts2)
  <2>1. CASE t.request.kind = "pay"
    <3>1. PayoutPlanned(t, setts)
      BY <1>1, <2>1 DEF Planned
    <3>2. t.doc.key \notin u.changed.keys => \A k \in DOMAIN setts2 : setts2[k].key # t.doc.key
      BY <3>1 DEF PayoutPlanned, OnlyChanged, Told
    <3>3. PayoutPlanned(u, setts2)
      BY <1>3, <3>1, <3>2 DEF PayoutPlanned, Told
    <3> QED
      BY <2>1, <3>3 DEF Planned, Told
  <2>2. CASE t.request.kind # "pay"
    <3>1. t.request.kind = "edit"
      BY <2>2 DEF Transaction, RequestDoc
    <3> DEFINE k == t.request.k
    <3>2. k \in DOMAIN setts /\ EditPlanned(t, setts)
      BY <1>1, <2>2, <3>1 DEF Planned
    <3>3. /\ t.doc.key = setts2[k].key
          /\ t.doc.key \notin u.changed.keys =>
                t.doc.key \notin t.changed.keys /\ setts2[k] = setts[k]
      BY <3>2 DEF EditPlanned, OnlyChanged, Told
    <3>4. \A old : /\ DetailsPlanned(t, old) => DetailsPlanned(u, old)
                   /\ AmountPlanned(t, old) => AmountPlanned(u, old)
      BY <1>3 DEF DetailsPlanned, AmountPlanned, Told
    <3>5. EditPlanned(u, setts2)
      BY <3>2, <3>3, <3>4 DEF EditPlanned, Told
    <3> QED
      BY <2>2, <3>5 DEF Planned, Told
  <2> QED
    BY <2>1, <2>2
<1>5. ReadyOK(u)
  BY <1>1 DEF ReadyOK, Told
<1> QED
  BY <1>1, <1>2, <1>4, <1>5 DEF SessionOK, Told, OnlyChanged

\* A step that changes the collections, of which every open transaction is told.
LEMMA ToldStep ==
    ASSUME TxnInv, IInv', NEW R, NEW K,
           OnlyChanged(ledger, settlements, ledger', settlements', R, K),
           session' \in [Session -> AnyRequest],
           \A o \in Session :
              \/ session'[o] = Idle
              \/ ~Open(session[o]) /\ session'[o] = session[o]
              \/ /\ Open(session[o]) /\ Told(session[o], session'[o], R, K)
                 /\ session[o].written \cap R = {}
                 /\ session[o].at = "ready" => session[o].doc.key \notin K
    PROVE  TxnInv'
<1>1. ledger \in Seq(Row) /\ ledger' \in Seq(Row)
  BY DEF TxnInv, IInv, Good
<1>2. ~Open(Idle) /\ Idle.at = "idle"
  BY DEF Open, Idle
<1>3. ASSUME NEW o \in Session PROVE SessionOK(session'[o], ledger', settlements')
  <2>1. CASE session'[o] = Idle
    BY <1>2, <2>1 DEF SessionOK
  <2>2. CASE ~Open(session[o]) /\ session'[o] = session[o]
    BY <2>2 DEF TxnInv, SessionOK, OnlyChanged
  <2>3. CASE /\ Open(session[o]) /\ Told(session[o], session'[o], R, K)
             /\ session[o].written \cap R = {}
             /\ session[o].at = "ready" => session[o].doc.key \notin K
    <3>1. session[o] \in AnyRequest /\ session'[o] \in AnyRequest /\ Open(session'[o])
      BY <2>3 DEF TxnInv, Told, Open
    <3>2. session[o] \in Transaction /\ session'[o] \in Transaction
      BY <2>3, <3>1, OpenTyped
    <3>3. SessionOK(session[o], ledger, settlements)
      BY DEF TxnInv
    <3> QED
      BY <1>1, <2>3, <3>2, <3>3, ToldOK
  <2> QED
    BY <2>1, <2>2, <2>3
<1>4. ASSUME NEW p \in Session, NEW o \in Session, p # o,
             Open(session'[p]), Open(session'[o])
      PROVE  Apart(session'[p], session'[o])
  <2>1. ASSUME NEW q \in Session, Open(session'[q])
        PROVE  /\ Open(session[q]) /\ session'[q].written = session[q].written
               /\ session'[q].at = session[q].at /\ session'[q].doc = session[q].doc
    BY <1>2, <2>1 DEF Told
  <2>2. Apart(session[p], session[o])
    BY <1>4, <2>1 DEF TxnInv
  <2> QED
    BY <1>4, <2>1, <2>2 DEF Apart
<1> QED
  BY <1>3, <1>4 DEF TxnInv

-----------------------------------------------------------------------------
(* A snapshot that commits is the ledger at that moment *)

\* A list has the same total over any number of rows beyond its end.
LEMMA SumFarBeyond ==
    ASSUME NEW s \in Settlement, NEW n \in Nat, NEW m \in Nat,
           Len(s.allocations) <= n, n <= m
    PROVE  SumTo(s.allocations, m) = SumTo(s.allocations, n)
<1> DEFINE S == {d \in Nat : SumTo(s.allocations, n + d) = SumTo(s.allocations, n)}
<1>1. 0 \in S
  OBVIOUS
<1>2. ASSUME NEW d \in S PROVE d + 1 \in S
  <2>1. s.allocations \in Seq(Int)
    BY DEF Settlement
  <2>2. n + d \in Nat /\ Len(s.allocations) <= n + d /\ n + (d + 1) = (n + d) + 1
    BY <2>1
  <2>3. SumTo(s.allocations, (n + d) + 1) = SumTo(s.allocations, n + d)
    BY <2>2, SumBeyond
  <2> QED
    BY <2>2, <2>3
<1>3. S = Nat
  <2>1. S \in SUBSET Nat
    OBVIOUS
  <2> HIDE DEF S
  <2> QED
    BY <1>1, <1>2, <2>1, SetInduction
<1>4. m - n \in Nat /\ n + (m - n) = m
  OBVIOUS
<1>5. m - n \in S
  <2> HIDE DEF S
  <2> QED
    BY <1>3, <1>4
<1> QED
  BY <1>4, <1>5

\* Shares planned over old rows can be paid from rows that have not changed
\* where there are shares.
LEMMA SharesStillOut ==
    ASSUME NEW old, NEW s \in Settlement, Allocates(old, s),
           NEW rows \in Seq(Row), Len(old) <= Len(rows),
           \A i \in DOMAIN old : At(s.allocations, i) # 0 => rows[i] = old[i],
           NEW P, P = {i \in DOMAIN rows : At(s.allocations, i) # 0}
    PROVE  /\ P \subseteq PendingOf(rows, s.worker, s.bucket, s.from, s.to)
           /\ SharesOut(rows, P, s.allocations)
           /\ Promised!Covers(rows, s)
           /\ \A i \in DOMAIN rows :
                 At(s.allocations, i) # 0 => rows[i].settled + At(s.allocations, i) # 0
<1> DEFINE allocs == s.allocations
<1>1. /\ old \in Seq(Row) /\ \A i \in DOMAIN old : RowConsistent(old[i])
      /\ allocs \in Seq(Int) /\ s.amount \in Nat
  BY DEF Allocates, Settlement
<1>2. PICK Q \in SUBSET PendingOf(old, s.worker, s.bucket, s.from, s.to) :
        CanAllocate(old, Q, s.amount) /\ allocs = BuildAllocations(old, Q, s.amount)
  BY DEF Allocates
<1>3. Q \in SUBSET DOMAIN old
  BY DEF PendingOf
<1>4. SharesOut(old, Q, allocs)
  BY <1>1, <1>2, <1>3, BuildAllocationsFacts
<1>5. /\ Promised!Covers(old, s)
      /\ \A i \in DOMAIN old : At(allocs, i) # 0 => old[i].settled + At(allocs, i) # 0
  BY <1>1, <1>2, SharesCover
<1>6. /\ Len(old) \in Nat /\ Len(rows) \in Nat /\ Len(allocs) <= Len(old)
      /\ DOMAIN old = 1 .. Len(old) /\ DOMAIN rows = 1 .. Len(rows)
      /\ DOMAIN allocs = 1 .. Len(allocs) /\ Len(allocs) \in Nat
  BY <1>1, <1>4 DEF SharesOut
<1> HIDE DEF allocs
<1>7. ASSUME NEW i \in DOMAIN rows, At(allocs, i) # 0
      PROVE  i \in DOMAIN old /\ rows[i] = old[i]
  <2>1. i \in DOMAIN allocs
    BY <1>7 DEF At
  <2>2. i \in DOMAIN old
    BY <1>6, <2>1
  <2> QED
    BY <1>7, <2>2 DEF allocs
<1>8. P \subseteq PendingOf(rows, s.worker, s.bucket, s.from, s.to)
  <2>1. \A i \in P : i \in DOMAIN rows /\ At(allocs, i) # 0
    BY DEF allocs
  <2>2. \A i \in P : i \in DOMAIN rows /\ rows[i] = old[i] /\ i \in Q
    BY <1>4, <1>7, <2>1 DEF SharesOut
  <2> QED
    BY <2>2 DEF PendingOf
<1>9. SharesOut(rows, P, allocs)
  BY <1>1, <1>4, <1>6, <1>7 DEF SharesOut, allocs
<1>10. SumTo(allocs, Len(rows)) = s.amount
  <2>1. SumTo(allocs, Len(old)) = s.amount
    BY <1>5, SameTotals DEF Promised!Covers, allocs
  <2> QED
    BY <1>6, <2>1, SumFarBeyond DEF allocs
<1>11. ASSUME NEW i \in DOMAIN rows, At(allocs, i) # 0
       PROVE  Promised!Payable(rows[i], s, At(allocs, i))
  BY <1>5, <1>7, <1>11, SameTotals DEF Promised!Covers, allocs
<1>12. Promised!Covers(rows, s)
  BY <1>6, <1>10, <1>11, SameTotals DEF Promised!Covers, allocs
<1>13. \A i \in DOMAIN rows : At(allocs, i) # 0 => rows[i].settled + At(allocs, i) # 0
  BY <1>5, <1>7
<1> QED
  BY <1>8, <1>9, <1>12, <1>13 DEF allocs

\* What is known of a transaction that is about to commit.
LEMMA ReadyFacts ==
    ASSUME TxnInv, NEW s \in Session, session[s].at = "ready"
    PROVE  LET t == session[s]
           IN  /\ t \in Transaction /\ t.doc \in Settlement /\ t.doc.key \notin t.changed.keys
               /\ Planned(t, settlements)
               /\ t.request.kind \in {"pay", "edit"}
               /\ t.request.kind = "edit" => t.request.k \in DOMAIN settlements
               /\ t.snapshot \in Seq(Row) /\ Len(t.snapshot) <= Len(ledger)
               /\ DOMAIN t.snapshot \subseteq DOMAIN ledger
               /\ t.written \subseteq DOMAIN t.snapshot
               /\ \A i \in t.written : ledger[i] = t.snapshot[i]
               /\ \A allocs : Reaches(t, allocs) =>
                     \A i \in DOMAIN t.snapshot : At(allocs, i) # 0 => i \in t.written
<1> DEFINE t == session[s]
<1>1. t \in Transaction
  BY OpenTyped DEF TxnInv, Open
<1>2. SessionOK(t, ledger, settlements) /\ Open(t) /\ ledger \in Seq(Row)
  BY DEF TxnInv, Open, IInv, Good
<1>3. /\ SnapshotHolds(t, ledger) /\ Planned(t, settlements)
      /\ t.todo = <<>> /\ t.doc.key \notin t.changed.keys
      /\ t.request.kind = "edit" => t.request.k \in DOMAIN settlements
  BY <1>2 DEF SessionOK, ReadyOK, Open
<1>4. /\ t.snapshot \in Seq(Row) /\ t.doc \in Settlement /\ t.request.kind \in {"pay", "edit"}
  BY <1>1 DEF Transaction, RequestDoc
<1> HIDE DEF t
<1>5. DOMAIN t.snapshot \subseteq DOMAIN ledger
  BY <1>2, <1>3, <1>4 DEF SnapshotHolds
<1>6. RowsOf(t.todo) = {}
  BY <1>3 DEF RowsOf
<1>7. \A i \in t.written : ledger[i] = t.snapshot[i]
  BY <1>3 DEF SnapshotHolds
<1> QED
  BY <1>1, <1>3, <1>4, <1>5, <1>6, <1>7 DEF SnapshotHolds, Reaches, t

\* Shares planned over rows are of these rows.
LEMMA AllocatesWithin ==
    ASSUME NEW rows, NEW s \in Settlement, Allocates(rows, s)
    PROVE  rows \in Seq(Row) /\ s.allocations \in Seq(Int)
           /\ DOMAIN s.allocations \subseteq DOMAIN rows
<1>1. rows \in Seq(Row) /\ s.amount \in Nat /\ s.allocations \in Seq(Int)
  BY DEF Allocates, Settlement
<1>2. PICK Q \in SUBSET PendingOf(rows, s.worker, s.bucket, s.from, s.to) :
        s.allocations = BuildAllocations(rows, Q, s.amount)
  BY DEF Allocates
<1> QED
  BY <1>1, <1>2 DEF BuildAllocations

\* The commit of a payout adds the shares to the rows as they are.
LEMMA PayoutMerges ==
    ASSUME TxnInv, NEW s \in Session, session[s].at = "ready",
           session[s].request.kind = "pay"
    PROVE  Merged(ledger, s) = AddAllocations(ledger, session[s].doc.allocations, AllocatedStatus)
<1> DEFINE t == session[s]
           allocs == t.doc.allocations
<1>1. /\ t.doc \in Settlement /\ PayoutPlanned(t, settlements)
      /\ t.written \subseteq DOMAIN t.snapshot
      /\ \A i \in t.written : ledger[i] = t.snapshot[i]
      /\ \A a : Reaches(t, a) =>
            \A i \in DOMAIN t.snapshot : At(a, i) # 0 => i \in t.written
  BY ReadyFacts DEF Planned
<1>2. /\ Allocates(t.snapshot, t.doc)
      /\ t.result = AddAllocations(t.snapshot, allocs, AllocatedStatus)
      /\ Reaches(t, allocs)
  BY <1>1 DEF PayoutPlanned
<1>3. DOMAIN allocs \subseteq DOMAIN t.snapshot
  BY <1>1, <1>2, AllocatesWithin
<1> HIDE DEF t
<1>4. ASSUME NEW i \in DOMAIN ledger
      PROVE  (IF i \in t.written THEN t.result[i] ELSE ledger[i])
                = AddAllocations(ledger, allocs, AllocatedStatus)[i]
  <2>1. CASE i \in t.written
    BY <1>1, <1>2, <2>1 DEF AddAllocations
  <2>2. CASE i \notin t.written
    <3>1. At(allocs, i) = 0
      BY <1>1, <1>2, <1>3, <2>2 DEF At
    <3> QED
      BY <2>2, <3>1 DEF AddAllocations
  <2> QED
    BY <2>1, <2>2
<1>5. Merged(ledger, s) = [i \in DOMAIN ledger |-> IF i \in t.written THEN t.result[i] ELSE ledger[i]]
  BY DEF Merged, t
<1>6. AddAllocations(ledger, allocs, AllocatedStatus)
        = [i \in DOMAIN ledger |-> AddAllocations(ledger, allocs, AllocatedStatus)[i]]
  BY DEF AddAllocations
<1> QED
  BY <1>4, <1>5, <1>6 DEF t

\* The commit of an edit takes the old shares back from the rows as they are,
\* and adds the new ones.
LEMMA EditMerges ==
    ASSUME TxnInv, NEW s \in Session, session[s].at = "ready",
           session[s].request.kind = "edit", NEW k, k = session[s].request.k,
           AmountPlanned(session[s], settlements[k])
    PROVE  /\ Merged(ledger, s)
                = AddAllocations(Reversed(k), session[s].doc.allocations, EntryStatus)
           /\ LET reversed == ReverseAllocations(session[s].snapshot, settlements[k].allocations)
              IN  /\ Len(reversed) <= Len(Reversed(k))
                  /\ \A i \in DOMAIN reversed :
                        At(session[s].doc.allocations, i) # 0 => Reversed(k)[i] = reversed[i]
<1> DEFINE t == session[s]
           allocs == t.doc.allocations
           shares == settlements[k].allocations
           reversed == ReverseAllocations(t.snapshot, shares)
<1>1. /\ t.doc \in Settlement /\ k \in DOMAIN settlements
      /\ t.snapshot \in Seq(Row) /\ Len(t.snapshot) <= Len(ledger)
      /\ DOMAIN t.snapshot \subseteq DOMAIN ledger
      /\ t.written \subseteq DOMAIN t.snapshot
      /\ \A i \in t.written : ledger[i] = t.snapshot[i]
      /\ \A a : Reaches(t, a) =>
            \A i \in DOMAIN t.snapshot : At(a, i) # 0 => i \in t.written
  BY ReadyFacts
<1>2. /\ Allocates(reversed, t.doc) /\ Len(shares) <= Len(t.snapshot)
      /\ t.result = AddAllocations(reversed, allocs, EntryStatus)
      /\ Reaches(t, shares) /\ Reaches(t, allocs)
  BY DEF AmountPlanned
<1>3. /\ DOMAIN reversed = DOMAIN t.snapshot /\ reversed \in Seq(Row)
      /\ DOMAIN allocs \subseteq DOMAIN t.snapshot
  BY <1>1, <1>2, AllocatesWithin DEF ReverseAllocations
<1>4. DOMAIN shares \subseteq DOMAIN t.snapshot
  <2>1. settlements \in Seq(Settlement)
    BY DEF TxnInv, IInv, Good
  <2>2. settlements[k] \in Settlement
    BY <1>1, <2>1
  <2>3. shares \in Seq(Int)
    BY <2>2 DEF Settlement
  <2> HIDE DEF t, shares
  <2> QED
    BY <1>1, <1>2, <2>3
<1>5. /\ DOMAIN Reversed(k) = DOMAIN ledger
      /\ \A i \in DOMAIN ledger : Reversed(k)[i] = ReverseAllocations(ledger, shares)[i]
      /\ Len(Reversed(k)) = Len(ledger)
  BY <1>1, ReversedFacts DEF TxnInv, Reversed, RowIds
<1> HIDE DEF t, allocs, shares, reversed
<1>6. \A i \in t.written : Reversed(k)[i] = reversed[i]
  BY <1>1, <1>5 DEF ReverseAllocations, reversed
<1>7. ASSUME NEW i \in DOMAIN ledger
      PROVE  (IF i \in t.written THEN t.result[i] ELSE ledger[i])
                = AddAllocations(Reversed(k), allocs, EntryStatus)[i]
  <2>1. CASE i \in t.written
    BY <1>1, <1>2, <1>3, <1>5, <1>6, <2>1 DEF AddAllocations
  <2>2. CASE i \notin t.written
    <3>1. At(allocs, i) = 0 /\ At(shares, i) = 0
      BY <1>1, <1>2, <1>3, <1>4, <2>2 DEF At
    <3>2. Reversed(k)[i] = ledger[i]
      BY <1>5, <3>1 DEF ReverseAllocations
    <3> QED
      BY <1>5, <2>2, <3>1, <3>2 DEF AddAllocations
  <2> QED
    BY <2>1, <2>2
<1>8. Merged(ledger, s) = [i \in DOMAIN ledger |-> IF i \in t.written THEN t.result[i] ELSE ledger[i]]
  BY DEF Merged, t
<1>9. AddAllocations(Reversed(k), allocs, EntryStatus)
        = [i \in DOMAIN ledger |-> AddAllocations(Reversed(k), allocs, EntryStatus)[i]]
  BY <1>5 DEF AddAllocations
<1>10. Len(reversed) <= Len(Reversed(k))
  <2>1. Len(reversed) = Len(t.snapshot)
    BY <1>1, <1>3
  <2> QED
    BY <1>1, <1>5, <2>1
<1>11. \A i \in DOMAIN reversed : At(allocs, i) # 0 => Reversed(k)[i] = reversed[i]
  BY <1>1, <1>2, <1>3, <1>6
<1> QED
  BY <1>7, <1>8, <1>9, <1>10, <1>11 DEF t, allocs, shares, reversed

\* A commit keeps the invariant of the collections, and is one step of the
\* abstract ledger.
LEMMA CommitImplements ==
    ASSUME TxnInv, NEW s \in Session, Commit(s)
    PROVE  IInv' /\ (Promised!Pay \/ Promised!Edit)
<1> DEFINE t == session[s]
           d == t.doc
<1>1. /\ t.at = "ready" /\ ledger' = Merged(ledger, s) /\ UNCHANGED refreshes
      /\ settlements' = IF t.request.kind = "pay"
                          THEN Append(settlements, d)
                          ELSE [settlements EXCEPT ![t.request.k] = d]
  BY DEF Commit
<1>2. IInv /\ ledger \in Seq(Row)
  BY DEF TxnInv, IInv, Good
<1>3. /\ d \in Settlement /\ d.key \notin t.changed.keys
      /\ Planned(t, settlements)
      /\ t.request.kind \in {"pay", "edit"}
      /\ t.request.kind = "edit" => t.request.k \in DOMAIN settlements
      /\ t.snapshot \in Seq(Row) /\ Len(t.snapshot) <= Len(ledger)
      /\ \A i \in t.written : ledger[i] = t.snapshot[i]
      /\ \A allocs : Reaches(t, allocs) =>
            \A i \in DOMAIN t.snapshot : At(allocs, i) # 0 => i \in t.written
  BY <1>1, ReadyFacts
<1>4. d.allocations \in Seq(Int)
  BY <1>3 DEF Settlement
<1>5. CASE t.request.kind = "pay"
  <2>1. PayoutPlanned(t, settlements)
    BY <1>3, <1>5 DEF Planned
  <2>2. /\ Allocates(t.snapshot, d) /\ d.revisions = <<>>
        /\ \A k \in DOMAIN settlements : settlements[k].key # d.key
        /\ \A i \in DOMAIN t.snapshot : At(d.allocations, i) # 0 => ledger[i] = t.snapshot[i]
    BY <1>3, <2>1 DEF PayoutPlanned
  <2>3. ledger' = AddAllocations(ledger, d.allocations, AllocatedStatus)
    BY <1>1, <1>5, PayoutMerges
  <2>4. settlements' = Append(settlements, d)
    BY <1>1, <1>5
  <2> HIDE DEF t, d
  <2> DEFINE P == {i \in DOMAIN ledger : At(d.allocations, i) # 0}
  <2>5. /\ P \subseteq PendingOf(ledger, d.worker, d.bucket, d.from, d.to)
        /\ SharesOut(ledger, P, d.allocations)
        /\ Promised!Covers(ledger, d)
        /\ \A i \in DOMAIN ledger :
              At(d.allocations, i) # 0 => ledger[i].settled + At(d.allocations, i) # 0
    <3>1. d \in Settlement /\ ledger \in Seq(Row) /\ Len(t.snapshot) <= Len(ledger)
      BY <1>2, <1>3
    <3>2. P = {i \in DOMAIN ledger : At(d.allocations, i) # 0}
      OBVIOUS
    <3> HIDE DEF P
    <3> QED
      BY <2>2, <3>1, <3>2, SharesStillOut
  <2> HIDE DEF P
  <2>6. IInv'
    BY <1>1, <1>2, <1>3, <2>2, <2>3, <2>4, <2>5, PayStep
  <2>7. Promised!Pay
    BY <1>2, <1>4, <2>2, <2>3, <2>4, <2>5, PayPromised
  <2> QED
    BY <2>6, <2>7
<1>6. CASE t.request.kind = "edit"
  <2> DEFINE k == t.request.k
             old == settlements[k]
  <2>1. /\ k \in DOMAIN settlements /\ settlements' = [settlements EXCEPT ![k] = d]
        /\ d.key = old.key /\ Len(old.revisions) < MaxEdits
        /\ DetailsPlanned(t, old) \/ AmountPlanned(t, old)
    BY <1>1, <1>3, <1>6 DEF Planned, EditPlanned
  <2>2. old \in Settlement
    BY <1>2, <2>1 DEF IInv, Good
  <2>3. CASE DetailsPlanned(t, old)
    <3>1. d = Edited(old, old.amount, old.allocations) /\ t.written = {}
      BY <2>3 DEF DetailsPlanned
    <3>2. d = [old EXCEPT !.revisions = Append(@, Revision(old))]
      BY <2>2, <3>1 DEF Edited, Settlement
    <3>3. UNCHANGED ledger
      BY <1>1, <1>2, <3>1 DEF Merged
    <3> HIDE DEF t, d
    <3>4. EditDetails(k)
      BY <1>1, <2>1, <3>2, <3>3 DEF EditDetails
    <3> QED
      BY <1>2, <2>1, <3>4, EditDetailsStep, EditDetailsEdits
  <2>4. CASE AmountPlanned(t, old)
    <3> DEFINE reversed == ReverseAllocations(t.snapshot, old.allocations)
               P == {i \in DOMAIN Reversed(k) : At(d.allocations, i) # 0}
    <3>1. /\ d.amount # old.amount /\ d = Edited(old, d.amount, d.allocations)
          /\ Allocates(reversed, d)
      BY <2>4 DEF AmountPlanned
    <3>2. /\ ledger' = AddAllocations(Reversed(k), d.allocations, EntryStatus)
          /\ Len(reversed) <= Len(Reversed(k))
          /\ \A i \in DOMAIN reversed :
                At(d.allocations, i) # 0 => Reversed(k)[i] = reversed[i]
      BY <1>1, <1>6, <2>4, EditMerges
    <3>3. Reversed(k) \in Seq(Row)
      BY <1>2, <2>1, ReversedFacts
    <3> HIDE DEF t, d
    <3>4. /\ d = [old EXCEPT !.amount = d.amount, !.allocations = d.allocations,
                             !.revisions = Append(old.revisions, Revision(old))]
          /\ SameScope(d, old)
      <4> DEFINE revs == Append(old.revisions, Revision(old))
      <4>1. d = [old EXCEPT !.amount = d.amount, !.allocations = d.allocations, !.revisions = revs]
        BY <2>2, <3>1 DEF Edited, Settlement
      <4> HIDE DEF revs
      <4>2. SameScope(d, old)
        BY <2>2, <4>1 DEF SameScope, Settlement
      <4> QED
        BY <4>1, <4>2 DEF revs
    <3> HIDE DEF reversed
    <3>5. /\ P \subseteq PendingOf(Reversed(k), d.worker, d.bucket, d.from, d.to)
          /\ SharesOut(Reversed(k), P, d.allocations)
          /\ Promised!Covers(Reversed(k), d)
      <4> HIDE DEF P
      <4> DEFINE rows == Reversed(k)
      <4>1. /\ rows \in Seq(Row) /\ Len(reversed) <= Len(rows)
            /\ \A i \in DOMAIN reversed : At(d.allocations, i) # 0 => rows[i] = reversed[i]
        BY <3>2, <3>3
      <4>2. P = {i \in DOMAIN rows : At(d.allocations, i) # 0}
        BY DEF P
      <4> HIDE DEF rows
      <4>3. /\ P \subseteq PendingOf(rows, d.worker, d.bucket, d.from, d.to)
            /\ SharesOut(rows, P, d.allocations)
            /\ Promised!Covers(rows, d)
        <5>1. d \in Settlement /\ Allocates(reversed, d)
          BY <1>3, <3>1
        <5> QED
          BY <4>1, <4>2, <5>1, SharesStillOut
      <4> QED
        BY <4>3 DEF rows
    <3> HIDE DEF P
    <3>6. IInv'
      BY <1>1, <1>2, <1>3, <2>1, <3>2, <3>4, <3>5, EditStep
    <3>7. Promised!Edit
      <4>1. /\ k \in DOMAIN settlements /\ d.allocations \in Seq(Int)
            /\ d.amount # settlements[k].amount
            /\ ledger' = AddAllocations(Reversed(k), d.allocations, EntryStatus)
            /\ settlements' = [settlements EXCEPT ![k] = d]
        BY <1>4, <2>1, <3>1, <3>2
      <4>2. d = [settlements[k] EXCEPT
                    !.amount = d.amount, !.allocations = d.allocations,
                    !.revisions = Append(settlements[k].revisions, Revision(settlements[k]))]
        BY <3>4
      <4> HIDE DEF old, k
      <4> QED
        BY <1>2, <3>5, <4>1, <4>2, EditPromised
    <3> QED
      BY <3>6, <3>7
  <2> QED
    BY <2>1, <2>3, <2>4
<1> QED
  BY <1>3, <1>5, <1>6

-----------------------------------------------------------------------------
(* Steps that change the collections *)

\* Being told keeps a request what it is.
LEMMA NotedTold ==
    ASSUME NEW f \in [Session -> AnyRequest], NEW R \in SUBSET (Nat \ {0}),
           NEW K \in SUBSET PayoutKey
    PROVE  /\ Noted(f, R, K) \in [Session -> AnyRequest]
           /\ \A o \in Session :
                 /\ Open(f[o]) => Told(f[o], Noted(f, R, K)[o], R, K)
                 /\ ~Open(f[o]) => Noted(f, R, K)[o] = f[o]
<1>1. ASSUME NEW o \in Session, Open(f[o])
      PROVE  /\ Told(f[o], Noted(f, R, K)[o], R, K)
             /\ Noted(f, R, K)[o] \in AnyRequest
  <2> DEFINE t == f[o]
             c == [rows |-> t.changed.rows \cup R, keys |-> t.changed.keys \cup K]
             u == [t EXCEPT !.changed = c]
  <2>1. t \in Transaction
    BY <1>1, OpenTyped
  <2>2. c \in [rows : SUBSET (Nat \ {0}), keys : SUBSET PayoutKey]
    BY <2>1 DEF Transaction
  <2>3. /\ c.rows = t.changed.rows \cup R /\ c.keys = t.changed.keys \cup K
    OBVIOUS
  <2>4. Noted(f, R, K)[o] = u
    BY <1>1 DEF Noted, Open
  <2> HIDE DEF c, t
  <2>5. /\ u \in Transaction /\ u.changed = c
        /\ u.at = t.at /\ u.request = t.request /\ u.todo = t.todo
        /\ u.written = t.written /\ u.snapshot = t.snapshot
        /\ u.result = t.result /\ u.doc = t.doc
    BY <2>1, <2>2 DEF Transaction
  <2> HIDE DEF u
  <2>6. Told(t, u, R, K)
    BY <2>3, <2>5 DEF Told
  <2> QED
    BY <2>4, <2>5, <2>6 DEF AnyRequest, t
<1>2. ASSUME NEW o \in Session, ~Open(f[o])
      PROVE  Noted(f, R, K)[o] = f[o]
  BY <1>2 DEF Noted, Open
<1>3. Noted(f, R, K) = [o \in Session |-> Noted(f, R, K)[o]]
  BY DEF Noted
<1>4. \A o \in Session : Noted(f, R, K)[o] \in AnyRequest
  BY <1>1, <1>2
<1> HIDE DEF Noted
<1>5. Noted(f, R, K) \in [Session -> AnyRequest]
  BY <1>3, <1>4
<1> QED
  BY <1>1, <1>2, <1>5

\* What a commit changes, the others are told; nothing they have written.
LEMMA CommitStep ==
    ASSUME TxnInv, NEW s \in Session, Commit(s)
    PROVE  TxnInv'
<1> DEFINE t == session[s]
           R == t.written
           K == {t.doc.key}
           f == [session EXCEPT ![s] = Idle]
<1>1. /\ t.at = "ready" /\ Open(t) /\ session' = Noted(f, R, K)
      /\ ledger' = Merged(ledger, s)
      /\ settlements' = IF t.request.kind = "pay"
                          THEN Append(settlements, t.doc)
                          ELSE [settlements EXCEPT ![t.request.k] = t.doc]
  BY DEF Commit, Open
<1>2. /\ t \in Transaction /\ t.doc \in Settlement
      /\ Planned(t, settlements) /\ t.request.kind \in {"pay", "edit"}
      /\ t.request.kind = "edit" => t.request.k \in DOMAIN settlements
  BY <1>1, ReadyFacts
<1>3. R \in SUBSET (Nat \ {0}) /\ K \in SUBSET PayoutKey
  BY <1>2 DEF Transaction, Settlement
<1>4. f \in [Session -> AnyRequest] /\ f[s] = Idle /\ \A o \in Session \ {s} : f[o] = session[o]
  BY DEF TxnInv, AnyRequest
<1>5. IInv' /\ ledger \in Seq(Row) /\ settlements \in Seq(Settlement) /\ ledger' \in Seq(Row)
  BY CommitImplements DEF TxnInv, IInv, Good
<1>6. OnlyChanged(ledger, settlements, ledger', settlements', R, K)
  <2>1. DOMAIN ledger' = DOMAIN ledger /\ \A i \in DOMAIN ledger \ R : ledger'[i] = ledger[i]
    BY <1>1 DEF Merged
  <2>2. Len(ledger) <= Len(ledger')
    BY <1>5, <2>1
  <2>3. CASE t.request.kind = "pay"
    <3>1. settlements' = Append(settlements, t.doc)
      BY <1>1, <2>3
    <3> HIDE DEF t
    <3>2. /\ DOMAIN settlements \subseteq DOMAIN settlements'
          /\ \A k \in DOMAIN settlements : settlements'[k] = settlements[k]
          /\ \A k \in DOMAIN settlements' \ DOMAIN settlements : settlements'[k] = t.doc
      BY <1>2, <1>5, <3>1
    <3> QED
      BY <2>1, <2>2, <3>2 DEF OnlyChanged
  <2>4. CASE t.request.kind = "edit"
    <3> DEFINE k == t.request.k
    <3>1. settlements' = [settlements EXCEPT ![k] = t.doc] /\ k \in DOMAIN settlements
      BY <1>1, <1>2, <2>4
    <3>2. t.doc.key = settlements[k].key
      BY <1>2, <2>4 DEF Planned, EditPlanned
    <3> HIDE DEF t, k
    <3>3. /\ DOMAIN settlements' = DOMAIN settlements /\ settlements'[k] = t.doc
          /\ \A j \in DOMAIN settlements : j # k => settlements'[j] = settlements[j]
      BY <1>5, <3>1
    <3> QED
      BY <2>1, <2>2, <3>1, <3>2, <3>3 DEF OnlyChanged
  <2> QED
    BY <1>2, <2>3, <2>4
<1>7. /\ Noted(f, R, K) \in [Session -> AnyRequest]
      /\ \A o \in Session :
            /\ Open(f[o]) => Told(f[o], Noted(f, R, K)[o], R, K)
            /\ ~Open(f[o]) => Noted(f, R, K)[o] = f[o]
  BY <1>3, <1>4, NotedTold
<1>8. ASSUME NEW o \in Session
      PROVE  \/ session'[o] = Idle
             \/ ~Open(session[o]) /\ session'[o] = session[o]
             \/ /\ Open(session[o]) /\ Told(session[o], session'[o], R, K)
                /\ session[o].written \cap R = {}
                /\ session[o].at = "ready" => session[o].doc.key \notin K
  <2>1. CASE o = s
    <3>1. ~Open(Idle)
      BY DEF Open, Idle
    <3> QED
      BY <1>1, <1>4, <1>7, <2>1, <3>1
  <2>2. CASE o # s /\ ~Open(session[o])
    BY <1>1, <1>4, <1>7, <2>2
  <2>3. CASE o # s /\ Open(session[o])
    <3>1. Apart(session[o], t)
      BY <1>1, <2>3 DEF TxnInv
    <3> QED
      BY <1>1, <1>4, <1>7, <2>3, <3>1 DEF Apart
  <2> QED
    BY <2>1, <2>2, <2>3
<1>9. session' \in [Session -> AnyRequest]
  BY <1>1, <1>7
<1> HIDE DEF R, K
<1> QED
  BY <1>5, <1>6, <1>8, <1>9, ToldStep

\* Rows that are only appended to are nothing to tell of.
LEMMA AppendedStep ==
    ASSUME TxnInv, IInv', NEW row, ledger' = Append(ledger, row) \/ UNCHANGED ledger,
           UNCHANGED <<settlements, session>>
    PROVE  TxnInv'
<1> DEFINE none == {}
<1>1. ledger \in Seq(Row) /\ session' \in [Session -> AnyRequest]
  BY DEF TxnInv, IInv, Good
<1>2. Len(ledger) <= Len(ledger') /\ \A i \in DOMAIN ledger : ledger'[i] = ledger[i]
  BY <1>1
<1>3. OnlyChanged(ledger, settlements, ledger', settlements', none, none)
  BY <1>2 DEF OnlyChanged
<1>4. \A t : Told(t, t, none, none)
  BY DEF Told
<1>5. \A o \in Session :
         \/ session'[o] = Idle
         \/ ~Open(session[o]) /\ session'[o] = session[o]
         \/ /\ Open(session[o]) /\ Told(session[o], session'[o], none, none)
            /\ session[o].written \cap none = {}
            /\ session[o].at = "ready" => session[o].doc.key \notin none
  BY <1>4
<1> HIDE DEF none
<1> QED
  BY <1>1, <1>3, <1>5, ToldStep

\* A refresh rewrites no row of an open transaction, and is told to it.
LEMMA WriteRefreshStep ==
    ASSUME TxnInv, NEW r \in refreshes, WriteRefresh(r)
    PROVE  TxnInv'
<1>1. IInv' /\ UNCHANGED settlements
  BY RefreshStep DEF TxnInv, WriteRefresh, RefreshSourceEntry
<1>2. CASE ledger' = ledger
  BY <1>1, <1>2, AppendedStep DEF WriteRefresh
<1>3. CASE ledger' # ledger
  <2> DEFINE R == {r.id}
             K == {}
  <2>1. session' = Noted(session, R, K) /\ Writers(r.id) = {}
    BY <1>3 DEF WriteRefresh
  <2>2. ledger \in Seq(Row) /\ r.id \in DOMAIN ledger
    BY DEF TxnInv, IInv, Good, RefreshesKeepKeys, RowIds
  <2>3. ledger' = [ledger EXCEPT ![r.id] = r.row] /\ ledger' \in Seq(Row)
    BY <1>1, <1>3 DEF WriteRefresh, RefreshSourceEntry, IInv, Good
  <2>4. R \in SUBSET (Nat \ {0}) /\ K \in SUBSET PayoutKey
    BY <2>2
  <2>5. OnlyChanged(ledger, settlements, ledger', settlements', R, K)
    <3>1. Len(ledger) <= Len(ledger')
      BY <2>2, <2>3
    <3>2. \A i \in DOMAIN ledger \ R : ledger'[i] = ledger[i]
      BY <2>2, <2>3
    <3> QED
      BY <1>1, <3>1, <3>2 DEF OnlyChanged
  <2>6. /\ Noted(session, R, K) \in [Session -> AnyRequest]
        /\ \A o \in Session :
              /\ Open(session[o]) => Told(session[o], Noted(session, R, K)[o], R, K)
              /\ ~Open(session[o]) => Noted(session, R, K)[o] = session[o]
    BY <2>4, NotedTold DEF TxnInv
  <2>7. \A o \in Session : Open(session[o]) => session[o].written \cap R = {}
    BY <2>1 DEF Writers, InTransaction, Open
  <2>8. session' \in [Session -> AnyRequest]
    BY <2>1, <2>6
  <2>9. \A o \in Session :
           \/ session'[o] = Idle
           \/ ~Open(session[o]) /\ session'[o] = session[o]
           \/ /\ Open(session[o]) /\ Told(session[o], session'[o], R, K)
              /\ session[o].written \cap R = {}
              /\ session[o].at = "ready" => session[o].doc.key \notin K
    BY <2>1, <2>6, <2>7
  <2> HIDE DEF R, K
  <2> QED
    BY <1>1, <2>5, <2>8, <2>9, ToldStep
<1> QED
  BY <1>2, <1>3

-----------------------------------------------------------------------------
(* Steps of one request *)

\* The order of the updates names the rows with a share, and no others.
LEMMA OrderFacts ==
    ASSUME NEW allocs \in Seq(Int), NEW rows, NEW order \in AllocationOrder(rows, allocs)
    PROVE  /\ order \in Seq(Nat \ {0})
           /\ RowsOf(order) = {i \in DOMAIN allocs : allocs[i] # 0}
           /\ \A i : At(allocs, i) # 0 => i \in RowsOf(order)
<1> DEFINE paid == {i \in DOMAIN allocs : allocs[i] # 0}
<1>1. /\ order \in [1 .. Cardinality(paid) -> paid]
      /\ {order[n] : n \in DOMAIN order} = paid
  BY DEF AllocationOrder
<1>2. DOMAIN allocs = 1 .. Len(allocs) /\ Len(allocs) \in Nat
  OBVIOUS
<1>3. Cardinality(paid) \in Nat
  <2>1. IsFiniteSet(1 .. Len(allocs)) /\ paid \subseteq 1 .. Len(allocs)
    BY <1>2, FS_Interval
  <2> QED
    BY <2>1, FS_Subset, FS_CardinalityType
<1>4. paid \subseteq Nat \ {0}
  BY <1>2
<1>5. \A i : At(allocs, i) # 0 => i \in paid
  BY DEF At
<1> HIDE DEF paid
<1>6. order \in Seq(Nat \ {0})
  <2> DEFINE c == Cardinality(paid)
  <2>1. c \in Nat /\ DOMAIN order = 1 .. c /\ \A n \in 1 .. c : order[n] \in Nat \ {0}
    BY <1>1, <1>3, <1>4
  <2>2. order = [n \in 1 .. c |-> order[n]]
    BY <1>1
  <2> HIDE DEF c
  <2> QED
    BY <2>1, <2>2
<1> QED
  BY <1>1, <1>5, <1>6 DEF RowsOf, paid

\* Rows stay rows when shares are added.
LEMMA AddTyped ==
    ASSUME NEW rows \in Seq(Row), NEW allocs \in Seq(Int)
    PROVE  /\ AddAllocations(rows, allocs, AllocatedStatus) \in Seq(Row)
           /\ AddAllocations(rows, allocs, EntryStatus) \in Seq(Row)
<1>1. DOMAIN rows = 1 .. Len(rows) /\ Len(rows) \in Nat
  OBVIOUS
<1>2. ASSUME NEW i \in DOMAIN rows
      PROVE  /\ AddAllocations(rows, allocs, AllocatedStatus)[i] \in Row
             /\ AddAllocations(rows, allocs, EntryStatus)[i] \in Row
  <2>1. rows[i] \in Row /\ rows[i].settled \in Int /\ At(allocs, i) \in Int
    BY RowTyped DEF At
  <2>2. \A a, b : AllocatedStatus(a, b) \in Status /\ EntryStatus(a, b) \in Status
    BY DEF AllocatedStatus, EntryStatus, Status
  <2>3. rows[i].settled + At(allocs, i) \in Int
    BY <2>1
  <2> QED
    BY <2>1, <2>2, <2>3, RowUpdate DEF AddAllocations
<1>3. /\ AddAllocations(rows, allocs, AllocatedStatus) \in [1 .. Len(rows) -> Row]
      /\ AddAllocations(rows, allocs, EntryStatus) \in [1 .. Len(rows) -> Row]
  BY <1>1, <1>2 DEF AddAllocations
<1>4. ASSUME NEW n \in Nat, NEW new \in [1 .. n -> Row] PROVE new \in Seq(Row)
  OBVIOUS
<1> QED
  BY <1>1, <1>3, <1>4

\* A transaction that has just read.
LEMMA PlanTyped ==
    ASSUME TxnInv, NEW request \in RequestDoc, NEW runs \in 0 .. MaxRetries,
           NEW todo \in Seq(Nat \ {0}), NEW result \in Seq(Row), NEW doc \in Settlement,
           RowsOf(todo) \subseteq DOMAIN ledger,
           NEW plan, plan = Plan(request, runs, todo, result, doc)
    PROVE  /\ plan \in AnyRequest /\ plan.at = "writing"
           /\ plan.request = request /\ plan.todo = todo
           /\ plan.written = {} /\ plan.snapshot = ledger
           /\ plan.result = result /\ plan.doc = doc
           /\ SnapshotHolds(plan, ledger) /\ ReadyOK(plan)
           /\ \A u : Apart(plan, u)
<1>1. ledger \in Seq(Row)
  BY DEF TxnInv, IInv, Good
<1>2. /\ plan \in Transaction /\ plan.at = "writing"
      /\ plan.request = request /\ plan.todo = todo
      /\ plan.written = {} /\ plan.snapshot = ledger
      /\ plan.result = result /\ plan.doc = doc
      /\ plan.changed.rows = {} /\ plan.changed.keys = {}
  BY <1>1 DEF Plan, Transaction
<1>3. SnapshotHolds(plan, ledger)
  BY <1>1, <1>2 DEF SnapshotHolds
<1>4. ReadyOK(plan) /\ \A u : Apart(plan, u)
  BY <1>2 DEF ReadyOK, Apart
<1> QED
  BY <1>2, <1>3, <1>4 DEF AnyRequest

\* A request in flight is one the server accepts.
LEMMA Serving ==
    ASSUME TxnInv, NEW s \in Session, session[s].at # "idle"
    PROVE  /\ session[s] \in Waiting \cup Transaction
           /\ session[s].request \in RequestDoc /\ session[s].runs \in 0 .. MaxRetries
           /\ session[s].request.kind = "edit" => session[s].request.k \in DOMAIN settlements
<1>1. session[s] \in AnyRequest /\ SessionOK(session[s], ledger, settlements)
  BY DEF TxnInv
<1>2. session[s] \in Waiting \cup Transaction
  BY <1>1, OpenTyped DEF AnyRequest
<1> QED
  BY <1>1, <1>2 DEF SessionOK, Waiting, Transaction

\* A callback that is about to run knows nothing yet.
LEMMA BeginOK ==
    ASSUME TxnInv, NEW s \in Session, NEW request \in RequestDoc, NEW runs \in 0 .. MaxRetries,
           request.kind = "edit" => request.k \in DOMAIN settlements,
           session' = [session EXCEPT ![s] = Begun(request, runs)],
           UNCHANGED <<ledger, settlements, refreshes>>
    PROVE  TxnInv'
<1> DEFINE t == Begun(request, runs)
<1>1. /\ t \in AnyRequest /\ ~Open(t) /\ t.request = request
  BY DEF Begun, AnyRequest, Waiting, Open
<1> HIDE DEF t
<1>2. SessionOK(t, ledger, settlements)
  BY <1>1 DEF SessionOK
<1> QED
  BY <1>1, <1>2, SessionStep DEF t

\* Nor does one that was answered.
LEMMA IdleOK ==
    ASSUME TxnInv, NEW s \in Session, session' = [session EXCEPT ![s] = Idle],
           UNCHANGED <<ledger, settlements, refreshes>>
    PROVE  TxnInv'
<1>1. Idle \in AnyRequest /\ ~Open(Idle) /\ Idle.at = "idle"
  BY DEF AnyRequest, Idle, Open
<1>2. SessionOK(Idle, ledger, settlements)
  BY <1>1 DEF SessionOK
<1> HIDE DEF Idle
<1> QED
  BY <1>1, <1>2, SessionStep

LEMMA ReceiveStep ==
    ASSUME TxnInv, NEW s \in Session, NEW request \in Requests, Receive(s, request)
    PROVE  TxnInv'
<1>1. settlements \in Seq(Settlement) /\ MaxRetries \in Nat
  BY SessionAssumption DEF TxnInv, IInv, Good
<1>2. /\ request \in RequestDoc
      /\ request.kind = "edit" => request.k \in DOMAIN settlements
  BY <1>1 DEF Requests, PayRequest, EditRequest, RequestDoc
<1>3. 0 \in 0 .. MaxRetries
  BY <1>1
<1> QED
  BY <1>2, <1>3, BeginOK DEF Receive

LEMMA RunAgainStep ==
    ASSUME TxnInv, NEW s \in Session, session[s].at # "idle", RunAgain(s)
    PROVE  TxnInv'
<1> DEFINE t == session[s]
<1>1. /\ t.request \in RequestDoc /\ t.runs \in 0 .. MaxRetries
      /\ t.request.kind = "edit" => t.request.k \in DOMAIN settlements
  BY Serving
<1>2. CASE t.runs < MaxRetries
  <2>1. session' = [session EXCEPT ![s] = Begun(t.request, t.runs + 1)]
    BY <1>2 DEF RunAgain
  <2>2. t.runs + 1 \in 0 .. MaxRetries
    BY <1>1, <1>2, SessionAssumption
  <2> HIDE DEF t
  <2> QED
    BY <1>1, <2>1, <2>2, BeginOK DEF RunAgain
<1>3. CASE ~(t.runs < MaxRetries)
  BY <1>3, IdleOK DEF RunAgain
<1> QED
  BY <1>2, <1>3

LEMMA ReadForPayoutStep ==
    ASSUME TxnInv, NEW s \in Session, ReadForPayout(s)
    PROVE  TxnInv'
<1> DEFINE request == session[s].request
           runs == session[s].runs
           p == request.payout
           P == Pending(p)
           allocs == BuildAllocations(ledger, P, p.amount)
           result == AddAllocations(ledger, allocs, AllocatedStatus)
           d == [key |-> p.key, worker |-> p.worker, bucket |-> p.bucket,
                 from |-> p.from, to |-> p.to, amount |-> p.amount,
                 allocations |-> allocs, revisions |-> <<>>]
<1>1. /\ request \in RequestDoc /\ runs \in 0 .. MaxRetries /\ request.kind = "pay"
      /\ ledger \in Seq(Row) /\ \A i \in DOMAIN ledger : RowConsistent(ledger[i])
  BY Serving DEF ReadForPayout, TxnInv, IInv, Good
<1>2. PICK todo \in AllocationOrder(ledger, allocs) :
        session' = [session EXCEPT ![s] = Plan(request, runs, todo, result, d)]
  BY DEF ReadForPayout, PayoutPlan
<1>3. /\ \A k \in DOMAIN settlements : settlements[k].key # p.key
      /\ CanAllocate(ledger, P, p.amount)
      /\ UNCHANGED <<ledger, settlements, refreshes>>
  BY DEF ReadForPayout, CanPay
<1>4. /\ p \in Payout
      /\ p.key \in PayoutKey /\ p.worker \in Worker /\ p.bucket \in Bucket
      /\ p.from \in Nat /\ p.to \in Nat /\ p.amount \in Nat \ {0}
  <2>1. p \in Payout
    BY <1>1 DEF RequestDoc
  <2> HIDE DEF p
  <2> QED
    BY <2>1, ConstantsAssumption
<1>5. P \subseteq PendingOf(ledger, p.worker, p.bucket, p.from, p.to) /\ P \in SUBSET DOMAIN ledger
  BY DEF Pending, PendingOf
<1> HIDE DEF p, P
<1>6. allocs \in Seq(Int) /\ DOMAIN allocs = DOMAIN ledger
  BY <1>1, <1>4, <1>5, BuildAllocationsFacts DEF SharesOut, BuildAllocations
<1>7. /\ d \in Settlement /\ d.key = p.key /\ d.amount = p.amount
      /\ d.allocations = allocs /\ d.revisions = <<>>
      /\ d.worker = p.worker /\ d.bucket = p.bucket /\ d.from = p.from /\ d.to = p.to
  <2> HIDE DEF allocs
  <2> QED
    BY <1>4, <1>6 DEF Settlement
<1>8. /\ todo \in Seq(Nat \ {0}) /\ RowsOf(todo) \subseteq DOMAIN ledger
      /\ \A i : At(allocs, i) # 0 => i \in RowsOf(todo)
  BY <1>2, <1>6, OrderFacts
<1>9. result \in Seq(Row)
  BY <1>1, <1>6, AddTyped
<1>10. Allocates(ledger, d)
  BY <1>1, <1>3, <1>5, <1>7 DEF Allocates
<1>11. result = AddAllocations(ledger, d.allocations, AllocatedStatus)
  BY <1>7
<1> HIDE DEF allocs, result, d, request, runs
<1> DEFINE t == Plan(request, runs, todo, result, d)
<1>12. /\ t \in AnyRequest /\ t.at = "writing" /\ t.request = request /\ t.todo = todo
       /\ t.written = {} /\ t.snapshot = ledger /\ t.result = result /\ t.doc = d
       /\ SnapshotHolds(t, ledger) /\ ReadyOK(t) /\ \A u : Apart(t, u)
  <2>1. t = Plan(request, runs, todo, result, d)
    OBVIOUS
  <2> HIDE DEF t
  <2> QED
    BY <1>1, <1>7, <1>8, <1>9, <2>1, PlanTyped
<1> HIDE DEF t
<1>13. PayoutPlanned(t, settlements)
  BY <1>3, <1>7, <1>8, <1>10, <1>11, <1>12 DEF PayoutPlanned, Reaches
<1>14. SessionOK(t, ledger, settlements)
  BY <1>1, <1>12, <1>13 DEF SessionOK, Planned
<1> QED
  BY <1>2, <1>3, <1>12, <1>14, SessionStep DEF t

\* One order after another names the rows of both.
LEMMA RowsOfBoth ==
    ASSUME NEW a \in Seq(Nat \ {0}), NEW b \in Seq(Nat \ {0})
    PROVE  a \o b \in Seq(Nat \ {0}) /\ RowsOf(a \o b) = RowsOf(a) \cup RowsOf(b)
<1> DEFINE c == a \o b
<1>1. /\ c \in Seq(Nat \ {0}) /\ DOMAIN c = 1 .. Len(a) + Len(b)
      /\ DOMAIN a = 1 .. Len(a) /\ DOMAIN b = 1 .. Len(b)
      /\ Len(a) \in Nat /\ Len(b) \in Nat
  OBVIOUS
<1>2. \A n \in DOMAIN c : c[n] = IF n <= Len(a) THEN a[n] ELSE b[n - Len(a)]
  OBVIOUS
<1> HIDE DEF c
<1>3. ASSUME NEW n \in DOMAIN c PROVE c[n] \in RowsOf(a) \cup RowsOf(b)
  <2>1. CASE n <= Len(a)
    BY <1>1, <1>2, <2>1 DEF RowsOf
  <2>2. CASE ~(n <= Len(a))
    <3>1. n - Len(a) \in DOMAIN b
      BY <1>1, <2>2
    <3> QED
      BY <1>2, <2>2, <3>1 DEF RowsOf
  <2> QED
    BY <2>1, <2>2
<1>4. \A n \in DOMAIN a : n \in DOMAIN c /\ c[n] = a[n]
  BY <1>1, <1>2
<1>5. ASSUME NEW n \in DOMAIN b PROVE Len(a) + n \in DOMAIN c /\ c[Len(a) + n] = b[n]
  <2>1. /\ Len(a) + n \in DOMAIN c /\ ~(Len(a) + n <= Len(a))
        /\ (Len(a) + n) - Len(a) = n
    BY <1>1
  <2> QED
    BY <1>2, <2>1
<1>6. RowsOf(c) = RowsOf(a) \cup RowsOf(b)
  <2>1. ASSUME NEW i \in RowsOf(a) \cup RowsOf(b) PROVE i \in RowsOf(c)
    BY <1>4, <1>5 DEF RowsOf
  <2>2. RowsOf(c) \subseteq RowsOf(a) \cup RowsOf(b)
    BY <1>3 DEF RowsOf
  <2> QED
    BY <2>1, <2>2
<1> QED
  BY <1>1, <1>6 DEF c

LEMMA ReadForEditStep ==
    ASSUME TxnInv, NEW s \in Session, ReadForEdit(s)
    PROVE  TxnInv'
<1> DEFINE request == session[s].request
           runs == session[s].runs
           k == request.k
           old == settlements[k]
           P == PendingOf(Reversed(k), old.worker, old.bucket, old.from, old.to)
           allocs == BuildAllocations(Reversed(k), P, request.amount)
<1>1. /\ session[s].at = "begin" /\ request.kind = "edit"
      /\ CanEdit(k, request.amount) /\ Len(old.revisions) < MaxEdits
      /\ UNCHANGED <<ledger, settlements, refreshes>>
      /\ \E plan \in EditPlan(request, runs) : session' = [session EXCEPT ![s] = plan]
  BY DEF ReadForEdit
<1>2. /\ request \in RequestDoc /\ runs \in 0 .. MaxRetries /\ k \in DOMAIN settlements
  BY <1>1, Serving
<1>3. request.amount \in EditAmount /\ request.amount \in Nat \ {0}
  <2>1. request.amount \in EditAmount
    BY <1>1, <1>2 DEF RequestDoc
  <2> QED
    BY <2>1, ConstantsAssumption
<1>4. /\ IInv /\ ledger \in Seq(Row) /\ old \in Settlement
      /\ Len(old.allocations) <= Len(ledger)
  BY <1>2 DEF TxnInv, IInv, Good
<1>5. old.allocations \in Seq(Int) /\ DOMAIN old.allocations \subseteq DOMAIN ledger
  <2>1. old.allocations \in Seq(Int)
    BY <1>4 DEF Settlement
  <2> HIDE DEF old
  <2> QED
    BY <1>4, <2>1
<1>6. /\ Reversed(k) \in Seq(Row) /\ DOMAIN Reversed(k) = DOMAIN ledger
      /\ \A i \in DOMAIN ledger : RowConsistent(Reversed(k)[i])
  BY <1>2, <1>4, ReversedFacts DEF RowIds
<1>7. Reversed(k) = ReverseAllocations(ledger, old.allocations)
  BY DEF Reversed
<1>8. Append(old.revisions, Revision(old)) \in Seq(RevisionDoc)
  BY <1>4, RevisionTyped
<1>9. ASSUME NEW amount \in Nat \ {0}, NEW shares \in Seq(Int)
      PROVE  LET d == Edited(old, amount, shares)
             IN  /\ d \in Settlement /\ d.key = old.key
                 /\ d.amount = amount /\ d.allocations = shares
                 /\ d.worker = old.worker /\ d.bucket = old.bucket
                 /\ d.from = old.from /\ d.to = old.to
  <2> DEFINE revs == Append(old.revisions, Revision(old))
             d == [old EXCEPT !.amount = amount, !.allocations = shares, !.revisions = revs]
  <2>1. Edited(old, amount, shares) = d
    BY <1>4 DEF Edited, Settlement
  <2>2. revs \in Seq(RevisionDoc)
    BY <1>8
  <2> HIDE DEF revs, old
  <2>3. /\ d \in Settlement /\ d.key = old.key
        /\ d.amount = amount /\ d.allocations = shares
        /\ d.worker = old.worker /\ d.bucket = old.bucket
        /\ d.from = old.from /\ d.to = old.to
    BY <1>4, <2>2 DEF Settlement
  <2> QED
    BY <2>1, <2>3
<1>10. CASE request.amount = old.amount
  <2> DEFINE none == <<>>
             d == Edited(old, old.amount, old.allocations)
             t == Plan(request, runs, none, ledger, d)
  <2>1. session' = [session EXCEPT ![s] = t]
    BY <1>1, <1>10 DEF EditPlan
  <2>2. none \in Seq(Nat \ {0}) /\ RowsOf(none) = {} /\ none = <<>>
    BY DEF RowsOf
  <2>3. d \in Settlement /\ d.key = old.key
    BY <1>3, <1>5, <1>9, <1>10
  <2> HIDE DEF none, request, runs
  <2>4. /\ t \in AnyRequest /\ t.at = "writing" /\ t.request = request /\ t.todo = none
        /\ t.written = {} /\ t.doc = d
        /\ SnapshotHolds(t, ledger) /\ ReadyOK(t) /\ \A u : Apart(t, u)
    <3> HIDE DEF d
    <3>1. /\ request \in RequestDoc /\ runs \in 0 .. MaxRetries /\ d \in Settlement
          /\ none \in Seq(Nat \ {0}) /\ ledger \in Seq(Row) /\ RowsOf(none) \subseteq DOMAIN ledger
      BY <1>2, <1>4, <2>2, <2>3
    <3>2. t = Plan(request, runs, none, ledger, d)
      OBVIOUS
    <3> HIDE DEF t
    <3> QED
      BY <3>1, <3>2, PlanTyped
  <2> HIDE DEF t
  <2>5. DetailsPlanned(t, old)
    BY <2>2, <2>4 DEF DetailsPlanned
  <2>6. EditPlanned(t, settlements)
    BY <1>1, <2>3, <2>4, <2>5 DEF EditPlanned
  <2>7. SessionOK(t, ledger, settlements)
    BY <1>1, <1>2, <2>4, <2>6 DEF SessionOK, Planned
  <2> QED
    BY <1>1, <2>1, <2>4, <2>7, SessionStep
<1>11. CASE request.amount # old.amount
  <2> DEFINE d == Edited(old, request.amount, allocs)
             result == AddAllocations(Reversed(k), allocs, EntryStatus)
  <2>1. PICK todo \in EditOrder(old.allocations, Reversed(k), allocs) :
          session' = [session EXCEPT ![s] = Plan(request, runs, todo, result, d)]
    BY <1>1, <1>11 DEF EditPlan, Reversed
  <2>2. CanAllocate(Reversed(k), P, request.amount)
    BY <1>1, <1>11 DEF CanEdit, Reversed
  <2>3. P \in SUBSET DOMAIN Reversed(k)
    BY DEF PendingOf
  <2>4. allocs \in Seq(Int) /\ DOMAIN allocs = DOMAIN ledger
    <3>1. DOMAIN allocs = DOMAIN Reversed(k)
      BY DEF BuildAllocations
    <3>2. SharesOut(Reversed(k), P, allocs)
      BY <1>3, <1>6, <2>3, BuildAllocationsFacts
    <3> QED
      BY <1>6, <3>1, <3>2 DEF SharesOut
  <2>5. /\ d \in Settlement /\ d.key = old.key /\ d.amount = request.amount
        /\ d.allocations = allocs
        /\ d.worker = old.worker /\ d.bucket = old.bucket /\ d.from = old.from /\ d.to = old.to
    <3> HIDE DEF allocs
    <3> QED
      BY <1>3, <1>9, <2>4
  <2>6. result \in Seq(Row)
    BY <1>6, <2>4, AddTyped
  <2>7. /\ todo \in Seq(Nat \ {0}) /\ RowsOf(todo) \subseteq DOMAIN ledger
        /\ \A i : At(allocs, i) # 0 => i \in RowsOf(todo)
        /\ \A i : At(old.allocations, i) # 0 => i \in RowsOf(todo)
    <3> PICK back \in AllocationOrder(ledger, old.allocations),
              forth \in AllocationOrder(Reversed(k), allocs) :
           todo = back \o forth
      BY DEF EditOrder
    <3>1. /\ back \in Seq(Nat \ {0}) /\ RowsOf(back) \subseteq DOMAIN ledger
          /\ \A i : At(old.allocations, i) # 0 => i \in RowsOf(back)
      BY <1>5, OrderFacts
    <3>2. /\ forth \in Seq(Nat \ {0}) /\ RowsOf(forth) \subseteq DOMAIN ledger
          /\ \A i : At(allocs, i) # 0 => i \in RowsOf(forth)
      BY <2>4, OrderFacts
    <3>3. todo \in Seq(Nat \ {0}) /\ RowsOf(todo) = RowsOf(back) \cup RowsOf(forth)
      BY <3>1, <3>2, RowsOfBoth
    <3> QED
      BY <3>1, <3>2, <3>3
  <2>8. Allocates(Reversed(k), d)
    BY <1>6, <2>2, <2>5 DEF Allocates
  <2>9. result = AddAllocations(Reversed(k), d.allocations, EntryStatus)
    BY <2>5
  <2>10. d = Edited(old, d.amount, d.allocations)
    BY <2>5
  <2> DEFINE t == Plan(request, runs, todo, result, d)
  <2> HIDE DEF allocs, result, d, P, request, runs
  <2>11. /\ t \in AnyRequest /\ t.at = "writing" /\ t.request = request /\ t.todo = todo
         /\ t.written = {} /\ t.snapshot = ledger /\ t.result = result /\ t.doc = d
         /\ SnapshotHolds(t, ledger) /\ ReadyOK(t) /\ \A u : Apart(t, u)
    <3>1. /\ request \in RequestDoc /\ runs \in 0 .. MaxRetries /\ d \in Settlement
          /\ todo \in Seq(Nat \ {0}) /\ result \in Seq(Row) /\ RowsOf(todo) \subseteq DOMAIN ledger
      BY <1>2, <2>5, <2>6, <2>7
    <3>2. t = Plan(request, runs, todo, result, d)
      OBVIOUS
    <3> HIDE DEF t
    <3> QED
      BY <3>1, <3>2, PlanTyped
  <2>12. session' = [session EXCEPT ![s] = t]
    BY <2>1
  <2> HIDE DEF t
  <2>13. AmountPlanned(t, old)
    BY <1>4, <1>7, <1>11, <2>5, <2>7, <2>8, <2>9, <2>10, <2>11 DEF AmountPlanned, Reaches
  <2>14. EditPlanned(t, settlements)
    BY <1>1, <2>5, <2>11, <2>13 DEF EditPlanned
  <2>15. SessionOK(t, ledger, settlements)
    BY <1>1, <1>2, <2>11, <2>14 DEF SessionOK, Planned
  <2> QED
    BY <1>1, <2>11, <2>12, <2>15, SessionStep
<1> QED
  BY <1>10, <1>11

\* A list names its first row and those of the rest.
LEMMA RowsOfHead ==
    ASSUME NEW a \in Seq(Nat \ {0}), a # <<>>
    PROVE  /\ Head(a) \in Nat \ {0} /\ Tail(a) \in Seq(Nat \ {0})
           /\ RowsOf(a) = {Head(a)} \cup RowsOf(Tail(a))
<1>1. /\ Len(a) \in Nat \ {0} /\ DOMAIN a = 1 .. Len(a) /\ Head(a) = a[1]
      /\ Tail(a) \in Seq(Nat \ {0}) /\ Len(Tail(a)) = Len(a) - 1
      /\ DOMAIN Tail(a) = 1 .. Len(a) - 1
      /\ \A n \in DOMAIN Tail(a) : Tail(a)[n] = a[n + 1]
  OBVIOUS
<1>2. ASSUME NEW n \in DOMAIN a PROVE a[n] \in {Head(a)} \cup RowsOf(Tail(a))
  <2>1. CASE n = 1
    BY <1>1, <2>1
  <2>2. CASE n # 1
    <3>1. n - 1 \in DOMAIN Tail(a) /\ (n - 1) + 1 = n
      BY <1>1, <2>2
    <3> QED
      BY <1>1, <3>1 DEF RowsOf
  <2> QED
    BY <2>1, <2>2
<1>3. ASSUME NEW n \in DOMAIN Tail(a) PROVE Tail(a)[n] \in RowsOf(a)
  <2>1. n + 1 \in DOMAIN a
    BY <1>1
  <2> QED
    BY <1>1, <2>1 DEF RowsOf
<1>4. 1 \in DOMAIN a /\ a[1] \in Nat \ {0}
  BY <1>1
<1>5. RowsOf(a) \subseteq {Head(a)} \cup RowsOf(Tail(a))
  BY <1>2 DEF RowsOf
<1>6. {Head(a)} \cup RowsOf(Tail(a)) \subseteq RowsOf(a)
  BY <1>1, <1>3, <1>4 DEF RowsOf
<1> QED
  BY <1>1, <1>4, <1>5, <1>6

\* A row nobody else wrote since the snapshot is updated.
LEMMA UpdateRowStep ==
    ASSUME TxnInv, NEW s \in Session, UpdateRow(s)
    PROVE  TxnInv'
<1> DEFINE t == session[s]
           i == Head(t.todo)
           rest == Tail(t.todo)
           w == t.written \cup {i}
           u == [t EXCEPT !.todo = rest, !.written = w]
<1>1. /\ t.at = "writing" /\ t.todo # <<>> /\ ~RowConflict(s, i)
      /\ session' = [session EXCEPT ![s].todo = rest, ![s].written = w]
      /\ UNCHANGED <<ledger, settlements, refreshes>>
  BY DEF UpdateRow
<1>2. t \in Transaction
  BY <1>1, OpenTyped DEF TxnInv, Open
<1>3. /\ SnapshotHolds(t, ledger) /\ Planned(t, settlements)
      /\ t.request.kind = "edit" => t.request.k \in DOMAIN settlements
  BY <1>1 DEF TxnInv, SessionOK, Open
<1>4. session' = [session EXCEPT ![s] = u]
  BY <1>1 DEF TxnInv
<1>5. /\ i \notin t.changed.rows
      /\ \A o \in Session \ {s} : Open(session[o]) => i \notin session[o].written
  BY <1>1 DEF RowConflict, Writers, InTransaction, Open
<1>6. \A o \in Session \ {s} : Open(session[o]) => t.written \cap session[o].written = {}
  BY <1>1 DEF TxnInv, Apart, Open
<1> HIDE DEF t
<1>7. t.todo \in Seq(Nat \ {0}) /\ t.written \in SUBSET (Nat \ {0})
  BY <1>2 DEF Transaction
<1>8. /\ i \in Nat \ {0} /\ rest \in Seq(Nat \ {0})
      /\ RowsOf(t.todo) = {i} \cup RowsOf(rest)
  BY <1>1, <1>7, RowsOfHead
<1> HIDE DEF i, rest
<1>9. w \in SUBSET (Nat \ {0}) /\ w = t.written \cup {i}
  BY <1>7, <1>8
<1> HIDE DEF w
<1>10. /\ u \in Transaction /\ u.at = "writing" /\ u.request = t.request
       /\ u.todo = rest /\ u.written = w /\ u.snapshot = t.snapshot
       /\ u.result = t.result /\ u.doc = t.doc /\ u.changed = t.changed
  BY <1>1, <1>2, <1>8, <1>9 DEF Transaction
<1> HIDE DEF u
<1>11. u.written \cup RowsOf(u.todo) = t.written \cup RowsOf(t.todo)
  BY <1>8, <1>9, <1>10
<1>12. SnapshotHolds(u, ledger)
  BY <1>3, <1>5, <1>9, <1>10, <1>11 DEF SnapshotHolds
<1>13. \A allocs : Reaches(t, allocs) => Reaches(u, allocs)
  BY <1>10, <1>11 DEF Reaches
<1>14. Planned(u, settlements)
  <2>1. PayoutPlanned(t, settlements) => PayoutPlanned(u, settlements)
    BY <1>10, <1>13 DEF PayoutPlanned
  <2>2. \A old : ~DetailsPlanned(t, old)
    BY <1>1 DEF DetailsPlanned
  <2>3. \A old : AmountPlanned(t, old) => AmountPlanned(u, old)
    BY <1>10, <1>13 DEF AmountPlanned
  <2>4. EditPlanned(t, settlements) => EditPlanned(u, settlements)
    BY <1>10, <2>2, <2>3 DEF EditPlanned
  <2> QED
    BY <1>3, <1>10, <2>1, <2>4 DEF Planned
<1>15. SessionOK(u, ledger, settlements)
  BY <1>3, <1>10, <1>12, <1>14 DEF SessionOK, ReadyOK
<1>16. \A o \in Session \ {s} : Open(session[o]) => Apart(u, session[o])
  BY <1>5, <1>6, <1>9, <1>10 DEF Apart
<1>17. u \in AnyRequest
  BY <1>10 DEF AnyRequest
<1> QED
  BY <1>1, <1>4, <1>15, <1>16, <1>17, SessionStep

\* A settlement whose key nobody else wrote since the snapshot is stored.
LEMMA StoreSettlementStep ==
    ASSUME TxnInv, NEW s \in Session, StoreSettlement(s)
    PROVE  TxnInv'
<1> DEFINE t == session[s]
           u == [t EXCEPT !.at = "ready"]
<1>1. /\ t.at = "writing" /\ t.todo = <<>> /\ ~DocConflict(s)
      /\ session' = [session EXCEPT ![s] = u]
      /\ UNCHANGED <<ledger, settlements, refreshes>>
  BY DEF StoreSettlement
<1>2. t \in Transaction
  BY <1>1, OpenTyped DEF TxnInv, Open
<1>3. /\ SnapshotHolds(t, ledger) /\ Planned(t, settlements)
      /\ t.request.kind = "edit" => t.request.k \in DOMAIN settlements
  BY <1>1 DEF TxnInv, SessionOK, Open
<1>4. /\ t.doc.key \notin t.changed.keys
      /\ \A o \in Session \ {s} : session[o].at = "ready" => session[o].doc.key # t.doc.key
  BY <1>1 DEF DocConflict
<1>5. \A o \in Session \ {s} : Open(session[o]) => t.written \cap session[o].written = {}
  BY <1>1 DEF TxnInv, Apart, Open
<1> HIDE DEF t
<1>6. /\ u \in Transaction /\ u.at = "ready" /\ u.request = t.request
      /\ u.todo = t.todo /\ u.written = t.written /\ u.snapshot = t.snapshot
      /\ u.result = t.result /\ u.doc = t.doc /\ u.changed = t.changed
  BY <1>2 DEF Transaction
<1> HIDE DEF u
<1>7. SnapshotHolds(u, ledger) /\ ReadyOK(u)
  BY <1>1, <1>3, <1>4, <1>6 DEF SnapshotHolds, ReadyOK
<1>8. Planned(u, settlements)
  <2>1. \A allocs : Reaches(t, allocs) => Reaches(u, allocs)
    BY <1>6 DEF Reaches
  <2>2. PayoutPlanned(t, settlements) => PayoutPlanned(u, settlements)
    BY <1>6, <2>1 DEF PayoutPlanned
  <2>3. \A old : /\ DetailsPlanned(t, old) => DetailsPlanned(u, old)
                 /\ AmountPlanned(t, old) => AmountPlanned(u, old)
    BY <1>6, <2>1 DEF DetailsPlanned, AmountPlanned
  <2>4. EditPlanned(t, settlements) => EditPlanned(u, settlements)
    BY <1>6, <2>3 DEF EditPlanned
  <2> QED
    BY <1>3, <1>6, <2>2, <2>4 DEF Planned
<1>9. SessionOK(u, ledger, settlements)
  BY <1>3, <1>6, <1>7, <1>8 DEF SessionOK
<1>10. \A o \in Session \ {s} : Open(session[o]) => Apart(u, session[o])
  BY <1>4, <1>5, <1>6 DEF Apart
<1>11. u \in AnyRequest
  BY <1>6 DEF AnyRequest
<1> QED
  BY <1>1, <1>9, <1>10, <1>11, SessionStep

LEMMA ServeStep ==
    ASSUME TxnInv, NEW s \in Session, Serve(s)
    PROVE  TxnInv' /\ (Promised!Pay \/ Promised!Edit \/ UNCHANGED <<ledger, settlements>>)
<1>1. ASSUME NEW request \in Requests, Receive(s, request)
      PROVE  TxnInv' /\ UNCHANGED <<ledger, settlements>>
  BY <1>1, ReceiveStep DEF Receive
<1>2. CASE Answer(s) \/ Abort(s)
  BY <1>2, IdleOK DEF Answer, Abort
<1>3. CASE ReadForPayout(s)
  BY <1>3, ReadForPayoutStep DEF ReadForPayout
<1>4. CASE ReadForEdit(s)
  BY <1>4, ReadForEditStep DEF ReadForEdit
<1>5. CASE UpdateRow(s)
  BY <1>5, UpdateRowStep DEF UpdateRow
<1>6. CASE StoreSettlement(s)
  BY <1>6, StoreSettlementStep DEF StoreSettlement
<1>7. CASE Conflict(s) \/ CommitFails(s)
  <2>1. session[s].at # "idle" /\ RunAgain(s)
    BY <1>7 DEF Conflict, CommitFails
  <2> QED
    BY <2>1, RunAgainStep DEF RunAgain
<1>8. CASE Commit(s)
  BY <1>8, CommitStep, CommitImplements
<1> QED
  BY <1>1, <1>2, <1>3, <1>4, <1>5, <1>6, <1>7, <1>8 DEF Serve

LEMMA SingleCommandStep ==
    ASSUME TxnInv, SingleCommand
    PROVE  TxnInv' /\ (Promised!Project \/ UNCHANGED <<ledger, settlements>>)
<1> USE DEF TxnInv
<1>1. ASSUME NEW e \in SourceEntry, InsertSourceEntry(e), UNCHANGED session
      PROVE  TxnInv' /\ Promised!Project
  <2>1. IInv /\ IInv' /\ Promised!Project
    BY <1>1, AppendStep, AppendProjects, SourceRowUnpaid DEF InsertSourceEntry
  <2>2. ledger' = Append(ledger, SourceRow(e)) /\ UNCHANGED settlements
    BY <1>1 DEF InsertSourceEntry
  <2> QED
    BY <1>1, <2>1, <2>2, AppendedStep
<1>2. ASSUME NEW e \in SourceEntry, FindStaleEntry(e), UNCHANGED session
      PROVE  TxnInv' /\ UNCHANGED <<ledger, settlements>>
  <2>1. IInv' /\ UNCHANGED <<ledger, settlements>>
    BY <1>2, FindStaleStep DEF FindStaleEntry
  <2> QED
    BY <1>2, <2>1, AppendedStep
<1>3. ASSUME NEW r \in refreshes, AbandonRefresh(r), UNCHANGED session
      PROVE  TxnInv' /\ UNCHANGED <<ledger, settlements>>
  <2>1. IInv' /\ UNCHANGED <<ledger, settlements>>
    BY <1>3, AbandonStep DEF AbandonRefresh
  <2> QED
    BY <1>3, <2>1, AppendedStep
<1>4. ASSUME NEW r \in refreshes, WriteRefresh(r)
      PROVE  TxnInv' /\ (Promised!Project \/ UNCHANGED <<ledger, settlements>>)
  BY <1>4, WriteRefreshStep, RefreshProjects DEF WriteRefresh
<1>5. ASSUME NEW a \in Adjustment, CreateAdjustment(a), UNCHANGED session
      PROVE  TxnInv' /\ Promised!Project
  <2>1. IInv /\ IInv' /\ Promised!Project
    BY <1>5, AppendStep, AppendProjects, AdjustmentRowUnpaid DEF CreateAdjustment
  <2>2. ledger' = Append(ledger, AdjustmentRow(a)) /\ UNCHANGED settlements
    BY <1>5 DEF CreateAdjustment
  <2> QED
    BY <1>5, <2>1, <2>2, AppendedStep
<1> QED
  BY <1>1, <1>2, <1>3, <1>4, <1>5 DEF SingleCommand

LEMMA TxnStep ==
    TxnInv /\ [TxnNext]_txnVars => TxnInv' /\ [Promised!Next]_<<ledger, settlements>>
<1> SUFFICES ASSUME TxnInv, [TxnNext]_txnVars
             PROVE  TxnInv' /\ (Promised!Next \/ UNCHANGED <<ledger, settlements>>)
  OBVIOUS
<1>1. CASE SingleCommand
  BY <1>1, SingleCommandStep DEF Promised!Next
<1>2. ASSUME NEW s \in Session, Serve(s)
      PROVE  TxnInv' /\ (Promised!Next \/ UNCHANGED <<ledger, settlements>>)
  BY <1>2, ServeStep DEF Promised!Next
<1>3. CASE UNCHANGED txnVars
  <2>1. IInv' /\ UNCHANGED <<ledger, settlements, session>>
    BY <1>3, NextIInv DEF txnVars, vars, TxnInv
  <2> QED
    BY <2>1, AppendedStep
<1> QED
  BY <1>1, <1>2, <1>3 DEF TxnNext

LEMMA InitTxnInv == TxnInit => TxnInv
<1> SUFFICES ASSUME TxnInit PROVE TxnInv
  OBVIOUS
<1>1. IInv
  BY InitIInv DEF TxnInit
<1>2. \A s \in Session : session[s] = Idle /\ Idle \in AnyRequest
  BY DEF TxnInit, AnyRequest
<1>3. session \in [Session -> AnyRequest]
  BY <1>2 DEF TxnInit
<1>4. Idle.at = "idle" /\ ~Open(Idle)
  BY DEF Idle, Open
<1> QED
  BY <1>1, <1>2, <1>3, <1>4 DEF TxnInv, SessionOK

LEMMA TxnInvariance == TxnSpec => []TxnInv
BY InitTxnInv, TxnStep, PTL DEF TxnSpec

\* The collections, and every request being served, keep their types.
THEOREM TxnTypeCorrect == TxnSpec => []TxnTypeOK
<1>1. TxnInv => TxnTypeOK
  BY Consequences DEF TxnInv, TxnTypeOK, AnyRequest
<1> QED
  BY <1>1, TxnInvariance, PTL

\* However transactions interleave, with each other and with refreshes, a row's
\* settled amount is what the recorded settlements paid on it.
THEOREM TxnPaymentsConserved == TxnSpec => []Conservation
<1>1. TxnInv => Conservation
  BY Consequences DEF TxnInv
<1> QED
  BY <1>1, TxnInvariance, PTL

\* The transactions of repository.go implement the abstract ledger: whatever
\* they read, write and retry, each commits as one payout or one edit of the
\* ledger as it is at that moment.
THEOREM TxnRefinesPayouts == TxnSpec => ImplementsPayouts
<1>1. TxnInit => Promised!Init
  BY DEF TxnInit, Init, Promised!Init
<1> QED
  BY <1>1, TxnInvariance, TxnStep, PTL DEF TxnSpec, ImplementsPayouts, Promised!Spec
-----------------------------------------------------------------------------
(***************************************************************************)
(* The two loops of buildAllocations (AllocationLoop) compute the closed   *)
(* form that the settlements use, for every ledger, selection and request. *)
(*                                                                         *)
(* LoopInv says what the loops have done with the entries before next      *)
(* (Seen): the first has handed out the deductions among them, the second  *)
(* the credits, each with the share of the closed form, and what remains   *)
(* is what is payable less what the credits seen so far owe, or nothing.   *)
(***************************************************************************)
(* The entries *)

Positive(x) == IF x > 0 THEN x ELSE 0

Inputs == stored \in Ledger /\ found \in SUBSET DOMAIN stored /\ asked \in Requested

LEMMA InputTypes ==
    ASSUME Inputs
    PROVE  /\ Rows(stored) /\ found \in SUBSET DOMAIN stored /\ asked \in Nat
           /\ IsFiniteSet(found) /\ Cardinality(found) \in Nat
<1>1. stored \in Seq(LedgerRow) /\ asked \in Nat
  BY LoopAssumption DEF Inputs
<1>2. /\ Len(stored) \in Nat /\ DOMAIN stored = 1 .. Len(stored)
      /\ \A i \in DOMAIN stored : stored[i] \in LedgerRow
  BY <1>1
<1>3. Rows(stored)
  BY <1>2 DEF Rows, LedgerRow
<1>4. IsFiniteSet(1 .. Len(stored))
  BY <1>2, FS_Interval
<1>5. IsFiniteSet(found)
  BY <1>2, <1>4, FS_Subset DEF Inputs
<1> QED
  BY <1>1, <1>3, <1>5, FS_CardinalityType DEF Inputs

Seen == {entries[n] : n \in 1 .. next - 1}

\* The entries are what was found, in the order of the query: those seen come
\* before the current one, and all others after it.
LEMMA SeenFacts ==
    ASSUME Inputs, entries \in InQueryOrder, next \in 1 .. Cardinality(found) + 1
    PROVE  /\ Len(entries) = Cardinality(found) /\ Seen \in SUBSET found
           /\ next > Len(entries) => Seen = found
           /\ next <= Len(entries) =>
                /\ Current \in found /\ Current \notin Seen
                /\ \A j \in found : Precedes(stored, j, Current) <=> j \in Seen
<1> DEFINE c == Cardinality(found)
<1>1. Rows(stored) /\ c \in Nat /\ IsFiniteSet(found) /\ found \in SUBSET DOMAIN stored
  BY InputTypes
<1>2. /\ entries \in [1 .. c -> found]
      /\ \A m, n \in 1 .. c : m < n => Precedes(stored, entries[m], entries[n])
  BY DEF InQueryOrder
<1> HIDE DEF c
<1>3. Len(entries) = c
  <2>1. entries \in Seq(found)
    BY <1>1, <1>2
  <2>2. DOMAIN entries = 1 .. Len(entries) /\ Len(entries) \in Nat
    BY <2>1
  <2> QED
    BY <1>1, <1>2, <2>2
<1>4. ASSUME NEW m \in 1 .. c, NEW n \in 1 .. c, m # n
      PROVE  entries[m] # entries[n]
  <2>1. m < n \/ n < m
    BY <1>1, <1>4
  <2>2. entries[m] \in DOMAIN stored /\ entries[n] \in DOMAIN stored
    BY <1>1, <1>2
  <2> QED
    BY <1>1, <1>2, <2>1, <2>2, PrecedesOrder
<1>5. entries \in Injection(1 .. c, found)
  BY <1>2, <1>4 DEF Injection, IsInjective
<1>6. Cardinality(1 .. c) = c
  BY <1>1, FS_Interval
<1>7. entries \in Surjection(1 .. c, found)
  BY <1>1, <1>5, <1>6, FS_Injection DEF c
<1>8. \A j \in found : \E n \in 1 .. c : entries[n] = j
  BY <1>7 DEF Surjection
<1>9. next \in 1 .. c + 1
  BY DEF c
<1>10. Seen \in SUBSET found
  <2>1. \A n \in 1 .. next - 1 : n \in 1 .. c
    BY <1>1, <1>9
  <2> QED
    BY <1>2, <2>1 DEF Seen
<1>11. ASSUME next > c PROVE Seen = found
  <2>1. next - 1 = c
    BY <1>1, <1>9, <1>11
  <2> QED
    BY <1>8, <1>10, <2>1 DEF Seen
<1>12. ASSUME next <= c
       PROVE  /\ Current \in found /\ Current \notin Seen
              /\ \A j \in found : Precedes(stored, j, Current) <=> j \in Seen
  <2>1. next \in 1 .. c
    BY <1>1, <1>9, <1>12
  <2>2. Current = entries[next] /\ Current \in found /\ Current \in DOMAIN stored
    BY <1>1, <1>2, <2>1 DEF Current
  <2>3. ASSUME NEW j \in Seen PROVE j # Current /\ Precedes(stored, j, Current)
    <3>1. PICK n \in 1 .. next - 1 : j = entries[n]
      BY DEF Seen
    <3>2. n \in 1 .. c /\ n < next
      BY <1>1, <2>1, <3>1
    <3> QED
      BY <1>2, <1>4, <2>1, <2>2, <3>1, <3>2
  <2>4. ASSUME NEW j \in found, Precedes(stored, j, Current) PROVE j \in Seen
    <3>1. PICK n \in 1 .. c : j = entries[n]
      BY <1>8
    <3>2. j \in DOMAIN stored
      BY <1>1
    <3>3. j # Current /\ ~Precedes(stored, Current, j)
      BY <1>1, <2>2, <2>4, <3>2, PrecedesOrder
    <3>4. ~(next < n) /\ n # next
      BY <1>2, <2>1, <2>2, <3>1, <3>3
    <3>5. n \in 1 .. next - 1
      BY <1>1, <2>1, <3>4
    <3> QED
      BY <3>1, <3>5 DEF Seen
  <2> QED
    BY <2>2, <2>3, <2>4
<1> QED
  BY <1>3, <1>10, <1>11, <1>12 DEF c

\* What one iteration adds to the entries seen.
LEMMA SeenNext ==
    ASSUME Inputs, entries' = entries, next \in 1 .. Cardinality(found) + 1, next' = next + 1
    PROVE  Seen' = Seen \cup {Current}
<1>1. next \in Nat /\ next > 0
  BY InputTypes
<1>2. 1 .. next' - 1 = (1 .. next - 1) \cup {next}
  BY <1>1
<1>3. Seen' = {entries[n] : n \in 1 .. next' - 1}
  BY DEF Seen
<1> QED
  BY <1>2, <1>3 DEF Seen, Current

-----------------------------------------------------------------------------
(* Totals *)

\* One more row owes its outstanding amount.
LEMMA OwedWith ==
    ASSUME NEW R, Rows(R), NEW D \in SUBSET DOMAIN R, NEW m \in DOMAIN R, m \notin D
    PROVE  Owed(R, D \cup {m}) = Owed(R, D) + Outstanding(R[m])
<1> DEFINE E == D \cup {m}
<1>1. E \in SUBSET DOMAIN R /\ m \in E /\ E \ {m} = D /\ Len(R) \in Nat
      /\ DOMAIN R = 1 .. Len(R)
  BY DEF Rows
<1> HIDE DEF E
<1>2. /\ Owed(R, E) = SumTo([i \in E |-> Debts(R)[i]], Len(R))
      /\ Owed(R, D) = SumTo([i \in D |-> Debts(R)[i]], Len(R))
      /\ \A i \in 1 .. Len(R) : Debts(R)[i] = Outstanding(R[i]) /\ Debts(R)[i] \in Int
  BY <1>1, OwedAsTotal
<1>3. SumTo([i \in E |-> Debts(R)[i]], Len(R))
          = SumTo([i \in E \ {m} |-> Debts(R)[i]], Len(R)) + Debts(R)[m]
  BY <1>1, <1>2, SumWithout, ZenonT(60)
<1>4. Owed(R, E) = Owed(R, D) + Debts(R)[m] /\ Debts(R)[m] = Outstanding(R[m])
  BY <1>1, <1>2, <1>3
<1> QED
  BY <1>4 DEF E

LoopShare == [entry : found, amount : Int]

\* The part of row i in the list of shares.
Parts(i) ==
    [n \in DOMAIN allocations |->
        IF allocations[n].entry = i THEN allocations[n].amount ELSE 0]

LEMMA PartsTotal ==
    ASSUME allocations \in Seq(LoopShare), NEW i
    PROVE  /\ Appended(i) = SumTo(Parts(i), Len(allocations)) /\ Additive(Parts(i))
           /\ Appended(i) \in Int
<1>1. \A n \in DOMAIN allocations : allocations[n].amount \in Int
  <2>1. \A n \in DOMAIN allocations : allocations[n] \in LoopShare
    OBVIOUS
  <2> QED
    BY <2>1 DEF LoopShare
<1>2. Additive(Parts(i))
  BY <1>1 DEF Additive, Parts
<1>3. Len(allocations) \in Nat
  OBVIOUS
<1>4. Appended(i) = SumTo(Parts(i), Len(allocations))
  BY DEF Appended, Parts
<1> QED
  BY <1>2, <1>3, <1>4, SumToRec

\* A share that is appended counts for its row alone.
LEMMA AppendCounts ==
    ASSUME Inputs, allocations \in Seq(LoopShare), Current \in found, NEW a \in Int,
           allocations' = Append(allocations, [entry |-> Current, amount |-> a])
    PROVE  /\ allocations' \in Seq(LoopShare)
           /\ \A i : Appended(i)' = Appended(i) + (IF i = Current THEN a ELSE 0)
<1> DEFINE k == Len(allocations)
           new == [entry |-> Current, amount |-> a]
<1>1. k \in Nat /\ DOMAIN allocations = 1 .. k
  OBVIOUS
<1>2. new \in LoopShare /\ new.entry = Current /\ new.amount = a
  BY DEF LoopShare
<1> HIDE DEF new
<1>3. /\ allocations' \in Seq(LoopShare) /\ Len(allocations') = k + 1
      /\ DOMAIN allocations' = 1 .. k + 1
      /\ allocations'[k + 1] = new /\ \A n \in 1 .. k : allocations'[n] = allocations[n]
  BY <1>1, <1>2 DEF new
<1>4. ASSUME NEW i PROVE Appended(i)' = Appended(i) + (IF i = Current THEN a ELSE 0)
  <2> DEFINE F == Parts(i)
             G == [n \in DOMAIN allocations' |->
                      IF allocations'[n].entry = i THEN allocations'[n].amount ELSE 0]
             part == IF i = Current THEN a ELSE 0
  <2>1. Additive(F) /\ Appended(i) = SumTo(F, k)
    BY PartsTotal
  <2>2. Appended(i)' = SumTo(G, k + 1)
    BY <1>3 DEF Appended
  <2>3. Additive(G)
    <3>1. \A n \in DOMAIN allocations' : allocations'[n] \in LoopShare
      BY <1>3
    <3>2. \A n \in DOMAIN allocations' : allocations'[n].amount \in Int
      BY <3>1 DEF LoopShare
    <3> QED
      BY <3>2 DEF Additive
  <2>4. \A n \in 1 .. k : At(G, n) = At(F, n)
    <3>1. \A n \in 1 .. k : n \in 1 .. k + 1
      BY <1>1
    <3> QED
      BY <1>1, <1>3, <3>1 DEF At, Parts
  <2>5. At(G, k + 1) = part
    <3>1. k + 1 \in 1 .. k + 1
      BY <1>1
    <3> QED
      BY <1>2, <1>3, <3>1 DEF At
  <2> HIDE DEF F, G, part
  <2>6. SumTo(G, k) = SumTo(F, k)
    BY <1>1, <2>1, <2>3, <2>4, SumToSame
  <2>7. SumTo(G, k + 1) = SumTo(G, k) + At(G, k + 1)
    BY <1>1, <2>3, SumToRec
  <2>8. Appended(i)' = Appended(i) + part
    BY <2>1, <2>2, <2>5, <2>6, <2>7
  <2> QED
    BY <2>8 DEF part
<1> QED
  BY <1>3, <1>4

LEMMA OwedNothing ==
    ASSUME NEW R, Rows(R)
    PROVE  Owed(R, {}) = 0
<1> DEFINE F == [i \in {} |-> Outstanding(R[i])]
<1>1. Additive(F) /\ \A j : At(F, j) = 0
  BY DEF Additive, At
<1>2. Len(R) \in Nat
  BY DEF Rows
<1>3. Owed(R, {}) = SumTo(F, Len(R))
  BY DEF Owed
<1> HIDE DEF F
<1>4. SumTo(F, Len(R)) \in Int
  BY <1>1, <1>2, SumToRec
<1>5. SumTo(F, Len(R)) >= 0
  BY <1>1, <1>2, SumToPositive
<1>6. SumTo(F, Len(R)) <= 0
  BY <1>1, <1>2, SumToNegative
<1> QED
  BY <1>3, <1>4, <1>5, <1>6

\* Deductions raise what is payable.
LEMMA PayableNat ==
    ASSUME NEW R, Rows(R), NEW P \in SUBSET DOMAIN R, NEW r \in Nat
    PROVE  Payable(R, P, r) \in Nat
<1> DEFINE D == Deductions(R, P)
           F == [i \in D |-> Outstanding(R[i])]
<1>1. Len(R) \in Nat /\ \A i \in DOMAIN R : Outstanding(R[i]) \in Int
  BY Sides DEF Rows
<1>2. \A i \in D : Outstanding(R[i]) \in Int /\ Outstanding(R[i]) < 0
  BY <1>1 DEF Deductions
<1> HIDE DEF D
<1>3. Additive(F) /\ \A i : At(F, i) <= 0
  BY <1>2 DEF Additive, At
<1>4. Payable(R, P, r) = r - SumTo(F, Len(R))
  BY DEF Payable, Owed, D
<1> HIDE DEF F
<1>5. SumTo(F, Len(R)) <= 0 /\ SumTo(F, Len(R)) \in Int
  BY <1>1, <1>3, SumToNegative, SumToRec
<1> QED
  BY <1>4, <1>5

-----------------------------------------------------------------------------
(* The loops *)

Shares == BuildAllocations(stored, found, asked)

\* The first loop has handed out the deductions it saw.
Consumed ==
    /\ remaining = asked - Owed(stored, Deductions(stored, Seen))
    /\ \A i \in DOMAIN stored :
          Appended(i) = IF i \in Deductions(stored, Seen) THEN Outstanding(stored[i]) ELSE 0

\* The second loop has handed out the credits it saw.
Filled ==
    /\ remaining = Positive(Payable(stored, found, asked) - Owed(stored, Credits(stored, Seen)))
    /\ \A i \in DOMAIN stored :
          Appended(i) = IF i \in Deductions(stored, found) \cup Credits(stored, Seen)
                          THEN Shares[i] ELSE 0

LoopInv ==
    /\ Inputs /\ allocations \in Seq(LoopShare)
    /\ pc \in {"find", "deductions", "credits", "return"}
    /\ pc = "find" => allocations = <<>> /\ next = 1 /\ err = "none"
    /\ pc \in {"deductions", "credits"} =>
          /\ found # {} /\ entries \in InQueryOrder /\ next \in 1 .. Cardinality(found) + 1
          /\ err = "none"
    /\ pc = "deductions" => Consumed
    /\ pc = "credits" => Filled
    /\ AgreesWithClosedForm

LEMMA InitLoopInv == LoopInit => LoopInv
<1> SUFFICES ASSUME LoopInit PROVE LoopInv
  OBVIOUS
<1>1. Inputs
  BY DEF LoopInit, Inputs
<1>2. allocations \in Seq(LoopShare)
  BY DEF LoopInit
<1> QED
  BY <1>1, <1>2 DEF LoopInit, LoopInv, AgreesWithClosedForm

\* Before the first iteration nothing was handed out.
LEMMA FindStep ==
    ASSUME LoopInv, Find
    PROVE  LoopInv'
<1>1. /\ pc = "find" /\ allocations = <<>> /\ next = 1 /\ err = "none" /\ Inputs
      /\ allocations \in Seq(LoopShare)
  BY DEF LoopInv, Find
<1>2. /\ UNCHANGED <<stored, found, asked, next, allocations>>
      /\ entries' \in InQueryOrder /\ remaining' = asked
      /\ \/ found = {} /\ pc' = "return" /\ err' = "ErrNoPendingEarnings"
         \/ found # {} /\ pc' = "deductions" /\ err' = err
  BY DEF Find, inputs
<1>3. Inputs' /\ (allocations \in Seq(LoopShare))' /\ InQueryOrder' = InQueryOrder
  BY <1>1, <1>2 DEF Inputs, LoopShare, InQueryOrder
<1>4. CASE found = {}
  BY <1>2, <1>3, <1>4 DEF LoopInv, AgreesWithClosedForm, CanAllocate
<1>5. CASE found # {}
  <2>1. pc' = "deductions" /\ err' = "none"
    BY <1>1, <1>2, <1>5
  <2>2. Rows(stored) /\ Cardinality(found) \in Nat /\ asked \in Nat
    BY <1>1, InputTypes
  <2>3. Seen' = {}
    <3>1. 1 .. next' - 1 = {}
      BY <1>1, <1>2
    <3> QED
      BY <3>1 DEF Seen
  <2>4. Deductions(stored, Seen)' = {}
    BY <2>3 DEF Deductions
  <2>5. remaining' = asked - Owed(stored, {})
    BY <1>2, <2>2, OwedNothing
  <2>6. ASSUME NEW i PROVE Appended(i)' = 0
    <3>1. Appended(i)' = Appended(i)
      BY <1>2 DEF Appended
    <3>2. Appended(i) = SumTo(Parts(i), Len(allocations)) /\ Additive(Parts(i))
      BY <1>1, PartsTotal
    <3>3. Len(allocations) = 0
      BY <1>1
    <3> QED
      BY <3>1, <3>2, <3>3, SumToRec
  <2>7. Consumed'
    BY <1>2, <2>4, <2>5, <2>6 DEF Consumed
  <2>8. next' \in 1 .. Cardinality(found) + 1
    BY <1>1, <1>2, <2>2
  <2> QED
    BY <1>2, <1>3, <1>5, <2>1, <2>7, <2>8 DEF LoopInv, AgreesWithClosedForm
<1> QED
  BY <1>4, <1>5

\* An iteration of either loop leaves the inputs and adds one entry.
LEMMA IterationFacts ==
    ASSUME LoopInv, pc \in {"deductions", "credits"}, next <= Len(entries),
           next' = next + 1, UNCHANGED <<stored, found, asked, pc, entries, err>>
    PROVE  /\ Rows(stored) /\ asked \in Nat /\ found \in SUBSET DOMAIN stored
           /\ Inputs' /\ (entries \in InQueryOrder)'
           /\ next' \in 1 .. Cardinality(found) + 1
           /\ Seen' = Seen \cup {Current} /\ Seen \in SUBSET found
           /\ Current \in found /\ Current \notin Seen
           /\ \A j \in found : Precedes(stored, j, Current) <=> j \in Seen
           /\ Outstanding(stored[Current]) \in Int
<1>1. /\ Inputs /\ entries \in InQueryOrder /\ next \in 1 .. Cardinality(found) + 1
  BY DEF LoopInv
<1>2. /\ Rows(stored) /\ asked \in Nat /\ found \in SUBSET DOMAIN stored
      /\ Cardinality(found) \in Nat
  BY <1>1, InputTypes
<1>3. /\ Len(entries) = Cardinality(found) /\ Seen \in SUBSET found
      /\ Current \in found /\ Current \notin Seen
      /\ \A j \in found : Precedes(stored, j, Current) <=> j \in Seen
  BY <1>1, SeenFacts
<1>4. Inputs' /\ (entries \in InQueryOrder)'
  BY <1>1 DEF Inputs, InQueryOrder
<1>5. next' \in 1 .. Cardinality(found) + 1
  BY <1>1, <1>2, <1>3
<1>6. Seen' = Seen \cup {Current}
  BY <1>1, SeenNext
<1>7. Outstanding(stored[Current]) \in Int
  BY <1>2, <1>3 DEF Rows, Outstanding
<1> QED
  BY <1>1, <1>2, <1>3, <1>4, <1>5, <1>6, <1>7

LEMMA ConsumeStep ==
    ASSUME LoopInv, ConsumeDeduction
    PROVE  LoopInv'
<1> DEFINE e == Current
           amount == Outstanding(stored[e])
           D == Deductions(stored, Seen)
<1>1. /\ pc = "deductions" /\ next <= Len(entries) /\ next' = next + 1
      /\ UNCHANGED <<stored, found, asked, pc, entries, err>>
      /\ Consumed /\ found # {} /\ err = "none" /\ allocations \in Seq(LoopShare) /\ Inputs
  BY DEF ConsumeDeduction, LoopInv, inputs
<1>2. /\ Rows(stored) /\ asked \in Nat /\ found \in SUBSET DOMAIN stored
      /\ Inputs' /\ (entries \in InQueryOrder)'
      /\ next' \in 1 .. Cardinality(found) + 1
      /\ Seen' = Seen \cup {e} /\ Seen \in SUBSET found /\ e \in found /\ e \notin Seen
      /\ amount \in Int
  BY <1>1, IterationFacts
<1>3. /\ D \in SUBSET DOMAIN stored /\ e \notin D /\ e \in DOMAIN stored
      /\ Deductions(stored, Seen)' = IF amount < 0 THEN D \cup {e} ELSE D
  BY <1>1, <1>2 DEF Deductions
<1>4. (allocations \in Seq(LoopShare))' /\ Consumed'
  <2>1. CASE amount >= 0
    <3>1. UNCHANGED <<allocations, remaining>>
      BY <2>1 DEF ConsumeDeduction, SkipInFirstLoop
    <3>2. \A i : Appended(i)' = Appended(i)
      BY <3>1 DEF Appended
    <3>3. Deductions(stored, Seen)' = D
      BY <1>2, <1>3, <2>1
    <3> QED
      BY <1>1, <3>1, <3>2, <3>3 DEF Consumed, LoopShare
  <2>2. CASE ~(amount >= 0)
    <3>1. /\ allocations' = Append(allocations, [entry |-> e, amount |-> amount])
          /\ remaining' = remaining - amount
      BY <2>2 DEF ConsumeDeduction, SkipInFirstLoop, AppendShare
    <3>2. /\ (allocations \in Seq(LoopShare))'
          /\ \A i : Appended(i)' = Appended(i) + (IF i = e THEN amount ELSE 0)
      <4>1. /\ allocations' \in Seq(LoopShare)
            /\ \A i : Appended(i)' = Appended(i) + (IF i = e THEN amount ELSE 0)
        BY <1>1, <1>2, <3>1, AppendCounts
      <4> QED
        BY <1>1, <4>1 DEF LoopShare
    <3>3. Deductions(stored, Seen)' = D \cup {e}
      BY <1>2, <1>3, <2>2
    <3> HIDE DEF D, amount, e
    <3>4. Owed(stored, D \cup {e}) = Owed(stored, D) + amount /\ Owed(stored, D) \in Int
      BY <1>2, <1>3, OwedWith, OwedAsTotal DEF amount
    <3>5. remaining = asked - Owed(stored, D)
      BY <1>1 DEF Consumed, D
    <3>6. remaining' = asked - Owed(stored, D \cup {e})
      BY <1>2, <3>1, <3>4, <3>5
    <3>7. ASSUME NEW i \in DOMAIN stored
          PROVE  Appended(i)' = IF i \in D \cup {e} THEN Outstanding(stored[i]) ELSE 0
      <4>1. Appended(i) = IF i \in D THEN Outstanding(stored[i]) ELSE 0
        BY <1>1 DEF Consumed, D
      <4>2. Outstanding(stored[i]) \in Int
        BY <1>2 DEF Rows, Outstanding
      <4> QED
        BY <1>2, <1>3, <3>2, <4>1, <4>2 DEF amount
    <3> QED
      BY <1>1, <3>2, <3>3, <3>6, <3>7 DEF Consumed
  <2> QED
    BY <2>1, <2>2
<1> QED
  BY <1>1, <1>2, <1>4 DEF LoopInv, AgreesWithClosedForm

\* The second loop starts over, with all deductions handed out.
LEMMA SecondLoopStep ==
    ASSUME LoopInv, SecondLoop
    PROVE  LoopInv'
<1>1. /\ pc = "deductions" /\ next > Len(entries) /\ next' = 1 /\ pc' = "credits"
      /\ UNCHANGED <<stored, found, asked, entries, remaining, allocations, err>>
      /\ Consumed /\ found # {} /\ err = "none" /\ allocations \in Seq(LoopShare) /\ Inputs
      /\ entries \in InQueryOrder /\ next \in 1 .. Cardinality(found) + 1
  BY DEF SecondLoop, LoopInv, inputs
<1>2. /\ Rows(stored) /\ asked \in Nat /\ found \in SUBSET DOMAIN stored
      /\ Cardinality(found) \in Nat /\ Seen = found
  BY <1>1, InputTypes, SeenFacts
<1>3. Inputs' /\ (entries \in InQueryOrder)' /\ (allocations \in Seq(LoopShare))'
  BY <1>1 DEF Inputs, InQueryOrder, LoopShare
<1>4. Credits(stored, Seen)' = {}
  <2>1. 1 .. next' - 1 = {}
    BY <1>1
  <2>2. Seen' = {}
    BY <2>1 DEF Seen
  <2> QED
    BY <2>2 DEF Credits
<1>5. remaining = Payable(stored, found, asked)
  BY <1>1, <1>2 DEF Consumed, Payable
<1>6. Payable(stored, found, asked) \in Nat /\ Owed(stored, {}) = 0
  BY <1>2, PayableNat, OwedNothing
<1>7. remaining' = Positive(Payable(stored, found, asked) - Owed(stored, {}))
  BY <1>1, <1>5, <1>6 DEF Positive
<1>8. \A i \in DOMAIN stored :
          Appended(i)' = IF i \in Deductions(stored, found) THEN Shares[i] ELSE 0
  <2>1. \A i : Appended(i)' = Appended(i)
    BY <1>1 DEF Appended
  <2>2. \A i \in DOMAIN stored :
            Appended(i) = IF i \in Deductions(stored, found) THEN Outstanding(stored[i]) ELSE 0
    BY <1>1, <1>2 DEF Consumed
  <2>3. \A i \in DOMAIN stored : i \in Deductions(stored, found) => Shares[i] = Outstanding(stored[i])
    <3>1. asked \in Int
      BY <1>2
    <3> QED
      BY <1>2, <3>1, ShareValue DEF Shares
  <2> QED
    BY <2>1, <2>2, <2>3
<1>9. Filled'
  BY <1>1, <1>4, <1>7, <1>8 DEF Filled, Shares
<1>10. next' \in 1 .. Cardinality(found) + 1
  BY <1>1, <1>2
<1> QED
  BY <1>1, <1>3, <1>9, <1>10 DEF LoopInv, AgreesWithClosedForm

LEMMA FillStep ==
    ASSUME LoopInv, FillCredit
    PROVE  LoopInv'
<1> PICK e : e = Current
  OBVIOUS
<1> DEFINE amount == Outstanding(stored[e])
           C == Credits(stored, Seen)
           payable == Payable(stored, found, asked)
           left == payable - Owed(stored, C)
<1>1. /\ pc = "credits" /\ next <= Len(entries) /\ next' = next + 1
      /\ UNCHANGED <<stored, found, asked, pc, entries, err>>
      /\ Filled /\ found # {} /\ err = "none" /\ allocations \in Seq(LoopShare) /\ Inputs
  BY DEF FillCredit, LoopInv, inputs
<1>2. /\ Rows(stored) /\ asked \in Nat /\ found \in SUBSET DOMAIN stored
      /\ Inputs' /\ (entries \in InQueryOrder)'
      /\ next' \in 1 .. Cardinality(found) + 1
      /\ Seen' = Seen \cup {e} /\ Seen \in SUBSET found /\ e \in found /\ e \notin Seen
      /\ \A j \in found : Precedes(stored, j, e) <=> j \in Seen
      /\ amount \in Int
  BY <1>1, IterationFacts
<1>3. /\ C \in SUBSET DOMAIN stored /\ e \notin C /\ e \in DOMAIN stored
      /\ Credits(stored, Seen)' = IF amount > 0 THEN C \cup {e} ELSE C
  BY <1>1, <1>2 DEF Credits
<1>4. payable \in Nat /\ Owed(stored, C) \in Int /\ left \in Int
  <2>1. payable \in Nat
    BY <1>2, PayableNat
  <2>2. Owed(stored, C) \in Int
    BY <1>2, <1>3, OwedAsTotal
  <2> HIDE DEF payable, C
  <2> QED
    BY <2>1, <2>2
<1>5. remaining = Positive(left)
  BY <1>1 DEF Filled
<1>6. Shares' = Shares /\ Deductions(stored, found)' = Deductions(stored, found)
      /\ Payable(stored, found, asked)' = payable
  BY <1>1 DEF Shares
<1>7. (allocations \in Seq(LoopShare))' /\ Filled'
  <2>1. CASE amount <= 0
    <3>1. UNCHANGED <<allocations, remaining>>
      BY <2>1 DEF FillCredit, SkipInSecondLoop
    <3>2. \A i : Appended(i)' = Appended(i)
      BY <3>1 DEF Appended
    <3>3. Credits(stored, Seen)' = C
      BY <1>2, <1>3, <2>1
    <3> QED
      BY <1>1, <1>6, <3>1, <3>2, <3>3 DEF Filled, LoopShare
  <2>2. CASE amount > 0
    <3>1. Credits(stored, Seen)' = C \cup {e} /\ e \in Credits(stored, found)
      BY <1>2, <1>3, <2>2 DEF Credits
    <3>2. Remaining(stored, found, asked, e) = left
      <4>1. {j \in Credits(stored, found) : Precedes(stored, j, e)} = C
        BY <1>2 DEF Credits
      <4> QED
        BY <4>1 DEF Remaining
    <3>3. e \notin Deductions(stored, found)
      BY <1>2, <2>2 DEF Deductions
    <3> HIDE DEF C, left, payable
    <3>4. Shares[e] = IF left > 0 THEN Least(amount, left) ELSE 0
      <4>1. asked \in Int
        BY <1>2
      <4> QED
        BY <1>2, <1>3, <3>1, <3>2, <4>1, ShareValue DEF Shares
    <3>5. Owed(stored, C \cup {e}) = Owed(stored, C) + amount
      BY <1>2, <1>3, OwedWith
    <3>6. payable - Owed(stored, C \cup {e}) = left - amount
      BY <1>2, <1>4, <3>5 DEF left
    <3>7. Appended(e) = 0
      BY <1>1, <1>3, <3>3 DEF Filled, C
    <3>8. /\ remaining' = Positive(left - amount)
          /\ (allocations \in Seq(LoopShare))'
          /\ Appended(e)' = Shares[e]
          /\ \A i \in DOMAIN stored : i # e => Appended(i)' = Appended(i)
      <4>1. CASE remaining = 0
        <5>1. UNCHANGED <<allocations, remaining>>
          BY <4>1 DEF FillCredit, SkipInSecondLoop
        <5>2. \A i : Appended(i)' = Appended(i)
          BY <5>1 DEF Appended
        <5>3. ~(left > 0) /\ ~(left - amount > 0)
          BY <1>2, <1>4, <1>5, <2>2, <4>1 DEF Positive
        <5>4. Shares[e] = 0 /\ remaining' = Positive(left - amount)
          BY <3>4, <4>1, <5>1, <5>3 DEF Positive
        <5> QED
          BY <1>1, <3>7, <5>1, <5>2, <5>4 DEF LoopShare
      <4>2. CASE remaining # 0
        <5> DEFINE share == Least(amount, remaining)
        <5>1. left > 0 /\ remaining = left
          BY <1>4, <1>5, <4>2 DEF Positive
        <5>2. ~SkipInSecondLoop(amount)
          BY <1>2, <2>2, <4>2 DEF SkipInSecondLoop
        <5>3. /\ allocations' = Append(allocations, [entry |-> e, amount |-> share])
              /\ remaining' = remaining - share
          BY <5>2 DEF FillCredit, AppendShare
        <5>4. share \in Int /\ share = Shares[e] /\ left - share = Positive(left - amount)
          BY <1>2, <1>4, <3>4, <5>1 DEF Least, Positive
        <5> HIDE DEF share
        <5>5. /\ allocations' \in Seq(LoopShare)
              /\ \A i : Appended(i)' = Appended(i) + (IF i = e THEN share ELSE 0)
          BY <1>1, <1>2, <5>3, <5>4, AppendCounts
        <5>6. \A i : Appended(i) \in Int
          BY <1>1, PartsTotal
        <5>7. Appended(e)' = Shares[e] /\ \A i \in DOMAIN stored : i # e => Appended(i)' = Appended(i)
          BY <3>7, <5>4, <5>5, <5>6
        <5>8. (allocations \in Seq(LoopShare))'
          BY <1>1, <5>5 DEF LoopShare
        <5> QED
          BY <5>1, <5>3, <5>4, <5>7, <5>8
      <4> QED
        BY <4>1, <4>2
    <3>9. \A i \in DOMAIN stored :
              Appended(i)' = IF i \in Deductions(stored, found) \cup C \cup {e}
                               THEN Shares[i] ELSE 0
      <4>1. \A i \in DOMAIN stored :
                Appended(i) = IF i \in Deductions(stored, found) \cup C THEN Shares[i] ELSE 0
        BY <1>1 DEF Filled, C
      <4> QED
        BY <3>8, <4>1
    <3>10. Filled'
      BY <1>1, <1>6, <3>1, <3>6, <3>8, <3>9 DEF Filled
    <3> QED
      BY <3>8, <3>10
  <2> QED
    BY <1>2, <2>1, <2>2
<1> QED
  BY <1>1, <1>2, <1>7 DEF LoopInv, AgreesWithClosedForm

\* When everything was seen, what remains is what the credits could not cover.
LEMMA ReturnStep ==
    ASSUME LoopInv, Return
    PROVE  LoopInv'
<1>1. /\ pc = "credits" /\ next > Len(entries) /\ pc' = "return" /\ err' = Result
      /\ UNCHANGED <<stored, found, asked, entries, next, remaining, allocations>>
      /\ Filled /\ found # {} /\ allocations \in Seq(LoopShare) /\ Inputs
      /\ entries \in InQueryOrder /\ next \in 1 .. Cardinality(found) + 1
  BY DEF Return, LoopInv, inputs
<1>2. /\ Rows(stored) /\ asked \in Nat /\ found \in SUBSET DOMAIN stored /\ Seen = found
  BY <1>1, InputTypes, SeenFacts
<1>3. Inputs' /\ (allocations \in Seq(LoopShare))'
  BY <1>1 DEF Inputs, LoopShare
<1> DEFINE payable == Payable(stored, found, asked)
           owed == Owed(stored, Credits(stored, found))
<1>4. payable \in Nat /\ owed \in Int
  <2>1. Credits(stored, found) \in SUBSET DOMAIN stored
    BY <1>2 DEF Credits
  <2> QED
    BY <1>2, <2>1, PayableNat, OwedAsTotal
<1>5. remaining = Positive(payable - owed)
  BY <1>1, <1>2 DEF Filled
<1>6. err' = "none" <=> CanAllocate(stored, found, asked)
  <2>1. CanAllocate(stored, found, asked) <=> payable <= owed
    BY <1>1 DEF CanAllocate
  <2>2. err' = "none" <=> remaining = 0
    BY <1>1 DEF Result
  <2> HIDE DEF payable, owed
  <2> QED
    BY <1>4, <1>5, <2>1, <2>2 DEF Positive
<1>7. \A i \in DOMAIN stored : Appended(i)' = Shares[i]
  <2>1. \A i : Appended(i)' = Appended(i)
    BY <1>1 DEF Appended
  <2>2. \A i \in DOMAIN stored :
            Appended(i) = IF i \in Deductions(stored, found) \cup Credits(stored, found)
                            THEN Shares[i] ELSE 0
    BY <1>1, <1>2 DEF Filled
  <2>3. \A i \in DOMAIN stored :
            i \notin Deductions(stored, found) \cup Credits(stored, found) => Shares[i] = 0
    <3>1. asked \in Int
      BY <1>2
    <3> QED
      BY <1>2, <3>1, ShareValue DEF Shares
  <2> QED
    BY <2>1, <2>2, <2>3
<1>8. AgreesWithClosedForm'
  BY <1>1, <1>6, <1>7 DEF AgreesWithClosedForm, Shares
<1> QED
  BY <1>1, <1>3, <1>8 DEF LoopInv

LEMMA NextLoopInv == LoopInv /\ [LoopNext]_loopVars => LoopInv'
<1> SUFFICES ASSUME LoopInv, [LoopNext]_loopVars PROVE LoopInv'
  OBVIOUS
<1>1. CASE UNCHANGED loopVars
  <2>1. /\ Inputs' /\ (allocations \in Seq(LoopShare))'
        /\ (entries \in InQueryOrder)' <=> entries \in InQueryOrder
    BY <1>1 DEF loopVars, LoopInv, Inputs, LoopShare, InQueryOrder
  <2>2. Seen' = Seen /\ \A i : Appended(i)' = Appended(i)
    BY <1>1 DEF loopVars, Seen, Appended
  <2>3. /\ Consumed => Consumed'
        /\ Filled => Filled'
        /\ AgreesWithClosedForm => AgreesWithClosedForm'
    BY <1>1, <2>2 DEF loopVars, Consumed, Filled, Shares, AgreesWithClosedForm
  <2> QED
    BY <1>1, <2>1, <2>3 DEF loopVars, LoopInv
<1> QED
  BY <1>1, FindStep, ConsumeStep, SecondLoopStep, FillStep, ReturnStep DEF LoopNext

\* The two loops of buildAllocations fail exactly when the closed form does,
\* and otherwise hand out its shares, on every ledger.
THEOREM LoopsAgree == LoopSpec => []AgreesWithClosedForm
<1>1. LoopInv => AgreesWithClosedForm
  BY DEF LoopInv
<1> QED
  BY <1>1, InitLoopInv, NextLoopInv, PTL DEF LoopSpec
=============================================================================
