------------------------- MODULE Allocation_proofs --------------------------
(***************************************************************************)
(* Facts about totals, and then: the shares that buildAllocations returns  *)
(* add up to the amount asked for.  The argument is the loop's: take the   *)
(* credits in their order; the shares of the first ones add up to the      *)
(* payable amount or to everything they owe, whichever is less.  A set of  *)
(* credits closed under Precedes stands for "the first ones", and a set    *)
(* that refutes the claim and owes least for the induction.                *)
(*                                                                         *)
(* The induction theorems of the library quantify over operators;          *)
(* SetInduction is the same principle for a set of numbers, obtained from  *)
(* the well-foundedness of < on Nat.                                       *)
(***************************************************************************)
EXTENDS Allocation, WellFoundedInduction, TLAPS

-----------------------------------------------------------------------------
(* Totals *)

\* A nonempty set of naturals has a least element.
LEMMA LeastElement ==
    ASSUME NEW T \in SUBSET Nat, T # {}
    PROVE  \E n \in T : \A m \in T : n <= m
<1>1. IsWellFoundedOn(OpToRel(<, Nat), Nat)
  BY NatLessThanWellFounded
<1>2. PICK n \in T : \A m \in T : ~ (<<m, n>> \in OpToRel(<, Nat))
  BY <1>1, WFMin
<1>3. \A m \in T : ~ (m < n)
  BY <1>2 DEF OpToRel
<1> QED
  BY <1>3

\* A set that holds 0 and the successor of each of its members is Nat.
LEMMA SetInduction ==
    ASSUME NEW S \in SUBSET Nat, 0 \in S, \A n \in S : n + 1 \in S
    PROVE  S = Nat
<1> SUFFICES ASSUME S # Nat PROVE FALSE
  OBVIOUS
<1> DEFINE T == Nat \ S
<1>1. T \in SUBSET Nat /\ T # {}
  OBVIOUS
<1>2. PICK n \in T : \A m \in T : n <= m
  BY <1>1, LeastElement
<1>3. n # 0 /\ n \in Nat
  OBVIOUS
<1>4. n - 1 \in Nat /\ ~ (n <= n - 1)
  BY <1>3
<1>5. n - 1 \in S
  BY <1>2, <1>4
<1> QED
  BY <1>3, <1>5

-----------------------------------------------------------------------------
(* The recursive function is what it says: existence by prefixes *)

Additive(F) == \A i \in DOMAIN F : F[i] \in Int

RunningTotals(F, f, n) ==
    /\ f \in [0 .. n -> Int]
    /\ f[0] = 0
    /\ \A i \in 1 .. n : f[i] = f[i - 1] + At(F, i)

\* Every number contributes an integer.
LEMMA AtInt ==
    ASSUME NEW F, Additive(F), NEW i
    PROVE  At(F, i) \in Int
BY DEF At, Additive

\* There are running totals up to any number.
LEMMA PrefixExists ==
    ASSUME NEW F, Additive(F)
    PROVE  \A n \in Nat : \E f : RunningTotals(F, f, n)
<1> DEFINE S == {n \in Nat : \E f : RunningTotals(F, f, n)}
<1>1. 0 \in S
  <2>1. RunningTotals(F, [i \in 0 .. 0 |-> 0], 0)
    BY DEF RunningTotals
  <2> QED
    BY <2>1
<1>2. ASSUME NEW n \in S PROVE n + 1 \in S
  <2>1. PICK f : RunningTotals(F, f, n)
    OBVIOUS
  <2> DEFINE g == [i \in 0 .. n + 1 |-> IF i = n + 1 THEN f[n] + At(F, n + 1) ELSE f[i]]
  <2>2. At(F, n + 1) \in Int
    BY AtInt
  <2>3. n \in Nat /\ f \in [0 .. n -> Int] /\ f[0] = 0
    BY <2>1 DEF RunningTotals
  <2>4. g \in [0 .. n + 1 -> Int] /\ g[0] = 0
    BY <2>2, <2>3
  <2>5. ASSUME NEW i \in 1 .. n + 1 PROVE g[i] = g[i - 1] + At(F, i)
    <3>1. CASE i = n + 1
      <4>1. g[i] = f[n] + At(F, i) /\ g[i - 1] = f[n]
        BY <2>3, <3>1
      <4> QED
        BY <4>1
    <3>2. CASE i # n + 1
      <4>1. i \in 1 .. n /\ i - 1 \in 0 .. n
        BY <2>3, <3>2
      <4>2. g[i] = f[i] /\ g[i - 1] = f[i - 1]
        BY <2>3, <4>1
      <4> QED
        BY <2>1, <4>1, <4>2 DEF RunningTotals
    <3> QED
      BY <3>1, <3>2
  <2>6. RunningTotals(F, g, n + 1)
    BY <2>4, <2>5 DEF RunningTotals
  <2> QED
    BY <2>6
<1>3. S = Nat
  BY <1>1, <1>2, SetInduction
<1> QED
  BY <1>3

\* Running totals are unique as far as they both go.
LEMMA PrefixUnique ==
    ASSUME NEW F, Additive(F), NEW n \in Nat, NEW m \in Nat, n <= m,
           NEW f, RunningTotals(F, f, n), NEW g, RunningTotals(F, g, m)
    PROVE  f[n] = g[n]
<1> DEFINE S == {i \in Nat : i <= n => f[i] = g[i]}
<1>1. 0 \in S
  BY DEF RunningTotals
<1>2. ASSUME NEW i \in S PROVE i + 1 \in S
  <2>1. CASE i + 1 <= n
    <3>1. i + 1 \in 1 .. n /\ i + 1 \in 1 .. m /\ (i + 1) - 1 = i
      BY <2>1
    <3>2. f[i + 1] = f[i] + At(F, i + 1) /\ g[i + 1] = g[i] + At(F, i + 1)
      BY <3>1 DEF RunningTotals
    <3>3. f[i] = g[i]
      BY <2>1
    <3> QED
      BY <3>2, <3>3
  <2> QED
    BY <2>1
<1>3. S = Nat
  BY <1>1, <1>2, SetInduction
<1> QED
  BY <1>3

\* SumTo unfolds as its definition suggests, and is an integer.
LEMMA SumToRec ==
    ASSUME NEW F, Additive(F)
    PROVE  /\ SumTo(F, 0) = 0
           /\ \A n \in Nat : SumTo(F, n) \in Int
           /\ \A n \in Nat : SumTo(F, n + 1) = SumTo(F, n) + At(F, n + 1)
<1> DEFINE pre[n \in Nat] == CHOOSE f : RunningTotals(F, f, n)
           g == [n \in Nat |-> pre[n][n]]
           Def(h) == [i \in Nat |-> IF i = 0 THEN 0 ELSE h[i - 1] + At(F, i)]
           sum == CHOOSE h : h = Def(h)
<1>1. \A n \in Nat : RunningTotals(F, pre[n], n)
  BY PrefixExists
<1> HIDE DEF pre
<1>2. \A n \in Nat : g[n] \in Int
  BY <1>1 DEF RunningTotals
<1>3. g[0] = 0
  BY <1>1 DEF RunningTotals
<1>4. ASSUME NEW n \in Nat PROVE g[n + 1] = g[n] + At(F, n + 1)
  <2>1. n + 1 \in Nat /\ n + 1 \in 1 .. n + 1 /\ (n + 1) - 1 = n /\ n <= n + 1
    OBVIOUS
  <2>2. RunningTotals(F, pre[n], n) /\ RunningTotals(F, pre[n + 1], n + 1)
    BY <1>1, <2>1
  <2>3. pre[n + 1][n + 1] = pre[n + 1][n] + At(F, n + 1)
    BY <2>1, <2>2 DEF RunningTotals
  <2>4. pre[n][n] = pre[n + 1][n]
    BY <2>1, <2>2, PrefixUnique
  <2> QED
    BY <2>1, <2>3, <2>4
<1>5. g = Def(g)
  <2>1. ASSUME NEW i \in Nat, i # 0 PROVE g[i] = g[i - 1] + At(F, i)
    <3>1. i - 1 \in Nat /\ (i - 1) + 1 = i
      BY <2>1
    <3> QED
      BY <3>1, <1>4
  <2> QED
    BY <1>3, <2>1
<1>6. sum = Def(sum)
  BY <1>5
<1>7. \A n : SumTo(F, n) = sum[n]
  BY DEF SumTo
<1> HIDE DEF sum, g
<1>8. sum[0] = 0
  BY <1>6
<1>9. ASSUME NEW n \in Nat PROVE sum[n + 1] = sum[n] + At(F, n + 1)
  <2>1. n + 1 \in Nat /\ n + 1 # 0 /\ (n + 1) - 1 = n
    OBVIOUS
  <2> QED
    BY <1>6, <2>1
<1> DEFINE S == {n \in Nat : sum[n] \in Int}
<1>10. 0 \in S
  BY <1>8
<1>11. ASSUME NEW n \in S PROVE n + 1 \in S
  BY <1>9, AtInt
<1>12. S = Nat
  BY <1>10, <1>11, SetInduction
<1> QED
  BY <1>7, <1>8, <1>9, <1>12

-----------------------------------------------------------------------------
(* Comparing totals *)

\* Lists that agree up to n have the same total up to n.
LEMMA SumToSame ==
    ASSUME NEW F, Additive(F), NEW G, Additive(G), NEW n \in Nat,
           \A j \in 1 .. n : At(G, j) = At(F, j)
    PROVE  SumTo(G, n) = SumTo(F, n)
<1> DEFINE S == {m \in Nat : m <= n => SumTo(G, m) = SumTo(F, m)}
<1>1. 0 \in S
  BY SumToRec
<1>2. ASSUME NEW m \in S PROVE m + 1 \in S
  <2>1. CASE m + 1 <= n
    <3>1. m + 1 \in 1 .. n /\ m <= n
      BY <2>1
    <3>2. SumTo(G, m) = SumTo(F, m) /\ At(G, m + 1) = At(F, m + 1)
      BY <3>1
    <3> QED
      BY <3>2, SumToRec
  <2> QED
    BY <2>1
<1>3. S = Nat
  BY <1>1, <1>2, SetInduction
<1> QED
  BY <1>3

\* Changing one contribution changes the total by the difference.
LEMMA SumToChange ==
    ASSUME NEW F, Additive(F), NEW G, Additive(G), NEW n \in Nat, NEW i \in 1 .. n,
           \A j \in 1 .. n : j # i => At(G, j) = At(F, j)
    PROVE  SumTo(G, n) = SumTo(F, n) - At(F, i) + At(G, i)
<1> DEFINE S == {m \in Nat : i <= m /\ m <= n =>
                    SumTo(G, m) = SumTo(F, m) - At(F, i) + At(G, i)}
<1>0. At(F, i) \in Int /\ At(G, i) \in Int /\ \A j : At(F, j) \in Int /\ At(G, j) \in Int
  BY AtInt
<1>1. 0 \in S
  OBVIOUS
<1>2. ASSUME NEW m \in S PROVE m + 1 \in S
  <2>0. /\ SumTo(F, m) \in Int /\ SumTo(F, m + 1) = SumTo(F, m) + At(F, m + 1)
        /\ SumTo(G, m) \in Int /\ SumTo(G, m + 1) = SumTo(G, m) + At(G, m + 1)
    BY SumToRec
  <2>1. CASE m + 1 = i
    <3>1. \A j \in 1 .. m : At(G, j) = At(F, j)
      BY <2>1
    <3>2. SumTo(G, m) = SumTo(F, m)
      BY <3>1, SumToSame
    <3> QED
      BY <1>0, <2>0, <2>1, <3>2
  <2>2. CASE i <= m /\ m + 1 <= n
    <3>1. At(G, m + 1) = At(F, m + 1)
      BY <2>2
    <3>2. SumTo(G, m) = SumTo(F, m) - At(F, i) + At(G, i)
      BY <2>2
    <3> QED
      BY <1>0, <2>0, <3>1, <3>2
  <2> QED
    BY <2>1, <2>2
<1>3. S = Nat
  BY <1>1, <1>2, SetInduction
<1> QED
  BY <1>3

\* A total of contributions of one sign is at least as large as each of them.
LEMMA SumToPositive ==
    ASSUME NEW F, Additive(F), NEW n \in Nat, \A j \in 1 .. n : At(F, j) >= 0
    PROVE  SumTo(F, n) >= 0 /\ \A i \in 1 .. n : At(F, i) <= SumTo(F, n)
<1> DEFINE S == {m \in Nat : m <= n =>
                    SumTo(F, m) >= 0 /\ \A i \in 1 .. m : At(F, i) <= SumTo(F, m)}
<1>0. \A j : At(F, j) \in Int
  BY AtInt
<1>1. 0 \in S
  BY SumToRec
<1>2. ASSUME NEW m \in S PROVE m + 1 \in S
  <2>0. SumTo(F, m) \in Int /\ SumTo(F, m + 1) = SumTo(F, m) + At(F, m + 1)
    BY SumToRec
  <2>1. CASE m + 1 <= n
    <3>1. At(F, m + 1) >= 0 /\ SumTo(F, m) >= 0 /\ \A i \in 1 .. m : At(F, i) <= SumTo(F, m)
      BY <2>1
    <3>2. SumTo(F, m + 1) >= 0 /\ At(F, m + 1) <= SumTo(F, m + 1)
      BY <1>0, <2>0, <3>1
    <3>3. ASSUME NEW i \in 1 .. m + 1 PROVE At(F, i) <= SumTo(F, m + 1)
      <4>1. CASE i = m + 1
        BY <3>2, <4>1
      <4>2. CASE i # m + 1
        <5>1. i \in 1 .. m
          BY <4>2
        <5>2. At(F, i) <= SumTo(F, m) /\ At(F, i) \in Int /\ At(F, m + 1) \in Int
          BY <1>0, <3>1, <5>1
        <5> QED
          BY <2>0, <3>1, <5>2
      <4> QED
        BY <4>1, <4>2
    <3> QED
      BY <3>2, <3>3
  <2> QED
    BY <2>1
<1>3. S = Nat
  BY <1>1, <1>2, SetInduction
<1> QED
  BY <1>3

\* The mirror image of SumToPositive, for deductions.
LEMMA SumToNegative ==
    ASSUME NEW F, Additive(F), NEW n \in Nat, \A j \in 1 .. n : At(F, j) <= 0
    PROVE  SumTo(F, n) <= 0 /\ \A i \in 1 .. n : SumTo(F, n) <= At(F, i)
<1> DEFINE G == [j \in 1 .. n |-> - At(F, j)]
           S == {m \in Nat : m <= n => SumTo(G, m) = - SumTo(F, m)}
<1>0. \A j : At(F, j) \in Int
  BY AtInt
<1>1. Additive(G) /\ \A j \in 1 .. n : At(G, j) = - At(F, j)
  BY <1>0 DEF Additive, At
<1> HIDE DEF G
<1>2. 0 \in S
  BY <1>1, SumToRec
<1>3. ASSUME NEW m \in S PROVE m + 1 \in S
  <2>0. /\ SumTo(F, m) \in Int /\ SumTo(F, m + 1) = SumTo(F, m) + At(F, m + 1)
        /\ SumTo(G, m) \in Int /\ SumTo(G, m + 1) = SumTo(G, m) + At(G, m + 1)
    BY <1>1, SumToRec
  <2>1. CASE m + 1 <= n
    <3>1. At(G, m + 1) = - At(F, m + 1)
      BY <1>1, <2>1
    <3> QED
      BY <1>0, <2>0, <2>1, <3>1
  <2> QED
    BY <2>1
<1>4. SumTo(G, n) = - SumTo(F, n)
  <2>1. S = Nat
    BY <1>2, <1>3, SetInduction
  <2> QED
    BY <2>1
<1>5. \A j \in 1 .. n : At(G, j) >= 0
  BY <1>0, <1>1
<1>6. SumTo(G, n) >= 0 /\ \A i \in 1 .. n : At(G, i) <= SumTo(G, n)
  BY <1>1, <1>5, SumToPositive
<1>7. SumTo(F, n) \in Int
  BY SumToRec
<1> QED
  BY <1>0, <1>1, <1>4, <1>6, <1>7

\* Adding two lists number by number adds their totals.
LEMMA SumToAdd ==
    ASSUME NEW F, Additive(F), NEW G, Additive(G), NEW H, Additive(H), NEW n \in Nat,
           \A j \in 1 .. n : At(H, j) = At(F, j) + At(G, j)
    PROVE  SumTo(H, n) = SumTo(F, n) + SumTo(G, n)
<1> DEFINE S == {m \in Nat : m <= n => SumTo(H, m) = SumTo(F, m) + SumTo(G, m)}
<1>0. \A j : At(F, j) \in Int /\ At(G, j) \in Int /\ At(H, j) \in Int
  BY AtInt
<1>1. 0 \in S
  BY SumToRec
<1>2. ASSUME NEW m \in S PROVE m + 1 \in S
  <2>1. /\ SumTo(F, m) \in Int /\ SumTo(F, m + 1) = SumTo(F, m) + At(F, m + 1)
        /\ SumTo(G, m) \in Int /\ SumTo(G, m + 1) = SumTo(G, m) + At(G, m + 1)
        /\ SumTo(H, m) \in Int /\ SumTo(H, m + 1) = SumTo(H, m) + At(H, m + 1)
    BY SumToRec
  <2>2. CASE m + 1 <= n
    <3>1. At(H, m + 1) = At(F, m + 1) + At(G, m + 1)
      BY <2>2
    <3> QED
      BY <1>0, <2>1, <2>2, <3>1
  <2> QED
    BY <2>2
<1>3. S = Nat
  BY <1>1, <1>2, SetInduction
<1> QED
  BY <1>3

-----------------------------------------------------------------------------
(* Ledgers *)

\* What the operators of Allocation assume of a ledger.
Rows(rows) ==
    /\ Len(rows) \in Nat
    /\ DOMAIN rows = 1 .. Len(rows)
    /\ \A i \in DOMAIN rows :
          rows[i].amount \in Int /\ rows[i].settled \in Int /\ rows[i].date \in Int

-----------------------------------------------------------------------------
(* The sort order *)

\* Precedes is a strict total order on the rows.
LEMMA PrecedesOrder ==
    ASSUME NEW rows, Rows(rows),
           NEW i \in DOMAIN rows, NEW j \in DOMAIN rows, NEW k \in DOMAIN rows
    PROVE  /\ ~Precedes(rows, i, i)
           /\ i # j => Precedes(rows, i, j) \/ Precedes(rows, j, i)
           /\ ~(Precedes(rows, i, j) /\ Precedes(rows, j, i))
           /\ Precedes(rows, i, j) /\ Precedes(rows, j, k) => Precedes(rows, i, k)
<1>1. /\ i \in Int /\ j \in Int /\ k \in Int
      /\ rows[i].amount \in Int /\ rows[j].amount \in Int /\ rows[k].amount \in Int
      /\ rows[i].date \in Int /\ rows[j].date \in Int /\ rows[k].date \in Int
  BY DEF Rows
<1> QED
  BY <1>1 DEF Precedes

\* No row of D comes after m.
LastIn(rows, D, m) == m \in D /\ \A j \in D : ~Precedes(rows, m, j)

\* Every non-empty set of rows has a last one in query order.
LEMMA LastExists ==
    ASSUME NEW rows, Rows(rows), NEW D \in SUBSET DOMAIN rows, D # {}
    PROVE  \E m \in D : LastIn(rows, D, m)
<1> DEFINE n == Len(rows)
           S == {b \in Nat : \A E \in SUBSET DOMAIN rows :
                    E # {} /\ E \subseteq 1 .. b => \E m \in E : LastIn(rows, E, m)}
<1>1. n \in Nat /\ DOMAIN rows = 1 .. n
  BY DEF Rows
<1> HIDE DEF n
<1>2. 0 \in S
  OBVIOUS
<1>3. ASSUME NEW b \in S PROVE b + 1 \in S
  <2> SUFFICES ASSUME NEW E \in SUBSET DOMAIN rows, E # {}, E \subseteq 1 .. b + 1
               PROVE  \E m \in E : LastIn(rows, E, m)
    OBVIOUS
  <2>1. b \in Nat
    OBVIOUS
  <2>2. CASE b + 1 \notin E
    <3>1. E \subseteq 1 .. b
      BY <2>1, <2>2
    <3> QED
      BY <3>1
  <2>3. CASE b + 1 \in E
    <3> DEFINE R == E \ {b + 1}
    <3>1. CASE R = {}
      <4>1. E = {b + 1}
        BY <2>3, <3>1
      <4> QED
        BY <4>1, PrecedesOrder DEF LastIn
    <3>2. CASE R # {}
      <4>1. R \in SUBSET DOMAIN rows /\ R \subseteq 1 .. b
        BY <2>1
      <4>2. PICK m \in R : LastIn(rows, R, m)
        BY <3>2, <4>1
      <4>3. CASE Precedes(rows, m, b + 1)
        <5>1. ASSUME NEW j \in E PROVE ~Precedes(rows, b + 1, j)
          <6>1. j = b + 1 \/ (j \in R /\ ~Precedes(rows, m, j))
            BY <4>2 DEF LastIn
          <6>2. m \in DOMAIN rows /\ b + 1 \in DOMAIN rows /\ j \in DOMAIN rows
            BY <2>3
          <6> QED
            BY <4>3, <6>1, <6>2, PrecedesOrder
        <5> QED
          BY <2>3, <5>1 DEF LastIn
      <4>4. CASE ~Precedes(rows, m, b + 1)
        <5>1. LastIn(rows, E, m)
          BY <4>2, <4>4 DEF LastIn
        <5> QED
          BY <5>1
      <4> QED
        BY <4>3, <4>4
    <3> QED
      BY <3>1, <3>2
  <2> QED
    BY <2>2, <2>3
<1>4. n \in S
  <2>1. S = Nat
    BY <1>2, <1>3, SetInduction
  <2> QED
    BY <1>1, <2>1
<1> QED
  BY <1>1, <1>4

-----------------------------------------------------------------------------
(* Totals over a set of rows *)

\* The total of the shares of the rows of D.
SharesIn(allocs, D, n) == SumTo([i \in D |-> allocs[i]], n)

\* Taking one number out of the domain takes its value out of the total.
LEMMA SumWithout ==
    ASSUME NEW V, NEW n \in Nat, NEW D \in SUBSET (1 .. n), NEW m \in D,
           \A i \in 1 .. n : V[i] \in Int
    PROVE  /\ SumTo([i \in D |-> V[i]], n)
                 = SumTo([i \in D \ {m} |-> V[i]], n) + V[m]
           /\ SumTo([i \in D \ {m} |-> V[i]], n) \in Int
<1> DEFINE F == [i \in D \ {m} |-> V[i]]
           G == [i \in D |-> V[i]]
<1>1. Additive(F) /\ Additive(G)
  BY DEF Additive
<1>2. /\ At(F, m) = 0 /\ At(G, m) = V[m] /\ m \in 1 .. n /\ V[m] \in Int
      /\ \A j \in 1 .. n : j # m => At(G, j) = At(F, j)
  BY DEF At
<1> HIDE DEF F, G
<1>3. SumTo(G, n) = SumTo(F, n) - At(F, m) + At(G, m)
  BY <1>1, <1>2, SumToChange
<1>4. SumTo(F, n) \in Int
  BY <1>1, SumToRec
<1> QED
  BY <1>2, <1>3, <1>4 DEF F, G

\* Owed is such a total.
Debts(rows) == [i \in DOMAIN rows |-> Outstanding(rows[i])]

\* Owed is a total of integers, restated over one list for all rows.
LEMMA OwedAsTotal ==
    ASSUME NEW rows, Rows(rows), NEW D \in SUBSET DOMAIN rows
    PROVE  /\ Owed(rows, D) = SumTo([i \in D |-> Debts(rows)[i]], Len(rows))
           /\ \A i \in DOMAIN rows : Debts(rows)[i] = Outstanding(rows[i])
                                      /\ Debts(rows)[i] \in Int
           /\ Owed(rows, D) \in Int
<1>1. \A i \in DOMAIN rows : Debts(rows)[i] = Outstanding(rows[i]) /\ Debts(rows)[i] \in Int
  BY DEF Debts, Outstanding, Rows
<1>2. [i \in D |-> Debts(rows)[i]] = [i \in D |-> Outstanding(rows[i])]
  BY <1>1
<1>3. Owed(rows, D) = SumTo([i \in D |-> Debts(rows)[i]], Len(rows))
  BY <1>2 DEF Owed
<1>4. Additive([i \in D |-> Debts(rows)[i]])
  BY <1>1 DEF Additive
<1>5. SumTo([i \in D |-> Debts(rows)[i]], Len(rows)) \in Int
  BY <1>4, SumToRec DEF Rows
<1> QED
  BY <1>1, <1>3, <1>5

-----------------------------------------------------------------------------
(* The shares add up *)

\* Deductions and credits are told apart, and what they owe is an integer.
LEMMA Sides ==
    ASSUME NEW rows, Rows(rows), NEW P \in SUBSET DOMAIN rows, NEW requested \in Int
    PROVE  /\ Deductions(rows, P) \in SUBSET DOMAIN rows
           /\ Credits(rows, P) \in SUBSET DOMAIN rows
           /\ Deductions(rows, P) \cap Credits(rows, P) = {}
           /\ \A i \in DOMAIN rows : Outstanding(rows[i]) \in Int
           /\ Payable(rows, P, requested) \in Int
           /\ \A i \in DOMAIN rows : Remaining(rows, P, requested, i) \in Int
<1>1. \A i \in DOMAIN rows : Outstanding(rows[i]) \in Int
  BY DEF Rows, Outstanding
<1>2. /\ Deductions(rows, P) \in SUBSET DOMAIN rows
      /\ Credits(rows, P) \in SUBSET DOMAIN rows
      /\ Deductions(rows, P) \cap Credits(rows, P) = {}
  BY <1>1 DEF Deductions, Credits
<1>3. Payable(rows, P, requested) \in Int
  <2>1. Owed(rows, Deductions(rows, P)) \in Int
    BY <1>2, OwedAsTotal
  <2> QED
    BY <2>1 DEF Payable
<1>4. ASSUME NEW i \in DOMAIN rows PROVE Remaining(rows, P, requested, i) \in Int
  <2>1. {j \in Credits(rows, P) : Precedes(rows, j, i)} \in SUBSET DOMAIN rows
    BY <1>2
  <2>2. Owed(rows, {j \in Credits(rows, P) : Precedes(rows, j, i)}) \in Int
    BY <2>1, OwedAsTotal
  <2> QED
    BY <1>3, <2>2 DEF Remaining
<1> QED
  BY <1>1, <1>2, <1>3, <1>4

\* The share of a row, by the side it is on.
LEMMA ShareValue ==
    ASSUME NEW rows, Rows(rows), NEW P \in SUBSET DOMAIN rows, NEW requested \in Int,
           NEW i \in DOMAIN rows
    PROVE  LET allocs == BuildAllocations(rows, P, requested)
               left   == Remaining(rows, P, requested, i)
           IN  /\ allocs[i] \in Int
               /\ i \in Deductions(rows, P) => allocs[i] = Outstanding(rows[i])
               /\ i \in Credits(rows, P) =>
                     allocs[i] = IF left > 0 THEN Least(Outstanding(rows[i]), left) ELSE 0
               /\ i \notin Deductions(rows, P) \cup Credits(rows, P) => allocs[i] = 0
<1> DEFINE allocs == BuildAllocations(rows, P, requested)
           left == Remaining(rows, P, requested, i)
<1>1. left \in Int /\ Outstanding(rows[i]) \in Int
  BY Sides
<1>2. CASE i \in Deductions(rows, P)
  <2>1. i \notin Credits(rows, P)
    BY <1>2, Sides
  <2>2. allocs[i] = Outstanding(rows[i])
    BY <1>2, <2>1 DEF BuildAllocations
  <2> QED
    BY <1>1, <1>2, <2>1, <2>2
<1>3. CASE i \in Credits(rows, P)
  <2>1. i \notin Deductions(rows, P)
    BY <1>3, Sides
  <2>2. allocs[i] = IF left > 0 THEN Least(Outstanding(rows[i]), left) ELSE 0
    BY <1>1, <1>3, <2>1 DEF BuildAllocations
  <2>3. allocs[i] \in Int
    BY <1>1, <2>2 DEF Least
  <2> QED
    BY <1>3, <2>1, <2>2, <2>3
<1>4. CASE i \notin Deductions(rows, P) \cup Credits(rows, P)
  BY <1>4 DEF BuildAllocations
<1> QED
  BY <1>2, <1>3, <1>4

\* The credits of D come first: no credit outside D precedes one in D.
First(rows, P, D) ==
    /\ D \subseteq Credits(rows, P)
    /\ \A i \in D : \A j \in Credits(rows, P) : Precedes(rows, j, i) => j \in D

\* The credits that come first in query order receive, together, what they
\* owe or what is payable, whichever is less.
LEMMA SharesOfFirst ==
    ASSUME NEW rows, Rows(rows), NEW P \in SUBSET DOMAIN rows, NEW requested \in Int,
           Payable(rows, P, requested) >= 0, NEW D, First(rows, P, D)
    PROVE  SharesIn(BuildAllocations(rows, P, requested), D, Len(rows))
              = Least(Payable(rows, P, requested), Owed(rows, D))
<1> DEFINE n == Len(rows)
           allocs == BuildAllocations(rows, P, requested)
           T == Payable(rows, P, requested)
           C == Credits(rows, P)
           Holds(E) == SharesIn(allocs, E, n) = Least(T, Owed(rows, E))
           Bad == {E \in SUBSET C : First(rows, P, E) /\ ~Holds(E)}
<1>1. /\ n \in Nat /\ DOMAIN rows = 1 .. n
      /\ C \in SUBSET DOMAIN rows /\ T \in Int /\ T >= 0
      /\ \A i \in 1 .. n : allocs[i] \in Int
      /\ \A i \in 1 .. n : Debts(rows)[i] = Outstanding(rows[i]) /\ Debts(rows)[i] \in Int
  BY Sides, ShareValue, OwedAsTotal DEF Rows
<1>2. \A i \in C : Outstanding(rows[i]) > 0
  BY DEF Credits
<1>3. ASSUME NEW E \in SUBSET C
      PROVE  Owed(rows, E) \in Nat /\ (E = {} => Owed(rows, E) = 0)
  <2> DEFINE F == [i \in E |-> Debts(rows)[i]]
  <2>1. /\ Additive(F) /\ Owed(rows, E) = SumTo(F, n) /\ SumTo(F, n) \in Int
        /\ \A i \in 1 .. n : At(F, i) >= 0 /\ (E = {} => At(F, i) = 0)
    <3>1. Owed(rows, E) = SumTo(F, n) /\ Owed(rows, E) \in Int
      BY <1>1, OwedAsTotal
    <3> QED
      BY <1>1, <1>2, <3>1 DEF Additive, At
  <2> HIDE DEF F
  <2>2. SumTo(F, n) >= 0 /\ (E = {} => SumTo(F, n) <= 0)
    BY <1>1, <2>1, SumToPositive, SumToNegative
  <2> QED
    BY <2>1, <2>2
<1>4. Holds({})
  <2> DEFINE F == [i \in {} |-> allocs[i]]
  <2>1. Additive(F) /\ \A i \in 1 .. n : At(F, i) >= 0 /\ At(F, i) <= 0
    BY DEF Additive, At
  <2> HIDE DEF F
  <2>2. SumTo(F, n) = 0
    <3>1. SumTo(F, n) >= 0 /\ SumTo(F, n) <= 0 /\ SumTo(F, n) \in Int
      BY <1>1, <2>1, SumToPositive, SumToNegative, SumToRec
    <3> QED
      BY <3>1
  <2>3. Owed(rows, {}) = 0
    BY <1>3
  <2> QED
    BY <1>1, <2>2, <2>3 DEF SharesIn, Least, F
<1> HIDE DEF n, allocs, T, C
<1>5. ASSUME NEW E \in Bad
      PROVE  \E R \in Bad : Owed(rows, R) < Owed(rows, E)
  <2>1. E \in SUBSET C /\ First(rows, P, E) /\ ~Holds(E) /\ E # {}
    BY <1>4, <1>5
  <2>2. PICK m \in E : LastIn(rows, E, m)
    BY <1>1, <2>1, LastExists
  <2> DEFINE R == E \ {m}
             owed == Owed(rows, R)
             debt == Outstanding(rows[m])
  <2>3. E \in SUBSET (1 .. n) /\ R \in SUBSET C /\ m \in 1 .. n /\ m \in C
    BY <1>1, <2>1
  <2>4. First(rows, P, R)
    <3>1. ASSUME NEW i \in R, NEW j \in C, Precedes(rows, j, i)
          PROVE  j \in R
      <4>1. j \in E
        BY <2>1, <3>1 DEF First, C
      <4>2. j # m
        BY <2>2, <3>1 DEF LastIn
      <4> QED
        BY <4>1, <4>2
    <3> QED
      BY <2>3, <3>1 DEF First, C
  <2>5. {j \in C : Precedes(rows, j, m)} = R
    <3>1. ASSUME NEW j \in C, Precedes(rows, j, m) PROVE j \in R
      <4>1. j \in E
        BY <2>1, <3>1 DEF First, C
      <4>2. j # m
        BY <1>1, <2>3, <3>1, PrecedesOrder
      <4> QED
        BY <4>1, <4>2
    <3>2. ASSUME NEW j \in R PROVE j \in C /\ Precedes(rows, j, m)
      BY <1>1, <2>1, <2>2, <2>3, PrecedesOrder DEF LastIn
    <3> QED
      BY <3>1, <3>2
  <2>6. /\ Owed(rows, E) = owed + debt /\ owed \in Nat /\ debt \in Int /\ debt > 0
    <3>1. /\ Owed(rows, E) = SumTo([i \in E |-> Debts(rows)[i]], n)
          /\ owed = SumTo([i \in R |-> Debts(rows)[i]], n)
      BY <1>1, <2>1, <2>3, OwedAsTotal DEF n
    <3>2. SumTo([i \in E |-> Debts(rows)[i]], n)
             = SumTo([i \in R |-> Debts(rows)[i]], n) + Debts(rows)[m]
      BY <1>1, <2>3, SumWithout
    <3> QED
      BY <1>1, <1>2, <1>3, <2>3, <3>1, <3>2
  <2>7. /\ SharesIn(allocs, E, n) = SharesIn(allocs, R, n) + allocs[m]
        /\ SharesIn(allocs, R, n) \in Int
    BY <1>1, <2>3, SumWithout DEF SharesIn
  <2>8. Remaining(rows, P, requested, m) = T - owed
    BY <2>5 DEF Remaining, T, C
  <2>9. allocs[m] = IF T - owed > 0 THEN Least(debt, T - owed) ELSE 0
    BY <1>1, <2>3, <2>8, ShareValue DEF allocs, C
  <2> HIDE DEF R, owed, debt
  <2>10. SharesIn(allocs, R, n) # Least(T, owed)
    <3> SUFFICES ASSUME SharesIn(allocs, R, n) = Least(T, owed) PROVE Holds(E)
      BY <2>1
    <3>1. Least(T, owed) + (IF T - owed > 0 THEN Least(debt, T - owed) ELSE 0)
             = Least(T, owed + debt)
      BY <1>1, <2>6 DEF Least
    <3> QED
      BY <2>6, <2>7, <2>9, <3>1
  <2>11. R \in Bad
    BY <2>3, <2>4, <2>10 DEF owed
  <2>12. Owed(rows, R) < Owed(rows, E)
    BY <2>6 DEF owed
  <2> QED
    BY <2>11, <2>12
<1>6. Bad = {}
  <2> SUFFICES ASSUME Bad # {} PROVE FALSE
    OBVIOUS
  <2> DEFINE totals == {Owed(rows, E) : E \in Bad}
  <2>1. totals \in SUBSET Nat /\ totals # {}
    BY <1>3
  <2>2. PICK least \in totals : \A m \in totals : least <= m
    BY <2>1, LeastElement
  <2>3. PICK E \in Bad : least = Owed(rows, E)
    BY <2>2
  <2>4. PICK R \in Bad : Owed(rows, R) < Owed(rows, E)
    BY <1>5
  <2>5. Owed(rows, R) \in totals /\ Owed(rows, R) \in Nat /\ Owed(rows, E) \in Nat
    BY <1>3
  <2> QED
    BY <2>2, <2>3, <2>4, <2>5
<1>7. D \in SUBSET C
  BY DEF First, C
<1>8. Holds(D)
  BY <1>6, <1>7
<1> QED
  BY <1>8 DEF n, allocs, T

\* An allocation that succeeds hands out exactly the requested amount: the
\* deductions in full, and the payable amount among the credits.
THEOREM SharesAddUp ==
    ASSUME NEW rows, Rows(rows), NEW P \in SUBSET DOMAIN rows, NEW requested \in Nat,
           CanAllocate(rows, P, requested)
    PROVE  SumTo(BuildAllocations(rows, P, requested), Len(rows)) = requested
<1> DEFINE n == Len(rows)
           allocs == BuildAllocations(rows, P, requested)
           T == Payable(rows, P, requested)
           C == Credits(rows, P)
           D == Deductions(rows, P)
           F == [i \in D |-> allocs[i]]
           G == [i \in C |-> allocs[i]]
<1>1. /\ n \in Nat /\ DOMAIN rows = 1 .. n /\ DOMAIN allocs = 1 .. n
      /\ C \in SUBSET DOMAIN rows /\ D \in SUBSET DOMAIN rows /\ C \cap D = {}
      /\ T \in Int /\ \A i \in DOMAIN rows : Outstanding(rows[i]) \in Int
      /\ \A i \in 1 .. n : allocs[i] \in Int
      /\ \A i \in 1 .. n : i \notin D \cup C => allocs[i] = 0
  <2>1. DOMAIN allocs = DOMAIN rows
    BY DEF BuildAllocations
  <2>2. n \in Nat /\ DOMAIN rows = 1 .. n
    BY DEF Rows
  <2>3. /\ C \in SUBSET DOMAIN rows /\ D \in SUBSET DOMAIN rows /\ C \cap D = {}
        /\ T \in Int /\ \A i \in DOMAIN rows : Outstanding(rows[i]) \in Int
    <3>1. requested \in Int
      OBVIOUS
    <3> QED
      BY <3>1, Sides
  <2>4. \A i \in DOMAIN rows : allocs[i] \in Int /\ (i \notin D \cup C => allocs[i] = 0)
    BY ShareValue
  <2> QED
    BY <2>1, <2>2, <2>3, <2>4
<1>2. F = [i \in D |-> Outstanding(rows[i])]
  <2>1. \A i \in D : allocs[i] = Outstanding(rows[i])
    BY <1>1, ShareValue
  <2> QED
    BY <2>1
<1>3. Owed(rows, D) = SumTo(F, n) /\ T = requested - SumTo(F, n)
  BY <1>2 DEF Owed, Payable
<1>4. \A i \in D : Outstanding(rows[i]) < 0
  BY DEF Deductions
<1>5. First(rows, P, C)
  BY DEF First
<1>6. SumTo(G, n) = SharesIn(allocs, C, n)
  BY DEF SharesIn
<1>7. T <= Owed(rows, C) /\ Owed(rows, C) \in Int
  BY <1>1, OwedAsTotal DEF CanAllocate
<1> HIDE DEF allocs, C, D
<1>8. /\ Additive(F) /\ Additive(G) /\ Additive(allocs)
      /\ \A i \in 1 .. n : At(allocs, i) = At(F, i) + At(G, i)
      /\ \A i \in 1 .. n : At(F, i) <= 0
  <2>1. Additive(F) /\ Additive(G) /\ Additive(allocs)
    BY <1>1 DEF Additive
  <2>2. \A i \in 1 .. n : At(allocs, i) = At(F, i) + At(G, i)
    BY <1>1 DEF At
  <2>3. \A i \in 1 .. n : At(F, i) <= 0
    BY <1>1, <1>2, <1>4 DEF At
  <2> QED
    BY <2>1, <2>2, <2>3
<1> HIDE DEF F, G, n, T
<1>9. SumTo(F, n) <= 0 /\ SumTo(F, n) \in Int
  BY <1>1, <1>8, SumToNegative, SumToRec
<1>10. T >= 0
  BY <1>3, <1>9
<1>11. SharesIn(allocs, C, n) = Least(T, Owed(rows, C))
  BY <1>5, <1>10, SharesOfFirst DEF allocs, C, T, n
<1>12. SumTo(G, n) = T
  BY <1>1, <1>6, <1>7, <1>11 DEF Least
<1>13. SumTo(allocs, n) = SumTo(F, n) + SumTo(G, n)
  BY <1>1, <1>8, SumToAdd
<1>14. SumTo(allocs, n) = requested
  BY <1>3, <1>9, <1>12, <1>13
<1> QED
  BY <1>14 DEF allocs, n
=============================================================================
