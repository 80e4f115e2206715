--------------------------- MODULE Cutover_proofs ----------------------------
(***************************************************************************)
(* What the calculations of pay have in common, for every set of documents *)
(* and every history of edits, rebuilds and payments.                      *)
(*                                                                         *)
(* Sums and ranks come first, then what documents, trips and orders pay.   *)
(* The entries that a rebuild makes and the amounts that a reconciliation  *)
(* expects are compared key by key.  The ledger keeps LedgerInv: its rows  *)
(* have the shape that the rebuild gives them.  With it, a range that is   *)
(* ready has, for each worker and component, the total that the documents  *)
(* give; the three reports follow from these totals.                       *)
(***************************************************************************)
EXTENDS Cutover, FiniteSetTheorems, TLAPS

-----------------------------------------------------------------------------
(* Sums over finite sets *)

\* Of some subsets of a finite set, one has no other among its subsets.
LEMMA SmallestSubset ==
    ASSUME NEW S, IsFiniteSet(S), NEW B \in SUBSET SUBSET S, B # {}
    PROVE  \E T \in B : \A U \in SUBSET T : U # T => U \notin B
<1>1. B \subseteq FiniteSubsetsOf(S)
  BY FS_FiniteSubsetsOfFinite
<1>2. PICK T \in B : \A U \in B : ~ (<<U, T>> \in StrictSubsetOrdering(S))
  BY <1>1, FS_StrictSubsetOrderingWellFounded, WFMin
<1>3. \A U \in B : U \subseteq T => U = T
  BY <1>2 DEF StrictSubsetOrdering
<1> QED
  BY <1>3

\* Induction on finite sets: P holds of a set if it does without an element.
LEMMA SubsetInduction ==
    ASSUME NEW S, IsFiniteSet(S), NEW P, {} \in P,
           \A T \in SUBSET S : \A x \in T : T \ {x} \in P => T \in P
    PROVE  S \in P
<1> DEFINE B == {T \in SUBSET S : T \notin P}
<1> SUFFICES ASSUME B # {} PROVE FALSE
  OBVIOUS
<1>1. B \in SUBSET SUBSET S
  OBVIOUS
<1> HIDE DEF B
<1>2. PICK T \in B : \A U \in SUBSET T : U # T => U \notin B
  BY <1>1, SmallestSubset
<1> USE DEF B
<1>3. PICK x \in T : TRUE
  OBVIOUS
<1>4. T \ {x} \in P
  BY <1>2, <1>3
<1> QED
  BY <1>3, <1>4

\* The image of a finite set under a function is finite.
LEMMA FiniteImage ==
    ASSUME NEW f, IsFiniteSet(DOMAIN f), NEW I, I = {f[x] : x \in DOMAIN f}, f = [x \in DOMAIN f |-> f[x]]
    PROVE  IsFiniteSet(I)
<1>1. f \in Surjection(DOMAIN f, I)
  BY DEF Surjection
<1> QED
  BY <1>1, FS_Surjection

\* The sum of f over a set, and the function of running sums it is taken from.
Over(f, S) == MapThenSumSet(LAMBDA x : f[x], S)

Pick(S) == CHOOSE x \in S : TRUE

IsRunning(f, S, h) ==
    h = [s \in SUBSET S |-> IF s = {} THEN 0 ELSE f[Pick(s)] + h[s \ {Pick(s)}]]

LEMMA SumIsOver ==
    ASSUME NEW f
    PROVE  SumOver(f) = Over(f, DOMAIN f)
BY DEF SumOver, Over

LEMMA OverIsRunning ==
    ASSUME NEW f, NEW S
    PROVE  Over(f, S) = (CHOOSE h : IsRunning(f, S, h))[S]
BY DEF Over, MapThenSumSet, MapThenFoldSet, IsRunning, Pick

LEMMA PickIn ==
    ASSUME NEW S, S # {}
    PROVE  Pick(S) \in S
BY DEF Pick

LEMMA RunningRec ==
    ASSUME NEW f, NEW S, NEW h, IsRunning(f, S, h)
    PROVE  /\ h[{}] = 0
           /\ \A s \in SUBSET S : s # {} => h[s] = f[Pick(s)] + h[s \ {Pick(s)}]
<1> DEFINE g == [s \in SUBSET S |-> IF s = {} THEN 0 ELSE f[Pick(s)] + h[s \ {Pick(s)}]]
<1>1. h = g
  BY DEF IsRunning
<1>2. g[{}] = 0
  OBVIOUS
<1>3. \A s \in SUBSET S : s # {} => g[s] = f[Pick(s)] + h[s \ {Pick(s)}]
  OBVIOUS
<1> HIDE DEF g
<1> QED
  BY <1>1, <1>2, <1>3

\* The running sums of a set and of a subset agree.
LEMMA RunningUnique ==
    ASSUME NEW f, NEW S, IsFiniteSet(S), NEW T \in SUBSET S,
           NEW h, IsRunning(f, S, h), NEW g, IsRunning(f, T, g)
    PROVE  \A u \in SUBSET T : h[u] = g[u]
<1> DEFINE B == {u \in SUBSET T : h[u] # g[u]}
<1> SUFFICES ASSUME B # {} PROVE FALSE
  OBVIOUS
<1>1. B \in SUBSET SUBSET S
  OBVIOUS
<1> HIDE DEF B
<1>2. PICK u \in B : \A v \in SUBSET u : v # u => v \notin B
  BY <1>1, SmallestSubset
<1> USE DEF B
<1>3. u # {}
  BY RunningRec
<1> DEFINE v == u \ {Pick(u)}
<1>4. v \in SUBSET u /\ v # u
  BY <1>3, PickIn
<1>5. h[v] = g[v]
  BY <1>2, <1>4
<1>6. u \in SUBSET T /\ u \in SUBSET S
  OBVIOUS
<1>7. h[u] = f[Pick(u)] + h[v] /\ g[u] = f[Pick(u)] + g[v]
  BY <1>3, <1>6, RunningRec
<1> QED
  BY <1>5, <1>7

\* Every finite set has running sums.
LEMMA RunningExists ==
    ASSUME NEW f, NEW S, IsFiniteSet(S)
    PROVE  \E h : IsRunning(f, S, h)
<1> DEFINE B == {T \in SUBSET S : ~ \E h : IsRunning(f, T, h)}
<1> SUFFICES ASSUME B # {} PROVE FALSE
  BY DEF B
<1>1. B \in SUBSET SUBSET S
  OBVIOUS
<1> HIDE DEF B
<1>2. PICK T \in B : \A U \in SUBSET T : U # T => U \notin B
  BY <1>1, SmallestSubset
<1> USE DEF B
<1>3. \A U \in SUBSET T : U # T => \E h : IsRunning(f, U, h)
  BY <1>2
<1>4. IsFiniteSet(T) /\ \A U \in SUBSET T : IsFiniteSet(U)
  BY FS_Subset
<1> DEFINE t(U) == CHOOSE h : IsRunning(f, U, h)
           g == [s \in SUBSET T |->
                    IF s = {} THEN 0 ELSE f[Pick(s)] + t(s \ {Pick(s)})[s \ {Pick(s)}]]
<1>5. \A U \in SUBSET T : U # T => IsRunning(f, U, t(U))
  BY <1>3
<1> HIDE DEF t
<1>6. ASSUME NEW u \in SUBSET T, u # T PROVE g[u] = t(u)[u]
  <2>1. CASE u = {}
    <3>1. t(u)[{}] = 0
      BY <1>5, <1>6, RunningRec
    <3> QED
      BY <2>1, <3>1
  <2>2. CASE u # {}
    <3> DEFINE v == u \ {Pick(u)}
    <3>1. v \in SUBSET u /\ v \in SUBSET T /\ v # T
      BY <1>6, <2>2, PickIn
    <3>5. IsRunning(f, u, t(u)) /\ IsRunning(f, v, t(v)) /\ IsFiniteSet(u)
      BY <1>4, <1>5, <1>6, <3>1
    <3> HIDE DEF v
    <3>2. t(u)[u] = f[Pick(u)] + t(u)[v]
      BY <2>2, <3>5, RunningRec DEF v
    <3>3. t(u)[v] = t(v)[v]
      BY <3>1, <3>5, RunningUnique
    <3>4. g[u] = f[Pick(u)] + t(v)[v]
      BY <2>2 DEF v
    <3> QED
      BY <3>2, <3>3, <3>4
  <2> QED
    BY <2>1, <2>2
<1>7. ASSUME NEW s \in SUBSET T, s # {}
      PROVE  g[s] = f[Pick(s)] + g[s \ {Pick(s)}]
  <2> DEFINE v == s \ {Pick(s)}
  <2>1. v \in SUBSET T /\ v # T
    BY <1>7, PickIn
  <2>2. g[v] = t(v)[v]
    BY <1>6, <2>1
  <2>3. g[s] = f[Pick(s)] + t(v)[v]
    BY <1>7
  <2> HIDE DEF g
  <2> QED
    BY <2>2, <2>3
<1>8. g[{}] = 0
  OBVIOUS
<1>9. IsRunning(f, T, g)
  <2>1. DOMAIN g = SUBSET T /\ g = [s \in SUBSET T |-> g[s]]
    OBVIOUS
  <2>2. \A s \in SUBSET T : g[s] = IF s = {} THEN 0 ELSE f[Pick(s)] + g[s \ {Pick(s)}]
    BY <1>7, <1>8
  <2> HIDE DEF g
  <2> QED
    BY <2>1, <2>2 DEF IsRunning
<1> QED
  BY <1>2, <1>9

\* A sum is the value of some element and the sum over the others.
LEMMA OverRec ==
    ASSUME NEW f, NEW S, IsFiniteSet(S)
    PROVE  /\ S = {} => Over(f, S) = 0
           /\ S # {} => Over(f, S) = f[Pick(S)] + Over(f, S \ {Pick(S)})
<1> DEFINE t(U) == CHOOSE h : IsRunning(f, U, h)
           v == S \ {Pick(S)}
<1>1. IsRunning(f, S, t(S))
  BY RunningExists
<1>2. IsFiniteSet(v) /\ v \in SUBSET S
  BY FS_RemoveElement
<1>3. IsRunning(f, v, t(v))
  BY <1>2, RunningExists
<1>4. Over(f, S) = t(S)[S] /\ Over(f, v) = t(v)[v]
  BY OverIsRunning
<1> HIDE DEF t, v
<1>5. t(S)[v] = t(v)[v]
  BY <1>1, <1>2, <1>3, RunningUnique
<1>6. S = {} => t(S)[S] = 0
  BY <1>1, RunningRec
<1>7. S # {} => t(S)[S] = f[Pick(S)] + t(S)[v]
  BY <1>1, RunningRec DEF v
<1> QED
  BY <1>4, <1>5, <1>6, <1>7 DEF v

IntsOn(f, S) == \A x \in S : f[x] \in Int

\* The order in which a sum is formed does not matter.
LEMMA OverAny ==
    ASSUME NEW f, NEW S, IsFiniteSet(S), IntsOn(f, S)
    PROVE  /\ Over(f, S) \in Int
           /\ \A x \in S : Over(f, S) = f[x] + Over(f, S \ {x})
<1> DEFINE P(T) == Over(f, T) \in Int /\ \A x \in T : Over(f, T) = f[x] + Over(f, T \ {x})
           B == {T \in SUBSET S : ~P(T)}
<1> SUFFICES ASSUME B # {} PROVE FALSE
  OBVIOUS
<1>1. B \in SUBSET SUBSET S
  OBVIOUS
<1> HIDE DEF B
<1>2. PICK T \in B : \A U \in SUBSET T : U # T => U \notin B
  BY <1>1, SmallestSubset
<1> USE DEF B
<1>3. \A U \in SUBSET T : U # T => P(U)
  BY <1>2
<1>4. IsFiniteSet(T) /\ \A U \in SUBSET T : IsFiniteSet(U)
  BY FS_Subset
<1> HIDE DEF P
<1>5. T # {}
  <2>1. Over(f, {}) = 0
    BY FS_EmptySet, OverRec
  <2>2. P({})
    BY <2>1 DEF P
  <2> QED
    BY <1>2, <2>2
<1> DEFINE c == Pick(T)
           v == T \ {c}
<1>6. c \in T /\ f[c] \in Int
  BY <1>5, PickIn DEF IntsOn
<1>7. P(v)
  BY <1>3, <1>6
<1>8. Over(f, T) = f[c] + Over(f, v)
  BY <1>4, <1>5, OverRec
<1> HIDE DEF c
<1>9. Over(f, v) \in Int
  BY <1>7 DEF P
<1>10. Over(f, T) \in Int
  BY <1>6, <1>8, <1>9
<1>11. ASSUME NEW x \in T PROVE Over(f, T) = f[x] + Over(f, T \ {x})
  <2>1. CASE x = c
    BY <1>8, <2>1
  <2>2. CASE x # c
    <3> DEFINE w == T \ {x}
               u == T \ {c, x}
    <3>1. x \in v /\ c \in w /\ v \ {x} = u /\ w \ {c} = u
      BY <1>6, <2>2
    <3>2. w \in SUBSET T /\ w # T
      OBVIOUS
    <3>3. P(w)
      BY <1>3, <3>2
    <3> HIDE DEF v, w, u
    <3>4. Over(f, v) = f[x] + Over(f, u)
      BY <1>7, <3>1 DEF P
    <3>5. Over(f, w) = f[c] + Over(f, u)
      BY <3>1, <3>3 DEF P
    <3>6. u \in SUBSET T /\ u # T
      BY DEF u
    <3>7. Over(f, u) \in Int /\ f[x] \in Int
      BY <1>3, <3>6 DEF P, IntsOn
    <3> QED
      BY <1>6, <1>8, <3>4, <3>5, <3>7 DEF w
  <2> QED
    BY <2>1, <2>2
<1>12. P(T)
  BY <1>10, <1>11 DEF P
<1> QED
  BY <1>2, <1>12

LEMMA OverEmpty ==
    ASSUME NEW f
    PROVE  Over(f, {}) = 0
BY FS_EmptySet, OverRec

\* A sum depends on the values alone.
LEMMA OverSame ==
    ASSUME NEW S, IsFiniteSet(S), NEW f, NEW g, IntsOn(f, S), \A x \in S : f[x] = g[x]
    PROVE  Over(f, S) = Over(g, S)
<1> DEFINE P == {T \in SUBSET S : Over(f, T) = Over(g, T)}
<1>1. {} \in P
  BY OverEmpty
<1>2. ASSUME NEW T \in SUBSET S, NEW x \in T, T \ {x} \in P
      PROVE  T \in P
  <2>1. IsFiniteSet(T) /\ IntsOn(f, T) /\ IntsOn(g, T)
    BY FS_Subset DEF IntsOn
  <2>2. Over(f, T) = f[x] + Over(f, T \ {x}) /\ Over(g, T) = g[x] + Over(g, T \ {x})
    BY <2>1, OverAny
  <2> QED
    BY <1>2, <2>2
<1> HIDE DEF P
<1>3. S \in P
  BY <1>1, <1>2, SubsetInduction
<1> QED
  BY <1>3 DEF P

\* Zeros do not count.
LEMMA OverSupport ==
    ASSUME NEW S, IsFiniteSet(S), NEW f, IntsOn(f, S),
           NEW T \in SUBSET S, \A x \in S \ T : f[x] = 0
    PROVE  Over(f, S) = Over(f, T)
<1> DEFINE P == {U \in SUBSET S : Over(f, U) = Over(f, U \cap T)}
<1>1. {} \in P
  BY OverEmpty
<1>2. ASSUME NEW U \in SUBSET S, NEW x \in U, U \ {x} \in P
      PROVE  U \in P
  <2>1. IsFiniteSet(U) /\ IntsOn(f, U) /\ IsFiniteSet(U \cap T) /\ IntsOn(f, U \cap T)
    BY FS_Subset DEF IntsOn
  <2> DEFINE rest == U \ {x}
             both == U \cap T
             kept == (U \ {x}) \cap T
  <2>2. Over(f, U) = f[x] + Over(f, rest) /\ f[x] \in Int
    BY <2>1, OverAny DEF IntsOn
  <2>3. Over(f, rest) = Over(f, kept)
    BY <1>2
  <2>4. Over(f, both) \in Int
    BY <2>1, OverAny
  <2>5. x \in T => Over(f, both) = f[x] + Over(f, both \ {x}) /\ both \ {x} = kept
    BY <2>1, OverAny
  <2>6. x \notin T => kept = both /\ f[x] = 0
    OBVIOUS
  <2> HIDE DEF rest, both, kept
  <2>7. Over(f, U) = Over(f, both)
    BY <2>2, <2>3, <2>4, <2>5, <2>6
  <2> QED
    BY <2>7 DEF both
<1> HIDE DEF P
<1>3. S \in P
  BY <1>1, <1>2, SubsetInduction
<1>4. S \cap T = T
  OBVIOUS
<1> QED
  BY <1>3, <1>4 DEF P

\* A sum may be taken over other indices, each for one of the old ones.
LEMMA OverRenamed ==
    ASSUME NEW S, IsFiniteSet(S), NEW g, IntsOn(g, S), NEW f, NEW h,
           \A x, y \in S : h[x] = h[y] => x = y,
           \A x \in S : g[x] = f[h[x]],
           NEW I, I = {h[x] : x \in S}, IsFiniteSet(I)
    PROVE  Over(g, S) = Over(f, I)
<1> DEFINE P == {T \in SUBSET S : Over(g, T) = Over(f, {h[x] : x \in T})}
<1>1. {} \in P
  <2>1. {h[x] : x \in {}} = {}
    OBVIOUS
  <2> QED
    BY <2>1, OverEmpty
<1>2. ASSUME NEW T \in SUBSET S, NEW x \in T, T \ {x} \in P
      PROVE  T \in P
  <2> DEFINE J == {h[y] : y \in T}
  <2>1. IsFiniteSet(T) /\ IntsOn(g, T)
    BY FS_Subset DEF IntsOn
  <2>2. J \in SUBSET I /\ IntsOn(f, J)
    BY DEF IntsOn
  <2>3. IsFiniteSet(J)
    BY <2>2, FS_Subset
  <2>4. h[x] \in J /\ J \ {h[x]} = {h[y] : y \in T \ {x}}
    OBVIOUS
  <2>5. Over(g, T) = g[x] + Over(g, T \ {x})
    BY <2>1, OverAny
  <2>6. Over(g, T \ {x}) = Over(f, {h[y] : y \in T \ {x}})
    BY <1>2
  <2> HIDE DEF J
  <2>7. Over(f, J) = f[h[x]] + Over(f, J \ {h[x]})
    BY <2>2, <2>3, <2>4, OverAny
  <2>8. Over(g, T) = Over(f, J)
    BY <2>4, <2>5, <2>6, <2>7
  <2> QED
    BY <2>8 DEF J
<1> HIDE DEF P
<1>3. S \in P
  BY <1>1, <1>2, SubsetInduction
<1> QED
  BY <1>3 DEF P

\* Two disjoint parts.
LEMMA OverUnion ==
    ASSUME NEW S, NEW T, IsFiniteSet(S), IsFiniteSet(T), S \cap T = {},
           NEW f, IntsOn(f, S \cup T)
    PROVE  Over(f, S \cup T) = Over(f, S) + Over(f, T)
<1> DEFINE P == {U \in SUBSET S : Over(f, U \cup T) = Over(f, U) + Over(f, T)}
<1>0. Over(f, T) \in Int
  BY OverAny DEF IntsOn
<1>1. {} \in P
  <2>1. {} \cup T = T
    OBVIOUS
  <2> QED
    BY <1>0, <2>1, OverEmpty
<1>2. ASSUME NEW U \in SUBSET S, NEW x \in U, U \ {x} \in P
      PROVE  U \in P
  <2>1. IsFiniteSet(U) /\ IntsOn(f, U) /\ IntsOn(f, U \cup T)
    BY FS_Subset DEF IntsOn
  <2>2. IsFiniteSet(U \cup T)
    BY <2>1, FS_Union
  <2> DEFINE rest == U \ {x}
             whole == U \cup T
             others == (U \ {x}) \cup T
  <2>3. Over(f, U) = f[x] + Over(f, rest) /\ f[x] \in Int
    BY <2>1, OverAny DEF IntsOn
  <2>4. Over(f, whole) = f[x] + Over(f, whole \ {x})
    BY <2>1, <2>2, OverAny
  <2>5. whole \ {x} = others
    OBVIOUS
  <2>6. Over(f, others) = Over(f, rest) + Over(f, T)
    BY <1>2
  <2>7. Over(f, rest) \in Int
    BY <2>1, FS_RemoveElement, OverAny DEF IntsOn
  <2> HIDE DEF rest, whole, others
  <2> DEFINE total == Over(f, T)
  <2>8. Over(f, whole) = f[x] + (Over(f, rest) + total)
    BY <2>4, <2>5, <2>6
  <2>9. total \in Int
    BY <1>0
  <2> HIDE DEF total
  <2>10. Over(f, whole) = Over(f, U) + total
    BY <2>3, <2>7, <2>8, <2>9
  <2> QED
    BY <2>10 DEF whole, total
<1> HIDE DEF P
<1>3. S \in P
  BY <1>1, <1>2, SubsetInduction
<1> QED
  BY <1>3 DEF P

\* Two sums over the same indices.
LEMMA OverAdd ==
    ASSUME NEW S, IsFiniteSet(S), NEW f, NEW g, NEW h, IntsOn(f, S), IntsOn(g, S),
           \A x \in S : h[x] = f[x] + g[x]
    PROVE  Over(h, S) = Over(f, S) + Over(g, S)
<1> DEFINE P == {T \in SUBSET S : Over(h, T) = Over(f, T) + Over(g, T)}
<1>1. {} \in P
  BY OverEmpty
<1>2. ASSUME NEW T \in SUBSET S, NEW x \in T, T \ {x} \in P
      PROVE  T \in P
  <2>1. IsFiniteSet(T) /\ IntsOn(f, T) /\ IntsOn(g, T) /\ IntsOn(h, T)
    BY FS_Subset DEF IntsOn
  <2>2. /\ Over(f, T) = f[x] + Over(f, T \ {x}) /\ Over(g, T) = g[x] + Over(g, T \ {x})
        /\ Over(h, T) = h[x] + Over(h, T \ {x})
    BY <2>1, OverAny
  <2>3. Over(f, T \ {x}) \in Int /\ Over(g, T \ {x}) \in Int
    BY <2>1, FS_RemoveElement, OverAny DEF IntsOn
  <2>4. f[x] \in Int /\ g[x] \in Int /\ h[x] = f[x] + g[x]
    BY DEF IntsOn
  <2>5. Over(h, T \ {x}) = Over(f, T \ {x}) + Over(g, T \ {x})
    BY <1>2
  <2>6. Over(h, T) = Over(f, T) + Over(g, T)
    BY <2>2, <2>3, <2>4, <2>5
  <2> QED
    BY <2>6
<1> HIDE DEF P
<1>3. S \in P
  BY <1>1, <1>2, SubsetInduction
<1> QED
  BY <1>3 DEF P

\* A sum of naturals is at least each part of it.
LEMMA OverNat ==
    ASSUME NEW S, IsFiniteSet(S), NEW f, \A x \in S : f[x] \in Nat
    PROVE  /\ Over(f, S) \in Nat
           /\ \A x \in S : f[x] <= Over(f, S)
           /\ \A T \in SUBSET S : Over(f, T) \in Nat /\ Over(f, T) <= Over(f, S)
<1> DEFINE P == {T \in SUBSET S : Over(f, T) \in Nat}
<1>1. {} \in P
  BY OverEmpty
<1>2. ASSUME NEW T \in SUBSET S, NEW x \in T, T \ {x} \in P
      PROVE  T \in P
  <2>1. IsFiniteSet(T) /\ IntsOn(f, T)
    BY FS_Subset DEF IntsOn
  <2>2. Over(f, T) = f[x] + Over(f, T \ {x}) /\ Over(f, T \ {x}) \in Nat /\ f[x] \in Nat
    BY <1>2, <2>1, OverAny
  <2> QED
    BY <2>2
<1> HIDE DEF P
<1>3. ASSUME NEW T \in SUBSET S PROVE Over(f, T) \in Nat
  <2>1. IsFiniteSet(T) /\ \A U \in SUBSET T : \A x \in U : U \ {x} \in P => U \in P
    BY <1>2, FS_Subset
  <2>2. T \in P
    BY <1>1, <2>1, SubsetInduction
  <2> QED
    BY <2>2 DEF P
<1>4. IntsOn(f, S)
  BY DEF IntsOn
<1>5. ASSUME NEW x \in S PROVE f[x] <= Over(f, S)
  <2>1. Over(f, S) = f[x] + Over(f, S \ {x}) /\ Over(f, S \ {x}) \in Nat /\ f[x] \in Nat
    BY <1>3, <1>4, OverAny
  <2> QED
    BY <2>1
<1>6. ASSUME NEW T \in SUBSET S PROVE Over(f, T) <= Over(f, S)
  <2>1. IsFiniteSet(T) /\ IsFiniteSet(S \ T) /\ T \cap (S \ T) = {} /\ T \cup (S \ T) = S
    BY FS_Subset
  <2>2. Over(f, S) = Over(f, T) + Over(f, S \ T)
    BY <1>4, <2>1, OverUnion
  <2>3. Over(f, T) \in Nat /\ Over(f, S \ T) \in Nat
    BY <1>3
  <2> QED
    BY <2>2, <2>3
<1>7. Over(f, S) \in Nat
  BY <1>3
<1> QED
  BY <1>3, <1>5, <1>6, <1>7

-----------------------------------------------------------------------------
(* The documents keep their types.                                         *)

DocumentsOK == source \in SourceDoc

LEMMA InitDocuments == Init => DocumentsOK
BY CutoverDocuments DEF Init, DocumentsOK

LEMMA EditKeeps ==
    ASSUME DocumentsOK,
           \/ \E o \in Orders, document \in OrderDocs : EditOrder(o, document)
           \/ \E t \in Trips, document \in TripDocs : EditTrip(t, document)
           \/ \E b \in Beauticians, document \in BeauticianProfiles : EditProfile(b, document)
           \/ \E r \in Riders, document \in RiderProfiles : EditProfile(r, document)
           \/ \E document \in Offices : EditOffice(document)
           \/ \E days \in Boards : EditBoard(days)
    PROVE  DocumentsOK'
<1>1. CASE \E o \in Orders, document \in OrderDocs : EditOrder(o, document)
  BY <1>1 DEF EditOrder, DocumentsOK, SourceDoc
<1>2. CASE \E t \in Trips, document \in TripDocs : EditTrip(t, document)
  BY <1>2 DEF EditTrip, DocumentsOK, SourceDoc
<1>3. ASSUME NEW w \in Workers, NEW document \in ProfilesOf(w), EditProfile(w, document)
      PROVE  DocumentsOK'
  <2> DEFINE p == source.profiles
             q == [p EXCEPT ![w] = document]
  <2>1. p \in [Workers -> BeauticianProfiles \cup RiderProfiles] /\ \A v \in Workers : p[v] \in ProfilesOf(v)
    BY DEF DocumentsOK, SourceDoc
  <2>2. document \in BeauticianProfiles \cup RiderProfiles
    BY DEF ProfilesOf
  <2> HIDE DEF p
  <2>3. q \in [Workers -> BeauticianProfiles \cup RiderProfiles] /\ \A v \in Workers : q[v] \in ProfilesOf(v)
    BY <2>1, <2>2
  <2> HIDE DEF q
  <2>4. source' = [source EXCEPT !.profiles = q]
    BY <1>3 DEF EditProfile, q, p
  <2> QED
    BY <2>3, <2>4 DEF DocumentsOK, SourceDoc
<1>4. CASE \E b \in Beauticians, document \in BeauticianProfiles : EditProfile(b, document)
  BY <1>3, <1>4 DEF ProfilesOf, Workers
<1>5. CASE \E r \in Riders, document \in RiderProfiles : EditProfile(r, document)
  <2>1. \A r \in Riders : r \in Workers /\ ProfilesOf(r) = RiderProfiles
    BY CutoverDocuments DEF ProfilesOf, Workers
  <2> QED
    BY <1>3, <1>5, <2>1
<1>6. CASE \E document \in Offices : EditOffice(document)
  BY <1>6 DEF EditOffice, DocumentsOK, SourceDoc
<1>7. CASE \E days \in Boards : EditBoard(days)
  BY <1>7 DEF EditBoard, DocumentsOK, SourceDoc
<1> QED
  BY <1>1, <1>2, <1>4, <1>5, <1>6, <1>7

LEMMA NextDocuments == DocumentsOK /\ [Next]_vars => DocumentsOK'
<1> SUFFICES ASSUME DocumentsOK, [Next]_vars PROVE DocumentsOK'
  OBVIOUS
<1>1. CASE UNCHANGED source
  BY <1>1 DEF DocumentsOK
<1>2. ASSUME NEW job \in Jobs, Rebuild(job) PROVE UNCHANGED source
  BY <1>2 DEF Rebuild
<1>3. ASSUME NEW k \in DOMAIN ledger, Settle(k) PROVE UNCHANGED source
  BY <1>3 DEF Settle
<1>4. ASSUME NEW range \in Ranges, Promote(range) PROVE UNCHANGED source
  BY <1>4 DEF Promote
<1>5. RollBack \/ KeepMode \/ UNCHANGED vars => UNCHANGED source
  BY DEF RollBack, KeepMode, vars
<1> QED
  BY <1>1, <1>2, <1>3, <1>4, <1>5, EditKeeps DEF Next

\* Whatever is edited, the documents have their types.
THEOREM DocumentsTyped == Spec => []DocumentsOK
BY InitDocuments, NextDocuments, PTL DEF Spec

\* What the documents have in them.
LEMMA OrderTypes ==
    ASSUME DocumentsOK, NEW o \in Orders, source.orders[o] # None
    PROVE  source.orders[o] \in OrderDoc
<1>1. source.orders[o] \in OrderDocs
  BY DEF DocumentsOK, SourceDoc
<1> QED
  BY <1>1, CutoverDocuments

LEMMA TripTypes ==
    ASSUME DocumentsOK, NEW t \in Trips, source.trips[t] # None
    PROVE  source.trips[t] \in TripDoc
<1>1. source.trips[t] \in TripDocs
  BY DEF DocumentsOK, SourceDoc
<1> QED
  BY <1>1, CutoverDocuments

-----------------------------------------------------------------------------
(* The board of the riders *)

\* Board and rebuild score the same riders alike.
LEMMA SameScores ==
    ASSUME DocumentsOK, NEW range, NEW trips,
           trips = [t \in LoadTripSources(range) |-> source.trips[t]],
           \A t \in DOMAIN trips :
                /\ AllowanceWorkerTypeExpr(trips[t]) = "rider"
                /\ trips[t].rider # None => ~source.profiles[trips[t].rider].deleted
    PROVE  LET scores == RiderScores(trips)
               shown  == Profiles({s.worker : s \in scores}, source.profiles, "all")
           IN  {s \in scores : s.worker \in shown} = LoadRiderLeaderboardSources(range)
<1> DEFINE T == LoadTripSources(range)
           riders == {trips[t].rider : t \in DOMAIN trips} \ {None}
           score(w) == [worker |-> w,
                        trips |-> Cardinality(TripsOfRider(trips, w)),
                        distance |-> SumOver([t \in TripsOfRider(trips, w) |-> ReportedDistance(trips[t])])]
<1>1. DOMAIN trips = T /\ \A t \in T : trips[t] = source.trips[t]
  OBVIOUS
<1>2. ASSUME NEW t \in T
      PROVE  /\ trips[t] \in TripDoc
             /\ AllowanceWorkerIDExpr(trips[t]) = trips[t].rider
             /\ trips[t].rider \in Riders \cup {None}
  <2>1. trips[t] \in TripDoc
    BY <1>1, TripTypes DEF LoadTripSources
  <2>2. trips[t].driver = None /\ ~(trips[t].selfDrive /\ trips[t].beautician # None)
    BY <1>1 DEF AllowanceWorkerTypeExpr
  <2> QED
    BY <2>1, <2>2 DEF AllowanceWorkerIDExpr, OrElse, TripDoc
<1> HIDE DEF T
<1>3. ASSUME NEW w PROVE TripsOfRider(trips, w) = TripsOf(w, range)
  BY <1>1, <1>2 DEF TripsOfRider, TripsOf, T
<1>4. ASSUME NEW w PROVE score(w) = TripScore(w, range)
  <2>1. TripsOf(w, range) \subseteq T
    BY DEF TripsOf, T
  <2>2. [t \in TripsOfRider(trips, w) |-> ReportedDistance(trips[t])]
            = [t \in TripsOf(w, range) |-> ReportedDistance(source.trips[t])]
    BY <1>1, <1>3, <2>1
  <2> QED
    BY <1>3, <2>2 DEF TripScore
<1>5. riders = {w \in Workers : TripsOf(w, range) # {}}
  <2>1. ASSUME NEW w \in riders PROVE w \in Workers /\ TripsOf(w, range) # {}
    <3>1. PICK t \in T : trips[t].rider = w /\ w # None
      BY <1>1
    <3>2. t \in TripsOfRider(trips, w)
      BY <1>1, <3>1 DEF TripsOfRider
    <3> QED
      BY <1>2, <1>3, <3>1, <3>2 DEF Workers
  <2>2. ASSUME NEW w \in Workers, TripsOf(w, range) # {} PROVE w \in riders
    <3>1. PICK t \in T : trips[t].rider = w
      BY <1>1, <1>3, <2>2 DEF TripsOfRider
    <3> QED
      BY <1>1, <3>1, CutoverDocuments
  <2> QED
    BY <2>1, <2>2
<1>6. RiderScores(trips) = {score(w) : w \in riders}
  BY DEF RiderScores
<1>7. LoadRiderLeaderboardSources(range) = {TripScore(w, range) : w \in riders}
  BY <1>5 DEF LoadRiderLeaderboardSources
<1>8. \A w \in riders : ~source.profiles[w].deleted
  BY <1>1
<1> HIDE DEF score, riders
<1>9. RiderScores(trips) = LoadRiderLeaderboardSources(range)
  BY <1>4, <1>6, <1>7
<1>10. ASSUME NEW s \in LoadRiderLeaderboardSources(range) PROVE s.worker \in riders
  <2>1. PICK w \in riders : s = TripScore(w, range)
    BY <1>7
  <2>2. TripScore(w, range).worker = w
    BY DEF TripScore
  <2> QED
    BY <2>1, <2>2
<1> QED
  BY <1>8, <1>9, <1>10 DEF Profiles

\* The board of the riders shows the prizes that a rebuild makes rows of.
THEOREM BoardAgrees == Spec => []BoardShowsAwards
<1>1. ASSUME DocumentsOK PROVE BoardShowsAwards
  <2> SUFFICES ASSUME NEW range \in Ranges, NEW trips,
                      trips = [t \in LoadTripSources(range) |-> source.trips[t]],
                      \A t \in DOMAIN trips :
                        /\ AllowanceWorkerTypeExpr(trips[t]) = "rider"
                        /\ trips[t].rider # None => ~source.profiles[trips[t].rider].deleted
               PROVE  RiderBoard(trips, source.profiles, source.office, "all") = RiderAwards(range)
    BY DEF BoardShowsAwards
  <2> DEFINE scores == RiderScores(trips)
             shown  == Profiles({s.worker : s \in scores}, source.profiles, "all")
  <2>1. {s \in scores : s.worker \in shown} = LoadRiderLeaderboardSources(range)
    BY <1>1, SameScores
  <2>2. RiderBoard(trips, source.profiles, source.office, "all")
            = RankRiderScoresByGender(LoadRiderLeaderboardSources(range), source.profiles, source.office)
    BY <2>1 DEF RiderBoard
  <2> QED
    BY <2>2 DEF RankRiderScoresByGender, RiderAwards
<1> QED
  BY <1>1, DocumentsTyped, PTL

-----------------------------------------------------------------------------
(* Awards: each worker of a board has one, of a natural amount.            *)

\* What a score is made from: one row per worker, of finitely many.
Listed(rows) == IsFiniteSet(rows) /\ \A r, s \in rows : r.worker = s.worker => r = s

\* The awards of a board.
OneEach(awards, rows) ==
    /\ \A a \in awards : a.bonus \in Nat /\ \E r \in rows : a.worker = r.worker
    /\ \A a, c \in awards : a.worker = c.worker => a = c

LEMMA AwardFacts ==
    ASSUME NEW scores, IsFiniteSet(scores), NEW prizes \in Seq(Nat), NEW s \in scores
    PROVE  Award(s, scores, prizes).worker = s.worker /\ Award(s, scores, prizes).bonus \in Nat
<1> DEFINE ahead == {r \in scores : Before(r, s)}
           rank == RankOf(s, scores)
<1>1. Cardinality(ahead) \in Nat
  BY FS_Subset, FS_CardinalityType
<1>2. rank \in Nat /\ rank >= 1
  BY <1>1 DEF RankOf
<1> HIDE DEF rank
<1>3. rank <= Len(prizes) => prizes[rank] \in Nat
  BY <1>2
<1>4. Award(s, scores, prizes) =
        [worker |-> s.worker, rank |-> rank,
         bonus |-> IF rank <= Len(prizes) THEN prizes[rank] ELSE 0]
  BY DEF Award, rank
<1> QED
  BY <1>3, <1>4

\* Both rankings turn rows into scores one by one.
Scored(score) == {score[r] : r \in DOMAIN score}

Ranked(score, prizes) == {Award(s, Scored(score), prizes) : s \in Scored(score)}

LEMMA RankedOnce ==
    ASSUME NEW rows, Listed(rows), NEW score, DOMAIN score = rows,
           score = [r \in rows |-> score[r]],
           \A r \in rows : score[r].worker = r.worker, NEW prizes \in Seq(Nat)
    PROVE  OneEach(Ranked(score, prizes), rows)
<1> DEFINE scores == Scored(score)
           awards == Ranked(score, prizes)
<1>0. scores = {score[r] : r \in rows} /\ awards = {Award(s, scores, prizes) : s \in scores}
  BY DEF Scored, Ranked
<1> HIDE DEF scores, awards
<1>1. IsFiniteSet(scores)
  BY <1>0, FiniteImage DEF Listed
<1>2. \A s \in scores : Award(s, scores, prizes).worker = s.worker /\ Award(s, scores, prizes).bonus \in Nat
  BY <1>1, AwardFacts
<1>3. \A s \in scores : \E r \in rows : s = score[r] /\ s.worker = r.worker
  BY <1>0
<1>4. ASSUME NEW a \in awards, NEW c \in awards, a.worker = c.worker
      PROVE  a = c
  <2>1. PICK s \in scores : a = Award(s, scores, prizes)
    BY <1>0
  <2>2. PICK u \in scores : c = Award(u, scores, prizes)
    BY <1>0
  <2>3. s.worker = u.worker
    BY <1>2, <1>4, <2>1, <2>2
  <2>4. s = u
    BY <1>3, <2>3 DEF Listed
  <2> QED
    BY <2>1, <2>2, <2>4
<1>5. ASSUME NEW a \in awards
      PROVE  a.bonus \in Nat /\ \E r \in rows : a.worker = r.worker
  <2>1. PICK s \in scores : a = Award(s, scores, prizes)
    BY <1>0
  <2>2. a.worker = s.worker /\ a.bonus \in Nat
    BY <1>2, <2>1
  <2>3. PICK r \in rows : s.worker = r.worker
    BY <1>3
  <2>4. a.worker = r.worker
    BY <2>2, <2>3
  <2> QED
    BY <2>2, <2>4
<1> QED
  BY <1>4, <1>5 DEF OneEach, awards

LEMMA RankedBeauticians ==
    ASSUME NEW rows, Listed(rows), NEW prizes \in Seq(Nat)
    PROVE  OneEach(RankBeauticians(rows, prizes), rows)
<1> DEFINE score == [r \in rows |-> [worker |-> r.worker, first |-> r.revenue, second |-> r.orders]]
<1>1. /\ DOMAIN score = rows /\ \A r \in rows : score[r].worker = r.worker
      /\ score = [r \in rows |-> score[r]]
  OBVIOUS
<1>2. Scored(score) = {[worker |-> r.worker, first |-> r.revenue, second |-> r.orders] : r \in rows}
  BY DEF Scored
<1>3. RankBeauticians(rows, prizes) = Ranked(score, prizes)
  BY <1>2 DEF RankBeauticians, Ranked
<1> HIDE DEF score
<1> QED
  BY <1>1, <1>3, RankedOnce

LEMMA RankedRiders ==
    ASSUME NEW rows, Listed(rows), NEW prizes \in Seq(Nat)
    PROVE  OneEach(RankRiders(rows, prizes), rows)
<1> DEFINE score == [r \in rows |-> [worker |-> r.worker, first |-> r.trips, second |-> r.distance]]
<1>1. /\ DOMAIN score = rows /\ \A r \in rows : score[r].worker = r.worker
      /\ score = [r \in rows |-> score[r]]
  OBVIOUS
<1>2. Scored(score) = {[worker |-> r.worker, first |-> r.trips, second |-> r.distance] : r \in rows}
  BY DEF Scored
<1>3. RankRiders(rows, prizes) = Ranked(score, prizes)
  BY <1>2 DEF RankRiders, Ranked
<1> HIDE DEF score
<1> QED
  BY <1>1, <1>3, RankedOnce

\* The prizes of an office are sequences of naturals.
LEMMA PrizeTypes ==
    ASSUME DocumentsOK, NEW role \in Roles, NEW g \in Genders
    PROVE  GenderPrizes(source.office, role, g) \in Seq(Nat)
<1>1. source.office \in OfficeDoc
  BY CutoverDocuments DEF DocumentsOK, SourceDoc
<1> DEFINE office == source.office
<1>2. office.prizes[role] \in Seq(Nat) /\ office.settings[role][g].prizes \in Seq(Nat)
  BY <1>1 DEF OfficeDoc
<1>3. << >> \in Seq(Nat)
  OBVIOUS
<1> QED
  BY <1>2, <1>3 DEF GenderPrizes

\* Ranks are given per gender, and every worker has one.
LEMMA UnionOfGenders ==
    ASSUME NEW rows, NEW profiles, NEW awards,
           \A g \in Genders : OneEach(awards[g], OfGender(rows, profiles, g)),
           NEW all, all = UNION {awards[g] : g \in Genders}
    PROVE  /\ OneEach(all, rows)
           /\ \A a \in all : a \in awards[GenderGroup(profiles[a.worker].gender)]
<1>1. ASSUME NEW a \in all
      PROVE  /\ a \in awards[GenderGroup(profiles[a.worker].gender)]
             /\ GenderGroup(profiles[a.worker].gender) \in Genders
             /\ a.bonus \in Nat /\ \E r \in rows : a.worker = r.worker
  <2>1. PICK g \in Genders : a \in awards[g]
    OBVIOUS
  <2>2. PICK r \in OfGender(rows, profiles, g) : a.worker = r.worker
    BY <2>1 DEF OneEach
  <2>3. r \in rows /\ GenderGroup(profiles[r.worker].gender) = g
    BY DEF OfGender
  <2>4. a.bonus \in Nat
    BY <2>1 DEF OneEach
  <2> QED
    BY <2>1, <2>2, <2>3, <2>4
<1>2. ASSUME NEW a \in all, NEW c \in all, a.worker = c.worker PROVE a = c
  BY <1>1, <1>2 DEF OneEach
<1> QED
  BY <1>1, <1>2 DEF OneEach

\* The scores a rebuild loads.
LEMMA BeauticianScores ==
    ASSUME NEW range
    PROVE  /\ Listed(LoadBeauticianLeaderboardSources(range))
           /\ \A r \in LoadBeauticianLeaderboardSources(range) : r.worker \in Beauticians
<1> DEFINE days(b) == {d \in source.board :
                         d.beautician = b /\ In(range, d.day) /\ d.day >= ApplicableFrom(b)}
           B == {b \in Beauticians : days(b) # {}}
           row == [b \in B |-> [worker |-> b,
                                revenue |-> SumOver([d \in days(b) |-> d.revenue]),
                                orders |-> SumOver([d \in days(b) |-> d.orders])]]
           L == LoadBeauticianLeaderboardSources(range)
<1>1. L = {row[b] : b \in B}
  BY DEF LoadBeauticianLeaderboardSources
<1>2. DOMAIN row = B /\ row = [b \in B |-> row[b]] /\ \A b \in B : row[b].worker = b
  OBVIOUS
<1>3. IsFiniteSet(B) /\ B \subseteq Beauticians
  BY CutoverDocuments, FS_Subset
<1> HIDE DEF row, B, L
<1>4. IsFiniteSet(L)
  BY <1>1, <1>2, <1>3, FiniteImage
<1>5. Listed(L) /\ \A r \in L : r.worker \in Beauticians
  BY <1>1, <1>2, <1>3, <1>4 DEF Listed
<1> QED
  BY <1>5 DEF L

LEMMA RiderScoresListed ==
    ASSUME NEW range
    PROVE  /\ Listed(LoadRiderLeaderboardSources(range))
           /\ \A r \in LoadRiderLeaderboardSources(range) :
                r.worker \in Workers /\ TripsOf(r.worker, range) # {}
<1> DEFINE B == {w \in Workers : TripsOf(w, range) # {}}
           row == [w \in B |-> TripScore(w, range)]
           L == LoadRiderLeaderboardSources(range)
<1>1. L = {row[w] : w \in B}
  BY DEF LoadRiderLeaderboardSources
<1>2. DOMAIN row = B /\ row = [w \in B |-> row[w]] /\ \A w \in B : row[w].worker = w
  BY DEF TripScore
<1>3. IsFiniteSet(B) /\ \A w \in B : w \in Workers /\ TripsOf(w, range) # {}
  <2>1. IsFiniteSet(Workers)
    BY CutoverDocuments, FS_Union DEF Workers
  <2> QED
    BY <2>1, FS_Subset
<1> HIDE DEF row, B, L
<1>4. IsFiniteSet(L)
  BY <1>1, <1>2, <1>3, FiniteImage
<1>5. Listed(L) /\ \A r \in L : r.worker \in Workers /\ TripsOf(r.worker, range) # {}
  BY <1>1, <1>2, <1>3, <1>4 DEF Listed
<1> QED
  BY <1>5 DEF L

LEMMA ListedOfGender ==
    ASSUME NEW rows, Listed(rows), NEW profiles, NEW g
    PROVE  Listed(OfGender(rows, profiles, g))
<1>1. OfGender(rows, profiles, g) \subseteq rows
  BY DEF OfGender
<1> QED
  BY <1>1, FS_Subset DEF Listed

\* The awards of a gender, and all of them.
BeauticianAwardsOf(range, g) ==
    RankBeauticians(OfGender(LoadBeauticianLeaderboardSources(range), source.profiles, g),
                    GenderPrizes(source.office, "beautician", g))

RiderAwardsOf(range, g) ==
    RankRiders(OfGender(LoadRiderLeaderboardSources(range), source.profiles, g),
               GenderPrizes(source.office, "rider", g))

LEMMA BeauticianAwardFacts ==
    ASSUME DocumentsOK, NEW range
    PROVE  /\ OneEach(BeauticianAwards(range), LoadBeauticianLeaderboardSources(range))
           /\ \A a \in BeauticianAwards(range) :
                a \in BeauticianAwardsOf(range, GenderGroup(source.profiles[a.worker].gender))
<1> DEFINE awards == [g \in Genders |-> BeauticianAwardsOf(range, g)]
           all == BeauticianAwards(range)
           rows == LoadBeauticianLeaderboardSources(range)
           profiles == source.profiles
<1>1. \A g \in Genders : OneEach(awards[g], OfGender(rows, profiles, g))
  BY BeauticianScores, ListedOfGender, PrizeTypes, RankedBeauticians DEF BeauticianAwardsOf, Roles
<1>2. all = UNION {awards[g] : g \in Genders}
  BY DEF BeauticianAwards, BeauticianAwardsOf
<1>3. \A x : GenderGroup(x) \in Genders
  BY DEF GenderGroup, Genders
<1>4. \A g \in Genders : awards[g] = BeauticianAwardsOf(range, g)
  OBVIOUS
<1> HIDE DEF awards, all, rows, profiles
<1>5. /\ OneEach(all, rows)
      /\ \A a \in all : a \in awards[GenderGroup(profiles[a.worker].gender)]
  BY <1>1, <1>2, UnionOfGenders, SMTT(20)
<1>6. \A a \in all : a \in BeauticianAwardsOf(range, GenderGroup(profiles[a.worker].gender))
  <2> SUFFICES ASSUME NEW a \in all
               PROVE  a \in BeauticianAwardsOf(range, GenderGroup(profiles[a.worker].gender))
    OBVIOUS
  <2> DEFINE g == GenderGroup(profiles[a.worker].gender)
  <2>1. g \in Genders /\ a \in awards[g]
    BY <1>3, <1>5
  <2> HIDE DEF g
  <2>2. a \in BeauticianAwardsOf(range, g)
    BY <1>4, <2>1
  <2> QED
    BY <2>2 DEF g
<1> QED
  BY <1>5, <1>6 DEF all, rows, profiles

LEMMA RiderAwardFacts ==
    ASSUME DocumentsOK, NEW range
    PROVE  /\ OneEach(RiderAwards(range), LoadRiderLeaderboardSources(range))
           /\ \A a \in RiderAwards(range) :
                a \in RiderAwardsOf(range, GenderGroup(source.profiles[a.worker].gender))
<1> DEFINE awards == [g \in Genders |-> RiderAwardsOf(range, g)]
           all == RiderAwards(range)
           rows == LoadRiderLeaderboardSources(range)
           profiles == source.profiles
<1>1. \A g \in Genders : OneEach(awards[g], OfGender(rows, profiles, g))
  BY RiderScoresListed, ListedOfGender, PrizeTypes, RankedRiders DEF RiderAwardsOf, Roles
<1>2. all = UNION {awards[g] : g \in Genders}
  BY DEF RiderAwards, RiderAwardsOf
<1>3. \A x : GenderGroup(x) \in Genders
  BY DEF GenderGroup, Genders
<1>4. \A g \in Genders : awards[g] = RiderAwardsOf(range, g)
  OBVIOUS
<1> HIDE DEF awards, all, rows, profiles
<1>5. /\ OneEach(all, rows)
      /\ \A a \in all : a \in awards[GenderGroup(profiles[a.worker].gender)]
  BY <1>1, <1>2, UnionOfGenders, SMTT(20)
<1>6. \A a \in all : a \in RiderAwardsOf(range, GenderGroup(profiles[a.worker].gender))
  <2> SUFFICES ASSUME NEW a \in all
               PROVE  a \in RiderAwardsOf(range, GenderGroup(profiles[a.worker].gender))
    OBVIOUS
  <2> DEFINE g == GenderGroup(profiles[a.worker].gender)
  <2>1. g \in Genders /\ a \in awards[g]
    BY <1>3, <1>5
  <2> HIDE DEF g
  <2>2. a \in RiderAwardsOf(range, g)
    BY <1>4, <2>1
  <2> QED
    BY <2>2 DEF g
<1> QED
  BY <1>5, <1>6 DEF all, rows, profiles

-----------------------------------------------------------------------------
(* What a trip pays, and whom.                                             *)

TypeOf(w) == IF w \in Riders THEN "rider" ELSE "beautician"

LEMMA TripWorker ==
    ASSUME NEW trip \in TripDoc
    PROVE  /\ AllowanceWorker(trip)[1] = AllowanceWorkerIDExpr(trip)
           /\ AllowanceWorker(trip)[1] \in Workers \cup {None}
           /\ AllowanceWorker(trip)[2] = AllowanceWorkerTypeExpr(trip)
           /\ AllowanceWorker(trip)[1] # None =>
                AllowanceWorker(trip)[2] = TypeOf(AllowanceWorker(trip)[1])
<1>1. /\ trip.driver \in Beauticians \cup {None} /\ trip.beautician \in Beauticians \cup {None}
      /\ trip.rider \in Riders \cup {None} /\ trip.selfDrive \in BOOLEAN
  BY DEF TripDoc
<1>2. Beauticians \cap Riders = {} /\ None \notin Workers
  BY CutoverDocuments
<1>3. CASE trip.driver # None
  <2>1. AllowanceWorker(trip) = <<trip.driver, "beautician">>
    BY <1>3 DEF AllowanceWorker
  <2> QED
    BY <1>1, <1>2, <1>3, <2>1 DEF AllowanceWorkerIDExpr, AllowanceWorkerTypeExpr, OrElse, TypeOf, Workers
<1>4. CASE trip.driver = None /\ trip.selfDrive /\ trip.beautician # None
  <2>1. AllowanceWorker(trip) = <<trip.beautician, "beautician">>
    BY <1>4 DEF AllowanceWorker
  <2> QED
    BY <1>1, <1>2, <1>4, <2>1 DEF AllowanceWorkerIDExpr, AllowanceWorkerTypeExpr, OrElse, TypeOf, Workers
<1>5. CASE trip.driver = None /\ ~(trip.selfDrive /\ trip.beautician # None)
  <2>1. AllowanceWorker(trip) = <<trip.rider, "rider">>
    BY <1>5 DEF AllowanceWorker
  <2> QED
    BY <1>1, <1>2, <1>5, <2>1 DEF AllowanceWorkerIDExpr, AllowanceWorkerTypeExpr, OrElse, TypeOf, Workers
<1> QED
  BY <1>3, <1>4, <1>5

LEMMA WorkerTypeIs ==
    ASSUME DocumentsOK, NEW range, NEW w \in Workers, TripsOf(w, range) # {}
    PROVE  WorkerType(w, range) = TypeOf(w)
<1> DEFINE t == CHOOSE t \in TripsOf(w, range) : TRUE
<1>1. t \in TripsOf(w, range)
  OBVIOUS
<1> HIDE DEF t
<1>2. source.trips[t] \in TripDoc /\ AllowanceWorkerIDExpr(source.trips[t]) = w
  BY <1>1, TripTypes DEF TripsOf, LoadTripSources
<1>3. w # None
  BY CutoverDocuments
<1>4. AllowanceWorkerTypeExpr(source.trips[t]) = TypeOf(w)
  BY <1>2, <1>3, TripWorker
<1> QED
  BY <1>4 DEF WorkerType, t

LEMMA RoundNat ==
    ASSUME NEW num \in Nat, NEW den \in Nat, den > 0
    PROVE  Round(num, den) \in Nat
<1>1. 2 * num + den \in Nat /\ 2 * den \in Nat /\ 2 * den > 0
  OBVIOUS
<1>2. \A a \in Nat, b \in Nat : b > 0 => a \div b \in Nat
  OBVIOUS
<1> QED
  BY <1>1, <1>2 DEF Round

RatesType == [cost : Int, mileage : Int]

TripSnapshotType ==
    [distance : Number, rate : Number, cost : Number, mileage : Number,
     commission : Money, petrol : Money, paid : BOOLEAN]

LEMMA TripMoney ==
    ASSUME NEW trip \in TripDoc, NEW rates \in RatesType, Distance(trip) > 0
    PROVE  /\ Distance(trip) \in Nat /\ Commission(trip) \in Nat
           /\ Cost(trip, rates) \in Int /\ Mileage(trip, rates) \in Int
           /\ Cost(trip, rates) > 0 /\ Mileage(trip, rates) > 0 => Petrol(trip, rates) \in Nat
<1> DEFINE d == Distance(trip)
           c == Cost(trip, rates)
           m == Mileage(trip, rates)
           r == Rate(trip)
<1>1. /\ trip.auto \in Int /\ trip.extra \in Int /\ trip.fareKm \in Int
      /\ trip.fareCost \in Int /\ trip.fareMileage \in Int /\ trip.override \in Int \cup {None}
      /\ trip.snapshot \in TripSnapshotType \cup {None}
      /\ rates.cost \in Int /\ rates.mileage \in Int /\ None \notin Int
  BY CutoverDocuments DEF TripDoc, RatesType, Number, TripSnapshotType
<1>2. d \in Nat /\ d > 0
  BY <1>1 DEF Distance, Automatic
<1>3. /\ SnapshotField(trip, "rate", 1) \in Int /\ SnapshotField(trip, "rate", 1) > 0
      /\ SnapshotField(trip, "cost", trip.fareCost) \in Int
      /\ SnapshotField(trip, "mileage", trip.fareMileage) \in Int
  BY <1>1 DEF SnapshotField, Positive, TripSnapshotType, Number
<1>4. r \in Nat /\ c \in Int /\ m \in Int
  BY <1>1, <1>3 DEF Rate, Cost, Mileage
<1>5. Commission(trip) \in Nat
  <2>1. \A x, y \in Nat : 100 * x * y \in Nat
    OBVIOUS
  <2>2. Commission(trip) = IF ~trip.commissionable THEN 0
                           ELSE IF Positive(trip.override) THEN 100 * trip.override ELSE 100 * d * r
    BY DEF Commission
  <2>3. Positive(trip.override) => 100 * trip.override \in Nat
    BY <1>1 DEF Positive
  <2> HIDE DEF d, r
  <2> QED
    BY <1>2, <1>4, <2>1, <2>2, <2>3
<1>6. ASSUME c > 0, m > 0 PROVE Petrol(trip, rates) \in Nat
  <2>1. Petrol(trip, rates) = Round(100 * d * c, m)
    BY DEF Petrol
  <2>2. \A x, y \in Nat : 100 * x * y \in Nat
    OBVIOUS
  <2> HIDE DEF d, c, m
  <2>3. c \in Nat /\ m \in Nat
    BY <1>4, <1>6
  <2>4. 100 * d * c \in Nat
    BY <1>2, <2>2, <2>3
  <2> QED
    BY <1>6, <2>1, <2>3, <2>4, RoundNat
<1> QED
  BY <1>2, <1>4, <1>5, <1>6

LEMMA PayablesMoney ==
    ASSUME NEW trip \in TripDoc, NEW rates \in RatesType
    PROVE  /\ EffectiveTripPayables(trip, rates).commission \in Money
           /\ EffectiveTripPayables(trip, rates).petrol \in Money
<1> DEFINE s == trip.snapshot
<1>1. s \in TripSnapshotType \cup {None}
  BY DEF TripDoc, TripSnapshotType
<1>2. None \in Money /\ Nat \subseteq Money
  BY DEF Money
<1>3. s # None => s.commission \in Money /\ s.petrol \in Money /\ s.paid \in BOOLEAN
  BY <1>1 DEF TripSnapshotType
<1>4. \A x, y : Payables(x, y).commission = x /\ Payables(x, y).petrol = y
  BY DEF Payables
<1>5. CASE s = None \/ Distance(trip) <= 0 \/ (s.paid /\ s.commission # None /\ s.petrol # None)
  <2>1. EffectiveTripPayables(trip, rates) = Payables(None, None) \/ 
        (s # None /\ EffectiveTripPayables(trip, rates) = Payables(s.commission, s.petrol))
    BY <1>5 DEF EffectiveTripPayables
  <2> QED
    BY <1>2, <1>3, <1>4, <2>1
<1>6. CASE ~(s = None \/ Distance(trip) <= 0 \/ (s.paid /\ s.commission # None /\ s.petrol # None))
  <2>1. Distance(trip) \in Int
    BY DEF TripDoc, Distance, Automatic
  <2>2. Distance(trip) > 0
    BY <1>6, <2>1
  <2>3. /\ Commission(trip) \in Money /\ Cost(trip, rates) \in Int /\ Mileage(trip, rates) \in Int
        /\ Cost(trip, rates) > 0 /\ Mileage(trip, rates) > 0 => Petrol(trip, rates) \in Money
    BY <1>2, <2>2, TripMoney
  <2>4. CASE Cost(trip, rates) <= 0 \/ Mileage(trip, rates) <= 0
    <3>1. EffectiveTripPayables(trip, rates) = Payables(Commission(trip), s.petrol)
      BY <1>6, <2>4 DEF EffectiveTripPayables
    <3> QED
      BY <1>3, <1>4, <1>6, <2>3, <3>1
  <2>5. CASE ~(Cost(trip, rates) <= 0 \/ Mileage(trip, rates) <= 0)
    <3>1. EffectiveTripPayables(trip, rates) =
            Payables(IF s.paid THEN OrElse(s.commission, Commission(trip)) ELSE Commission(trip),
                     IF s.paid THEN OrElse(s.petrol, Petrol(trip, rates)) ELSE Petrol(trip, rates))
      BY <1>6, <2>5 DEF EffectiveTripPayables
    <3>2. Petrol(trip, rates) \in Money
      BY <2>3, <2>5
    <3> QED
      BY <1>3, <1>4, <1>6, <2>3, <3>1, <3>2 DEF OrElse
  <2> QED
    BY <2>4, <2>5
<1> QED
  BY <1>5, <1>6

LEMMA OfficeTypes ==
    ASSUME DocumentsOK
    PROVE  source.office.bonus \in Nat /\ source.office.rates \in RatesType
BY CutoverDocuments DEF DocumentsOK, SourceDoc, OfficeDoc, RatesType

LEMMA TripPaysMoney ==
    ASSUME DocumentsOK, NEW range, NEW t \in LoadTripSources(range), NEW c \in {"commission", "petrol"}
    PROVE  TripPays(t, range)[c] \in Money
<1> DEFINE rates == LoadedRates({source.trips[u] : u \in LoadTripSources(range)}, source.office.rates)
<1>1. rates \in RatesType
  BY OfficeTypes DEF LoadedRates, NoRates, RatesType
<1>2. source.trips[t] \in TripDoc
  BY TripTypes DEF LoadTripSources
<1> HIDE DEF rates
<1>3. /\ EffectiveTripPayables(source.trips[t], rates).commission \in Money
      /\ EffectiveTripPayables(source.trips[t], rates).petrol \in Money
  BY <1>1, <1>2, PayablesMoney
<1>4. TripPays(t, range) = EffectiveTripPayables(source.trips[t], rates)
  BY DEF TripPays, rates
<1> QED
  BY <1>3, <1>4

-----------------------------------------------------------------------------
(* The entries of a rebuild.                                               *)

OrderEntry(o, c) ==
    Entry(<<"orders", o, c>>, source.orders[o].beautician, "beautician", source.orders[o].day,
          c, OrderAmount(o, c), source.orders[o].snapshot.paid)

OrderPaid(o, c) == OrderAmount(o, c) \notin {None, 0} /\ (c = "general" => GeneralDue(o))

TargetEntry(b, range) ==
    Entry(<<"targets", b, Month(range.to)>>, b, "beautician", WholeMonth(range.to).to,
          "target_bonus", source.office.bonus, FALSE)

TripEntry(t, c, range) ==
    Entry(<<"trips", t, c>>, AllowanceWorker(source.trips[t])[1], AllowanceWorker(source.trips[t])[2],
          source.trips[t].day, c, TripPays(t, range)[c], source.trips[t].snapshot.paid /\ c = "petrol")

LEMMA OrderEntriesAre ==
    ASSUME NEW range, NEW e
    PROVE  e \in OrderEntries(range) <=>
                \E o \in LoadOrderSources(range), c \in OrderComponents :
                    e = OrderEntry(o, c) /\ OrderPaid(o, c)
<1> DEFINE L == LoadOrderSources(range)
<1>1. OrderEntries(range) =
        {OrderEntry(put[1], put[2]) : put \in {put \in L \X OrderComponents : OrderPaid(put[1], put[2])}}
  BY DEF OrderEntries, OrderEntry, OrderPaid
<1>2. \A put \in L \X OrderComponents : put[1] \in L /\ put[2] \in OrderComponents
  OBVIOUS
<1>3. \A o \in L, c \in OrderComponents :
        <<o, c>> \in L \X OrderComponents /\ <<o, c>>[1] = o /\ <<o, c>>[2] = c
  OBVIOUS
<1> HIDE DEF L
<1>4. ASSUME e \in OrderEntries(range)
      PROVE  \E o \in L, c \in OrderComponents : e = OrderEntry(o, c) /\ OrderPaid(o, c)
  <2>1. PICK put \in L \X OrderComponents : e = OrderEntry(put[1], put[2]) /\ OrderPaid(put[1], put[2])
    BY <1>1, <1>4
  <2> QED
    BY <1>2, <2>1
<1>5. ASSUME NEW o \in L, NEW c \in OrderComponents, e = OrderEntry(o, c), OrderPaid(o, c)
      PROVE  e \in OrderEntries(range)
  BY <1>1, <1>3, <1>5
<1> QED
  BY <1>4, <1>5 DEF L

LEMMA TargetEntriesAre ==
    ASSUME NEW range, NEW e
    PROVE  e \in TargetEntries(range) <=>
                \E b \in DOMAIN LoadWorkerTargets :
                    /\ e = TargetEntry(b, range)
                    /\ TargetOf(b).target2 > 0 /\ source.office.bonus # 0
                    /\ ~InvalidMonth(b, range.to)
                    /\ Revenue(b, range.to) >= TargetOf(b).target2
BY DEF TargetEntries, TargetEntry

LEMMA TripEntriesAre ==
    ASSUME NEW range, NEW scope, NEW e
    PROVE  e \in TripEntries(range, scope) <=>
                \E t \in PaidTrips(range), c \in {"commission", "petrol"} :
                    /\ e = TripEntry(t, c, range)
                    /\ c = "commission" => scope # "petrol"
                    /\ TripPays(t, range)[c] \notin {None, 0}
<1> DEFINE L == PaidTrips(range)
           C == {"commission", "petrol"}
           pays(t, c) == (c = "commission" => scope # "petrol") /\ TripPays(t, range)[c] \notin {None, 0}
<1>1. TripEntries(range, scope) =
        {TripEntry(put[1], put[2], range) : put \in {put \in L \X C : pays(put[1], put[2])}}
  BY DEF TripEntries, TripEntry
<1>2. \A put \in L \X C : put[1] \in L /\ put[2] \in C
  OBVIOUS
<1>3. \A t \in L, c \in C : <<t, c>> \in L \X C /\ <<t, c>>[1] = t /\ <<t, c>>[2] = c
  OBVIOUS
<1> HIDE DEF L, C, pays
<1>4. ASSUME e \in TripEntries(range, scope)
      PROVE  \E t \in L, c \in C : e = TripEntry(t, c, range) /\ pays(t, c)
  <2>1. PICK put \in L \X C : e = TripEntry(put[1], put[2], range) /\ pays(put[1], put[2])
    BY <1>1, <1>4
  <2> QED
    BY <1>2, <2>1
<1>5. ASSUME NEW t \in L, NEW c \in C, e = TripEntry(t, c, range), pays(t, c)
      PROVE  e \in TripEntries(range, scope)
  BY <1>1, <1>3, <1>5
<1>6. e \in TripEntries(range, scope) <=> \E t \in L, c \in C : e = TripEntry(t, c, range) /\ pays(t, c)
  BY <1>4, <1>5
<1> QED
  BY <1>6 DEF L, C, pays

LEMMA AwardEntriesAre ==
    ASSUME NEW range, NEW e
    PROVE  e \in AwardEntries(range) <=>
                \/ \E a \in BeauticianAwards(range) :
                        a.bonus # 0 /\ e = AwardEntry(a, "beautician", "beautician", range)
                \/ \E a \in RiderAwards(range) :
                        a.bonus # 0 /\ e = AwardEntry(a, WorkerType(a.worker, range), "rider", range)
BY DEF AwardEntries

\* A ledger row, by what it is paid for.
OrderRow(k, row) ==
    /\ k = <<"orders", k[2], k[3]>> /\ k[2] \in Orders /\ k[3] \in OrderComponents
    /\ row.component = k[3] /\ row.type = "beautician"
    /\ row.worker \in Beauticians \cup {None} /\ row.day \in Int

TargetRow(k, row) ==
    /\ k = <<"targets", k[2], k[3]>> /\ k[2] \in Beauticians /\ k[3] \in Int
    /\ row.component = "target_bonus" /\ row.type = "beautician"
    /\ row.worker = k[2] /\ row.day = (k[3] + 1) * DaysPerMonth

TripRow(k, row) ==
    /\ k = <<"trips", k[2], k[3]>> /\ k[2] \in Trips /\ k[3] \in {"commission", "petrol"}
    /\ row.component = k[3] /\ row.worker \in Workers /\ row.type = TypeOf(row.worker)
    /\ row.day \in Int

AwardRow(k, row) ==
    /\ k = <<"leaderboards", k[2], k[3], k[4], k[5]>> /\ k[2] \in Roles /\ k[5] \in Workers
    /\ k[2] = "beautician" => k[5] \in Beauticians
    /\ row.component = "leaderboard_bonus" /\ row.worker = k[5] /\ row.type = TypeOf(k[5])
    /\ row.day = k[4]

RowOK(k, row) ==
    /\ row = Entry(row.key, row.worker, row.type, row.day, row.component, row.amount, row.settled)
    /\ row.key = k /\ row.settled \in BOOLEAN /\ row.amount \in Nat \ {0}
    /\ OrderRow(k, row) \/ TargetRow(k, row) \/ TripRow(k, row) \/ AwardRow(k, row)

LEMMA OrderMoney ==
    ASSUME DocumentsOK, NEW o \in Orders, source.orders[o] # None, NEW c \in OrderComponents \cup {"cost"}
    PROVE  OrderAmount(o, c) \in Money
<1> DEFINE s == source.orders[o].snapshot
<1>1. s \in [special : Money, general : Money, upgrade : Money, cost : Money, paid : BOOLEAN] \cup {None}
  BY OrderTypes DEF OrderDoc
<1>2. c \in {"special", "general", "upgrade", "cost"}
  BY DEF OrderComponents
<1>3. None \in Money
  BY DEF Money
<1>4. OrderAmount(o, c) = IF s = None THEN None ELSE s[c]
  BY DEF OrderAmount
<1> HIDE DEF s
<1> QED
  BY <1>1, <1>2, <1>3, <1>4

LEMMA OrderEntryOK ==
    ASSUME DocumentsOK, NEW range, NEW o \in LoadOrderSources(range), NEW c \in OrderComponents,
           OrderPaid(o, c)
    PROVE  /\ RowOK(<<"orders", o, c>>, OrderEntry(o, c))
           /\ OrderEntry(o, c).key = <<"orders", o, c>>
<1>1. o \in Orders /\ source.orders[o] # None
  BY DEF LoadOrderSources
<1>2. source.orders[o] \in OrderDoc
  BY <1>1, OrderTypes
<1>3. OrderAmount(o, c) \in Nat \ {0}
  BY <1>1, OrderMoney DEF OrderPaid, Money
<1>4. source.orders[o].snapshot # None
  BY DEF OrderPaid, OrderAmount
<1>5. source.orders[o].snapshot.paid \in BOOLEAN
  BY <1>2, <1>4 DEF OrderDoc
<1>6. source.orders[o].beautician \in Beauticians \cup {None} /\ source.orders[o].day \in Int
  BY <1>2, CutoverDocuments DEF OrderDoc
<1> QED
  BY <1>1, <1>3, <1>5, <1>6 DEF OrderEntry, Entry, RowOK, OrderRow

LEMMA TargetEntryOK ==
    ASSUME DocumentsOK, NEW range \in Ranges, NEW b \in DOMAIN LoadWorkerTargets, source.office.bonus # 0
    PROVE  /\ RowOK(<<"targets", b, Month(range.to)>>, TargetEntry(b, range))
           /\ TargetEntry(b, range).key = <<"targets", b, Month(range.to)>>
<1>1. b \in Beauticians
  BY DEF LoadWorkerTargets
<1>2. range.to \in Int /\ DaysPerMonth \in Nat \ {0}
  BY CutoverAssumption, CutoverDocuments
<1>3. Month(range.to) \in Int
  BY <1>2 DEF Month
<1>4. WholeMonth(range.to).to = (Month(range.to) + 1) * DaysPerMonth
  BY DEF WholeMonth
<1>5. source.office.bonus \in Nat \ {0}
  BY OfficeTypes
<1> QED
  BY <1>1, <1>3, <1>4, <1>5 DEF TargetEntry, Entry, RowOK, TargetRow

LEMMA TripEntryOK ==
    ASSUME DocumentsOK, NEW range, NEW t \in PaidTrips(range), NEW c \in {"commission", "petrol"},
           TripPays(t, range)[c] \notin {None, 0}
    PROVE  /\ RowOK(<<"trips", t, c>>, TripEntry(t, c, range))
           /\ TripEntry(t, c, range).key = <<"trips", t, c>>
<1>1. t \in LoadTripSources(range) /\ t \in Trips /\ source.trips[t] # None
  BY DEF PaidTrips, LoadTripSources
<1>2. source.trips[t] \in TripDoc
  BY <1>1, TripTypes
<1>3. TripPays(t, range)[c] \in Nat \ {0}
  BY <1>1, TripPaysMoney DEF Money
<1>4. AllowanceWorker(source.trips[t])[1] # None
  BY DEF PaidTrips
<1>5. /\ AllowanceWorker(source.trips[t])[1] \in Workers
      /\ AllowanceWorker(source.trips[t])[2] = TypeOf(AllowanceWorker(source.trips[t])[1])
  BY <1>2, <1>4, TripWorker
<1>6. source.trips[t].day \in Int
  BY <1>2, CutoverDocuments DEF TripDoc
<1>7. (source.trips[t].snapshot.paid /\ c = "petrol") \in BOOLEAN
  OBVIOUS
<1> QED
  BY <1>1, <1>3, <1>5, <1>6, <1>7 DEF TripEntry, Entry, RowOK, TripRow

LEMMA BeauticianAwardOK ==
    ASSUME DocumentsOK, NEW range, NEW a \in BeauticianAwards(range)
    PROVE  a.worker \in Beauticians /\ a.worker # None /\ a.bonus \in Nat /\ TypeOf(a.worker) = "beautician"
<1>1. a.worker \in Beauticians /\ a.bonus \in Nat
  BY BeauticianAwardFacts, BeauticianScores DEF OneEach
<1> QED
  BY <1>1, CutoverDocuments DEF TypeOf, Workers

LEMMA RiderAwardOK ==
    ASSUME DocumentsOK, NEW range, NEW a \in RiderAwards(range)
    PROVE  /\ a.worker \in Workers /\ a.worker # None /\ a.bonus \in Nat
           /\ TripsOf(a.worker, range) # {}
           /\ WorkerType(a.worker, range) = TypeOf(a.worker)
<1>1. a.worker \in Workers /\ a.bonus \in Nat /\ TripsOf(a.worker, range) # {}
  BY RiderAwardFacts, RiderScoresListed DEF OneEach
<1> QED
  BY <1>1, WorkerTypeIs, CutoverDocuments

AwardKey(board, range, w) == <<"leaderboards", board, range.from, range.to, w>>

LEMMA AwardEntryOK ==
    ASSUME NEW range, NEW a, NEW board \in Roles, a.worker \in Workers,
           board = "beautician" => a.worker \in Beauticians, a.bonus \in Nat \ {0}
    PROVE  /\ RowOK(AwardKey(board, range, a.worker), AwardEntry(a, TypeOf(a.worker), board, range))
           /\ AwardEntry(a, TypeOf(a.worker), board, range).key = AwardKey(board, range, a.worker)
BY DEF AwardEntry, Entry, RowOK, AwardRow, AwardKey

\* Every entry of a rebuild is a ledger row.
LEMMA EntryOK ==
    ASSUME DocumentsOK, NEW range \in Ranges, NEW scope, NEW e \in RebuildEntries(scope, range)
    PROVE  RowOK(e.key, e)
<1>1. CASE e \in OrderEntries(range)
  <2>1. PICK o \in LoadOrderSources(range), c \in OrderComponents : e = OrderEntry(o, c) /\ OrderPaid(o, c)
    BY <1>1, OrderEntriesAre
  <2>2. RowOK(<<"orders", o, c>>, OrderEntry(o, c)) /\ OrderEntry(o, c).key = <<"orders", o, c>>
    BY <2>1, OrderEntryOK
  <2> QED
    BY <2>1, <2>2
<1>2. CASE e \in TargetEntries(range)
  <2>1. PICK b \in DOMAIN LoadWorkerTargets : e = TargetEntry(b, range) /\ source.office.bonus # 0
    BY <1>2, TargetEntriesAre
  <2>2. /\ RowOK(<<"targets", b, Month(range.to)>>, TargetEntry(b, range))
        /\ TargetEntry(b, range).key = <<"targets", b, Month(range.to)>>
    BY <2>1, TargetEntryOK
  <2> QED
    BY <2>1, <2>2
<1>3. CASE e \in TripEntries(range, scope)
  <2>1. PICK t \in PaidTrips(range), c \in {"commission", "petrol"} :
            e = TripEntry(t, c, range) /\ TripPays(t, range)[c] \notin {None, 0}
    BY <1>3, TripEntriesAre
  <2>2. RowOK(<<"trips", t, c>>, TripEntry(t, c, range)) /\ TripEntry(t, c, range).key = <<"trips", t, c>>
    BY <2>1, TripEntryOK
  <2> QED
    BY <2>1, <2>2
<1>4. CASE e \in AwardEntries(range)
  <2>1. CASE \E a \in BeauticianAwards(range) :
                a.bonus # 0 /\ e = AwardEntry(a, "beautician", "beautician", range)
    <3>1. PICK a \in BeauticianAwards(range) :
                a.bonus # 0 /\ e = AwardEntry(a, "beautician", "beautician", range)
      BY <2>1
    <3>2. a.worker \in Beauticians /\ a.worker \in Workers /\ a.bonus \in Nat \ {0} /\ TypeOf(a.worker) = "beautician"
      BY <3>1, BeauticianAwardOK DEF Workers
    <3> QED
      BY <3>1, <3>2, AwardEntryOK DEF Roles
  <2>2. CASE \E a \in RiderAwards(range) :
                a.bonus # 0 /\ e = AwardEntry(a, WorkerType(a.worker, range), "rider", range)
    <3>1. PICK a \in RiderAwards(range) :
                a.bonus # 0 /\ e = AwardEntry(a, WorkerType(a.worker, range), "rider", range)
      BY <2>2
    <3>2. a.worker \in Workers /\ a.bonus \in Nat \ {0} /\ WorkerType(a.worker, range) = TypeOf(a.worker)
      BY <3>1, RiderAwardOK
    <3> QED
      BY <3>1, <3>2, AwardEntryOK DEF Roles
  <2> QED
    BY <1>4, <2>1, <2>2, AwardEntriesAre
<1> QED
  BY <1>1, <1>2, <1>3, <1>4 DEF RebuildEntries

\* No two entries of a rebuild have a key.
LEMMA KeyedOnce ==
    ASSUME DocumentsOK, NEW range \in Ranges, NEW scope,
           NEW e \in RebuildEntries(scope, range), NEW f \in RebuildEntries(scope, range), e.key = f.key
    PROVE  e = f
<1> DEFINE O == OrderEntries(range)
           G == TargetEntries(range)
           T == TripEntries(range, scope)
           A == AwardEntries(range)
           from == range.from
           to == range.to
<1>1. \A g \in O : \E o \in LoadOrderSources(range), c \in OrderComponents :
        g = OrderEntry(o, c) /\ g.key = <<"orders", o, c>>
  BY OrderEntriesAre DEF OrderEntry, Entry
<1>2. \A g \in G : \E b \in DOMAIN LoadWorkerTargets :
        g = TargetEntry(b, range) /\ g.key = <<"targets", b, Month(range.to)>>
  BY TargetEntriesAre DEF TargetEntry, Entry
<1>3. \A g \in T : \E t \in PaidTrips(range), c \in {"commission", "petrol"} :
        g = TripEntry(t, c, range) /\ g.key = <<"trips", t, c>>
  BY TripEntriesAre DEF TripEntry, Entry
<1>4. \A g \in A :
        \/ \E a \in BeauticianAwards(range) :
            /\ g = AwardEntry(a, "beautician", "beautician", range)
            /\ g.key = <<"leaderboards", "beautician", from, to, a.worker>>
        \/ \E a \in RiderAwards(range) :
            /\ g = AwardEntry(a, WorkerType(a.worker, range), "rider", range)
            /\ g.key = <<"leaderboards", "rider", from, to, a.worker>>
  BY AwardEntriesAre DEF AwardEntry, Entry
<1>5. \A a, c \in BeauticianAwards(range) : a.worker = c.worker => a = c
  BY BeauticianAwardFacts DEF OneEach
<1>6. \A a, c \in RiderAwards(range) : a.worker = c.worker => a = c
  BY RiderAwardFacts DEF OneEach
<1>7. e \in O \cup G \cup T \cup A /\ f \in O \cup G \cup T \cup A
  BY DEF RebuildEntries
<1> HIDE DEF O, G, T, A, from, to
<1>8. \A g \in O : g.key[1] = "orders"
  BY <1>1
<1>9. \A g \in G : g.key[1] = "targets"
  BY <1>2
<1>10. \A g \in T : g.key[1] = "trips"
  BY <1>3
<1>11. \A g \in A : g.key[1] = "leaderboards"
  BY <1>4
<1>12. CASE e \in O
  <2>1. f \in O
    BY <1>7, <1>8, <1>9, <1>10, <1>11, <1>12
  <2>2. PICK o \in LoadOrderSources(range), c \in OrderComponents :
            e = OrderEntry(o, c) /\ e.key = <<"orders", o, c>>
    BY <1>1, <1>12
  <2>3. PICK p \in LoadOrderSources(range), d \in OrderComponents :
            f = OrderEntry(p, d) /\ f.key = <<"orders", p, d>>
    BY <1>1, <2>1
  <2>4. o = p /\ c = d
    BY <2>2, <2>3
  <2> QED
    BY <2>2, <2>3, <2>4
<1>13. CASE e \in G
  <2>1. f \in G
    BY <1>7, <1>8, <1>9, <1>10, <1>11, <1>13
  <2>2. PICK b \in DOMAIN LoadWorkerTargets :
            e = TargetEntry(b, range) /\ e.key = <<"targets", b, Month(range.to)>>
    BY <1>2, <1>13
  <2>3. PICK c \in DOMAIN LoadWorkerTargets :
            f = TargetEntry(c, range) /\ f.key = <<"targets", c, Month(range.to)>>
    BY <1>2, <2>1
  <2>4. b = c
    BY <2>2, <2>3
  <2> QED
    BY <2>2, <2>3, <2>4
<1>14. CASE e \in T
  <2>1. f \in T
    BY <1>7, <1>8, <1>9, <1>10, <1>11, <1>14
  <2>2. PICK t \in PaidTrips(range), c \in {"commission", "petrol"} :
            e = TripEntry(t, c, range) /\ e.key = <<"trips", t, c>>
    BY <1>3, <1>14
  <2>3. PICK u \in PaidTrips(range), d \in {"commission", "petrol"} :
            f = TripEntry(u, d, range) /\ f.key = <<"trips", u, d>>
    BY <1>3, <2>1
  <2>4. t = u /\ c = d
    BY <2>2, <2>3
  <2> QED
    BY <2>2, <2>3, <2>4
<1>15. CASE e \in A
  <2>1. f \in A
    BY <1>7, <1>8, <1>9, <1>10, <1>11, <1>15
  <2>2. CASE \E a \in BeauticianAwards(range) :
                /\ e = AwardEntry(a, "beautician", "beautician", range)
                /\ e.key = <<"leaderboards", "beautician", from, to, a.worker>>
    <3>1. PICK a \in BeauticianAwards(range) :
                /\ e = AwardEntry(a, "beautician", "beautician", range)
                /\ e.key = <<"leaderboards", "beautician", from, to, a.worker>>
      BY <2>2
    <3>2. PICK c \in BeauticianAwards(range) :
                /\ f = AwardEntry(c, "beautician", "beautician", range)
                /\ f.key = <<"leaderboards", "beautician", from, to, c.worker>>
      <4>1. e.key[2] = "beautician"
        BY <3>1
      <4> QED
        BY <1>4, <2>1, <4>1
    <3>3. a.worker = c.worker
      BY <3>1, <3>2
    <3> QED
      BY <1>5, <3>1, <3>2, <3>3
  <2>3. CASE \E a \in RiderAwards(range) :
                /\ e = AwardEntry(a, WorkerType(a.worker, range), "rider", range)
                /\ e.key = <<"leaderboards", "rider", from, to, a.worker>>
    <3>1. PICK a \in RiderAwards(range) :
                /\ e = AwardEntry(a, WorkerType(a.worker, range), "rider", range)
                /\ e.key = <<"leaderboards", "rider", from, to, a.worker>>
      BY <2>3
    <3>2. PICK c \in RiderAwards(range) :
                /\ f = AwardEntry(c, WorkerType(c.worker, range), "rider", range)
                /\ f.key = <<"leaderboards", "rider", from, to, c.worker>>
      <4>1. e.key[2] = "rider"
        BY <3>1
      <4> QED
        BY <1>4, <2>1, <4>1
    <3>3. a.worker = c.worker
      BY <3>1, <3>2
    <3> QED
      BY <1>6, <3>1, <3>2, <3>3
  <2> QED
    BY <1>4, <1>15, <2>2, <2>3
<1> QED
  BY <1>7, <1>12, <1>13, <1>14, <1>15

LEMMA FiniteAwards ==
    ASSUME NEW awards, NEW rows, OneEach(awards, rows), \A a \in awards : a.worker \in Workers
    PROVE  IsFiniteSet(awards)
<1> DEFINE f == [w \in Workers |-> CHOOSE a \in awards : a.worker = w]
           I == {f[w] : w \in DOMAIN f}
<1>1. IsFiniteSet(Workers)
  BY CutoverDocuments, FS_Union DEF Workers
<1>2. ASSUME NEW a \in awards PROVE a = f[a.worker]
  BY DEF OneEach
<1>3. DOMAIN f = Workers /\ f = [w \in DOMAIN f |-> f[w]]
  OBVIOUS
<1> HIDE DEF f
<1>4. IsFiniteSet(I)
  BY <1>1, <1>3, FiniteImage
<1>5. awards \subseteq I
  BY <1>2, <1>3
<1> QED
  BY <1>4, <1>5, FS_Subset

LEMMA LoadedFinite ==
    ASSUME NEW range
    PROVE  /\ IsFiniteSet(LoadOrderSources(range)) /\ IsFiniteSet(LoadTripSources(range))
           /\ IsFiniteSet(LoadOrderSources(range) \X OrderComponents)
           /\ IsFiniteSet(LoadTripSources(range) \X {"commission", "petrol"})
<1>1. LoadOrderSources(range) \subseteq Orders /\ LoadTripSources(range) \subseteq Trips
  BY DEF LoadOrderSources, LoadTripSources
<1>2. IsFiniteSet(LoadOrderSources(range)) /\ IsFiniteSet(LoadTripSources(range))
  BY <1>1, CutoverDocuments, FS_Subset
<1>3. IsFiniteSet({"special", "general", "upgrade"}) /\ IsFiniteSet({"commission", "petrol"})
  <2>1. IsFiniteSet({"special"}) /\ IsFiniteSet({"commission"})
    BY FS_Singleton
  <2>2. IsFiniteSet({"special"} \cup {"general"}) /\ IsFiniteSet({"commission"} \cup {"petrol"})
    BY <2>1, FS_AddElement
  <2>3. IsFiniteSet(({"special"} \cup {"general"}) \cup {"upgrade"})
    BY <2>2, FS_AddElement
  <2>4. /\ {"special", "general", "upgrade"} = ({"special"} \cup {"general"}) \cup {"upgrade"}
        /\ {"commission", "petrol"} = {"commission"} \cup {"petrol"}
    OBVIOUS
  <2> QED
    BY <2>2, <2>3, <2>4
<1> QED
  BY <1>2, <1>3, FS_Product DEF OrderComponents

LEMMA AwardsFinite ==
    ASSUME DocumentsOK, NEW range
    PROVE  IsFiniteSet(BeauticianAwards(range)) /\ IsFiniteSet(RiderAwards(range))
<1>1. \A a \in BeauticianAwards(range) : a.worker \in Workers
  BY BeauticianAwardOK DEF Workers
<1>2. \A a \in RiderAwards(range) : a.worker \in Workers
  BY RiderAwardOK
<1> QED
  BY <1>1, <1>2, BeauticianAwardFacts, RiderAwardFacts, FiniteAwards

LEMMA EntriesFinite ==
    ASSUME DocumentsOK, NEW range, NEW scope
    PROVE  IsFiniteSet(RebuildEntries(scope, range))
<1> DEFINE L == LoadOrderSources(range) \X OrderComponents
           M == LoadTripSources(range) \X {"commission", "petrol"}
           B == BeauticianAwards(range)
           R == RiderAwards(range)
           order == [put \in L |-> OrderEntry(put[1], put[2])]
           trip == [put \in M |-> TripEntry(put[1], put[2], range)]
           target == [b \in Beauticians |-> TargetEntry(b, range)]
           beautician == [a \in B |-> AwardEntry(a, "beautician", "beautician", range)]
           rider == [a \in R |-> AwardEntry(a, WorkerType(a.worker, range), "rider", range)]
           image(f) == {f[x] : x \in DOMAIN f}
<1>1. IsFiniteSet(L) /\ IsFiniteSet(M) /\ IsFiniteSet(B) /\ IsFiniteSet(R) /\ IsFiniteSet(Beauticians)
  BY LoadedFinite, AwardsFinite, CutoverDocuments
<1>2. OrderEntries(range) \subseteq image(order)
  <2>1. \A o \in LoadOrderSources(range), c \in OrderComponents :
            <<o, c>> \in DOMAIN order /\ order[<<o, c>>] = OrderEntry(o, c)
    OBVIOUS
  <2> HIDE DEF order
  <2> SUFFICES ASSUME NEW e \in OrderEntries(range) PROVE \E x \in DOMAIN order : e = order[x]
    OBVIOUS
  <2>2. PICK o \in LoadOrderSources(range), c \in OrderComponents : e = OrderEntry(o, c)
    BY OrderEntriesAre
  <2> QED
    BY <2>1, <2>2
<1>3. TripEntries(range, scope) \subseteq image(trip)
  <2>1. \A t \in LoadTripSources(range), c \in {"commission", "petrol"} :
            <<t, c>> \in DOMAIN trip /\ trip[<<t, c>>] = TripEntry(t, c, range)
    OBVIOUS
  <2>2. PaidTrips(range) \subseteq LoadTripSources(range)
    BY DEF PaidTrips
  <2> HIDE DEF trip
  <2> SUFFICES ASSUME NEW e \in TripEntries(range, scope) PROVE \E x \in DOMAIN trip : e = trip[x]
    OBVIOUS
  <2>3. PICK t \in PaidTrips(range), c \in {"commission", "petrol"} : e = TripEntry(t, c, range)
    BY TripEntriesAre
  <2> QED
    BY <2>1, <2>2, <2>3
<1>4. TargetEntries(range) \subseteq image(target)
  <2>1. DOMAIN LoadWorkerTargets \subseteq Beauticians
    BY DEF LoadWorkerTargets
  <2> QED
    BY <2>1, TargetEntriesAre
<1>5. AwardEntries(range) \subseteq image(beautician) \cup image(rider)
  BY DEF AwardEntries
<1>6. /\ IsFiniteSet(DOMAIN order) /\ order = [x \in DOMAIN order |-> order[x]]
      /\ IsFiniteSet(DOMAIN trip) /\ trip = [x \in DOMAIN trip |-> trip[x]]
      /\ IsFiniteSet(DOMAIN target) /\ target = [x \in DOMAIN target |-> target[x]]
      /\ IsFiniteSet(DOMAIN beautician) /\ beautician = [x \in DOMAIN beautician |-> beautician[x]]
      /\ IsFiniteSet(DOMAIN rider) /\ rider = [x \in DOMAIN rider |-> rider[x]]
  BY <1>1
<1> HIDE DEF order, trip, target, beautician, rider
<1> DEFINE all == image(order) \cup image(trip) \cup image(target) \cup image(beautician) \cup image(rider)
<1>7. /\ IsFiniteSet(image(order)) /\ IsFiniteSet(image(trip)) /\ IsFiniteSet(image(target))
      /\ IsFiniteSet(image(beautician)) /\ IsFiniteSet(image(rider))
  BY <1>6, FiniteImage
<1>8. RebuildEntries(scope, range) \subseteq all
  BY <1>2, <1>3, <1>4, <1>5 DEF RebuildEntries
<1> HIDE DEF image
<1>9. IsFiniteSet(all)
  BY <1>7, FS_Union
<1> QED
  BY <1>8, <1>9, FS_Subset

-----------------------------------------------------------------------------
(* The reconciliation expects what a rebuild makes.                        *)

\* Amounts that correspond one to one, but for zeros, have the same totals.
LEMMA SameTotals ==
    ASSUME NEW A, NEW X, IsFiniteSet(A), IsFiniteSet(X), \A x \in X : x[2].amount \in Nat, NEW h,
           \A a \in A : h[a] \in X /\ h[a][2] = a[2],
           \A a, c \in A : h[a] = h[c] => a = c,
           \A x \in X : x[2].amount # 0 => \E a \in A : x = h[a],
           NEW key
    PROVE  TotalOf(A, key) = TotalOf(X, key)
<1> DEFINE S == {a \in A : a[2].key = key}
           U == {x \in X : x[2].key = key}
           I == {h[a] : a \in S}
           g == [a \in S |-> a[2].amount]
           f == [x \in U |-> x[2].amount]
<1>1. TotalOf(A, key) = Over(g, S) /\ TotalOf(X, key) = Over(f, U)
  BY SumIsOver DEF TotalOf
<1>2. IsFiniteSet(S) /\ IsFiniteSet(U)
  BY FS_Subset
<1>3. I \in SUBSET U
  OBVIOUS
<1>4. IsFiniteSet(I)
  BY <1>2, <1>3, FS_Subset
<1>5. IntsOn(f, U) /\ \A x \in U : f[x] = x[2].amount
  BY DEF IntsOn
<1>6. \A a \in S : h[a] \in U /\ g[a] = f[h[a]]
  OBVIOUS
<1>7. IntsOn(g, S)
  BY <1>5, <1>6 DEF IntsOn
<1>8. \A x \in U \ I : f[x] = 0
  OBVIOUS
<1>9. \A a, c \in S : h[a] = h[c] => a = c
  OBVIOUS
<1>10. I = {h[a] : a \in S}
  OBVIOUS
<1> HIDE DEF S, U, I, g, f
<1>11. Over(g, S) = Over(f, I)
  BY <1>2, <1>4, <1>6, <1>7, <1>9, <1>10, OverRenamed
<1>12. Over(f, U) = Over(f, I)
  BY <1>2, <1>3, <1>5, <1>8, OverSupport
<1> QED
  BY <1>1, <1>11, <1>12

\* Both say alike whether a month reaches a target.
LEMMA TargetSame ==
    ASSUME NEW b, NEW day, NEW target
    PROVE  ~InvalidMonth(b, day) /\ Revenue(b, day) >= target <=> RevenueReaches(b, day, target)
<1> DEFINE M == CountedOrders(b, day)
           cost == [o \in M |-> source.orders[o].snapshot.cost]
           amount == [o \in M |-> OrderAmount(o, "cost")]
<1>1. M = ExpectedMonth(b, day)
  BY DEF CountedOrders, ExpectedMonth
<1>2. ~InvalidMonth(b, day) <=> \A o \in M : OrderAmount(o, "cost") # None
  BY DEF InvalidMonth, OrderAmount
<1>3. ~InvalidMonth(b, day) => cost = amount
  BY DEF InvalidMonth, OrderAmount
<1>4. Revenue(b, day) = SumOver(cost)
  BY DEF Revenue
<1>5. RevenueReaches(b, day, target)
        <=> (\A o \in M : OrderAmount(o, "cost") # None) /\ SumOver(amount) >= target
  BY <1>1 DEF RevenueReaches
<1> HIDE DEF M, cost, amount
<1> QED
  BY <1>2, <1>3, <1>4, <1>5

LEMMA GeneralSame ==
    ASSUME NEW o
    PROVE  GeneralDue(o) <=> ExpectsGeneral(o)
<1> DEFINE b == source.orders[o].beautician
           day == source.orders[o].day
           early == day < TargetOf(b).from
           target == TargetOf(b).target1
<1>1. GeneralDue(o) <=> early \/ (~InvalidMonth(b, day) /\ Revenue(b, day) >= target)
  BY DEF GeneralDue
<1>2. ExpectsGeneral(o) <=> early \/ RevenueReaches(b, day, target)
  BY DEF ExpectsGeneral
<1>3. ~InvalidMonth(b, day) /\ Revenue(b, day) >= target <=> RevenueReaches(b, day, target)
  BY TargetSame
<1> HIDE DEF b, day, early, target
<1> QED
  BY <1>1, <1>2, <1>3

\* The expected amounts, one by one.
OrderItem(o, c) ==
    <<<<o, c>>, Amount(source.orders[o].beautician, "beautician", "orders", c, OrderAmount(o, c))>>

TargetItem(b) == <<b, Amount(b, "beautician", "targets", "target_bonus", source.office.bonus)>>

TripItem(t, c, range) ==
    <<<<t, c>>, Amount(AllowanceWorker(source.trips[t])[1], AllowanceWorker(source.trips[t])[2],
                       "trips", c, TripPays(t, range)[c])>>

BeauticianItem(a) ==
    <<<<"beautician", a.worker>>,
      Amount(a.worker, "beautician", "beautician_leaderboard", "leaderboard_bonus", a.bonus)>>

RiderItem(a, range) ==
    <<<<"rider", a.worker>>,
      Amount(a.worker, WorkerType(a.worker, range), "rider_leaderboard", "leaderboard_bonus", a.bonus)>>

LEMMA ExpectedOrdersAre ==
    ASSUME NEW range, NEW x
    PROVE  x \in ExpectedOrderAmounts(range) <=>
                \E o \in ReconciledOrders(range), c \in OrderComponents :
                    /\ x = OrderItem(o, c) /\ OrderAmount(o, c) # None
                    /\ c = "general" => ExpectsGeneral(o)
<1> DEFINE L == ReconciledOrders(range)
           due(o, c) == OrderAmount(o, c) # None /\ (c = "general" => ExpectsGeneral(o))
<1>1. ExpectedOrderAmounts(range) =
        {OrderItem(put[1], put[2]) : put \in {put \in L \X OrderComponents : due(put[1], put[2])}}
  <2>1. \A put \in L \X OrderComponents : put = <<put[1], put[2]>>
    OBVIOUS
  <2> QED
    BY <2>1 DEF ExpectedOrderAmounts, OrderItem
<1>2. \A put \in L \X OrderComponents : put[1] \in L /\ put[2] \in OrderComponents
  OBVIOUS
<1>3. \A o \in L, c \in OrderComponents :
        <<o, c>> \in L \X OrderComponents /\ <<o, c>>[1] = o /\ <<o, c>>[2] = c
  OBVIOUS
<1> HIDE DEF L, due
<1>4. ASSUME x \in ExpectedOrderAmounts(range)
      PROVE  \E o \in L, c \in OrderComponents : x = OrderItem(o, c) /\ due(o, c)
  <2>1. PICK put \in L \X OrderComponents : x = OrderItem(put[1], put[2]) /\ due(put[1], put[2])
    BY <1>1, <1>4
  <2> QED
    BY <1>2, <2>1
<1>5. ASSUME NEW o \in L, NEW c \in OrderComponents, x = OrderItem(o, c), due(o, c)
      PROVE  x \in ExpectedOrderAmounts(range)
  BY <1>1, <1>3, <1>5
<1>6. x \in ExpectedOrderAmounts(range) <=>
            \E o \in L, c \in OrderComponents : x = OrderItem(o, c) /\ due(o, c)
  BY <1>4, <1>5
<1> QED
  BY <1>6 DEF L, due

LEMMA ExpectedTripsAre ==
    ASSUME NEW range, NEW x
    PROVE  x \in ExpectedTripAmounts(range) <=>
                \E t \in PaidTrips(range), c \in {"commission", "petrol"} :
                    x = TripItem(t, c, range) /\ TripPays(t, range)[c] # None
<1> DEFINE L == PaidTrips(range)
           C == {"commission", "petrol"}
           due(t, c) == TripPays(t, range)[c] # None
<1>1. ExpectedTripAmounts(range) =
        {TripItem(put[1], put[2], range) : put \in {put \in L \X C : due(put[1], put[2])}}
  <2>1. \A put \in L \X C : put = <<put[1], put[2]>>
    OBVIOUS
  <2> QED
    BY <2>1 DEF ExpectedTripAmounts, TripItem
<1>2. \A put \in L \X C : put[1] \in L /\ put[2] \in C
  OBVIOUS
<1>3. \A t \in L, c \in C : <<t, c>> \in L \X C /\ <<t, c>>[1] = t /\ <<t, c>>[2] = c
  OBVIOUS
<1> HIDE DEF L, C, due
<1>4. ASSUME x \in ExpectedTripAmounts(range)
      PROVE  \E t \in L, c \in C : x = TripItem(t, c, range) /\ due(t, c)
  <2>1. PICK put \in L \X C : x = TripItem(put[1], put[2], range) /\ due(put[1], put[2])
    BY <1>1, <1>4
  <2> QED
    BY <1>2, <2>1
<1>5. ASSUME NEW t \in L, NEW c \in C, x = TripItem(t, c, range), due(t, c)
      PROVE  x \in ExpectedTripAmounts(range)
  BY <1>1, <1>3, <1>5
<1>6. x \in ExpectedTripAmounts(range) <=> \E t \in L, c \in C : x = TripItem(t, c, range) /\ due(t, c)
  BY <1>4, <1>5
<1> QED
  BY <1>6 DEF L, C, due

LEMMA ExpectedTargetsAre ==
    ASSUME NEW range, NEW x
    PROVE  x \in ExpectedTargetAmounts(range) <=>
                \E b \in DOMAIN LoadWorkerTargets :
                    /\ x = TargetItem(b) /\ TargetOf(b).target2 > 0
                    /\ RevenueReaches(b, range.to, TargetOf(b).target2)
BY DEF ExpectedTargetAmounts, TargetItem

LEMMA ExpectedAwardsAre ==
    ASSUME NEW range, NEW x
    PROVE  x \in ExpectedAwardAmounts(range) <=>
                \/ \E a \in BeauticianAwards(range) : x = BeauticianItem(a)
                \/ \E a \in RiderAwards(range) : x = RiderItem(a, range)
BY DEF ExpectedAwardAmounts, BeauticianItem, RiderItem, BeauticianAwards, RiderAwards

\* What an entry is expected as.
Tag(k) ==
    IF k[1] = "targets" THEN k[2]
    ELSE IF k[1] = "leaderboards" THEN <<k[2], k[5]>> ELSE <<k[2], k[3]>>

Item(e) == <<Tag(e.key), LedgerAmount(e, ScopeOf(e.key))>>

LEMMA ItemsAre ==
    ASSUME NEW range
    PROVE  /\ \A o, c : /\ Item(OrderEntry(o, c)) = OrderItem(o, c)
                        /\ OrderEntry(o, c).worker = source.orders[o].beautician
           /\ \A b : Item(TargetEntry(b, range)) = TargetItem(b) /\ TargetEntry(b, range).worker = b
           /\ \A t, c : /\ Item(TripEntry(t, c, range)) = TripItem(t, c, range)
                        /\ TripEntry(t, c, range).worker = AllowanceWorker(source.trips[t])[1]
           /\ \A a : /\ Item(AwardEntry(a, "beautician", "beautician", range)) = BeauticianItem(a)
                     /\ AwardEntry(a, "beautician", "beautician", range).worker = a.worker
           /\ \A a : /\ Item(AwardEntry(a, WorkerType(a.worker, range), "rider", range)) = RiderItem(a, range)
                     /\ AwardEntry(a, WorkerType(a.worker, range), "rider", range).worker = a.worker
<1>1. ASSUME NEW o, NEW c
      PROVE  /\ Item(OrderEntry(o, c)) = OrderItem(o, c)
             /\ OrderEntry(o, c).worker = source.orders[o].beautician
  <2> DEFINE e == OrderEntry(o, c)
  <2>1. /\ e.key[1] = "orders" /\ e.key[2] = o /\ e.key[3] = c
        /\ e.worker = source.orders[o].beautician /\ e.type = "beautician" /\ e.component = c
        /\ e.amount = OrderAmount(o, c)
    BY DEF OrderEntry, Entry
  <2> HIDE DEF e
  <2> QED
    BY <2>1 DEF Item, Tag, ScopeOf, LedgerAmount, OrderItem, e
<1>2. ASSUME NEW b
      PROVE  Item(TargetEntry(b, range)) = TargetItem(b) /\ TargetEntry(b, range).worker = b
  <2> DEFINE e == TargetEntry(b, range)
  <2>1. /\ e.key[1] = "targets" /\ e.key[2] = b
        /\ e.worker = b /\ e.type = "beautician" /\ e.component = "target_bonus"
        /\ e.amount = source.office.bonus
    BY DEF TargetEntry, Entry
  <2> HIDE DEF e
  <2> QED
    BY <2>1 DEF Item, Tag, ScopeOf, LedgerAmount, TargetItem, e
<1>3. ASSUME NEW t, NEW c
      PROVE  /\ Item(TripEntry(t, c, range)) = TripItem(t, c, range)
             /\ TripEntry(t, c, range).worker = AllowanceWorker(source.trips[t])[1]
  <2> DEFINE e == TripEntry(t, c, range)
  <2>1. /\ e.key[1] = "trips" /\ e.key[2] = t /\ e.key[3] = c
        /\ e.worker = AllowanceWorker(source.trips[t])[1]
        /\ e.type = AllowanceWorker(source.trips[t])[2] /\ e.component = c
        /\ e.amount = TripPays(t, range)[c]
    BY DEF TripEntry, Entry
  <2> HIDE DEF e
  <2> QED
    BY <2>1 DEF Item, Tag, ScopeOf, LedgerAmount, TripItem, e
<1>4. ASSUME NEW a, NEW type, NEW board
      PROVE  LET e == AwardEntry(a, type, board, range)
             IN  /\ e.key[1] = "leaderboards" /\ e.key[2] = board /\ e.key[5] = a.worker
                 /\ e.worker = a.worker /\ e.type = type /\ e.component = "leaderboard_bonus"
                 /\ e.amount = a.bonus
  BY DEF AwardEntry, Entry
<1>5. ASSUME NEW a
      PROVE  /\ Item(AwardEntry(a, "beautician", "beautician", range)) = BeauticianItem(a)
             /\ AwardEntry(a, "beautician", "beautician", range).worker = a.worker
  BY <1>4 DEF Item, Tag, ScopeOf, LedgerAmount, BeauticianItem
<1>6. ASSUME NEW a
      PROVE  /\ Item(AwardEntry(a, WorkerType(a.worker, range), "rider", range)) = RiderItem(a, range)
             /\ AwardEntry(a, WorkerType(a.worker, range), "rider", range).worker = a.worker
  BY <1>4 DEF Item, Tag, ScopeOf, LedgerAmount, RiderItem
<1> QED
  BY <1>1, <1>2, <1>3, <1>5, <1>6

\* Every entry for somebody is expected.
LEMMA EntriesExpected ==
    ASSUME DocumentsOK, NEW range \in Ranges, NEW e \in RebuildEntries("all", range), e.worker # None
    PROVE  Item(e) \in ExpectedAmounts(range)
<1>1. CASE e \in OrderEntries(range)
  <2>1. PICK o \in LoadOrderSources(range), c \in OrderComponents : e = OrderEntry(o, c) /\ OrderPaid(o, c)
    BY <1>1, OrderEntriesAre
  <2>2. Item(e) = OrderItem(o, c) /\ e.worker = source.orders[o].beautician
    BY <2>1, ItemsAre
  <2>3. o \in ReconciledOrders(range)
    BY <2>1, <2>2 DEF ReconciledOrders, OrderPaid, OrderAmount
  <2>4. OrderAmount(o, c) # None /\ (c = "general" => ExpectsGeneral(o))
    BY <2>1, GeneralSame DEF OrderPaid
  <2>5. Item(e) \in ExpectedOrderAmounts(range)
    BY <2>2, <2>3, <2>4, ExpectedOrdersAre
  <2> QED
    BY <2>5 DEF ExpectedAmounts
<1>2. CASE e \in TargetEntries(range)
  <2>1. PICK b \in DOMAIN LoadWorkerTargets :
            /\ e = TargetEntry(b, range) /\ TargetOf(b).target2 > 0
            /\ ~InvalidMonth(b, range.to) /\ Revenue(b, range.to) >= TargetOf(b).target2
    BY <1>2, TargetEntriesAre
  <2>2. Item(e) = TargetItem(b) /\ RevenueReaches(b, range.to, TargetOf(b).target2)
    BY <2>1, ItemsAre, TargetSame
  <2>3. Item(e) \in ExpectedTargetAmounts(range)
    BY <2>1, <2>2, ExpectedTargetsAre
  <2> QED
    BY <2>3 DEF ExpectedAmounts
<1>3. CASE e \in TripEntries(range, "all")
  <2>1. PICK t \in PaidTrips(range), c \in {"commission", "petrol"} :
            e = TripEntry(t, c, range) /\ TripPays(t, range)[c] \notin {None, 0}
    BY <1>3, TripEntriesAre
  <2>2. Item(e) = TripItem(t, c, range)
    BY <2>1, ItemsAre
  <2>3. Item(e) \in ExpectedTripAmounts(range)
    BY <2>1, <2>2, ExpectedTripsAre
  <2> QED
    BY <2>3 DEF ExpectedAmounts
<1>4. CASE e \in AwardEntries(range)
  <2>1. Item(e) \in ExpectedAwardAmounts(range)
    BY <1>4, AwardEntriesAre, ItemsAre, ExpectedAwardsAre
  <2> QED
    BY <2>1 DEF ExpectedAmounts
<1> QED
  BY <1>1, <1>2, <1>3, <1>4 DEF RebuildEntries

\* Nothing else is expected, but for zeros.
LEMMA ExpectedEntered ==
    ASSUME DocumentsOK, NEW range \in Ranges, NEW x \in ExpectedAmounts(range)
    PROVE  /\ x[2].amount \in Nat
           /\ x[2].amount # 0 =>
                \E e \in RebuildEntries("all", range) : e.worker # None /\ x = Item(e)
<1> DEFINE E == RebuildEntries("all", range)
<1>1. CASE x \in ExpectedOrderAmounts(range)
  <2>1. PICK o \in ReconciledOrders(range), c \in OrderComponents :
            x = OrderItem(o, c) /\ OrderAmount(o, c) # None /\ (c = "general" => ExpectsGeneral(o))
    BY <1>1, ExpectedOrdersAre
  <2>2. o \in LoadOrderSources(range) /\ source.orders[o].beautician # None
    BY <2>1 DEF ReconciledOrders
  <2>3. x[2].amount = OrderAmount(o, c)
    BY <2>1 DEF OrderItem, Amount
  <2>4. x[2].amount \in Nat
    BY <2>1, <2>2, <2>3, OrderMoney DEF LoadOrderSources, Money
  <2>5. ASSUME x[2].amount # 0 PROVE OrderEntry(o, c) \in E
    BY <2>1, <2>2, <2>3, <2>5, GeneralSame, OrderEntriesAre DEF OrderPaid, RebuildEntries
  <2> QED
    BY <2>1, <2>2, <2>4, <2>5, ItemsAre
<1>2. CASE x \in ExpectedTargetAmounts(range)
  <2>1. PICK b \in DOMAIN LoadWorkerTargets :
            /\ x = TargetItem(b) /\ TargetOf(b).target2 > 0
            /\ RevenueReaches(b, range.to, TargetOf(b).target2)
    BY <1>2, ExpectedTargetsAre
  <2>2. x[2].amount = source.office.bonus
    BY <2>1 DEF TargetItem, Amount
  <2>3. x[2].amount \in Nat /\ b # None
    BY <2>2, OfficeTypes, CutoverDocuments DEF LoadWorkerTargets, Workers
  <2>4. ASSUME x[2].amount # 0 PROVE TargetEntry(b, range) \in E
    BY <2>1, <2>2, <2>4, TargetSame, TargetEntriesAre DEF RebuildEntries
  <2> QED
    BY <2>1, <2>3, <2>4, ItemsAre
<1>3. CASE x \in ExpectedTripAmounts(range)
  <2>1. PICK t \in PaidTrips(range), c \in {"commission", "petrol"} :
            x = TripItem(t, c, range) /\ TripPays(t, range)[c] # None
    BY <1>3, ExpectedTripsAre
  <2>2. x[2].amount = TripPays(t, range)[c] /\ AllowanceWorker(source.trips[t])[1] # None
    BY <2>1 DEF TripItem, Amount, PaidTrips
  <2>3. x[2].amount \in Nat
    BY <2>1, <2>2, TripPaysMoney DEF Money, PaidTrips
  <2>4. ASSUME x[2].amount # 0 PROVE TripEntry(t, c, range) \in E
    BY <2>1, <2>2, <2>4, TripEntriesAre DEF RebuildEntries
  <2> QED
    BY <2>1, <2>2, <2>3, <2>4, ItemsAre
<1>4. CASE \E a \in BeauticianAwards(range) : x = BeauticianItem(a)
  <2>1. PICK a \in BeauticianAwards(range) : x = BeauticianItem(a)
    BY <1>4
  <2>2. x[2].amount = a.bonus /\ a.bonus \in Nat /\ a.worker # None
    BY <2>1, BeauticianAwardOK DEF BeauticianItem, Amount
  <2>3. ASSUME x[2].amount # 0 PROVE AwardEntry(a, "beautician", "beautician", range) \in E
    BY <2>2, <2>3, AwardEntriesAre DEF RebuildEntries
  <2> QED
    BY <2>1, <2>2, <2>3, ItemsAre
<1>5. CASE \E a \in RiderAwards(range) : x = RiderItem(a, range)
  <2>1. PICK a \in RiderAwards(range) : x = RiderItem(a, range)
    BY <1>5
  <2>2. x[2].amount = a.bonus /\ a.bonus \in Nat /\ a.worker # None
    BY <2>1, RiderAwardOK DEF RiderItem, Amount
  <2>3. ASSUME x[2].amount # 0 PROVE AwardEntry(a, WorkerType(a.worker, range), "rider", range) \in E
    BY <2>2, <2>3, AwardEntriesAre DEF RebuildEntries
  <2> QED
    BY <2>1, <2>2, <2>3, ItemsAre
<1> QED
  BY <1>1, <1>2, <1>3, <1>4, <1>5, ExpectedAwardsAre DEF ExpectedAmounts

\* Every entry for somebody is in the scope of the range.
LEMMA EntriesInScope ==
    ASSUME DocumentsOK, NEW range \in Ranges, NEW e \in RebuildEntries("all", range), e.worker # None
    PROVE  InScope(e.key, e, range)
<1>1. CASE e \in OrderEntries(range)
  <2>1. PICK o \in LoadOrderSources(range), c \in OrderComponents : e = OrderEntry(o, c)
    BY <1>1, OrderEntriesAre
  <2>2. e.key[1] = "orders" /\ e.day = source.orders[o].day
    BY <2>1 DEF OrderEntry, Entry
  <2>3. In(range, source.orders[o].day)
    BY <2>1 DEF LoadOrderSources
  <2> QED
    BY <2>2, <2>3 DEF InScope
<1>2. CASE e \in TargetEntries(range)
  <2>1. e.key[1] = "targets" /\ e.key[3] = Month(range.to)
    BY <1>2, TargetEntriesAre DEF TargetEntry, Entry
  <2> QED
    BY <2>1 DEF InScope
<1>3. CASE e \in TripEntries(range, "all")
  <2>1. PICK t \in PaidTrips(range), c \in {"commission", "petrol"} : e = TripEntry(t, c, range)
    BY <1>3, TripEntriesAre
  <2>2. e.key[1] = "trips" /\ e.day = source.trips[t].day
    BY <2>1 DEF TripEntry, Entry
  <2>3. In(range, source.trips[t].day)
    BY <2>1 DEF PaidTrips, LoadTripSources
  <2> QED
    BY <2>2, <2>3 DEF InScope
<1>4. CASE e \in AwardEntries(range)
  <2>1. e.key[1] = "leaderboards" /\ e.key[3] = range.from /\ e.key[4] = range.to
    BY <1>4, AwardEntriesAre DEF AwardEntry, Entry
  <2> QED
    BY <2>1 DEF InScope
<1> QED
  BY <1>1, <1>2, <1>3, <1>4 DEF RebuildEntries

\* What tells the keys of a range apart.
LEMMA TagsOnce ==
    ASSUME NEW range, NEW k, NEW row, NEW l, NEW other, RowOK(k, row), RowOK(l, other),
           InScope(k, row, range), InScope(l, other, range),
           Tag(k) = Tag(l), ScopeOf(k) = ScopeOf(l)
    PROVE  k = l
<1>1. OrderRow(k, row) => k[1] = "orders" /\ k = <<"orders", k[2], k[3]>>
  BY DEF OrderRow
<1>2. OrderRow(l, other) => l[1] = "orders" /\ l = <<"orders", l[2], l[3]>>
  BY DEF OrderRow
<1>3. TripRow(k, row) => k[1] = "trips" /\ k = <<"trips", k[2], k[3]>>
  BY DEF TripRow
<1>4. TripRow(l, other) => l[1] = "trips" /\ l = <<"trips", l[2], l[3]>>
  BY DEF TripRow
<1>5. TargetRow(k, row) => k[1] = "targets" /\ k = <<"targets", k[2], k[3]>> /\ k[3] = Month(range.to)
  <2>1. TargetRow(k, row) => k[1] = "targets"
    BY DEF TargetRow
  <2>2. k[1] = "targets" => k[3] = Month(range.to)
    BY DEF InScope
  <2>3. TargetRow(k, row) => k = <<"targets", k[2], k[3]>>
    BY DEF TargetRow
  <2> QED
    BY <2>1, <2>2, <2>3
<1>6. TargetRow(l, other) => l[1] = "targets" /\ l = <<"targets", l[2], l[3]>> /\ l[3] = Month(range.to)
  <2>1. TargetRow(l, other) => l[1] = "targets"
    BY DEF TargetRow
  <2>2. l[1] = "targets" => l[3] = Month(range.to)
    BY DEF InScope
  <2>3. TargetRow(l, other) => l = <<"targets", l[2], l[3]>>
    BY DEF TargetRow
  <2> QED
    BY <2>1, <2>2, <2>3
<1>7. AwardRow(k, row) => /\ k[1] = "leaderboards" /\ k[2] \in Roles
                          /\ k = <<"leaderboards", k[2], range.from, range.to, k[5]>>
  BY DEF AwardRow, InScope
<1>8. AwardRow(l, other) => /\ l[1] = "leaderboards" /\ l[2] \in Roles
                            /\ l = <<"leaderboards", l[2], range.from, range.to, l[5]>>
  BY DEF AwardRow, InScope
<1>9. OrderRow(k, row) \/ TargetRow(k, row) \/ TripRow(k, row) \/ AwardRow(k, row)
  BY DEF RowOK
<1>10. OrderRow(l, other) \/ TargetRow(l, other) \/ TripRow(l, other) \/ AwardRow(l, other)
  BY DEF RowOK
<1>11. k[1] = l[1]
  BY <1>1, <1>2, <1>3, <1>4, <1>5, <1>6, <1>7, <1>8, <1>9, <1>10 DEF ScopeOf
<1>12. CASE k[1] = "targets"
  BY <1>1, <1>2, <1>3, <1>4, <1>5, <1>6, <1>7, <1>8, <1>9, <1>10, <1>11, <1>12 DEF Tag
<1>13. CASE k[1] = "leaderboards"
  <2>1. <<k[2], k[5]>> = <<l[2], l[5]>>
    BY <1>11, <1>13 DEF Tag
  <2>2. k[2] = l[2] /\ k[5] = l[5]
    BY <2>1
  <2> QED
    BY <1>1, <1>2, <1>3, <1>4, <1>5, <1>6, <1>7, <1>8, <1>9, <1>10, <1>11, <1>13, <2>2
<1>14. CASE k[1] \in {"orders", "trips"}
  <2>1. <<k[2], k[3]>> = <<l[2], l[3]>>
    BY <1>11, <1>14 DEF Tag
  <2>2. k[2] = l[2] /\ k[3] = l[3]
    BY <2>1
  <2> QED
    BY <1>1, <1>2, <1>3, <1>4, <1>5, <1>6, <1>7, <1>8, <1>9, <1>10, <1>11, <1>14, <2>2
<1> QED
  BY <1>1, <1>3, <1>5, <1>7, <1>9, <1>12, <1>13, <1>14

LEMMA ExpectedFinite ==
    ASSUME DocumentsOK, NEW range
    PROVE  IsFiniteSet(ExpectedAmounts(range))
<1> DEFINE L == LoadOrderSources(range) \X OrderComponents
           M == LoadTripSources(range) \X {"commission", "petrol"}
           B == BeauticianAwards(range)
           R == RiderAwards(range)
           order == [put \in L |-> OrderItem(put[1], put[2])]
           trip == [put \in M |-> TripItem(put[1], put[2], range)]
           target == [b \in Beauticians |-> TargetItem(b)]
           beautician == [a \in B |-> BeauticianItem(a)]
           rider == [a \in R |-> RiderItem(a, range)]
           image(f) == {f[x] : x \in DOMAIN f}
<1>1. IsFiniteSet(L) /\ IsFiniteSet(M) /\ IsFiniteSet(B) /\ IsFiniteSet(R) /\ IsFiniteSet(Beauticians)
  BY LoadedFinite, AwardsFinite, CutoverDocuments
<1>2. ExpectedOrderAmounts(range) \subseteq image(order)
  <2>1. \A o \in LoadOrderSources(range), c \in OrderComponents :
            <<o, c>> \in DOMAIN order /\ order[<<o, c>>] = OrderItem(o, c)
    OBVIOUS
  <2>2. ReconciledOrders(range) \subseteq LoadOrderSources(range)
    BY DEF ReconciledOrders
  <2> HIDE DEF order
  <2> SUFFICES ASSUME NEW e \in ExpectedOrderAmounts(range) PROVE \E x \in DOMAIN order : e = order[x]
    OBVIOUS
  <2>3. PICK o \in ReconciledOrders(range), c \in OrderComponents : e = OrderItem(o, c)
    BY ExpectedOrdersAre
  <2> QED
    BY <2>1, <2>2, <2>3
<1>3. ExpectedTripAmounts(range) \subseteq image(trip)
  <2>1. \A t \in LoadTripSources(range), c \in {"commission", "petrol"} :
            <<t, c>> \in DOMAIN trip /\ trip[<<t, c>>] = TripItem(t, c, range)
    OBVIOUS
  <2>2. PaidTrips(range) \subseteq LoadTripSources(range)
    BY DEF PaidTrips
  <2> HIDE DEF trip
  <2> SUFFICES ASSUME NEW e \in ExpectedTripAmounts(range) PROVE \E x \in DOMAIN trip : e = trip[x]
    OBVIOUS
  <2>3. PICK t \in PaidTrips(range), c \in {"commission", "petrol"} : e = TripItem(t, c, range)
    BY ExpectedTripsAre
  <2> QED
    BY <2>1, <2>2, <2>3
<1>4. ExpectedTargetAmounts(range) \subseteq image(target)
  <2>1. DOMAIN LoadWorkerTargets \subseteq Beauticians
    BY DEF LoadWorkerTargets
  <2> QED
    BY <2>1, ExpectedTargetsAre
<1>5. ExpectedAwardAmounts(range) \subseteq image(beautician) \cup image(rider)
  BY ExpectedAwardsAre
<1>6. /\ IsFiniteSet(DOMAIN order) /\ order = [x \in DOMAIN order |-> order[x]]
      /\ IsFiniteSet(DOMAIN trip) /\ trip = [x \in DOMAIN trip |-> trip[x]]
      /\ IsFiniteSet(DOMAIN target) /\ target = [x \in DOMAIN target |-> target[x]]
      /\ IsFiniteSet(DOMAIN beautician) /\ beautician = [x \in DOMAIN beautician |-> beautician[x]]
      /\ IsFiniteSet(DOMAIN rider) /\ rider = [x \in DOMAIN rider |-> rider[x]]
  BY <1>1
<1> HIDE DEF order, trip, target, beautician, rider
<1> DEFINE all == image(order) \cup image(trip) \cup image(target) \cup image(beautician) \cup image(rider)
<1>7. /\ IsFiniteSet(image(order)) /\ IsFiniteSet(image(trip)) /\ IsFiniteSet(image(target))
      /\ IsFiniteSet(image(beautician)) /\ IsFiniteSet(image(rider))
  BY <1>6, FiniteImage
<1>8. ExpectedAmounts(range) \subseteq all
  BY <1>2, <1>3, <1>4, <1>5 DEF ExpectedAmounts
<1> HIDE DEF image
<1>9. IsFiniteSet(all)
  BY <1>7, FS_Union
<1> QED
  BY <1>8, <1>9, FS_Subset

\* A ledger row per entry.
LEMMA PutEmpty ==
    ASSUME NEW entries, \A e, f \in entries : e.key = f.key => e = f,
           NEW rows, rows = Put(EmptyLedger, entries)
    PROVE  /\ DOMAIN rows = {e.key : e \in entries}
           /\ \A e \in entries : rows[e.key] = e
<1>1. DOMAIN EmptyLedger = {}
  BY DEF EmptyLedger
<1>2. rows = [k \in {e.key : e \in entries} |-> CHOOSE e \in entries : e.key = k]
  BY <1>1 DEF Put
<1>3. \A e \in entries : (CHOOSE f \in entries : f.key = e.key) = e
  OBVIOUS
<1> QED
  BY <1>2, <1>3

\* What reconciliation finds in the ledger of a rebuild from nothing.
LEMMA RebuildReconciled ==
    ASSUME DocumentsOK, NEW range \in Ranges
    PROVE  Mismatched(Put(EmptyLedger, RebuildEntries("all", range)), range) = {}
<1> DEFINE E == RebuildEntries("all", range)
           rows == Put(EmptyLedger, E)
           A == LedgerAmounts(rows, range)
           X == ExpectedAmounts(range)
           h == [a \in A |-> <<Tag(a[1]), a[2]>>]
<1>1. DOMAIN rows = {e.key : e \in E} /\ \A e \in E : rows[e.key] = e
  BY KeyedOnce, PutEmpty
<1>2. ASSUME NEW a \in A
      PROVE  \E e \in E : e.worker # None /\ a = <<e.key, LedgerAmount(e, ScopeOf(e.key))>>
  <2>1. PICK k \in DOMAIN rows : InScope(k, rows[k], range) /\ a = <<k, LedgerAmount(rows[k], ScopeOf(k))>>
    BY DEF LedgerAmounts
  <2>2. PICK e \in E : k = e.key /\ rows[k] = e
    BY <1>1, <2>1
  <2>3. e.worker # None
    BY <2>1, <2>2 DEF InScope
  <2> QED
    BY <2>1, <2>2, <2>3
<1>3. ASSUME NEW e \in E, e.worker # None
      PROVE  <<e.key, LedgerAmount(e, ScopeOf(e.key))>> \in A
  BY <1>1, <1>3, EntriesInScope DEF LedgerAmounts
<1>4. IsFiniteSet(A)
  <2> DEFINE f == [e \in E |-> <<e.key, LedgerAmount(e, ScopeOf(e.key))>>]
             I == {f[e] : e \in DOMAIN f}
  <2>1. IsFiniteSet(E)
    BY EntriesFinite
  <2>2. DOMAIN f = E /\ f = [e \in DOMAIN f |-> f[e]]
    OBVIOUS
  <2>3. A \subseteq I
    BY <1>2
  <2> HIDE DEF f, E, A
  <2>4. IsFiniteSet(I)
    BY <2>1, <2>2, FiniteImage
  <2> QED
    BY <2>3, <2>4, FS_Subset
<1>5. IsFiniteSet(X) /\ \A x \in X : x[2].amount \in Nat
  BY ExpectedFinite, ExpectedEntered
<1>6. ASSUME NEW a \in A PROVE h[a] \in X /\ h[a][2] = a[2]
  <2>1. PICK e \in E : e.worker # None /\ a = <<e.key, LedgerAmount(e, ScopeOf(e.key))>>
    BY <1>2
  <2>2. h[a] = Item(e)
    BY <2>1 DEF Item
  <2> QED
    BY <2>1, <2>2, EntriesExpected DEF Item
<1>7. ASSUME NEW a \in A, NEW c \in A, h[a] = h[c] PROVE a = c
  <2>1. PICK e \in E : e.worker # None /\ a = <<e.key, LedgerAmount(e, ScopeOf(e.key))>>
    BY <1>2
  <2>2. PICK f \in E : f.worker # None /\ c = <<f.key, LedgerAmount(f, ScopeOf(f.key))>>
    BY <1>2
  <2>3. Tag(e.key) = Tag(f.key) /\ LedgerAmount(e, ScopeOf(e.key)) = LedgerAmount(f, ScopeOf(f.key))
    BY <1>7, <2>1, <2>2
  <2>4. LedgerAmount(e, ScopeOf(e.key)).key[3] = ScopeOf(e.key) /\ LedgerAmount(f, ScopeOf(f.key)).key[3] = ScopeOf(f.key)
    BY DEF LedgerAmount, Amount
  <2>5. ScopeOf(e.key) = ScopeOf(f.key)
    BY <2>3, <2>4
  <2>6. /\ RowOK(e.key, e) /\ RowOK(f.key, f)
        /\ InScope(e.key, e, range) /\ InScope(f.key, f, range)
    BY <2>1, <2>2, EntryOK, EntriesInScope
  <2>7. e.key = f.key
    BY <2>3, <2>5, <2>6, TagsOnce
  <2>8. e = f
    BY <2>7, KeyedOnce
  <2> QED
    BY <2>1, <2>2, <2>8
<1>8. ASSUME NEW x \in X, x[2].amount # 0 PROVE \E a \in A : x = h[a]
  <2>1. PICK e \in E : e.worker # None /\ x = Item(e)
    BY <1>8, ExpectedEntered
  <2> DEFINE a == <<e.key, LedgerAmount(e, ScopeOf(e.key))>>
  <2>2. a \in A
    BY <1>3, <2>1
  <2>3. h[a] = x
    BY <2>1, <2>2 DEF Item
  <2> QED
    BY <2>2, <2>3
<1> HIDE DEF A, X, h
<1>9. \A key : TotalOf(A, key) = TotalOf(X, key)
  BY <1>4, <1>5, <1>6, <1>7, <1>8, SameTotals
<1>10. Mismatched(rows, range) = {k \in {a[2].key : a \in X \cup A} : TotalOf(A, k) # TotalOf(X, k)}
  BY DEF Mismatched, A, X
<1> HIDE DEF rows
<1>11. Mismatched(rows, range) = {}
  BY <1>9, <1>10
<1> QED
  BY <1>11 DEF rows

\* Whatever the documents are, a rebuild of everything makes an office ready.
THEOREM ReconcilerAgrees == Spec => []ReconcilerAgreesWithRebuild
<1>1. DocumentsOK => ReconcilerAgreesWithRebuild
  BY RebuildReconciled DEF ReconcilerAgreesWithRebuild
<1> QED
  BY <1>1, DocumentsTyped, PTL

-----------------------------------------------------------------------------
(* The ledger, whatever is edited, rebuilt and paid: a finite set of rows, *)
(* each of which says whom it pays what for.                               *)

LedgerOK ==
    /\ IsFiniteSet(DOMAIN ledger) /\ ledger = [k \in DOMAIN ledger |-> ledger[k]]
    /\ \A k \in DOMAIN ledger : RowOK(k, ledger[k])

ModeOK ==
    /\ mode \in {"shadow", "authoritative"}
    /\ verified \in Ranges \cup {None} /\ (mode = "shadow" <=> verified = None)

LedgerInv == DocumentsOK /\ LedgerOK /\ ModeOK

LEMMA InitLedger == Init => LedgerInv
<1> SUFFICES ASSUME Init PROVE LedgerInv
  OBVIOUS
<1>1. DOMAIN ledger = {} /\ ledger = [k \in DOMAIN ledger |-> ledger[k]]
  BY DEF Init, EmptyLedger
<1>2. LedgerOK
  BY <1>1, FS_EmptySet DEF LedgerOK
<1>3. ModeOK
  BY DEF Init, ModeOK
<1> QED
  BY <1>2, <1>3, InitDocuments DEF LedgerInv

LEMMA PutKeeps ==
    ASSUME LedgerOK, NEW entries, IsFiniteSet(entries), \A e \in entries : RowOK(e.key, e),
           ledger' = Put(ledger, entries)
    PROVE  LedgerOK'
<1> DEFINE K == {e.key : e \in entries}
           open(k) == IF k \in DOMAIN ledger THEN ~ledger[k].settled ELSE TRUE
           kept(k) == IF k \in K /\ open(k) THEN CHOOSE e \in entries : e.key = k ELSE ledger[k]
<1>1. ledger' = [k \in DOMAIN ledger \cup K |-> kept(k)]
  BY DEF Put
<1>2. IsFiniteSet(K)
  <2> DEFINE f == [e \in entries |-> e.key]
  <2>1. DOMAIN f = entries /\ f = [e \in DOMAIN f |-> f[e]] /\ K = {f[e] : e \in DOMAIN f}
    OBVIOUS
  <2> HIDE DEF f, K
  <2> QED
    BY <2>1, FiniteImage
<1>3. ASSUME NEW k \in DOMAIN ledger \cup K PROVE RowOK(k, kept(k))
  <2>1. CASE k \in K /\ open(k)
    <3> DEFINE e == CHOOSE e \in entries : e.key = k
    <3>1. e \in entries /\ e.key = k
      BY <2>1
    <3>2. kept(k) = e
      BY <2>1
    <3> HIDE DEF e, kept
    <3> QED
      BY <3>1, <3>2
  <2>2. CASE ~(k \in K /\ open(k))
    <3>1. k \in DOMAIN ledger
      BY <2>2
    <3>2. kept(k) = ledger[k]
      BY <2>2
    <3> HIDE DEF kept
    <3> QED
      BY <3>1, <3>2 DEF LedgerOK
  <2> QED
    BY <2>1, <2>2
<1> HIDE DEF K, kept
<1>4. DOMAIN ledger' = DOMAIN ledger \cup K /\ \A k \in DOMAIN ledger' : ledger'[k] = kept(k)
  BY <1>1
<1>5. IsFiniteSet(DOMAIN ledger')
  <2>1. IsFiniteSet(DOMAIN ledger)
    BY DEF LedgerOK
  <2>2. IsFiniteSet(DOMAIN ledger \cup K)
    BY <1>2, <2>1, FS_Union
  <2> QED
    BY <1>4, <2>2
<1>6. \A k \in DOMAIN ledger' : RowOK(k, ledger'[k])
  BY <1>3, <1>4
<1>7. ledger' = [k \in DOMAIN ledger' |-> ledger'[k]]
  BY <1>1
<1> QED
  BY <1>5, <1>6, <1>7 DEF LedgerOK

LEMMA SettleKeeps ==
    ASSUME LedgerOK, NEW k \in DOMAIN ledger, Settle(k)
    PROVE  LedgerOK'
<1> DEFINE row == ledger[k]
           paid == [row EXCEPT !.settled = TRUE]
<1>1. RowOK(k, row)
  BY DEF LedgerOK
<1> HIDE DEF row
<1>2. /\ paid = Entry(row.key, row.worker, row.type, row.day, row.component, row.amount, TRUE)
      /\ paid.key = row.key /\ paid.worker = row.worker /\ paid.type = row.type /\ paid.day = row.day
      /\ paid.component = row.component /\ paid.amount = row.amount /\ paid.settled = TRUE
  <2>1. row = Entry(row.key, row.worker, row.type, row.day, row.component, row.amount, row.settled)
    BY <1>1 DEF RowOK
  <2> DEFINE a == row.key
             b == row.worker
             c == row.type
             d == row.day
             e == row.component
             f == row.amount
             g == row.settled
  <2> HIDE DEF a, b, c, d, e, f, g
  <2>2. row = [key |-> a, worker |-> b, type |-> c, day |-> d, component |-> e, amount |-> f, settled |-> g]
    BY <2>1 DEF Entry, a, b, c, d, e, f, g
  <2>3. paid = Entry(a, b, c, d, e, f, TRUE)
    <3> DEFINE plain == [key |-> a, worker |-> b, type |-> c, day |-> d, component |-> e, amount |-> f,
                         settled |-> g]
           q == [plain EXCEPT !.settled = TRUE]
    <3>1. q = Entry(a, b, c, d, e, f, TRUE)
      <4> DEFINE R == [key : {a}, worker : {b}, type : {c}, day : {d}, component : {e}, amount : {f},
                       settled : {TRUE}]
      <4>1. q \in R
        OBVIOUS
      <4> HIDE DEF q
      <4>2. q = [key |-> q.key, worker |-> q.worker, type |-> q.type, day |-> q.day,
                 component |-> q.component, amount |-> q.amount, settled |-> q.settled]
        BY <4>1
      <4>3. q.key = a /\ q.worker = b /\ q.type = c /\ q.day = d /\ q.component = e /\ q.amount = f /\ q.settled
        BY <4>1
      <4> QED
        BY <4>2, <4>3 DEF Entry
    <3>2. row = plain
      BY <2>2
    <3> HIDE DEF plain
    <3> QED
      BY <3>1, <3>2
  <2>4. /\ paid.key = a /\ paid.worker = b /\ paid.type = c /\ paid.day = d
        /\ paid.component = e /\ paid.amount = f /\ paid.settled = TRUE
    BY <2>3 DEF Entry
  <2> QED
    BY <2>3, <2>4 DEF a, b, c, d, e, f, g
<1> HIDE DEF paid
<1>3. /\ OrderRow(k, row) => OrderRow(k, paid)
      /\ TargetRow(k, row) => TargetRow(k, paid)
      /\ TripRow(k, row) => TripRow(k, paid)
      /\ AwardRow(k, row) => AwardRow(k, paid)
  BY <1>2 DEF OrderRow, TargetRow, TripRow, AwardRow
<1>4. paid = Entry(paid.key, paid.worker, paid.type, paid.day, paid.component, paid.amount, paid.settled)
  BY <1>2
<1>5. RowOK(k, paid)
  BY <1>1, <1>2, <1>3, <1>4 DEF RowOK
<1>6. ledger' = [ledger EXCEPT ![k] = paid]
  BY DEF Settle, paid, row
<1>7. /\ DOMAIN ledger' = DOMAIN ledger /\ ledger'[k] = paid
      /\ ledger' = [l \in DOMAIN ledger' |-> ledger'[l]]
      /\ \A l \in DOMAIN ledger : l # k => ledger'[l] = ledger[l]
  BY <1>6
<1>8. \A l \in DOMAIN ledger' : RowOK(l, ledger'[l])
  BY <1>5, <1>7 DEF LedgerOK
<1> QED
  BY <1>7, <1>8 DEF LedgerOK

LEMMA NextLedger == LedgerInv /\ [Next]_vars => LedgerInv'
<1> SUFFICES ASSUME LedgerInv, [Next]_vars PROVE LedgerInv'
  OBVIOUS
<1>1. DocumentsOK' /\ DocumentsOK /\ LedgerOK /\ ModeOK
  BY NextDocuments DEF LedgerInv
<1>2. CASE UNCHANGED <<ledger, mode, verified>>
  <2>1. LedgerOK' /\ ModeOK'
    BY <1>1, <1>2 DEF LedgerOK, ModeOK
  <2> QED
    BY <1>1, <2>1 DEF LedgerInv
<1>3. ASSUME NEW job \in Jobs, Rebuild(job) PROVE LedgerInv'
  <2> DEFINE entries == RebuildEntries(job.scope, job.range)
  <2>1. job.range \in Ranges
    BY CutoverAssumption
  <2>2. IsFiniteSet(entries) /\ \A e \in entries : RowOK(e.key, e)
    BY <1>1, <2>1, EntriesFinite, EntryOK
  <2>3. ledger' = Put(ledger, entries) /\ UNCHANGED <<mode, verified>>
    BY <1>3 DEF Rebuild
  <2> HIDE DEF entries
  <2>4. LedgerOK'
    BY <1>1, <2>2, <2>3, PutKeeps
  <2>5. ModeOK'
    BY <1>1, <2>3 DEF ModeOK
  <2> QED
    BY <1>1, <2>4, <2>5 DEF LedgerInv
<1>4. ASSUME NEW k \in DOMAIN ledger, Settle(k) PROVE LedgerInv'
  <2>1. LedgerOK'
    BY <1>1, <1>4, SettleKeeps
  <2>2. ModeOK'
    BY <1>1, <1>4 DEF ModeOK, Settle
  <2> QED
    BY <1>1, <2>1, <2>2 DEF LedgerInv
<1>5. ASSUME NEW range \in Ranges, Promote(range) PROVE LedgerInv'
  <2>1. LedgerOK'
    BY <1>1, <1>5 DEF LedgerOK, Promote
  <2>2. ModeOK'
    BY <1>1, <1>5, CutoverDocuments DEF ModeOK, Promote
  <2> QED
    BY <1>1, <2>1, <2>2 DEF LedgerInv
<1>6. CASE RollBack
  <2>1. LedgerOK' /\ ModeOK'
    BY <1>1, <1>6 DEF LedgerOK, ModeOK, RollBack
  <2> QED
    BY <1>1, <2>1 DEF LedgerInv
<1>7. KeepMode \/ UNCHANGED vars => UNCHANGED <<ledger, mode, verified>>
  BY DEF KeepMode, vars
<1>8. ASSUME \/ \E o \in Orders, document \in OrderDocs : EditOrder(o, document)
             \/ \E t \in Trips, document \in TripDocs : EditTrip(t, document)
             \/ \E b \in Beauticians, document \in BeauticianProfiles : EditProfile(b, document)
             \/ \E r \in Riders, document \in RiderProfiles : EditProfile(r, document)
             \/ \E document \in Offices : EditOffice(document)
             \/ \E days \in Boards : EditBoard(days)
      PROVE  UNCHANGED <<ledger, mode, verified>>
  BY <1>8 DEF EditOrder, EditTrip, EditProfile, EditOffice, EditBoard
<1> QED
  BY <1>2, <1>3, <1>4, <1>5, <1>6, <1>7, <1>8 DEF Next

\* The ledger has finitely many rows, each of one of the four kinds.
THEOREM LedgerTyped == Spec => []LedgerInv
BY InitLedger, NextLedger, PTL DEF Spec

\* Types of all variables.
THEOREM TypeCorrect == Spec => []TypeOK
<1>1. ASSUME LedgerInv PROVE TypeOK
  <2>1. ASSUME NEW k \in DOMAIN ledger
        PROVE  /\ ledger[k].key = k /\ ledger[k].settled \in BOOLEAN
               /\ ledger[k].worker \in (IF ledger[k].type = "rider" THEN Riders ELSE Beauticians) \cup {None}
               /\ ledger[k].amount \in Nat \ {0}
    <3> DEFINE row == ledger[k]
    <3>1. RowOK(k, row)
      BY <1>1 DEF LedgerInv, LedgerOK
    <3> HIDE DEF row
    <3>2. row.worker \in (IF row.type = "rider" THEN Riders ELSE Beauticians) \cup {None}
      BY <3>1 DEF RowOK, OrderRow, TargetRow, TripRow, AwardRow, TypeOf, Workers
    <3>3. row.key = k /\ row.settled \in BOOLEAN /\ row.amount \in Nat \ {0}
      BY <3>1 DEF RowOK
    <3> QED
      BY <3>2, <3>3 DEF row
  <2> QED
    BY <1>1, <2>1 DEF LedgerInv, DocumentsOK, ModeOK, TypeOK
<1> QED
  BY <1>1, LedgerTyped, PTL

-----------------------------------------------------------------------------
(* The totals of a verified range.                                         *)

\* A total, taken over what its amounts come from.
LEMMA TotalRenamed ==
    ASSUME NEW X, NEW key, NEW S, IsFiniteSet(S), NEW f, IntsOn(f, S), NEW item,
           item = [s \in S |-> item[s]],
           \A s \in S : item[s] \in X /\ item[s][2].key = key /\ item[s][2].amount = f[s],
           \A s, r \in S : item[s] = item[r] => s = r,
           \A x \in X : x[2].key = key => \E s \in S : x = item[s]
    PROVE  TotalOf(X, key) = Over(f, S)
<1> DEFINE U == {x \in X : x[2].key = key}
           I == {item[s] : s \in S}
           g == [x \in U |-> x[2].amount]
<1>1. TotalOf(X, key) = Over(g, U)
  BY SumIsOver DEF TotalOf
<1>2. DOMAIN item = S
  OBVIOUS
<1>3. IsFiniteSet(I)
  BY <1>2, FiniteImage
<1>4. U = I
  OBVIOUS
<1>5. \A s \in S : f[s] = g[item[s]]
  OBVIOUS
<1>6. I = {item[s] : s \in S}
  OBVIOUS
<1> HIDE DEF U, I, g
<1>7. Over(f, S) = Over(g, I)
  BY <1>3, <1>5, <1>6, OverRenamed
<1> QED
  BY <1>1, <1>4, <1>7

\* What the rows of the ledger pay.
RowAmounts == [k \in DOMAIN ledger |-> ledger[k].amount]

LEMMA RowSum ==
    ASSUME LedgerOK, NEW S \in SUBSET DOMAIN ledger
    PROVE  /\ IsFiniteSet(S) /\ \A k \in S : RowAmounts[k] \in Nat \ {0}
           /\ SumOver([k \in S |-> ledger[k].amount]) = Over(RowAmounts, S)
<1> DEFINE f == [k \in S |-> ledger[k].amount]
<1>1. IsFiniteSet(S)
  BY FS_Subset DEF LedgerOK
<1>2. \A k \in S : RowAmounts[k] \in Nat \ {0} /\ f[k] = RowAmounts[k]
  BY DEF LedgerOK, RowOK, RowAmounts
<1>3. DOMAIN f = S /\ IntsOn(f, S)
  BY <1>2 DEF IntsOn
<1> HIDE DEF f
<1>4. SumOver(f) = Over(RowAmounts, S)
  BY <1>1, <1>2, <1>3, SumIsOver, OverSame
<1> QED
  BY <1>1, <1>2, <1>4 DEF f

\* The rows that reconciliation adds up.
RowsFor(range, worker, type, scope, component) ==
    {k \in DOMAIN ledger :
        /\ InScope(k, ledger[k], range) /\ ScopeOf(k) = scope
        /\ ledger[k].worker = worker /\ ledger[k].type = type /\ ledger[k].component = component}

LEMMA ActualTotal ==
    ASSUME LedgerOK, NEW range, NEW worker, NEW type, NEW scope, NEW component
    PROVE  TotalOf(LedgerAmounts(ledger, range), <<worker, type, scope, component>>)
                = Over(RowAmounts, RowsFor(range, worker, type, scope, component))
<1> DEFINE S == RowsFor(range, worker, type, scope, component)
           A == LedgerAmounts(ledger, range)
           key == <<worker, type, scope, component>>
           item == [k \in S |-> <<k, LedgerAmount(ledger[k], ScopeOf(k))>>]
<1>1. S \in SUBSET DOMAIN ledger
  BY DEF RowsFor
<1>2. IsFiniteSet(S) /\ IntsOn(RowAmounts, S)
  <2> HIDE DEF S
  <2>1. IsFiniteSet(S) /\ \A k \in S : RowAmounts[k] \in Nat \ {0}
    BY <1>1, RowSum
  <2> QED
    BY <2>1 DEF IntsOn
<1>3. ASSUME NEW k \in S
      PROVE  item[k] \in A /\ item[k][2].key = key /\ item[k][2].amount = RowAmounts[k]
  <2>1. item[k] = <<k, LedgerAmount(ledger[k], ScopeOf(k))>>
    OBVIOUS
  <2>2. k \in DOMAIN ledger /\ InScope(k, ledger[k], range) /\ ScopeOf(k) = scope
    BY DEF RowsFor
  <2>3. LedgerAmount(ledger[k], ScopeOf(k)).key = key
    BY DEF RowsFor, LedgerAmount, Amount
  <2>4. LedgerAmount(ledger[k], ScopeOf(k)).amount = RowAmounts[k]
    BY <2>2 DEF LedgerAmount, Amount, RowAmounts
  <2> QED
    BY <2>1, <2>2, <2>3, <2>4 DEF LedgerAmounts
<1>4. \A k, l \in S : item[k] = item[l] => k = l
  OBVIOUS
<1>5. ASSUME NEW x \in A, x[2].key = key PROVE \E k \in S : x = item[k]
  <2>1. PICK k \in DOMAIN ledger :
            InScope(k, ledger[k], range) /\ x = <<k, LedgerAmount(ledger[k], ScopeOf(k))>>
    BY DEF LedgerAmounts
  <2>2. LedgerAmount(ledger[k], ScopeOf(k)).key
            = <<ledger[k].worker, ledger[k].type, ScopeOf(k), ledger[k].component>>
    BY DEF LedgerAmount, Amount
  <2>3. <<ledger[k].worker, ledger[k].type, ScopeOf(k), ledger[k].component>> = key
    BY <1>5, <2>1, <2>2
  <2>4. k \in S
    BY <2>1, <2>3 DEF RowsFor
  <2> QED
    BY <2>1, <2>4
<1>6. item = [k \in S |-> item[k]]
  OBVIOUS
<1> HIDE DEF S, A, key, item
<1>7. TotalOf(A, key) = Over(RowAmounts, S)
  BY <1>2, <1>3, <1>4, <1>5, <1>6, TotalRenamed
<1> QED
  BY <1>7 DEF S, A, key

\* In a range that is ready, the rows pay what is expected.
LEMMA ReadyTotals ==
    ASSUME LedgerOK, NEW range, Ready(ledger, range), NEW worker, NEW type, NEW scope, NEW component
    PROVE  Over(RowAmounts, RowsFor(range, worker, type, scope, component))
                = TotalOf(ExpectedAmounts(range), <<worker, type, scope, component>>)
<1> DEFINE A == LedgerAmounts(ledger, range)
           X == ExpectedAmounts(range)
           key == <<worker, type, scope, component>>
<1>1. {k \in {a[2].key : a \in X \cup A} : TotalOf(A, k) # TotalOf(X, k)} = {}
  BY DEF Ready, Mismatched
<1>2. CASE key \in {a[2].key : a \in X \cup A}
  BY <1>1, <1>2, ActualTotal
<1>3. CASE key \notin {a[2].key : a \in X \cup A}
  <2>1. {a \in A : a[2].key = key} = {} /\ {a \in X : a[2].key = key} = {}
    BY <1>3
  <2> HIDE DEF A, X, key
  <2>2. TotalOf(A, key) = TotalOf(X, key)
    BY <2>1 DEF TotalOf
  <2> QED
    BY <2>2, ActualTotal DEF A, X, key
<1> QED
  BY <1>2, <1>3

\* What the expected amounts are for.
LEMMA ItemKeys ==
    ASSUME NEW range
    PROVE  /\ \A o, c : OrderItem(o, c)[2].key = <<source.orders[o].beautician, "beautician", "orders", c>>
           /\ \A b : TargetItem(b)[2].key = <<b, "beautician", "targets", "target_bonus">>
           /\ \A t, c : TripItem(t, c, range)[2].key
                            = <<AllowanceWorker(source.trips[t])[1], AllowanceWorker(source.trips[t])[2], "trips", c>>
           /\ \A a : BeauticianItem(a)[2].key
                            = <<a.worker, "beautician", "beautician_leaderboard", "leaderboard_bonus">>
           /\ \A a : RiderItem(a, range)[2].key
                            = <<a.worker, WorkerType(a.worker, range), "rider_leaderboard", "leaderboard_bonus">>
BY DEF OrderItem, TargetItem, TripItem, BeauticianItem, RiderItem, Amount

LEMMA ItemScopes ==
    ASSUME NEW range
    PROVE  /\ \A o, c : OrderItem(o, c)[2].key[3] = "orders"
           /\ \A b : TargetItem(b)[2].key[3] = "targets"
           /\ \A t, c : TripItem(t, c, range)[2].key[3] = "trips"
           /\ \A a : BeauticianItem(a)[2].key[3] = "beautician_leaderboard"
           /\ \A a : RiderItem(a, range)[2].key[3] = "rider_leaderboard"
BY DEF OrderItem, TargetItem, TripItem, BeauticianItem, RiderItem, Amount

LEMMA ExpectedByScope ==
    ASSUME NEW range, NEW x \in ExpectedAmounts(range)
    PROVE  /\ x[2].key[3] = "orders" => x \in ExpectedOrderAmounts(range)
           /\ x[2].key[3] = "targets" => x \in ExpectedTargetAmounts(range)
           /\ x[2].key[3] = "trips" => x \in ExpectedTripAmounts(range)
           /\ x[2].key[3] = "beautician_leaderboard" => \E a \in BeauticianAwards(range) : x = BeauticianItem(a)
           /\ x[2].key[3] = "rider_leaderboard" => \E a \in RiderAwards(range) : x = RiderItem(a, range)
<1>1. CASE x \in ExpectedOrderAmounts(range)
  <2>1. x[2].key[3] = "orders"
    BY <1>1, ExpectedOrdersAre, ItemScopes
  <2> QED
    BY <1>1, <2>1
<1>2. CASE x \in ExpectedTargetAmounts(range)
  <2>1. x[2].key[3] = "targets"
    BY <1>2, ExpectedTargetsAre, ItemScopes
  <2> QED
    BY <1>2, <2>1
<1>3. CASE x \in ExpectedTripAmounts(range)
  <2>1. x[2].key[3] = "trips"
    BY <1>3, ExpectedTripsAre, ItemScopes
  <2> QED
    BY <1>3, <2>1
<1>4. CASE \E a \in BeauticianAwards(range) : x = BeauticianItem(a)
  <2>1. x[2].key[3] = "beautician_leaderboard"
    BY <1>4, ItemScopes
  <2> QED
    BY <1>4, <2>1
<1>5. CASE \E a \in RiderAwards(range) : x = RiderItem(a, range)
  <2>1. x[2].key[3] = "rider_leaderboard"
    BY <1>5, ItemScopes
  <2> QED
    BY <1>5, <2>1
<1> QED
  BY <1>1, <1>2, <1>3, <1>4, <1>5, ExpectedAwardsAre DEF ExpectedAmounts

-----------------------------------------------------------------------------
(* Plain trips: ledger and reports pay them alike.                         *)

LEMMA RoundsAlike ==
    ASSUME NEW num \in Int, NEW den \in Int, (2 * num) % (2 * den) # den
    PROVE  RoundEven(num, den) = Round(num, den)
BY DEF RoundEven

LEMMA ReportedInt ==
    ASSUME NEW trip \in TripDoc
    PROVE  ReportedDistance(trip) \in Int
<1>1. /\ trip.auto \in Int /\ trip.extra \in Int /\ trip.fareKm \in Int
      /\ trip.snapshot \in TripSnapshotType \cup {None}
  BY DEF TripDoc, TripSnapshotType
<1>2. PayableDistanceExpr(trip) \in Int
  BY <1>1 DEF PayableDistanceExpr, Automatic
<1>3. trip.snapshot # None => trip.snapshot.distance \in Int \cup {None}
  BY <1>1 DEF TripSnapshotType, Number
<1> QED
  BY <1>2, <1>3 DEF ReportedDistance, PaidSnapshotOrCanonicalExpr

LEMMA PlainTripPays ==
    ASSUME NEW trip \in TripDoc, trip.snapshot # None, PlainTrip(trip),
           NEW rates \in RatesType, NEW office
    PROVE  /\ EffectiveTripPayables(trip, rates).commission = ReportedCommission(trip)
           /\ EffectiveTripPayables(trip, rates).petrol = ReportedPetrol(trip, office)
<1> DEFINE s == trip.snapshot
           d == Distance(trip)
<1>1. /\ s \in TripSnapshotType
      /\ trip.auto \in Int /\ trip.extra \in Int /\ trip.fareKm \in Int /\ trip.manual \in BOOLEAN
      /\ trip.override \in Int \cup {None} /\ trip.commissionable \in BOOLEAN
  BY DEF TripDoc, TripSnapshotType, Number
<1>2. \A x, y : Payables(x, y).commission = x /\ Payables(x, y).petrol = y
  BY DEF Payables
<1>3. CASE s.paid /\ s.commission # None /\ s.petrol # None
  <2>1. EffectiveTripPayables(trip, rates) = Payables(s.commission, s.petrol)
    BY <1>3 DEF EffectiveTripPayables
  <2>2. ReportedCommission(trip) = s.commission /\ ReportedPetrol(trip, office) = s.petrol
    BY <1>3 DEF ReportedCommission, ReportedPetrol, PaidSnapshotOrCanonicalExpr
  <2> QED
    BY <1>2, <2>1, <2>2
<1>4. CASE /\ ~s.paid /\ d > 0 /\ Rate(trip) = 1
           /\ trip.override = None \/ Positive(trip.override)
           /\ Positive(s.cost) /\ Positive(s.mileage)
           /\ (200 * d * s.cost) % (2 * s.mileage) # s.mileage
  <2>1. /\ s.cost \in Int /\ s.mileage \in Int /\ s.cost > 0 /\ s.mileage > 0
        /\ s.cost # None /\ s.mileage # None
    BY <1>1, <1>4 DEF Positive, TripSnapshotType, Number
  <2>2. Cost(trip, rates) = s.cost /\ Mileage(trip, rates) = s.mileage
    BY <1>4, <2>1 DEF Cost, Mileage, SnapshotField
  <2>3. d \in Int /\ ReportedDistance(trip) = d
    <3>1. ReportedDistance(trip) = PayableDistanceExpr(trip)
      BY <1>4 DEF ReportedDistance, PaidSnapshotOrCanonicalExpr
    <3>2. d \in Int /\ PayableDistanceExpr(trip) = d
      BY <1>1, <1>4 DEF PayableDistanceExpr, Distance, Automatic
    <3> QED
      BY <3>1, <3>2
  <2>4. Commission(trip) = ReportedCommission(trip)
    <3>1. ReportedCommission(trip) = IF trip.commissionable THEN 100 * OrElse(trip.override, d) ELSE 0
      BY <1>4, <2>3 DEF ReportedCommission, PaidSnapshotOrCanonicalExpr
    <3>2. 100 * d * Rate(trip) = 100 * d
      BY <1>4, <2>3
    <3>3. Commission(trip) = IF ~trip.commissionable THEN 0
                             ELSE IF Positive(trip.override) THEN 100 * trip.override ELSE 100 * d
      BY <3>2 DEF Commission
    <3> HIDE DEF d
    <3> QED
      BY <1>4, <3>1, <3>3 DEF OrElse, Positive
  <2>5. Petrol(trip, rates) = ReportedPetrol(trip, office)
    <3> DEFINE num == 100 * d * s.cost
    <3>1. Petrol(trip, rates) = Round(num, s.mileage)
      BY <2>2 DEF Petrol
    <3>2. ReportedPetrol(trip, office) = RoundEven(num, s.mileage)
      BY <1>4, <2>1, <2>3 DEF ReportedPetrol, PaidSnapshotOrCanonicalExpr, TripPetrolPayableExpr, OrElse
    <3>3. num \in Int /\ 2 * num = 200 * d * s.cost
      <4> DEFINE c == s.cost
      <4>1. c \in Int
        BY <2>1
      <4> HIDE DEF c, d
      <4>2. 100 * d * c \in Int /\ 2 * (100 * d * c) = 200 * d * c
        BY <2>3, <4>1
      <4> QED
        BY <4>2 DEF c
    <3> HIDE DEF num
    <3>4. RoundEven(num, s.mileage) = Round(num, s.mileage)
      BY <1>4, <2>1, <3>3, RoundsAlike
    <3> QED
      BY <3>1, <3>2, <3>4
  <2>6. EffectiveTripPayables(trip, rates) = Payables(Commission(trip), Petrol(trip, rates))
    BY <1>4, <2>1, <2>2, <2>3 DEF EffectiveTripPayables
  <2> QED
    BY <1>2, <2>4, <2>5, <2>6
<1> QED
  BY <1>3, <1>4 DEF PlainTrip

\* What the trips of a worker pay in a range that is ready.
LEMMA ReadyTrips ==
    ASSUME DocumentsOK, NEW range, MissingTrips(range) = {}, NEW w \in Workers, NEW t \in TripsOf(w, range)
    PROVE  /\ t \in PaidTrips(range) /\ source.trips[t] \in TripDoc /\ source.trips[t].snapshot # None
           /\ AllowanceWorker(source.trips[t])[1] = w /\ AllowanceWorker(source.trips[t])[2] = TypeOf(w)
           /\ TripPays(t, range).commission \in Nat /\ TripPays(t, range).petrol \in Nat
<1>1. t \in LoadTripSources(range) /\ AllowanceWorkerIDExpr(source.trips[t]) = w /\ w # None
  BY CutoverDocuments DEF TripsOf
<1>2. source.trips[t] \in TripDoc
  BY <1>1, TripTypes DEF LoadTripSources
<1>3. AllowanceWorker(source.trips[t])[1] = w /\ AllowanceWorker(source.trips[t])[2] = TypeOf(w)
  BY <1>1, <1>2, TripWorker
<1>4. /\ source.trips[t].snapshot # None
      /\ TripPays(t, range).commission # None /\ TripPays(t, range).petrol # None
  BY <1>1, <1>3 DEF MissingTrips
<1>5. TripPays(t, range)["commission"] \in Money /\ TripPays(t, range)["petrol"] \in Money
  BY <1>1, TripPaysMoney
<1> QED
  BY <1>1, <1>2, <1>3, <1>4, <1>5 DEF PaidTrips, Money

LEMMA PlainPays ==
    ASSUME DocumentsOK, NEW range, MissingTrips(range) = {}, NEW w \in Workers, NEW t \in TripsOf(w, range),
           PlainTrip(source.trips[t])
    PROVE  /\ TripPays(t, range).commission = ReportedCommission(source.trips[t])
           /\ TripPays(t, range).petrol = ReportedPetrol(source.trips[t], source.office.rates)
<1> DEFINE rates == LoadedRates({source.trips[u] : u \in LoadTripSources(range)}, source.office.rates)
<1>1. rates \in RatesType
  BY OfficeTypes DEF LoadedRates, NoRates, RatesType
<1>2. TripPays(t, range) = EffectiveTripPayables(source.trips[t], rates)
  BY DEF TripPays
<1> HIDE DEF rates
<1>3. source.trips[t] \in TripDoc /\ source.trips[t].snapshot # None
  BY ReadyTrips
<1> QED
  BY <1>1, <1>2, <1>3, PlainTripPays

TripAmounts(range, c) == [t \in LoadTripSources(range) |-> TripPays(t, range)[c]]

LEMMA TripTotal ==
    ASSUME DocumentsOK, NEW range, MissingTrips(range) = {}, NEW w \in Workers,
           NEW c \in {"commission", "petrol"}
    PROVE  TotalOf(ExpectedAmounts(range), <<w, TypeOf(w), "trips", c>>)
                = Over(TripAmounts(range, c), TripsOf(w, range))
<1> DEFINE S == TripsOf(w, range)
           X == ExpectedAmounts(range)
           key == <<w, TypeOf(w), "trips", c>>
           item == [t \in S |-> TripItem(t, c, range)]
           f == TripAmounts(range, c)
<1>1. S \subseteq LoadTripSources(range) /\ IsFiniteSet(S)
  BY LoadedFinite, FS_Subset DEF TripsOf
<1>2. \A t \in S : f[t] = TripPays(t, range)[c] /\ f[t] \in Nat
  BY <1>1, ReadyTrips DEF TripAmounts
<1>3. ASSUME NEW t \in S
      PROVE  item[t] \in X /\ item[t][2].key = key /\ item[t][2].amount = f[t]
  <2>1. item[t] = TripItem(t, c, range)
    OBVIOUS
  <2>2. /\ t \in PaidTrips(range)
        /\ AllowanceWorker(source.trips[t])[1] = w /\ AllowanceWorker(source.trips[t])[2] = TypeOf(w)
    BY ReadyTrips
  <2>3. TripPays(t, range)[c] # None
    BY <1>2, CutoverDocuments
  <2>4. TripItem(t, c, range) \in X
    BY <2>2, <2>3, ExpectedTripsAre DEF ExpectedAmounts
  <2>5. TripItem(t, c, range)[2].key = key
    <3>1. TripItem(t, c, range)[2].key
            = <<AllowanceWorker(source.trips[t])[1], AllowanceWorker(source.trips[t])[2], "trips", c>>
      BY DEF TripItem, Amount
    <3> QED
      BY <2>2, <3>1
  <2>6. TripItem(t, c, range)[2].amount = f[t]
    BY <1>2 DEF TripItem, Amount
  <2> QED
    BY <2>1, <2>4, <2>5, <2>6
<1>4. \A t, u \in S : item[t] = item[u] => t = u
  <2>1. \A t : TripItem(t, c, range)[1] = <<t, c>>
    BY DEF TripItem
  <2> QED
    BY <2>1
<1>5. ASSUME NEW x \in X, x[2].key = key PROVE \E t \in S : x = item[t]
  <2>1. x \in ExpectedTripAmounts(range)
    BY <1>5, ExpectedByScope
  <2>2. PICK t \in PaidTrips(range), d \in {"commission", "petrol"} : x = TripItem(t, d, range)
    BY <2>1, ExpectedTripsAre
  <2>3. <<AllowanceWorker(source.trips[t])[1], AllowanceWorker(source.trips[t])[2], "trips", d>> = key
    <3>1. TripItem(t, d, range)[2].key
            = <<AllowanceWorker(source.trips[t])[1], AllowanceWorker(source.trips[t])[2], "trips", d>>
      BY DEF TripItem, Amount
    <3> QED
      BY <1>5, <2>2, <3>1
  <2>4. AllowanceWorker(source.trips[t])[1] = w /\ d = c
    BY <2>3
  <2>5. t \in LoadTripSources(range)
    BY DEF PaidTrips
  <2>6. source.trips[t] \in TripDoc
    BY <2>5, TripTypes DEF LoadTripSources
  <2>7. t \in S
    BY <2>4, <2>5, <2>6, TripWorker DEF TripsOf
  <2> QED
    BY <2>2, <2>4, <2>7
<1>6. item = [t \in S |-> item[t]] /\ IntsOn(f, S)
  BY <1>2 DEF IntsOn
<1> HIDE DEF S, X, key, item, f
<1>7. TotalOf(X, key) = Over(f, S)
  BY <1>1, <1>3, <1>4, <1>5, <1>6, TotalRenamed
<1> QED
  BY <1>7 DEF S, X, key, f

\* The rows that trips were paid by.
LEMMA TripRows ==
    ASSUME LedgerOK, NEW range, NEW w \in Workers, NEW c
    PROVE  RowsFor(range, w, TypeOf(w), "trips", c)
                = {k \in DOMAIN ledger : /\ k[1] = "trips" /\ ledger[k].worker = w
                                         /\ In(range, ledger[k].day) /\ ledger[k].component = c}
<1>1. ASSUME NEW k \in DOMAIN ledger
      PROVE  /\ k[1] = "trips" => ledger[k].type = TypeOf(ledger[k].worker)
             /\ ScopeOf(k) = "trips" <=> k[1] = "trips"
             /\ k[1] = "trips" => (InScope(k, ledger[k], range)
                                    <=> ledger[k].worker # None /\ In(range, ledger[k].day))
  <2>1. RowOK(k, ledger[k])
    BY DEF LedgerOK
  <2>2. k[1] = "trips" => TripRow(k, ledger[k])
    BY <2>1 DEF RowOK, OrderRow, TargetRow, AwardRow
  <2>3. k[1] = "trips" => ledger[k].type = TypeOf(ledger[k].worker)
    BY <2>2 DEF TripRow
  <2>4. ScopeOf(k) = "trips" <=> k[1] = "trips"
    BY DEF ScopeOf
  <2>5. k[1] = "trips" => (InScope(k, ledger[k], range)
                            <=> ledger[k].worker # None /\ In(range, ledger[k].day))
    BY DEF InScope
  <2> QED
    BY <2>3, <2>4, <2>5
<1>2. w # None
  BY CutoverDocuments
<1> QED
  BY <1>1, <1>2 DEF RowsFor

\* Rows and reports pay plain trips alike.
LEMMA PlainTotal ==
    ASSUME LedgerInv, NEW range, Ready(ledger, range), NEW w \in Workers,
           \A t \in TripsOf(w, range) : PlainTrip(source.trips[t])
    PROVE  /\ Over(RowAmounts, RowsFor(range, w, TypeOf(w), "trips", "commission"))
                = SumOver([t \in TripsOf(w, range) |-> ReportedCommission(source.trips[t])])
           /\ Over(RowAmounts, RowsFor(range, w, TypeOf(w), "trips", "petrol"))
                = SumOver([t \in TripsOf(w, range) |->
                              ReportedPetrol(source.trips[t], source.office.rates)])
           /\ IsFiniteSet(TripsOf(w, range))
           /\ \A t \in TripsOf(w, range) :
                /\ ReportedCommission(source.trips[t]) \in Nat
                /\ ReportedPetrol(source.trips[t], source.office.rates) \in Nat
<1> DEFINE T == TripsOf(w, range)
           commission == [t \in T |-> ReportedCommission(source.trips[t])]
           petrol == [t \in T |-> ReportedPetrol(source.trips[t], source.office.rates)]
           C == TripAmounts(range, "commission")
           P == TripAmounts(range, "petrol")
<1>1. LedgerOK /\ DocumentsOK /\ MissingTrips(range) = {}
  BY DEF LedgerInv, Ready
<1>2. T \subseteq LoadTripSources(range) /\ IsFiniteSet(T)
  BY LoadedFinite, FS_Subset DEF TripsOf
<1>3. ASSUME NEW t \in T
      PROVE  /\ C[t] = ReportedCommission(source.trips[t]) /\ C[t] \in Nat
             /\ P[t] = ReportedPetrol(source.trips[t], source.office.rates) /\ P[t] \in Nat
  <2>1. C[t] = TripPays(t, range).commission /\ P[t] = TripPays(t, range).petrol
    BY <1>2 DEF TripAmounts
  <2>2. TripPays(t, range).commission \in Nat /\ TripPays(t, range).petrol \in Nat
    BY <1>1, ReadyTrips
  <2>3. /\ TripPays(t, range).commission = ReportedCommission(source.trips[t])
        /\ TripPays(t, range).petrol = ReportedPetrol(source.trips[t], source.office.rates)
    BY <1>1, PlainPays
  <2> QED
    BY <2>1, <2>2, <2>3
<1>4. /\ Over(RowAmounts, RowsFor(range, w, TypeOf(w), "trips", "commission")) = Over(C, T)
      /\ Over(RowAmounts, RowsFor(range, w, TypeOf(w), "trips", "petrol")) = Over(P, T)
  <2>1. ASSUME NEW c \in {"commission", "petrol"}
        PROVE  Over(RowAmounts, RowsFor(range, w, TypeOf(w), "trips", c)) = Over(TripAmounts(range, c), T)
    <3>1. Over(RowAmounts, RowsFor(range, w, TypeOf(w), "trips", c))
            = TotalOf(ExpectedAmounts(range), <<w, TypeOf(w), "trips", c>>)
      BY <1>1, ReadyTotals
    <3>2. TotalOf(ExpectedAmounts(range), <<w, TypeOf(w), "trips", c>>) = Over(TripAmounts(range, c), T)
      BY <1>1, TripTotal
    <3> QED
      BY <3>1, <3>2
  <2> QED
    BY <2>1
<1>5. /\ IntsOn(C, T) /\ IntsOn(P, T) /\ DOMAIN commission = T /\ DOMAIN petrol = T
      /\ \A t \in T : C[t] = commission[t] /\ P[t] = petrol[t]
  BY <1>3 DEF IntsOn
<1> HIDE DEF commission, petrol, C, P
<1>6. Over(C, T) = SumOver(commission)
  BY <1>2, <1>5, OverSame, SumIsOver
<1>7. Over(P, T) = SumOver(petrol)
  BY <1>2, <1>5, OverSame, SumIsOver
<1>8. \A t \in T : /\ ReportedCommission(source.trips[t]) \in Nat
                   /\ ReportedPetrol(source.trips[t], source.office.rates) \in Nat
  BY <1>3
<1> HIDE DEF T
<1> QED
  BY <1>2, <1>4, <1>6, <1>7, <1>8 DEF commission, petrol, T

\* Only a promotion verifies a range.
LEMMA VerifiedByPromotion ==
    ASSUME LedgerInv, [Next]_vars, NEW range \in Ranges, verified # range, verified' = range
    PROVE  /\ Ready(ledger, range) /\ mode = "shadow" /\ mode' = "authoritative"
           /\ source' = source /\ ledger' = ledger
<1>1. range # None
  BY CutoverDocuments
<1>2. ~UNCHANGED verified /\ verified' # None
  BY <1>1
<1>3. ~ \/ \E o \in Orders, document \in OrderDocs : EditOrder(o, document)
        \/ \E t \in Trips, document \in TripDocs : EditTrip(t, document)
        \/ \E b \in Beauticians, document \in BeauticianProfiles : EditProfile(b, document)
        \/ \E r \in Riders, document \in RiderProfiles : EditProfile(r, document)
        \/ \E document \in Offices : EditOffice(document)
        \/ \E days \in Boards : EditBoard(days)
  BY <1>2 DEF EditOrder, EditTrip, EditProfile, EditOffice, EditBoard
<1>4. ~(\E job \in Jobs : Rebuild(job)) /\ ~(\E k \in DOMAIN ledger : Settle(k))
  BY <1>2 DEF Rebuild, Settle
<1>5. ~RollBack /\ ~KeepMode /\ ~UNCHANGED vars
  BY <1>2 DEF RollBack, KeepMode, vars
<1>6. PICK other \in Ranges : Promote(other)
  BY <1>3, <1>4, <1>5 DEF Next
<1> QED
  BY <1>6 DEF Promote

\* In a range that is ready, the petrol of plain trips is what it was.
LEMMA PetrolKept ==
    ASSUME LedgerInv, NEW range, Ready(ledger, range), NEW w \in Workers,
           \A t \in TripsOf(w, range) : PlainTrip(source.trips[t])
    PROVE  /\ PetrolOfRows(PetrolRowsOf(w, range)).amount = PetrolOfTrips(TripsOf(w, range)).amount
           /\ PetrolOfRows(PetrolRowsOf(w, range)).amount > 0 => PetrolRowsOf(w, range) # {}
           /\ {k[2] : k \in PetrolRowsOf(w, range)} = TripsOf(w, range) =>
                PetrolOfRows(PetrolRowsOf(w, range)) = PetrolOfTrips(TripsOf(w, range))
<1> DEFINE R == PetrolRowsOf(w, range)
           T == TripsOf(w, range)
           far(t) == ReportedDistance(source.trips[t])
           rows == [k \in R |-> IF source.trips[k[2]] = None THEN 0 ELSE far(k[2])]
           trips == [t \in T |-> far(t)]
<1>1. LedgerOK /\ DocumentsOK /\ MissingTrips(range) = {}
  BY DEF LedgerInv, Ready
<1>2. R = RowsFor(range, w, TypeOf(w), "trips", "petrol")
  BY <1>1, TripRows DEF PetrolRowsOf
<1>3. R \in SUBSET DOMAIN ledger
  BY DEF PetrolRowsOf
<1>4. PetrolOfRows(R).amount = Over(RowAmounts, R) /\ IsFiniteSet(R)
  <2>1. IsFiniteSet(R) /\ SumOver([k \in R |-> ledger[k].amount]) = Over(RowAmounts, R)
    BY <1>1, <1>3, RowSum
  <2> QED
    BY <2>1 DEF PetrolOfRows
<1>5. PetrolOfTrips(T).amount = Over(RowAmounts, R) /\ IsFiniteSet(T)
  <2>1. /\ Over(RowAmounts, RowsFor(range, w, TypeOf(w), "trips", "petrol"))
                = SumOver([t \in T |-> ReportedPetrol(source.trips[t], source.office.rates)])
        /\ IsFiniteSet(T)
    BY PlainTotal
  <2> QED
    BY <1>2, <2>1 DEF PetrolOfTrips
<1>6. ASSUME Over(RowAmounts, R) > 0 PROVE R # {}
  BY <1>6, OverEmpty
<1>7. ASSUME {k[2] : k \in R} = T PROVE PetrolOfRows(R).distance = PetrolOfTrips(T).distance
  <2> DEFINE h == [k \in R |-> k[2]]
  <2>1. \A t \in T : source.trips[t] \in TripDoc /\ source.trips[t] # None
    BY <1>1, ReadyTrips DEF TripsOf, LoadTripSources
  <2>2. \A t \in T : trips[t] \in Int
    BY <2>1, ReportedInt
  <2>3. \A k \in R : h[k] \in T /\ rows[k] = trips[h[k]]
    BY <1>7, <2>1
  <2>4. \A k, l \in R : h[k] = h[l] => k = l
    <3>1. \A k \in R : k = <<"trips", k[2], "petrol">>
      <4>1. ASSUME NEW k \in R PROVE k = <<"trips", k[2], "petrol">>
        <5>1. RowOK(k, ledger[k]) /\ k[1] = "trips" /\ ledger[k].component = "petrol"
          BY <1>1 DEF LedgerOK, PetrolRowsOf
        <5> QED
          BY <5>1 DEF RowOK, OrderRow, TargetRow, TripRow, AwardRow
      <4> QED
        BY <4>1
    <3> HIDE DEF R
    <3>2. \A k \in R : h[k] = k[2]
      OBVIOUS
    <3> HIDE DEF h
    <3> QED
      BY <3>1, <3>2
  <2>5. IntsOn(rows, R)
    BY <2>2, <2>3 DEF IntsOn
  <2>6. T = {h[k] : k \in R}
    BY <1>7
  <2>7. DOMAIN rows = R /\ DOMAIN trips = T
    OBVIOUS
  <2>8. PetrolOfRows(R).distance = SumOver(rows) /\ PetrolOfTrips(T).distance = SumOver(trips)
    BY DEF PetrolOfRows, PetrolOfTrips
  <2> HIDE DEF R, T, rows, trips, h
  <2>9. Over(rows, R) = Over(trips, T)
    BY <1>4, <1>5, <2>3, <2>4, <2>5, <2>6, OverRenamed
  <2> QED
    BY <2>7, <2>8, <2>9, SumIsOver
<1>8. /\ PetrolOfRows(R) = [distance |-> PetrolOfRows(R).distance, amount |-> PetrolOfRows(R).amount]
      /\ PetrolOfTrips(T) = [distance |-> PetrolOfTrips(T).distance, amount |-> PetrolOfTrips(T).amount]
  BY DEF PetrolOfRows, PetrolOfTrips
<1> HIDE DEF R, T
<1>9. {k[2] : k \in R} = T => PetrolOfRows(R) = PetrolOfTrips(T)
  BY <1>4, <1>5, <1>7, <1>8
<1> QED
  BY <1>4, <1>5, <1>6, <1>9 DEF R, T

\* Promotion keeps the petrol report of the verified range.
THEOREM PetrolKeeps == Spec => CutoverKeepsPetrol
<1>1. ASSUME LedgerInv, [Next]_vars,
             NEW range \in Ranges, verified # range, verified' = range,
             NEW w \in DOMAIN PetrolReport(range),
             PetrolReport(range)[w].amount > 0,
             \A t \in TripsOf(w, range) : PlainTrip(source.trips[t])
      PROVE  /\ w \in DOMAIN PetrolReport(range)'
             /\ PetrolReport(range)'[w].amount = PetrolReport(range)[w].amount
             /\ {k[2] : k \in PetrolRowsOf(w, range)} = TripsOf(w, range) =>
                  PetrolReport(range)'[w] = PetrolReport(range)[w]
  <2> DEFINE R == PetrolRowsOf(w, range)
             T == TripsOf(w, range)
  <2>1. /\ Ready(ledger, range) /\ mode = "shadow" /\ mode' = "authoritative"
        /\ source' = source /\ ledger' = ledger
    BY <1>1, VerifiedByPromotion
  <2>2. w \in Workers /\ PetrolReport(range)[w] = PetrolOfTrips(T)
    BY <1>1, <2>1 DEF PetrolReport
  <2>3. PetrolReport(range)'
            = [v \in {v \in Workers : PetrolRowsOf(v, range) # {}} |-> PetrolOfRows(PetrolRowsOf(v, range))]
    BY <2>1 DEF PetrolReport, PetrolRowsOf, PetrolOfRows
  <2>4. /\ PetrolOfRows(R).amount = PetrolOfTrips(T).amount
        /\ PetrolOfRows(R).amount > 0 => R # {}
        /\ {k[2] : k \in R} = T => PetrolOfRows(R) = PetrolOfTrips(T)
    BY <1>1, <2>1, <2>2, PetrolKept
  <2>5. R # {}
    BY <1>1, <2>2, <2>4
  <2>6. w \in DOMAIN PetrolReport(range)' /\ PetrolReport(range)'[w] = PetrolOfRows(R)
    BY <2>2, <2>3, <2>5
  <2> QED
    BY <2>2, <2>4, <2>6
<1>2. LedgerInv /\ [Next]_vars =>
        [\A range \in Ranges :
            verified # range /\ verified' = range =>
                \A w \in DOMAIN PetrolReport(range) :
                    /\ PetrolReport(range)[w].amount > 0
                    /\ \A t \in TripsOf(w, range) : PlainTrip(source.trips[t])
                    => /\ w \in DOMAIN PetrolReport(range)'
                       /\ PetrolReport(range)'[w].amount = PetrolReport(range)[w].amount
                       /\ {k[2] : k \in PetrolRowsOf(w, range)} = TripsOf(w, range) =>
                            PetrolReport(range)'[w] = PetrolReport(range)[w]]_vars
  BY <1>1
<1> QED
  BY <1>2, LedgerTyped, PTL DEF Spec, CutoverKeepsPetrol

-----------------------------------------------------------------------------
(* The rider report.                                                       *)

RiderAwardOf(w, range) == {a \in RiderAwards(range) : a.worker = w}

LEMMA RiderBonusIs ==
    ASSUME DocumentsOK, NEW range, NEW w
    PROVE  RiderBonus(w, range) = SumOver([a \in RiderAwardOf(w, range) |-> a.bonus])
<1> DEFINE g == GenderGroup(source.profiles[w].gender)
           mine == {a \in RiderAwardsOf(range, g) : a.worker = w}
<1>1. RiderBonus(w, range) = SumOver([a \in mine |-> a.bonus])
  BY DEF RiderBonus, RiderAwardsOf, LoadRiderLeaderboardSources
<1>2. g \in Genders
  BY DEF GenderGroup, Genders
<1>3. RiderAwardsOf(range, g) \subseteq RiderAwards(range)
  BY <1>2 DEF RiderAwards, RiderAwardsOf
<1>4. \A a \in RiderAwards(range) : a.worker = w => a \in RiderAwardsOf(range, g)
  BY RiderAwardFacts
<1> HIDE DEF g
<1>5. mine = RiderAwardOf(w, range)
  BY <1>3, <1>4 DEF RiderAwardOf
<1> QED
  BY <1>1, <1>5

LEMMA RiderAwardTotal ==
    ASSUME DocumentsOK, NEW range \in Ranges, NEW w \in Workers
    PROVE  /\ TotalOf(ExpectedAmounts(range), <<w, TypeOf(w), "rider_leaderboard", "leaderboard_bonus">>)
                = RiderBonus(w, range)
           /\ RiderBonus(w, range) \in Nat
           /\ RiderBonus(w, range) # 0 => TripsOf(w, range) # {}
<1> DEFINE S == RiderAwardOf(w, range)
           X == ExpectedAmounts(range)
           key == <<w, TypeOf(w), "rider_leaderboard", "leaderboard_bonus">>
           item == [a \in S |-> RiderItem(a, range)]
           f == [a \in S |-> a.bonus]
<1>1. S \subseteq RiderAwards(range) /\ IsFiniteSet(S)
  BY AwardsFinite, FS_Subset DEF RiderAwardOf
<1>2. \A a \in S : /\ a.worker = w /\ a.bonus \in Nat /\ f[a] = a.bonus
                   /\ WorkerType(a.worker, range) = TypeOf(w) /\ TripsOf(w, range) # {}
  BY <1>1, RiderAwardOK DEF RiderAwardOf
<1>3. ASSUME NEW a \in S
      PROVE  item[a] \in X /\ item[a][2].key = key /\ item[a][2].amount = f[a]
  <2>1. item[a] = RiderItem(a, range)
    OBVIOUS
  <2>2. RiderItem(a, range) \in X
    BY <1>1, ExpectedAwardsAre DEF ExpectedAmounts
  <2>3. RiderItem(a, range)[2].key = <<a.worker, WorkerType(a.worker, range), "rider_leaderboard", "leaderboard_bonus">>
    BY DEF RiderItem, Amount
  <2>4. RiderItem(a, range)[2].amount = a.bonus
    BY DEF RiderItem, Amount
  <2> QED
    BY <1>2, <2>1, <2>2, <2>3, <2>4
<1>4. ASSUME NEW a \in S, NEW c \in S, item[a] = item[c] PROVE a = c
  BY <1>1, <1>2, RiderAwardFacts DEF OneEach
<1>5. ASSUME NEW x \in X, x[2].key = key PROVE \E a \in S : x = item[a]
  <2>1. PICK a \in RiderAwards(range) : x = RiderItem(a, range)
    BY <1>5, ExpectedByScope
  <2>2. RiderItem(a, range)[2].key = <<a.worker, WorkerType(a.worker, range), "rider_leaderboard", "leaderboard_bonus">>
    BY DEF RiderItem, Amount
  <2>3. a.worker = w
    BY <1>5, <2>1, <2>2
  <2>4. a \in S
    BY <2>3 DEF RiderAwardOf
  <2> QED
    BY <2>1, <2>4
<1>6. item = [a \in S |-> item[a]] /\ DOMAIN f = S
  OBVIOUS
<1>7. RiderBonus(w, range) = SumOver(f)
  BY RiderBonusIs
<1>8. IntsOn(f, S) /\ \A a \in S : f[a] \in Nat
  BY <1>2 DEF IntsOn
<1> HIDE DEF S, X, key, item, f
<1>9. TotalOf(X, key) = Over(f, S)
  BY <1>1, <1>3, <1>4, <1>5, <1>6, <1>8, TotalRenamed
<1>10. Over(f, S) \in Nat /\ (S = {} => Over(f, S) = 0)
  BY <1>1, <1>8, OverNat, OverEmpty
<1>11. RiderBonus(w, range) = Over(f, S)
  BY <1>6, <1>7, SumIsOver
<1> QED
  BY <1>2, <1>9, <1>10, <1>11 DEF X, key

\* The rows of the report, by what they are for.
LEMMA RiderRowsParts ==
    ASSUME LedgerOK, NEW range \in Ranges, NEW w \in Workers
    PROVE  LET C == RowsFor(range, w, TypeOf(w), "trips", "commission")
               P == RowsFor(range, w, TypeOf(w), "trips", "petrol")
               B == RowsFor(range, w, TypeOf(w), "rider_leaderboard", "leaderboard_bonus")
           IN  /\ RiderRowsOf(w, range) = C \cup P \cup B
               /\ C \cap P = {} /\ (C \cup P) \cap B = {}
<1> DEFINE C == RowsFor(range, w, TypeOf(w), "trips", "commission")
           P == RowsFor(range, w, TypeOf(w), "trips", "petrol")
           B == RowsFor(range, w, TypeOf(w), "rider_leaderboard", "leaderboard_bonus")
           trips == {k \in DOMAIN ledger :
                        k[1] = "trips" /\ ledger[k].worker = w /\ In(range, ledger[k].day)}
           awards == {k \in DOMAIN ledger :
                        /\ k[1] = "leaderboards" /\ k[2] = "rider"
                        /\ k[3] = range.from /\ k[4] = range.to
                        /\ ledger[k].worker = w /\ In(range, ledger[k].day)}
<1>1. RiderRowsOf(w, range) = trips \cup awards
  BY DEF RiderRowsOf
<1>2. \A k \in trips : ledger[k].component \in {"commission", "petrol"}
  <2>1. ASSUME NEW k \in trips PROVE ledger[k].component \in {"commission", "petrol"}
    <3>1. RowOK(k, ledger[k]) /\ k[1] = "trips"
      BY DEF LedgerOK
    <3> QED
      BY <3>1 DEF RowOK, OrderRow, TargetRow, TripRow, AwardRow
  <2> QED
    BY <2>1
<1>3. C = {k \in trips : ledger[k].component = "commission"} /\ P = {k \in trips : ledger[k].component = "petrol"}
  BY TripRows
<1>4. trips = C \cup P /\ C \cap P = {}
  BY <1>2, <1>3
<1>5. w # None /\ range.from <= range.to /\ range.to \in Int /\ range.from \in Int
  BY CutoverDocuments, CutoverAssumption
<1>6. ASSUME NEW k \in DOMAIN ledger, k[1] = "leaderboards"
      PROVE  /\ ledger[k].day = k[4] /\ ledger[k].type = TypeOf(ledger[k].worker)
             /\ ledger[k].component = "leaderboard_bonus"
  <2>1. RowOK(k, ledger[k])
    BY DEF LedgerOK
  <2>2. AwardRow(k, ledger[k])
    BY <1>6, <2>1 DEF RowOK, OrderRow, TargetRow, TripRow
  <2> QED
    BY <2>2 DEF AwardRow
<1>7. ASSUME NEW k \in awards PROVE k \in B
  <2>1. ScopeOf(k) = "rider_leaderboard" /\ InScope(k, ledger[k], range)
    BY <1>5 DEF ScopeOf, InScope
  <2> QED
    BY <1>6, <2>1 DEF RowsFor
<1>8. ASSUME NEW k \in B PROVE k \in awards
  <2>1. /\ k \in DOMAIN ledger /\ ScopeOf(k) = "rider_leaderboard" /\ InScope(k, ledger[k], range)
        /\ ledger[k].worker = w /\ ledger[k].component = "leaderboard_bonus"
    BY DEF RowsFor
  <2>2. RowOK(k, ledger[k])
    BY <2>1 DEF LedgerOK
  <2>3. k[1] = "leaderboards"
    BY <2>1, <2>2 DEF RowOK, OrderRow, TargetRow, TripRow, AwardRow, OrderComponents
  <2>4. k[2] = "rider"
    BY <2>1, <2>3 DEF ScopeOf
  <2>5. k[3] = range.from /\ k[4] = range.to
    BY <2>1, <2>3 DEF InScope
  <2>6. In(range, ledger[k].day)
    BY <1>5, <1>6, <2>1, <2>3, <2>5 DEF In
  <2> QED
    BY <2>1, <2>3, <2>4, <2>5, <2>6
<1>9. awards = B
  BY <1>7, <1>8
<1>10. trips \cap awards = {}
  OBVIOUS
<1> HIDE DEF C, P, B, trips, awards
<1>11. RiderRowsOf(w, range) = C \cup P \cup B /\ C \cap P = {} /\ (C \cup P) \cap B = {}
  BY <1>1, <1>4, <1>9, <1>10
<1> QED
  BY <1>11 DEF C, P, B

\* What a worker is paid by the ledger in a range that is ready.
LEMMA LedgerPayableIs ==
    ASSUME LedgerInv, NEW range \in Ranges, Ready(ledger, range), NEW w \in Workers
    PROVE  /\ LedgerPayable(w, range)
                = Over(RowAmounts, RowsFor(range, w, TypeOf(w), "trips", "commission"))
                  + Over(RowAmounts, RowsFor(range, w, TypeOf(w), "trips", "petrol"))
                  + RiderBonus(w, range)
           /\ RiderRowsOf(w, range) # {} => TripsOf(w, range) # {}
<1> DEFINE C == RowsFor(range, w, TypeOf(w), "trips", "commission")
           P == RowsFor(range, w, TypeOf(w), "trips", "petrol")
           B == RowsFor(range, w, TypeOf(w), "rider_leaderboard", "leaderboard_bonus")
           T == TripsOf(w, range)
<1>1. LedgerOK /\ DocumentsOK /\ MissingTrips(range) = {}
  BY DEF LedgerInv, Ready
<1>2. C \in SUBSET DOMAIN ledger /\ P \in SUBSET DOMAIN ledger /\ B \in SUBSET DOMAIN ledger
  BY DEF RowsFor
<1>3. RiderRowsOf(w, range) = C \cup P \cup B /\ C \cap P = {} /\ (C \cup P) \cap B = {}
  BY <1>1, RiderRowsParts
<1>4. Over(RowAmounts, B) = RiderBonus(w, range)
  <2>1. Over(RowAmounts, B)
            = TotalOf(ExpectedAmounts(range), <<w, TypeOf(w), "rider_leaderboard", "leaderboard_bonus">>)
    BY <1>1, ReadyTotals
  <2> QED
    BY <1>1, <2>1, RiderAwardTotal
<1>5. /\ Over(RowAmounts, C) = Over(TripAmounts(range, "commission"), T)
      /\ Over(RowAmounts, P) = Over(TripAmounts(range, "petrol"), T)
  <2>1. ASSUME NEW c \in {"commission", "petrol"}
        PROVE  Over(RowAmounts, RowsFor(range, w, TypeOf(w), "trips", c)) = Over(TripAmounts(range, c), T)
    <3>1. Over(RowAmounts, RowsFor(range, w, TypeOf(w), "trips", c))
            = TotalOf(ExpectedAmounts(range), <<w, TypeOf(w), "trips", c>>)
      BY <1>1, ReadyTotals
    <3>2. TotalOf(ExpectedAmounts(range), <<w, TypeOf(w), "trips", c>>) = Over(TripAmounts(range, c), T)
      BY <1>1, TripTotal
    <3> QED
      BY <3>1, <3>2
  <2> QED
    BY <2>1
<1> HIDE DEF C, P, B, T
<1>6. ASSUME NEW Q \in SUBSET DOMAIN ledger
      PROVE  /\ IsFiniteSet(Q) /\ IntsOn(RowAmounts, Q) /\ Over(RowAmounts, Q) \in Int
             /\ Q # {} => Over(RowAmounts, Q) > 0
  <2>1. IsFiniteSet(Q) /\ \A k \in Q : RowAmounts[k] \in Nat \ {0}
    BY <1>1, RowSum
  <2>2. IntsOn(RowAmounts, Q)
    BY <2>1 DEF IntsOn
  <2>3. Over(RowAmounts, Q) \in Nat /\ \A k \in Q : RowAmounts[k] <= Over(RowAmounts, Q)
    BY <2>1, OverNat
  <2> QED
    BY <2>1, <2>2, <2>3
<1>7. C \cup P \in SUBSET DOMAIN ledger /\ C \cup P \cup B \in SUBSET DOMAIN ledger
  BY <1>2
<1>8. Over(RowAmounts, C \cup P) = Over(RowAmounts, C) + Over(RowAmounts, P)
  BY <1>2, <1>3, <1>6, <1>7, OverUnion
<1>9. Over(RowAmounts, (C \cup P) \cup B) = Over(RowAmounts, C \cup P) + Over(RowAmounts, B)
  BY <1>2, <1>3, <1>6, <1>7, OverUnion
<1>10. LedgerPayable(w, range) = Over(RowAmounts, RiderRowsOf(w, range))
  <2> DEFINE R == RiderRowsOf(w, range)
  <2>1. R \in SUBSET DOMAIN ledger
    BY DEF RiderRowsOf
  <2>2. LedgerPayable(w, range) = SumOver([k \in R |-> ledger[k].amount])
    BY DEF LedgerPayable
  <2> HIDE DEF R
  <2>3. LedgerPayable(w, range) = Over(RowAmounts, R)
    BY <1>1, <2>1, <2>2, RowSum
  <2> QED
    BY <2>3 DEF R
<1>11. ASSUME RiderRowsOf(w, range) # {} PROVE T # {}
  <2>1. CASE C # {} \/ P # {}
    <3>1. Over(RowAmounts, C) > 0 \/ Over(RowAmounts, P) > 0
      BY <1>2, <1>6, <2>1
    <3>2. T = {} => /\ Over(TripAmounts(range, "commission"), T) = 0
                    /\ Over(TripAmounts(range, "petrol"), T) = 0
      BY OverEmpty
    <3> QED
      BY <1>5, <3>1, <3>2
  <2>2. CASE B # {}
    <3>1. Over(RowAmounts, B) > 0
      BY <1>2, <1>6, <2>2
    <3>2. RiderBonus(w, range) # 0 => TripsOf(w, range) # {}
      BY <1>1, RiderAwardTotal
    <3>3. RiderBonus(w, range) # 0
      BY <1>4, <3>1
    <3> QED
      BY <3>2, <3>3 DEF T
  <2> QED
    BY <1>3, <1>11, <2>1, <2>2
<1> QED
  BY <1>3, <1>4, <1>8, <1>9, <1>10, <1>11 DEF C, P, T

\* Promotion keeps the rider report of the verified range.
THEOREM PayablesKeep == Spec => CutoverKeepsPayables
<1>1. ASSUME LedgerInv, [Next]_vars, NEW range \in Ranges, verified # range, verified' = range
      PROVE  /\ DOMAIN RiderReport(range)' = DOMAIN RiderReport(range)
             /\ \A w \in DOMAIN RiderReport(range) :
                 (\A t \in TripsOf(w, range) : PlainTrip(source.trips[t])) =>
                     RiderReport(range)'[w] = RiderReport(range)[w]
  <2>1. /\ Ready(ledger, range) /\ mode = "shadow" /\ mode' = "authoritative"
        /\ source' = source /\ ledger' = ledger
    BY <1>1, VerifiedByPromotion
  <2>2. RiderReport(range) = [w \in {w \in Workers : TripsOf(w, range) # {}} |-> ShadowPayable(w, range)]
    BY <2>1 DEF RiderReport
  <2> DEFINE listed == {w \in Workers : TripsOf(w, range) # {} \/ RiderRowsOf(w, range) # {}}
  <2>3. RiderReport(range)' = [w \in listed |-> LedgerPayable(w, range)]
    <3>1. \A w : TripsOf(w, range)' = TripsOf(w, range)
      BY <2>1 DEF TripsOf, LoadTripSources
    <3>2. \A w : /\ RiderRowsOf(w, range)' = RiderRowsOf(w, range)
                 /\ LedgerPayable(w, range)' = LedgerPayable(w, range)
      BY <2>1 DEF RiderRowsOf, LedgerPayable
    <3> QED
      BY <2>1, <3>1, <3>2 DEF RiderReport
  <2>4. listed = {w \in Workers : TripsOf(w, range) # {}}
    BY <1>1, <2>1, LedgerPayableIs
  <2>5. ASSUME NEW w \in Workers, \A t \in TripsOf(w, range) : PlainTrip(source.trips[t])
        PROVE  LedgerPayable(w, range) = ShadowPayable(w, range)
    <3> DEFINE T == TripsOf(w, range)
               commission == [t \in T |-> ReportedCommission(source.trips[t])]
               petrol == [t \in T |-> ReportedPetrol(source.trips[t], source.office.rates)]
               both == [t \in T |-> ReportedCommission(source.trips[t])
                                    + ReportedPetrol(source.trips[t], source.office.rates)]
               bonus == RiderBonus(w, range)
    <3>1. ShadowPayable(w, range) = SumOver(both) + bonus
      BY DEF ShadowPayable
    <3>2. /\ Over(RowAmounts, RowsFor(range, w, TypeOf(w), "trips", "commission")) = SumOver(commission)
          /\ Over(RowAmounts, RowsFor(range, w, TypeOf(w), "trips", "petrol")) = SumOver(petrol)
          /\ IsFiniteSet(T)
          /\ \A t \in T : /\ ReportedCommission(source.trips[t]) \in Nat
                          /\ ReportedPetrol(source.trips[t], source.office.rates) \in Nat
      BY <1>1, <2>1, <2>5, PlainTotal
    <3>3. LedgerPayable(w, range)
            = Over(RowAmounts, RowsFor(range, w, TypeOf(w), "trips", "commission"))
              + Over(RowAmounts, RowsFor(range, w, TypeOf(w), "trips", "petrol"))
              + bonus
      BY <1>1, <2>1, LedgerPayableIs
    <3>4. LedgerPayable(w, range) = SumOver(commission) + SumOver(petrol) + bonus
      BY <3>2, <3>3
    <3>5. /\ DOMAIN commission = T /\ DOMAIN petrol = T /\ DOMAIN both = T
          /\ IntsOn(commission, T) /\ IntsOn(petrol, T)
          /\ \A t \in T : both[t] = commission[t] + petrol[t]
      BY <3>2 DEF IntsOn
    <3> HIDE DEF T, commission, petrol, both, bonus
    <3>6. Over(both, T) = Over(commission, T) + Over(petrol, T)
      BY <3>2, <3>5, OverAdd
    <3>7. SumOver(both) = SumOver(commission) + SumOver(petrol)
      BY <3>5, <3>6, SumIsOver
    <3> QED
      BY <3>1, <3>4, <3>7
  <2>6. DOMAIN RiderReport(range)' = DOMAIN RiderReport(range)
    BY <2>2, <2>3, <2>4
  <2>7. ASSUME NEW w \in DOMAIN RiderReport(range), \A t \in TripsOf(w, range) : PlainTrip(source.trips[t])
        PROVE  RiderReport(range)'[w] = RiderReport(range)[w]
    <3>1. w \in listed /\ w \in Workers
      BY <2>2, <2>4, <2>7
    <3>2. LedgerPayable(w, range) = ShadowPayable(w, range)
      BY <2>5, <2>7, <3>1
    <3> QED
      BY <2>2, <2>3, <2>4, <3>1, <3>2
  <2> QED
    BY <2>6, <2>7
<1>2. LedgerInv /\ [Next]_vars =>
        [\A range \in Ranges :
            verified # range /\ verified' = range =>
                /\ DOMAIN RiderReport(range)' = DOMAIN RiderReport(range)
                /\ \A w \in DOMAIN RiderReport(range) :
                    (\A t \in TripsOf(w, range) : PlainTrip(source.trips[t])) =>
                        RiderReport(range)'[w] = RiderReport(range)[w]]_vars
  BY <1>1
<1> QED
  BY <1>2, LedgerTyped, PTL DEF Spec, CutoverKeepsPayables

-----------------------------------------------------------------------------
(* Days and months.                                                        *)

LEMMA Cancel ==
    ASSUME NEW a \in Int, NEW b \in Int, NEW d \in Nat \ {0}, a * d = b * d
    PROVE  a = b
<1>1. ASSUME NEW x \in Int, NEW y \in Int, x < y PROVE x * d < y * d
  <2>1. y - x \in Nat /\ y - x >= 1
    BY <1>1
  <2>2. (y - x) * d >= d
    BY <2>1
  <2>3. y * d = x * d + (y - x) * d
    OBVIOUS
  <2>4. x * d \in Int /\ (y - x) * d \in Int /\ d > 0
    BY <2>1
  <2> QED
    BY <2>2, <2>3, <2>4
<1>2. a * d \in Int /\ b * d \in Int
  OBVIOUS
<1> QED
  BY <1>1, <1>2

LEMMA MonthOfDay ==
    ASSUME NEW day \in Int
    PROVE  Month(day) \in Int /\ In(WholeMonth(day), day)
<1>1. DaysPerMonth \in Nat \ {0}
  BY CutoverAssumption
<1> DEFINE d == DaysPerMonth
           q == (day - 1) \div d
           r == (day - 1) % d
<1>2. q \in Int /\ r \in 0 .. d - 1 /\ day - 1 = q * d + r
  BY <1>1
<1>3. (q + 1) * d = q * d + d /\ q * d \in Int
  BY <1>1, <1>2
<1> HIDE DEF q, r
<1>4. q * d + 1 <= day /\ day <= (q + 1) * d
  BY <1>1, <1>2, <1>3
<1>5. Month(day) = q
  BY DEF Month, q
<1> QED
  BY <1>2, <1>4, <1>5 DEF WholeMonth, In

\* The days between two days of a month.
LEMMA MonthBetween ==
    ASSUME NEW a \in Int, NEW b \in Int, NEW day \in Int, a <= day, day <= b, Month(a) = Month(b)
    PROVE  Month(day) = Month(b)
<1>1. DaysPerMonth \in Nat \ {0}
  BY CutoverAssumption
<1> DEFINE d == DaysPerMonth
           m == Month(b)
           n == Month(day)
<1>2. m \in Int /\ n \in Int
  BY MonthOfDay
<1>3. m * d + 1 <= a /\ b <= (m + 1) * d
  BY MonthOfDay DEF WholeMonth, In
<1>4. n * d + 1 <= day /\ day <= (n + 1) * d
  BY MonthOfDay DEF WholeMonth, In
<1> HIDE DEF d, m, n
<1>5. n * d < (m + 1) * d /\ m * d < (n + 1) * d
  <2>1. n * d \in Int /\ m * d \in Int /\ (m + 1) * d \in Int /\ (n + 1) * d \in Int
    BY <1>1, <1>2 DEF d
  <2> QED
    BY <1>3, <1>4, <2>1
<1>6. ASSUME NEW x \in Int, NEW y \in Int, x * d < y * d PROVE x < y
  <2> SUFFICES ASSUME y <= x PROVE FALSE
    OBVIOUS
  <2>1. x - y \in Nat /\ d \in Nat
    BY <1>1 DEF d
  <2>2. (x - y) * d >= 0
    BY <2>1
  <2>3. x * d = y * d + (x - y) * d
    BY <2>1
  <2>4. y * d \in Int /\ (x - y) * d \in Int /\ x * d \in Int
    BY <2>1
  <2> QED
    BY <1>6, <2>2, <2>3, <2>4
<1>7. n < m + 1 /\ m < n + 1
  BY <1>2, <1>5, <1>6
<1> QED
  BY <1>2, <1>7 DEF m, n

-----------------------------------------------------------------------------
(* What is expected for a beautician.                                      *)

OrderAmounts(c) == [o \in Orders |-> OrderAmount(o, c)]

\* The orders whose amount of a component is expected.
ExpectedOrders(b, range, c) ==
    {o \in LoadOrderSources(range) :
        source.orders[o].beautician = b /\ (c = "general" => ExpectsGeneral(o))}

LEMMA ReadyOrders ==
    ASSUME DocumentsOK, NEW range, MissingOrders(range) = {}, NEW o \in LoadOrderSources(range),
           NEW c \in OrderComponents
    PROVE  /\ o \in ReconciledOrders(range) /\ o \in Orders /\ source.orders[o] # None
           /\ OrderAmount(o, c) \in Nat /\ OrderAmount(o, c) # None
<1>1. o \in Orders /\ source.orders[o] # None
  BY DEF LoadOrderSources
<1>2. /\ source.orders[o].beautician # None /\ source.orders[o].snapshot # None
      /\ OrderAmount(o, c) # None
  BY DEF MissingOrders
<1>3. OrderAmount(o, c) \in Money
  BY <1>1, OrderMoney
<1> QED
  BY <1>1, <1>2, <1>3 DEF ReconciledOrders, Money

LEMMA OrderTotal ==
    ASSUME DocumentsOK, NEW range, MissingOrders(range) = {}, NEW b \in Beauticians,
           NEW c \in OrderComponents
    PROVE  TotalOf(ExpectedAmounts(range), <<b, "beautician", "orders", c>>)
                = Over(OrderAmounts(c), ExpectedOrders(b, range, c))
<1> DEFINE S == ExpectedOrders(b, range, c)
           X == ExpectedAmounts(range)
           key == <<b, "beautician", "orders", c>>
           item == [o \in S |-> OrderItem(o, c)]
           f == OrderAmounts(c)
<1>1. S \subseteq LoadOrderSources(range) /\ IsFiniteSet(S)
  BY LoadedFinite, FS_Subset DEF ExpectedOrders
<1>2. ASSUME NEW o \in S
      PROVE  /\ o \in ReconciledOrders(range) /\ f[o] = OrderAmount(o, c) /\ f[o] \in Nat
             /\ OrderAmount(o, c) # None /\ source.orders[o].beautician = b
             /\ c = "general" => ExpectsGeneral(o)
  <2>1. /\ o \in ReconciledOrders(range) /\ o \in Orders
        /\ OrderAmount(o, c) \in Nat /\ OrderAmount(o, c) # None
    BY <1>1, ReadyOrders
  <2> QED
    BY <2>1 DEF OrderAmounts, ExpectedOrders
<1>3. ASSUME NEW o \in S
      PROVE  item[o] \in X /\ item[o][2].key = key /\ item[o][2].amount = f[o]
  <2>1. item[o] = OrderItem(o, c)
    OBVIOUS
  <2>2. OrderItem(o, c) \in X
    BY <1>2, ExpectedOrdersAre DEF ExpectedAmounts
  <2>3. /\ OrderItem(o, c)[2].key = <<source.orders[o].beautician, "beautician", "orders", c>>
        /\ OrderItem(o, c)[2].amount = OrderAmount(o, c)
    BY DEF OrderItem, Amount
  <2> QED
    BY <1>2, <2>1, <2>2, <2>3
<1>4. \A o, p \in S : item[o] = item[p] => o = p
  <2>1. \A o : OrderItem(o, c)[1] = <<o, c>>
    BY DEF OrderItem
  <2> QED
    BY <2>1
<1>5. ASSUME NEW x \in X, x[2].key = key PROVE \E o \in S : x = item[o]
  <2>1. x \in ExpectedOrderAmounts(range)
    BY <1>5, ExpectedByScope
  <2>2. PICK o \in ReconciledOrders(range), d \in OrderComponents :
            x = OrderItem(o, d) /\ (d = "general" => ExpectsGeneral(o))
    BY <2>1, ExpectedOrdersAre
  <2>3. OrderItem(o, d)[2].key = <<source.orders[o].beautician, "beautician", "orders", d>>
    BY DEF OrderItem, Amount
  <2>4. source.orders[o].beautician = b /\ d = c
    BY <1>5, <2>2, <2>3
  <2>5. o \in S
    BY <2>2, <2>4 DEF ExpectedOrders, ReconciledOrders
  <2> QED
    BY <2>2, <2>4, <2>5
<1>6. item = [o \in S |-> item[o]] /\ IntsOn(f, S)
  BY <1>2 DEF IntsOn
<1> HIDE DEF S, X, key, item, f
<1>7. TotalOf(X, key) = Over(f, S)
  BY <1>1, <1>3, <1>4, <1>5, <1>6, TotalRenamed
<1> QED
  BY <1>7 DEF S, X, key, f

LEMMA TargetTotal ==
    ASSUME DocumentsOK, NEW range, NEW b \in DOMAIN LoadWorkerTargets,
           TargetOf(b).target2 > 0, RevenueReaches(b, range.to, TargetOf(b).target2)
    PROVE  TotalOf(ExpectedAmounts(range), <<b, "beautician", "targets", "target_bonus">>)
                = source.office.bonus
<1> DEFINE S == {b}
           X == ExpectedAmounts(range)
           key == <<b, "beautician", "targets", "target_bonus">>
           bonus == source.office.bonus
           item == [c \in S |-> TargetItem(c)]
           f == [c \in S |-> bonus]
<1>1. IsFiniteSet(S) /\ bonus \in Int /\ b \in S
  <2>1. bonus \in Nat
    BY OfficeTypes
  <2>2. IsFiniteSet({b})
    BY FS_Singleton
  <2> QED
    BY <2>1, <2>2
<1>2. IntsOn(f, S) /\ f[b] = bonus
  BY <1>1 DEF IntsOn
<1>3. ASSUME NEW c \in S
      PROVE  item[c] \in X /\ item[c][2].key = key /\ item[c][2].amount = f[c]
  <2>1. TargetItem(b) \in X
    BY ExpectedTargetsAre DEF ExpectedAmounts
  <2>2. TargetItem(b)[2].key = key /\ TargetItem(b)[2].amount = bonus
    BY DEF TargetItem, Amount
  <2>3. c = b /\ item[c] = TargetItem(b) /\ f[c] = bonus
    OBVIOUS
  <2> QED
    BY <2>1, <2>2, <2>3
<1>4. \A c, d \in S : item[c] = item[d] => c = d
  OBVIOUS
<1>5. ASSUME NEW x \in X, x[2].key = key PROVE \E c \in S : x = item[c]
  <2>1. x \in ExpectedTargetAmounts(range)
    BY <1>5, ExpectedByScope
  <2>2. PICK c \in DOMAIN LoadWorkerTargets : x = TargetItem(c)
    BY <2>1, ExpectedTargetsAre
  <2>3. TargetItem(c)[2].key = <<c, "beautician", "targets", "target_bonus">>
    BY DEF TargetItem, Amount
  <2>4. c = b
    BY <1>5, <2>2, <2>3
  <2> QED
    BY <2>2, <2>4
<1>6. item = [c \in S |-> item[c]] /\ S \ {b} = {}
  OBVIOUS
<1> HIDE DEF S, X, key, item, f, bonus
<1>7. TotalOf(X, key) = Over(f, S)
  BY <1>1, <1>2, <1>3, <1>4, <1>5, <1>6, TotalRenamed
<1>8. Over(f, S) = f[b] + Over(f, S \ {b}) /\ Over(f, {}) = 0
  BY <1>1, <1>2, OverAny, OverEmpty
<1>9. Over(f, S) = bonus
  <2>1. Over(f, S \ {b}) = 0
    BY <1>6, <1>8
  <2>2. Over(f, S) = bonus + 0
    BY <1>2, <1>8, <2>1
  <2> QED
    BY <1>1, <2>2
<1> QED
  BY <1>7, <1>9 DEF X, key, bonus

BeauticianAwardOf(b, range) == {a \in BeauticianAwards(range) : a.worker = b}

LEMMA LeaderboardBonusIs ==
    ASSUME DocumentsOK, NEW range, NEW b
    PROVE  LeaderboardBonus(b, range) = SumOver([a \in BeauticianAwardOf(b, range) |-> a.bonus])
<1> DEFINE g == GenderGroup(source.profiles[b].gender)
           mine == {a \in BeauticianAwardsOf(range, g) : a.worker = b}
<1>1. LeaderboardBonus(b, range) = SumOver([a \in mine |-> a.bonus])
  BY DEF LeaderboardBonus, BeauticianAwardsOf
<1>2. g \in Genders
  BY DEF GenderGroup, Genders
<1>3. BeauticianAwardsOf(range, g) \subseteq BeauticianAwards(range)
  BY <1>2 DEF BeauticianAwards, BeauticianAwardsOf
<1>4. \A a \in BeauticianAwards(range) : a.worker = b => a \in BeauticianAwardsOf(range, g)
  BY BeauticianAwardFacts
<1> HIDE DEF g
<1>5. mine = BeauticianAwardOf(b, range)
  BY <1>3, <1>4 DEF BeauticianAwardOf
<1> QED
  BY <1>1, <1>5

LEMMA BeauticianAwardTotal ==
    ASSUME DocumentsOK, NEW range, NEW b \in Beauticians
    PROVE  TotalOf(ExpectedAmounts(range),
                   <<b, "beautician", "beautician_leaderboard", "leaderboard_bonus">>)
                = LeaderboardBonus(b, range)
<1> DEFINE S == BeauticianAwardOf(b, range)
           X == ExpectedAmounts(range)
           key == <<b, "beautician", "beautician_leaderboard", "leaderboard_bonus">>
           item == [a \in S |-> BeauticianItem(a)]
           f == [a \in S |-> a.bonus]
<1>1. S \subseteq BeauticianAwards(range) /\ IsFiniteSet(S)
  BY AwardsFinite, FS_Subset DEF BeauticianAwardOf
<1>2. \A a \in S : a.worker = b /\ a.bonus \in Nat /\ f[a] = a.bonus
  BY <1>1, BeauticianAwardOK DEF BeauticianAwardOf
<1>3. ASSUME NEW a \in S
      PROVE  item[a] \in X /\ item[a][2].key = key /\ item[a][2].amount = f[a]
  <2>1. item[a] = BeauticianItem(a)
    OBVIOUS
  <2>2. BeauticianItem(a) \in X
    BY <1>1, ExpectedAwardsAre DEF ExpectedAmounts
  <2>3. BeauticianItem(a)[2].key = <<a.worker, "beautician", "beautician_leaderboard", "leaderboard_bonus">>
    BY DEF BeauticianItem, Amount
  <2>4. BeauticianItem(a)[2].amount = a.bonus
    BY DEF BeauticianItem, Amount
  <2> QED
    BY <1>2, <2>1, <2>2, <2>3, <2>4
<1>4. ASSUME NEW a \in S, NEW c \in S, item[a] = item[c] PROVE a = c
  BY <1>1, <1>2, BeauticianAwardFacts DEF OneEach
<1>5. ASSUME NEW x \in X, x[2].key = key PROVE \E a \in S : x = item[a]
  <2>1. PICK a \in BeauticianAwards(range) : x = BeauticianItem(a)
    BY <1>5, ExpectedByScope
  <2>2. BeauticianItem(a)[2].key = <<a.worker, "beautician", "beautician_leaderboard", "leaderboard_bonus">>
    BY DEF BeauticianItem, Amount
  <2>3. a.worker = b
    BY <1>5, <2>1, <2>2
  <2>4. a \in S
    BY <2>3 DEF BeauticianAwardOf
  <2> QED
    BY <2>1, <2>4
<1>6. item = [a \in S |-> item[a]] /\ DOMAIN f = S
  OBVIOUS
<1>7. LeaderboardBonus(b, range) = SumOver(f)
  BY LeaderboardBonusIs
<1>8. IntsOn(f, S)
  BY <1>2 DEF IntsOn
<1> HIDE DEF S, X, key, item, f
<1>9. TotalOf(X, key) = Over(f, S)
  BY <1>1, <1>3, <1>4, <1>5, <1>6, <1>8, TotalRenamed
<1> QED
  BY <1>6, <1>7, <1>9, SumIsOver DEF X, key

-----------------------------------------------------------------------------
(* The beautician commission report.                                       *)

LEMMA RowKinds ==
    ASSUME LedgerOK, NEW k \in DOMAIN ledger
    PROVE  /\ k[1] \in {"orders", "targets", "trips", "leaderboards"}
           /\ k[1] = "orders" <=> ledger[k].component \in OrderComponents
           /\ k[1] = "targets" <=> ledger[k].component = "target_bonus"
           /\ k[1] = "leaderboards" <=> ledger[k].component = "leaderboard_bonus"
           /\ k[1] = "targets" => k[3] \in Int /\ ledger[k].day = (k[3] + 1) * DaysPerMonth
           /\ k[1] = "leaderboards" => k[2] \in Roles
<1> DEFINE row == ledger[k]
<1>1. RowOK(k, row)
  BY DEF LedgerOK
<1> HIDE DEF row
<1>2. CASE OrderRow(k, row)
  <2>1. k[1] = "orders" /\ row.component \in OrderComponents
    BY <1>2 DEF OrderRow
  <2> QED
    BY <2>1 DEF OrderComponents, row
<1>3. CASE TargetRow(k, row)
  <2>1. /\ k[1] = "targets" /\ row.component = "target_bonus"
        /\ k[3] \in Int /\ row.day = (k[3] + 1) * DaysPerMonth
    BY <1>3 DEF TargetRow
  <2> QED
    BY <2>1 DEF OrderComponents, row
<1>4. CASE TripRow(k, row)
  <2>1. k[1] = "trips" /\ row.component \in {"commission", "petrol"}
    BY <1>4 DEF TripRow
  <2> QED
    BY <2>1 DEF OrderComponents, row
<1>5. CASE AwardRow(k, row)
  <2>1. k[1] = "leaderboards" /\ row.component = "leaderboard_bonus" /\ k[2] \in Roles
    BY <1>5 DEF AwardRow
  <2> QED
    BY <2>1 DEF OrderComponents, row
<1> QED
  BY <1>1, <1>2, <1>3, <1>4, <1>5 DEF RowOK

\* The rows of the report, by what they are for.
LEMMA CommissionRows ==
    ASSUME LedgerOK, NEW range \in Ranges, NEW b \in Beauticians
    PROVE  /\ \A c \in OrderComponents :
                {k \in LedgerRowsOf(b, range) : ledger[k].component = c}
                    = RowsFor(range, b, "beautician", "orders", c)
           /\ {k \in LedgerRowsOf(b, range) : ledger[k].component = "target_bonus"}
                    = RowsFor(range, b, "beautician", "targets", "target_bonus")
           /\ {k \in LedgerRowsOf(b, range) : ledger[k].component = "leaderboard_bonus"}
                    = RowsFor(range, b, "beautician", "beautician_leaderboard", "leaderboard_bonus")
<1> DEFINE L == LedgerRowsOf(b, range)
<1>1. b # None
  BY CutoverDocuments DEF Workers
<1>2. ASSUME NEW k \in DOMAIN ledger, k[1] = "orders"
      PROVE  \A c \in OrderComponents :
                k \in L /\ ledger[k].component = c <=> k \in RowsFor(range, b, "beautician", "orders", c)
  <2>1. ScopeOf(k) = "orders"
    BY <1>2 DEF ScopeOf
  <2>2. ledger[k].worker = b => (InScope(k, ledger[k], range) <=> In(range, ledger[k].day))
    BY <1>1, <1>2 DEF InScope
  <2>3. k \in L <=> ledger[k].worker = b /\ ledger[k].type = "beautician" /\ In(range, ledger[k].day)
    BY <1>2 DEF LedgerRowsOf
  <2> HIDE DEF L
  <2> QED
    BY <2>1, <2>2, <2>3 DEF RowsFor
<1>3. ASSUME NEW k \in DOMAIN ledger, k[1] = "targets"
      PROVE  k \in L <=> k \in RowsFor(range, b, "beautician", "targets", "target_bonus")
  <2>1. ScopeOf(k) = "targets" /\ ledger[k].component = "target_bonus"
    BY <1>3, RowKinds DEF ScopeOf
  <2>2. ledger[k].worker = b => (InScope(k, ledger[k], range) <=> k[3] = Month(range.to))
    BY <1>1, <1>3 DEF InScope
  <2>3. k \in L <=> ledger[k].worker = b /\ ledger[k].type = "beautician" /\ ledger[k].day = WholeMonth(range.to).to
    BY <1>3 DEF LedgerRowsOf
  <2>4. ledger[k].day = WholeMonth(range.to).to <=> k[3] = Month(range.to)
    <3> DEFINE m == Month(range.to)
               n == k[3]
    <3>1. n \in Int /\ ledger[k].day = (n + 1) * DaysPerMonth
      BY <1>3, RowKinds
    <3>2. range.to \in Int /\ DaysPerMonth \in Nat \ {0}
      BY CutoverAssumption, CutoverDocuments
    <3>3. m \in Int
      BY <3>2, MonthOfDay
    <3>4. WholeMonth(range.to).to = (m + 1) * DaysPerMonth
      BY DEF WholeMonth
    <3> HIDE DEF m, n
    <3>5. n + 1 \in Int /\ m + 1 \in Int
      BY <3>1, <3>3
    <3>6. (n + 1) * DaysPerMonth = (m + 1) * DaysPerMonth => n + 1 = m + 1
      BY <3>2, <3>5, Cancel
    <3>7. ledger[k].day = WholeMonth(range.to).to <=> n = m
      BY <3>1, <3>3, <3>4, <3>6
    <3> QED
      BY <3>7 DEF m, n
  <2> HIDE DEF L
  <2> QED
    BY <2>1, <2>2, <2>3, <2>4 DEF RowsFor
<1>4. ASSUME NEW k \in DOMAIN ledger, k[1] = "leaderboards"
      PROVE  k \in L <=> k \in RowsFor(range, b, "beautician", "beautician_leaderboard", "leaderboard_bonus")
  <2>1. /\ ScopeOf(k) = "beautician_leaderboard" <=> k[2] = "beautician"
        /\ ledger[k].component = "leaderboard_bonus"
    BY <1>4, RowKinds DEF ScopeOf, Roles
  <2>2. ledger[k].worker = b => (InScope(k, ledger[k], range) <=> k[3] = range.from /\ k[4] = range.to)
    BY <1>1, <1>4 DEF InScope
  <2>3. k \in L <=> /\ ledger[k].worker = b /\ ledger[k].type = "beautician"
                    /\ k[2] = "beautician" /\ k[3] = range.from /\ k[4] = range.to
    BY <1>4 DEF LedgerRowsOf
  <2> HIDE DEF L
  <2> QED
    BY <2>1, <2>2, <2>3 DEF RowsFor
<1>5. L \subseteq DOMAIN ledger /\ \A s, c : RowsFor(range, b, "beautician", s, c) \subseteq DOMAIN ledger
  BY DEF LedgerRowsOf, RowsFor
<1>6. \A s, c : \A k \in RowsFor(range, b, "beautician", s, c) : ledger[k].component = c
  BY DEF RowsFor
<1> HIDE DEF L
<1>7. \A c \in OrderComponents : {k \in L : ledger[k].component = c} = RowsFor(range, b, "beautician", "orders", c)
  <2> SUFFICES ASSUME NEW c \in OrderComponents, NEW k \in DOMAIN ledger
               PROVE  k \in L /\ ledger[k].component = c <=> k \in RowsFor(range, b, "beautician", "orders", c)
    BY <1>5
  <2>1. ledger[k].component = c => k[1] = "orders"
    BY RowKinds
  <2> QED
    BY <1>2, <1>6, <2>1
<1>8. {k \in L : ledger[k].component = "target_bonus"} = RowsFor(range, b, "beautician", "targets", "target_bonus")
  <2> SUFFICES ASSUME NEW k \in DOMAIN ledger
               PROVE  k \in L /\ ledger[k].component = "target_bonus"
                        <=> k \in RowsFor(range, b, "beautician", "targets", "target_bonus")
    BY <1>5
  <2>1. ledger[k].component = "target_bonus" => k[1] = "targets"
    BY RowKinds
  <2> QED
    BY <1>3, <1>6, <2>1
<1>9. {k \in L : ledger[k].component = "leaderboard_bonus"}
        = RowsFor(range, b, "beautician", "beautician_leaderboard", "leaderboard_bonus")
  <2> SUFFICES ASSUME NEW k \in DOMAIN ledger
               PROVE  k \in L /\ ledger[k].component = "leaderboard_bonus"
                        <=> k \in RowsFor(range, b, "beautician", "beautician_leaderboard", "leaderboard_bonus")
    BY <1>5
  <2>1. ledger[k].component = "leaderboard_bonus" => k[1] = "leaderboards"
    BY RowKinds
  <2> QED
    BY <1>4, <1>6, <2>1
<1> QED
  BY <1>7, <1>8, <1>9 DEF L

\* What the rows of a beautician add up to in a range that is ready.
LEMMA CommissionTotals ==
    ASSUME LedgerInv, NEW range \in Ranges, Ready(ledger, range), NEW b \in Beauticians
    PROVE  LET rows == LedgerRowsOf(b, range)
           IN  /\ \A c \in OrderComponents :
                    LedgerTotal(rows, c) = Over(OrderAmounts(c), ExpectedOrders(b, range, c))
               /\ LedgerTotal(rows, "target_bonus")
                    = TotalOf(ExpectedAmounts(range), <<b, "beautician", "targets", "target_bonus">>)
               /\ LedgerTotal(rows, "leaderboard_bonus") = LeaderboardBonus(b, range)
<1> DEFINE rows == LedgerRowsOf(b, range)
<1>1. LedgerOK /\ DocumentsOK /\ MissingOrders(range) = {}
  BY DEF LedgerInv, Ready
<1>2. ASSUME NEW c, NEW scope,
             {k \in rows : ledger[k].component = c} = RowsFor(range, b, "beautician", scope, c)
      PROVE  LedgerTotal(rows, c) = TotalOf(ExpectedAmounts(range), <<b, "beautician", scope, c>>)
  <2> DEFINE S == RowsFor(range, b, "beautician", scope, c)
  <2>1. S \in SUBSET DOMAIN ledger
    BY DEF RowsFor
  <2>2. LedgerTotal(rows, c) = SumOver([k \in S |-> ledger[k].amount])
    BY <1>2 DEF LedgerTotal
  <2> HIDE DEF S
  <2>3. LedgerTotal(rows, c) = Over(RowAmounts, S)
    BY <1>1, <2>1, <2>2, RowSum
  <2> QED
    BY <1>1, <2>3, ReadyTotals DEF S
<1>3. /\ \A c \in OrderComponents :
            {k \in rows : ledger[k].component = c} = RowsFor(range, b, "beautician", "orders", c)
      /\ {k \in rows : ledger[k].component = "target_bonus"}
            = RowsFor(range, b, "beautician", "targets", "target_bonus")
      /\ {k \in rows : ledger[k].component = "leaderboard_bonus"}
            = RowsFor(range, b, "beautician", "beautician_leaderboard", "leaderboard_bonus")
  BY <1>1, CommissionRows
<1> HIDE DEF rows
<1>4. ASSUME NEW c \in OrderComponents
      PROVE  LedgerTotal(rows, c) = Over(OrderAmounts(c), ExpectedOrders(b, range, c))
  <2>1. LedgerTotal(rows, c) = TotalOf(ExpectedAmounts(range), <<b, "beautician", "orders", c>>)
    BY <1>2, <1>3
  <2> QED
    BY <1>1, <2>1, OrderTotal
<1>5. LedgerTotal(rows, "target_bonus")
        = TotalOf(ExpectedAmounts(range), <<b, "beautician", "targets", "target_bonus">>)
  BY <1>2, <1>3
<1>6. LedgerTotal(rows, "leaderboard_bonus") = LeaderboardBonus(b, range)
  <2>1. LedgerTotal(rows, "leaderboard_bonus")
            = TotalOf(ExpectedAmounts(range),
                      <<b, "beautician", "beautician_leaderboard", "leaderboard_bonus">>)
    BY <1>2, <1>3
  <2> QED
    BY <1>1, <2>1, BeauticianAwardTotal
<1> QED
  BY <1>4, <1>5, <1>6 DEF rows

\* A component over orders that have recorded it.
LEMMA SumOfIs ==
    ASSUME DocumentsOK, NEW c \in OrderComponents \cup {"cost"}, NEW S \in SUBSET Orders,
           \A o \in S : source.orders[o] # None /\ OrderAmount(o, c) # None
    PROVE  /\ SumOf(c, S) = Over(OrderAmounts(c), S) /\ IsFiniteSet(S)
           /\ \A o \in S : OrderAmounts(c)[o] \in Nat
<1> DEFINE f == OrderAmounts(c)
           g == [o \in S |-> Recorded(o, c, 0)]
<1>1. IsFiniteSet(S)
  BY CutoverDocuments, FS_Subset
<1>2. ASSUME NEW o \in S PROVE f[o] \in Nat /\ g[o] = f[o]
  <2>1. OrderAmount(o, c) \in Money /\ OrderAmount(o, c) # None
    BY OrderMoney
  <2>2. f[o] = OrderAmount(o, c)
    BY DEF OrderAmounts
  <2>3. g[o] = OrderAmount(o, c)
    BY <2>1 DEF Recorded, OrElse
  <2> QED
    BY <2>1, <2>2, <2>3 DEF Money
<1>3. SumOf(c, S) = SumOver(g) /\ DOMAIN g = S
  BY DEF SumOf
<1>4. IntsOn(f, S)
  BY <1>2 DEF IntsOn
<1>5. \A o \in S : f[o] \in Nat
  BY <1>2
<1> HIDE DEF f, g
<1>6. Over(f, S) = Over(g, S)
  BY <1>1, <1>2, <1>4, OverSame
<1> QED
  BY <1>1, <1>3, <1>5, <1>6, SumIsOver DEF f

LEMMA TargetsOfPlain ==
    ASSUME DocumentsOK, NEW b \in Beauticians, ~source.profiles[b].deleted
    PROVE  /\ b \in DOMAIN LoadWorkerTargets
           /\ TargetOf(b).target1 = source.profiles[b].target1
           /\ TargetOf(b).target2 = source.profiles[b].target2
           /\ TargetOf(b).from = ApplicableFrom(b)
           /\ source.profiles[b].target1 \in Nat /\ source.profiles[b].target2 \in Nat
<1>1. source.profiles[b] \in BeauticianProfiles
  BY DEF DocumentsOK, SourceDoc, ProfilesOf, Workers
<1>2. b \in DOMAIN LoadWorkerTargets
  BY DEF LoadWorkerTargets
<1>3. TargetOf(b) = [target1 |-> source.profiles[b].target1, target2 |-> source.profiles[b].target2,
                     from |-> ApplicableFrom(b)]
  BY <1>2 DEF TargetOf, LoadWorkerTargets
<1> QED
  BY <1>1, <1>2, <1>3, CutoverDocuments

\* The orders of a beautician that a rebuild loads.
LEMMA LoadedAre ==
    ASSUME NEW b, NEW range
    PROVE  {o \in LoadOrderSources(range) : source.orders[o].beautician = b}
                = Completed(ReportedOrders(b, range))
BY DEF LoadOrderSources, Completed, ReportedOrders

LEMMA ComplaintOrNot ==
    ASSUME DocumentsOK, NEW b, NEW range, NEW orders, orders = ReportedOrders(b, range)
    PROVE  /\ Eligible(orders) \cup Issues(orders) = Completed(orders)
           /\ Eligible(orders) \cap Issues(orders) = {}
           /\ Completed(orders) \subseteq Orders /\ \A o \in Completed(orders) : source.orders[o] # None
<1>1. \A o \in orders : o \in Orders /\ source.orders[o] # None /\ source.orders[o].complaint \in BOOLEAN
  BY OrderTypes DEF OrderDoc, ReportedOrders
<1> QED
  BY <1>1 DEF Eligible, Issues, Completed

\* The revenue of a plain beautician's month reaches a target in the report
\* only if it does in the ledger, and always if nothing is deducted.
LEMMA RevenueAgrees ==
    ASSUME DocumentsOK, NEW range, NEW b \in Beauticians, PlainBeautician(b, range), NEW x \in Nat
    PROVE  /\ MonthlyTargetRevenue(b, range.to) >= x => RevenueReaches(b, range.to, x)
           /\ Issues(Completed(ReportedOrders(b, WholeMonth(range.to)))) = {} =>
                (RevenueReaches(b, range.to, x) => MonthlyTargetRevenue(b, range.to) >= x)
<1> DEFINE month == ReportedOrders(b, WholeMonth(range.to))
           M == ExpectedMonth(b, range.to)
           E == {o \in Eligible(month) : source.orders[o].day >= ApplicableFrom(b)}
           cost == OrderAmounts("cost")
           amount == [o \in M |-> OrderAmount(o, "cost")]
<1>1. TargetOf(b).from = ApplicableFrom(b)
  BY TargetsOfPlain DEF PlainBeautician
<1>2. M = {o \in Completed(month) : source.orders[o].day >= ApplicableFrom(b)}
  <2>1. \A o : o \in LoadOrderSources(WholeMonth(range.to)) /\ source.orders[o].beautician = b
                <=> o \in Completed(month)
    BY LoadedAre
  <2> QED
    BY <1>1, <2>1 DEF ExpectedMonth
<1>3. Eligible(month) \cup Issues(month) = Completed(month) /\ Completed(month) \subseteq Orders
      /\ \A o \in Completed(month) : source.orders[o] # None
  BY ComplaintOrNot
<1>4. \A o \in Completed(month) : OrderAmount(o, "cost") # None
  BY DEF PlainBeautician
<1>5. Issues(Completed(month)) = Issues(month)
  BY DEF Issues, Completed
<1> HIDE DEF month
<1>6. E \subseteq M /\ M \in SUBSET Orders /\ (Issues(month) = {} => E = M)
  BY <1>2, <1>3
<1>7. \A o \in M : source.orders[o] # None /\ OrderAmount(o, "cost") # None
  BY <1>2, <1>3, <1>4
<1>8. MonthlyTargetRevenue(b, range.to) = SumOf("cost", E)
  BY DEF MonthlyTargetRevenue, month
<1>9. RevenueReaches(b, range.to, x) <=> SumOver(amount) >= x
  <2>1. RevenueReaches(b, range.to, x)
            <=> (\A o \in M : OrderAmount(o, "cost") # None) /\ SumOver(amount) >= x
    BY DEF RevenueReaches
  <2> QED
    BY <1>7, <2>1
<1>10. \A o \in M : amount[o] = cost[o]
  BY <1>6 DEF OrderAmounts
<1>11. DOMAIN amount = M
  OBVIOUS
<1> HIDE DEF M, E, cost, amount
<1>12. /\ SumOf("cost", M) = Over(cost, M) /\ IsFiniteSet(M) /\ \A o \in M : cost[o] \in Nat
  BY <1>6, <1>7, SumOfIs DEF cost
<1>13. SumOf("cost", E) = Over(cost, E)
  <2>1. E \in SUBSET Orders /\ \A o \in E : source.orders[o] # None /\ OrderAmount(o, "cost") # None
    BY <1>6, <1>7
  <2> QED
    BY <2>1, SumOfIs DEF cost
<1>14. SumOver(amount) = Over(cost, M)
  <2>1. IntsOn(cost, M)
    BY <1>12 DEF IntsOn
  <2>2. Over(cost, M) = Over(amount, M)
    BY <1>10, <1>12, <2>1, OverSame
  <2> QED
    BY <1>11, <2>2, SumIsOver
<1>15. /\ Over(cost, E) \in Nat /\ Over(cost, M) \in Nat /\ Over(cost, E) <= Over(cost, M)
       /\ Issues(month) = {} => Over(cost, E) = Over(cost, M)
  BY <1>6, <1>12, OverNat
<1> DEFINE all == Over(cost, M)
           counted == Over(cost, E)
<1>16. MonthlyTargetRevenue(b, range.to) = counted /\ (RevenueReaches(b, range.to, x) <=> all >= x)
  BY <1>8, <1>9, <1>13, <1>14
<1>17. all \in Nat /\ counted \in Nat /\ counted <= all /\ (Issues(month) = {} => counted = all)
  BY <1>15
<1> HIDE DEF all, counted
<1>18. /\ MonthlyTargetRevenue(b, range.to) >= x => RevenueReaches(b, range.to, x)
       /\ Issues(month) = {} => (RevenueReaches(b, range.to, x) => MonthlyTargetRevenue(b, range.to) >= x)
  BY <1>16, <1>17
<1> QED
  BY <1>5, <1>18 DEF month

\* General commissions that are due, within a month.
LEMMA GeneralWithin ==
    ASSUME DocumentsOK, NEW range \in Ranges, Month(range.from) = Month(range.to),
           NEW b \in Beauticians, ~source.profiles[b].deleted,
           NEW o \in Completed(ReportedOrders(b, range))
    PROVE  /\ ExpectsGeneral(o) <=>
                \/ source.orders[o].day < ApplicableFrom(b)
                \/ RevenueReaches(b, range.to, source.profiles[b].target1)
           /\ o \in Completed(ReportedOrders(b, WholeMonth(range.to)))
<1> DEFINE day == source.orders[o].day
           target == source.profiles[b].target1
<1>1. o \in Orders /\ source.orders[o] # None /\ source.orders[o].beautician = b /\ In(range, day)
  BY DEF Completed, ReportedOrders
<1>2. day \in Int /\ range.from \in Int /\ range.to \in Int
  <2>1. source.orders[o] \in OrderDoc
    BY <1>1, OrderTypes
  <2>2. day \in Days
    BY <2>1 DEF OrderDoc
  <2> QED
    BY <2>2, CutoverAssumption, CutoverDocuments
<1>3. Month(day) = Month(range.to)
  <2>1. range.from <= day /\ day <= range.to
    BY <1>1 DEF In
  <2> HIDE DEF day
  <2> QED
    BY <1>2, <2>1, MonthBetween
<1>4. WholeMonth(day) = WholeMonth(range.to)
  BY <1>3 DEF WholeMonth
<1>5. RevenueReaches(b, day, target) <=> RevenueReaches(b, range.to, target)
  <2>1. ExpectedMonth(b, day) = ExpectedMonth(b, range.to)
    BY <1>4 DEF ExpectedMonth
  <2> HIDE DEF day, target
  <2> QED
    BY <2>1 DEF RevenueReaches
<1>6. In(WholeMonth(range.to), day)
  <2>1. In(WholeMonth(day), day)
    BY <1>2, MonthOfDay
  <2> HIDE DEF day
  <2> QED
    BY <1>4, <2>1
<1>7. o \in Completed(ReportedOrders(b, WholeMonth(range.to)))
  BY <1>1, <1>6 DEF Completed, ReportedOrders
<1>8. TargetOf(b).target1 = target /\ TargetOf(b).from = ApplicableFrom(b)
  BY TargetsOfPlain
<1>9. ExpectsGeneral(o) <=> day < TargetOf(b).from \/ RevenueReaches(b, day, TargetOf(b).target1)
  BY <1>1 DEF ExpectsGeneral
<1> HIDE DEF day, target
<1>10. ExpectsGeneral(o) <=> day < ApplicableFrom(b) \/ RevenueReaches(b, range.to, target)
  BY <1>5, <1>8, <1>9
<1> QED
  BY <1>7, <1>10 DEF day, target

\* A component of a plain beautician, net of what is deducted for complaints.
LEMMA NetComponent ==
    ASSUME LedgerInv, NEW range \in Ranges, Ready(ledger, range), NEW b \in Beauticians,
           NEW c \in OrderComponents, NEW E, NEW I,
           E \cup I \subseteq Completed(ReportedOrders(b, range)), E \cap I = {},
           ExpectedOrders(b, range, c) = E \cup I
    PROVE  NotNegative(LedgerTotal(LedgerRowsOf(b, range), c) - SumOf(c, I)) = SumOf(c, E)
<1> DEFINE f == OrderAmounts(c)
           total == LedgerTotal(LedgerRowsOf(b, range), c)
           due == Over(f, E)
           deducted == Over(f, I)
<1>1. DocumentsOK /\ MissingOrders(range) = {}
  BY DEF LedgerInv, Ready
<1>2. \A o \in E \cup I : o \in Orders /\ source.orders[o] # None /\ OrderAmount(o, c) # None
  <2>1. \A o \in E \cup I : o \in LoadOrderSources(range)
    BY LoadedAre
  <2> QED
    BY <1>1, <2>1, ReadyOrders
<1>3. total = Over(f, E \cup I)
  BY CommissionTotals
<1>4. c \in OrderComponents \cup {"cost"}
  OBVIOUS
<1> HIDE DEF f, total
<1>5. SumOf(c, E) = due /\ IsFiniteSet(E) /\ \A o \in E : f[o] \in Nat
  <2>1. E \in SUBSET Orders /\ \A o \in E : source.orders[o] # None /\ OrderAmount(o, c) # None
    BY <1>2
  <2> QED
    BY <1>1, <1>4, <2>1, SumOfIs DEF f
<1>6. SumOf(c, I) = deducted /\ IsFiniteSet(I) /\ \A o \in I : f[o] \in Nat
  <2>1. I \in SUBSET Orders /\ \A o \in I : source.orders[o] # None /\ OrderAmount(o, c) # None
    BY <1>2
  <2> QED
    BY <1>1, <1>4, <2>1, SumOfIs DEF f
<1>7. IntsOn(f, E \cup I)
  BY <1>5, <1>6 DEF IntsOn
<1>8. Over(f, E \cup I) = due + deducted
  BY <1>5, <1>6, <1>7, OverUnion
<1>9. due \in Nat /\ deducted \in Nat
  BY <1>5, <1>6, OverNat
<1> HIDE DEF due, deducted
<1>10. NotNegative(total - deducted) = due
  BY <1>3, <1>8, <1>9 DEF NotNegative
<1> QED
  BY <1>5, <1>6, <1>10 DEF total

\* The general commissions of a plain beautician: all of them when the target
\* is reached, those of the days before the targets otherwise.
LEMMA GeneralKept ==
    ASSUME LedgerInv, NEW range \in Ranges, Ready(ledger, range),
           Month(range.from) = Month(range.to),
           NEW b \in Beauticians, PlainBeautician(b, range)
    PROVE  LET eligible == Eligible(ReportedOrders(b, range))
               issues == Issues(ReportedOrders(b, range))
           IN  NotNegative(LedgerTotal(LedgerRowsOf(b, range), "general") - SumOf("general", issues))
                 = SumOf("general", IF TargetAchieved(b, range.to, "target1") THEN eligible
                                    ELSE PreTarget(b, eligible))
<1> DEFINE orders == ReportedOrders(b, range)
           month == ReportedOrders(b, WholeMonth(range.to))
           E == Eligible(orders)
           I == Issues(orders)
           C == Completed(orders)
           X == ExpectedOrders(b, range, "general")
           target == source.profiles[b].target1
           net == NotNegative(LedgerTotal(LedgerRowsOf(b, range), "general") - SumOf("general", I))
<1>1. DocumentsOK /\ ~source.profiles[b].deleted /\ "general" \in OrderComponents
  BY DEF LedgerInv, PlainBeautician, OrderComponents
<1>2. target \in Nat
  BY <1>1, TargetsOfPlain
<1>3. TargetAchieved(b, range.to, "target1") <=> MonthlyTargetRevenue(b, range.to) >= target
  BY DEF TargetAchieved
<1>4. \A o : o \in X <=> o \in C /\ ExpectsGeneral(o)
  <2>1. \A o : o \in X <=> /\ o \in LoadOrderSources(range) /\ source.orders[o].beautician = b
                           /\ ExpectsGeneral(o)
    BY DEF ExpectedOrders
  <2>2. \A o : o \in LoadOrderSources(range) /\ source.orders[o].beautician = b <=> o \in C
    BY LoadedAre
  <2> QED
    BY <2>1, <2>2
<1>5. E \cup I = C /\ E \cap I = {}
  BY <1>1, ComplaintOrNot
<1>6. \A o \in C : /\ ExpectsGeneral(o) <=> \/ source.orders[o].day < ApplicableFrom(b)
                                            \/ RevenueReaches(b, range.to, target)
                   /\ o \in Completed(month)
  BY <1>1, GeneralWithin
<1>7. PreTarget(b, E) = {o \in E : source.orders[o].day < ApplicableFrom(b)}
  BY DEF PreTarget
<1>8. ASSUME NEW Y, NEW J, Y \cup J \subseteq C, Y \cap J = {}, X = Y \cup J
      PROVE  NotNegative(LedgerTotal(LedgerRowsOf(b, range), "general") - SumOf("general", J))
                = SumOf("general", Y)
  BY <1>1, <1>8, NetComponent
<1>9. CASE TargetAchieved(b, range.to, "target1")
  <2>1. RevenueReaches(b, range.to, target)
    BY <1>1, <1>2, <1>3, <1>9, RevenueAgrees
  <2>2. X = E \cup I
    <3> HIDE DEF X, E, I, C
    <3> QED
      BY <1>4, <1>5, <1>6, <2>1
  <2>3. net = SumOf("general", E)
    <3> HIDE DEF X, E, C
    <3> QED
      BY <1>5, <1>8, <2>2
  <2> QED
    BY <1>9, <2>3
<1>10. CASE ~TargetAchieved(b, range.to, "target1")
  <2>1. Issues(Completed(month)) = {}
    BY <1>10 DEF PlainBeautician
  <2>2. ~RevenueReaches(b, range.to, target)
    BY <1>1, <1>2, <1>3, <1>10, <2>1, RevenueAgrees
  <2>3. I = {}
    <3>1. \A o \in I : o \in C /\ source.orders[o].complaint
      BY DEF Issues
    <3>2. \A o \in Completed(month) : ~source.orders[o].complaint
      BY <2>1 DEF Issues, Completed
    <3> HIDE DEF I, C, month
    <3> QED
      BY <1>6, <3>1, <3>2
  <2>4. X = PreTarget(b, E) \cup I
    <3> HIDE DEF X, E, I, C
    <3> QED
      BY <1>4, <1>5, <1>6, <1>7, <2>2, <2>3
  <2>5. net = SumOf("general", PreTarget(b, E))
    <3> DEFINE Y == PreTarget(b, E)
    <3>1. Y \subseteq E
      BY <1>7
    <3> HIDE DEF X, E, C, Y
    <3> QED
      BY <1>5, <1>8, <2>3, <2>4, <3>1 DEF Y
  <2> QED
    BY <1>10, <2>5
<1> QED
  BY <1>9, <1>10

\* The target bonus: a plain beautician who reaches target 2 has it in the ledger.
LEMMA TargetBonusKept ==
    ASSUME LedgerInv, NEW range \in Ranges, Ready(ledger, range),
           NEW b \in Beauticians, PlainBeautician(b, range), Target2Achieved(b, range.to)
    PROVE  LedgerTotal(LedgerRowsOf(b, range), "target_bonus") = source.office.bonus
<1> DEFINE target == source.profiles[b].target2
<1>1. DocumentsOK /\ ~source.profiles[b].deleted
  BY DEF LedgerInv, PlainBeautician
<1>2. b \in DOMAIN LoadWorkerTargets /\ TargetOf(b).target2 = target /\ target \in Nat
  BY <1>1, TargetsOfPlain
<1>3. target > 0 /\ MonthlyTargetRevenue(b, range.to) >= target
  BY DEF Target2Achieved, TargetAchieved
<1> HIDE DEF target
<1>4. RevenueReaches(b, range.to, target)
  BY <1>1, <1>2, <1>3, RevenueAgrees
<1>5. TotalOf(ExpectedAmounts(range), <<b, "beautician", "targets", "target_bonus">>)
        = source.office.bonus
  BY <1>1, <1>2, <1>3, <1>4, TargetTotal
<1> QED
  BY <1>5, CommissionTotals

\* What a ledger that is ready and the documents give a plain beautician.
LEMMA CommissionKept ==
    ASSUME LedgerInv, NEW range \in Ranges, Ready(ledger, range),
           Month(range.from) = Month(range.to),
           NEW b \in Beauticians, PlainBeautician(b, range)
    PROVE  LedgerCommission(b, range) = ShadowCommission(b, range)
<1> DEFINE E == Eligible(ReportedOrders(b, range))
           I == Issues(ReportedOrders(b, range))
           rows == LedgerRowsOf(b, range)
           general == SumOf("general", IF TargetAchieved(b, range.to, "target1") THEN E
                                       ELSE PreTarget(b, E))
           net(c) == NotNegative(LedgerTotal(rows, c) - SumOf(c, I))
           bonus == IF Target2Achieved(b, range.to) THEN source.office.bonus ELSE 0
           paid == IF Target2Achieved(b, range.to) THEN LedgerTotal(rows, "target_bonus") ELSE 0
<1>1. E \cup I = Completed(ReportedOrders(b, range)) /\ E \cap I = {}
  BY ComplaintOrNot DEF LedgerInv
<1>2. ASSUME NEW c \in OrderComponents, c # "general" PROVE net(c) = SumOf(c, E)
  <2>1. ExpectedOrders(b, range, c) = {o \in LoadOrderSources(range) : source.orders[o].beautician = b}
    BY <1>2 DEF ExpectedOrders
  <2>2. ExpectedOrders(b, range, c) = E \cup I
    BY <1>1, <2>1, LoadedAre
  <2> HIDE DEF E, I
  <2> QED
    BY <1>1, <2>2, NetComponent
<1>3. net("general") = general
  BY GeneralKept
<1>4. net("special") = SumOf("special", E) /\ net("upgrade") = SumOf("upgrade", E)
  <2>1. "special" \in OrderComponents /\ "upgrade" \in OrderComponents
    BY DEF OrderComponents
  <2> HIDE DEF net, E
  <2> QED
    BY <1>2, <2>1
<1>5. paid = bonus
  BY TargetBonusKept
<1>6. LedgerTotal(rows, "leaderboard_bonus") = LeaderboardBonus(b, range)
  BY CommissionTotals
<1>7. LedgerCommission(b, range)
        = net("special") + net("general") + net("upgrade") + paid + LedgerTotal(rows, "leaderboard_bonus")
  BY DEF LedgerCommission
<1>8. ShadowCommission(b, range)
        = SumOf("special", E) + general + SumOf("upgrade", E) + bonus + LeaderboardBonus(b, range)
  BY DEF ShadowCommission
<1> HIDE DEF E, net, general, bonus, paid, rows
<1> QED
  BY <1>3, <1>4, <1>5, <1>6, <1>7, <1>8

\* Promotion keeps the commission of every plain beautician of the verified
\* range, if the range is within a month.
THEOREM CommissionsKeep == Spec => CutoverKeepsCommissions
<1>1. ASSUME LedgerInv, [Next]_vars,
             NEW range \in Ranges, verified # range, verified' = range,
             Month(range.from) = Month(range.to),
             NEW b \in DOMAIN BeauticianReport(range), PlainBeautician(b, range)
      PROVE  BeauticianReport(range)'[b] = BeauticianReport(range)[b]
  <2>1. /\ Ready(ledger, range) /\ mode = "shadow" /\ mode' = "authoritative"
        /\ source' = source /\ ledger' = ledger
    BY <1>1, VerifiedByPromotion
  <2> DEFINE before == {w \in Beauticians : ReportedOrders(w, range) # {}}
             after == {w \in Beauticians : ReportedOrders(w, range) # {} \/ LedgerRowsOf(w, range) # {}}
  <2>2. BeauticianReport(range) = [w \in before |-> ShadowCommission(w, range)]
    BY <2>1 DEF BeauticianReport
  <2>3. BeauticianReport(range)' = [w \in after |-> LedgerCommission(w, range)]
    <3>1. \A w : ReportedOrders(w, range)' = ReportedOrders(w, range)
      BY <2>1 DEF ReportedOrders
    <3>2. \A w : LedgerRowsOf(w, range)' = LedgerRowsOf(w, range)
      BY <2>1 DEF LedgerRowsOf
    <3>3. \A w : LedgerCommission(w, range)' = LedgerCommission(w, range)
      <4> SUFFICES ASSUME NEW w PROVE LedgerCommission(w, range)' = LedgerCommission(w, range)
        OBVIOUS
      <4>1. ASSUME NEW x PROVE LedgerTotal(LedgerRowsOf(w, range), x)' = LedgerTotal(LedgerRowsOf(w, range), x)
        BY <2>1 DEF LedgerTotal, LedgerRowsOf
      <4>2. ASSUME NEW x PROVE SumOf(x, Issues(ReportedOrders(w, range)))' = SumOf(x, Issues(ReportedOrders(w, range)))
        BY <2>1 DEF SumOf, Recorded, OrderAmount, Issues, Completed, ReportedOrders
      <4>3. Target2Achieved(w, range.to)' <=> Target2Achieved(w, range.to)
        BY <2>1 DEF Target2Achieved, TargetAchieved, MonthlyTargetRevenue, SumOf, Recorded, OrderAmount,
                    Eligible, Completed, ReportedOrders, ApplicableFrom
      <4> QED
        BY <4>1, <4>2, <4>3 DEF LedgerCommission
    <3> QED
      BY <2>1, <3>1, <3>2, <3>3 DEF BeauticianReport
  <2>4. b \in before /\ b \in after /\ b \in Beauticians
    BY <1>1, <2>2
  <2>5. LedgerCommission(b, range) = ShadowCommission(b, range)
    BY <1>1, <2>1, <2>4, CommissionKept
  <2> HIDE DEF before, after
  <2> QED
    BY <2>2, <2>3, <2>4, <2>5
<1>2. LedgerInv /\ [Next]_vars =>
        [\A range \in Ranges :
            verified # range /\ verified' = range /\ Month(range.from) = Month(range.to) =>
                \A b \in DOMAIN BeauticianReport(range) :
                    PlainBeautician(b, range) =>
                        BeauticianReport(range)'[b] = BeauticianReport(range)[b]]_vars
  BY <1>1
<1> QED
  BY <1>2, LedgerTyped, PTL DEF Spec, CutoverKeepsCommissions
=============================================================================
