----------------------------- MODULE SumTheorems -----------------------------
(***************************************************************************)
(* Sums of a function over a finite set, as the ledger's sums are written. *)
(* The fold behind SumFunctionOnSet is unfolded once; from then on the     *)
(* lemmas speak of functions and sets only, and an induction is a minimal  *)
(* counterexample among the subsets of a finite set.                       *)
(***************************************************************************)
EXTENDS Integers, FiniteSets, Functions, FiniteSetTheorems, WellFoundedInduction, TLAPS

(* Among the subsets of a finite set that are bad, one has no bad subset.  *)
LEMMA MinimalSubset ==
    ASSUME NEW S, IsFiniteSet(S), NEW Bad \in SUBSET SUBSET S, Bad # {}
    PROVE  \E m \in Bad : \A t \in Bad : t \subseteq m => t = m
<1>1. IsWellFoundedOn(StrictSubsetOrdering(S), FiniteSubsetsOf(S))
  BY FS_StrictSubsetOrderingWellFounded
<1>2. Bad \subseteq FiniteSubsetsOf(S)
  BY FS_Subset DEF FiniteSubsetsOf
<1>3. PICK m \in Bad : \A t \in Bad : <<t, m>> \notin StrictSubsetOrdering(S)
  BY <1>1, <1>2, WFMin
<1> QED
  BY <1>3 DEF StrictSubsetOrdering

Pick(s) == CHOOSE x \in s : TRUE

(* sum gives each subset of s the sum of f over it. *)
Adds(f, s, sum) ==
  sum = [t \in SUBSET s |-> IF t = {} THEN 0 ELSE f[Pick(t)] + sum[t \ {Pick(t)}]]

LEMMA Picked == \A s : s # {} => Pick(s) \in s
BY DEF Pick

LEMMA AddsApplied ==
    ASSUME NEW f, NEW s, NEW sum, Adds(f, s, sum), NEW t \in SUBSET s
    PROVE  /\ t = {} => sum[t] = 0
           /\ t # {} => sum[t] = f[Pick(t)] + sum[t \ {Pick(t)}]
BY DEF Adds

LEMMA SumUnfolded == \A f, S :
    SumFunctionOnSet(f, S) = (CHOOSE sum : Adds(f, S, sum))[S]
BY DEF SumFunctionOnSet, FoldFunctionOnSet, MapThenFoldSet, Adds, Pick

(* Two such functions, over sets that may differ, agree where both are defined. *)
LEMMA AddsUnique ==
    ASSUME NEW f, NEW s, NEW u \in SUBSET s, IsFiniteSet(s), NEW g, NEW h, Adds(f, s, g), Adds(f, u, h)
    PROVE  \A t \in SUBSET u : g[t] = h[t]
<1> DEFINE Bad == {t \in SUBSET u : g[t] # h[t]}
<1>1. SUFFICES ASSUME Bad # {} PROVE FALSE
  OBVIOUS
<1>2. IsFiniteSet(u)
  BY FS_Subset
<1>3. PICK m \in Bad : \A t \in Bad : t \subseteq m => t = m
  <2>1. Bad \in SUBSET SUBSET u
    OBVIOUS
  <2> HIDE DEF Bad
  <2> QED BY <1>1, <1>2, <2>1, MinimalSubset
<1>4. m # {}
  BY AddsApplied
<1>5. m \ {Pick(m)} \in SUBSET u /\ m \ {Pick(m)} # m
  BY <1>4, Picked
<1>6. g[m \ {Pick(m)}] = h[m \ {Pick(m)}]
  BY <1>3, <1>5
<1>7. /\ g[m] = f[Pick(m)] + g[m \ {Pick(m)}]
      /\ h[m] = f[Pick(m)] + h[m \ {Pick(m)}]
  BY <1>4, AddsApplied
<1> QED
  BY <1>6, <1>7

LEMMA AddsExists ==
    ASSUME NEW f, NEW S, IsFiniteSet(S)
    PROVE  \E sum : Adds(f, S, sum)
<1> DEFINE Bad == {s \in SUBSET S : ~ \E sum : Adds(f, s, sum)}
<1>1. SUFFICES ASSUME Bad # {} PROVE FALSE
  OBVIOUS
<1>2. PICK m \in Bad : \A t \in Bad : t \subseteq m => t = m
  <2>1. Bad \in SUBSET SUBSET S
    OBVIOUS
  <2> HIDE DEF Bad
  <2> QED BY <1>1, <2>1, MinimalSubset
<1> DEFINE good(u) == CHOOSE sum : Adds(f, u, sum)
           val(u) == good(u)[u]
           g == [t \in SUBSET m |-> IF t = {} THEN 0 ELSE f[Pick(t)] + val(t \ {Pick(t)})]
<1>3. \A u \in SUBSET m : u # m => Adds(f, u, good(u))
  BY <1>2
<1>4. \A u, v \in SUBSET m : v \in SUBSET u /\ u # m => good(u)[v] = val(v)
  <2>1. SUFFICES ASSUME NEW u \in SUBSET m, NEW v \in SUBSET u, u # m PROVE good(u)[v] = val(v)
    OBVIOUS
  <2>2. v \in SUBSET m /\ v # m /\ IsFiniteSet(u)
    BY <2>1, FS_Subset
  <2> HIDE DEF good
  <2> QED BY <1>3, <2>1, <2>2, AddsUnique
<1> HIDE DEF good
<1>5. \A t \in SUBSET m : t # m => g[t] = val(t)
  <2>1. SUFFICES ASSUME NEW t \in SUBSET m, t # m PROVE g[t] = val(t)
    OBVIOUS
  <2>2. CASE t = {}
    BY <1>3, <2>1, <2>2, AddsApplied
  <2>3. CASE t # {}
    <3>1. t \ {Pick(t)} \in SUBSET t /\ t \ {Pick(t)} \in SUBSET m
      OBVIOUS
    <3>2. good(t)[t] = f[Pick(t)] + good(t)[t \ {Pick(t)}]
      BY <1>3, <2>1, <2>3, AddsApplied
    <3> QED BY <1>4, <2>1, <2>3, <3>1, <3>2
  <2> QED BY <2>2, <2>3
<1>6. \A t \in SUBSET m : t # {} => g[t \ {Pick(t)}] = val(t \ {Pick(t)})
  <2>1. SUFFICES ASSUME NEW t \in SUBSET m, t # {} PROVE g[t \ {Pick(t)}] = val(t \ {Pick(t)})
    OBVIOUS
  <2>2. t \ {Pick(t)} \in SUBSET m /\ t \ {Pick(t)} # m
    BY <2>1, Picked
  <2> HIDE DEF g
  <2> QED BY <1>5, <2>2
<1> DEFINE G == [t \in SUBSET m |-> IF t = {} THEN 0 ELSE f[Pick(t)] + g[t \ {Pick(t)}]]
<1>7. g = G
  <2>1. \A t \in SUBSET m : g[t] = G[t]
    BY <1>6
  <2> QED BY <2>1
<1>8. Adds(f, m, g)
  <2> HIDE DEF g
  <2> QED BY <1>7 DEF Adds
<1> QED
  BY <1>8

(***************************************************************************)
(* What the fold computes.                                                 *)
(***************************************************************************)
LEMMA SumEmpty == \A f : SumFunctionOnSet(f, {}) = 0
<1>1. SUFFICES ASSUME NEW f PROVE SumFunctionOnSet(f, {}) = 0
  OBVIOUS
<1>2. Adds(f, {}, CHOOSE sum : Adds(f, {}, sum))
  BY FS_EmptySet, AddsExists
<1> QED
  BY <1>2, SumUnfolded, AddsApplied

LEMMA SumPicked ==
    ASSUME NEW f, NEW S, IsFiniteSet(S), S # {}
    PROVE  SumFunctionOnSet(f, S) = f[Pick(S)] + SumFunctionOnSet(f, S \ {Pick(S)})
<1> DEFINE T == S \ {Pick(S)}
           good(u) == CHOOSE sum : Adds(f, u, sum)
<1>1. IsFiniteSet(T) /\ T \in SUBSET S
  BY FS_Subset
<1>2. Adds(f, S, good(S)) /\ Adds(f, T, good(T))
  BY <1>1, AddsExists
<1>3. SumFunctionOnSet(f, S) = good(S)[S] /\ SumFunctionOnSet(f, T) = good(T)[T]
  BY SumUnfolded
<1> HIDE DEF good
<1>4. good(S)[S] = f[Pick(S)] + good(S)[T]
  BY <1>2, AddsApplied
<1>5. good(S)[T] = good(T)[T]
  <2> HIDE DEF T
  <2> QED BY <1>1, <1>2, AddsUnique
<1> QED
  BY <1>3, <1>4, <1>5

(* The sum of integers is an integer. *)
LEMMA SumInt ==
    ASSUME NEW f, NEW S, IsFiniteSet(S), \A x \in S : f[x] \in Int
    PROVE  SumFunctionOnSet(f, S) \in Int
<1> DEFINE Bad == {s \in SUBSET S : SumFunctionOnSet(f, s) \notin Int}
<1>1. SUFFICES ASSUME Bad # {} PROVE FALSE
  OBVIOUS
<1>2. PICK m \in Bad : \A t \in Bad : t \subseteq m => t = m
  <2>1. Bad \in SUBSET SUBSET S
    OBVIOUS
  <2> HIDE DEF Bad
  <2> QED BY <1>1, <2>1, MinimalSubset
<1>3. m \in SUBSET S /\ SumFunctionOnSet(f, m) \notin Int
  OBVIOUS
<1>4. m # {} /\ IsFiniteSet(m)
  <2>1. IsFiniteSet(m)
    BY <1>3, FS_Subset
  <2>2. m # {}
    BY <1>3, SumEmpty
  <2> QED BY <2>1, <2>2
<1>5. Pick(m) \in m
  BY <1>4, Picked
<1>6. SumFunctionOnSet(f, m \ {Pick(m)}) \in Int
  BY <1>2, <1>3, <1>5
<1>7. SumFunctionOnSet(f, m) = f[Pick(m)] + SumFunctionOnSet(f, m \ {Pick(m)})
  BY <1>4, SumPicked
<1> QED
  BY <1>3, <1>5, <1>6, <1>7

(* Any element can be taken out first. *)
LEMMA SumElement ==
    ASSUME NEW f, NEW S, IsFiniteSet(S), \A x \in S : f[x] \in Int, NEW e \in S
    PROVE  SumFunctionOnSet(f, S) = f[e] + SumFunctionOnSet(f, S \ {e})
<1> DEFINE Sum(s) == SumFunctionOnSet(f, s)
           Bad == {s \in SUBSET S : \E x \in s : Sum(s) # f[x] + Sum(s \ {x})}
<1>1. SUFFICES ASSUME Bad # {} PROVE FALSE
  OBVIOUS
<1>2. PICK m \in Bad : \A t \in Bad : t \subseteq m => t = m
  <2>1. Bad \in SUBSET SUBSET S
    OBVIOUS
  <2> HIDE DEF Bad
  <2> QED BY <1>1, <2>1, MinimalSubset
<1>3. PICK x \in m : Sum(m) # f[x] + Sum(m \ {x})
  OBVIOUS
<1> DEFINE c == Pick(m)
           rest == (m \ {c}) \ {x}
<1>4. m \in SUBSET S /\ IsFiniteSet(m) /\ m # {}
  BY <1>3, FS_Subset
<1>5. c \in m /\ Sum(m) = f[c] + Sum(m \ {c})
  BY <1>4, Picked, SumPicked
<1>6. c # x
  BY <1>3, <1>5
<1>7. \A t \in SUBSET m : t # m => \A y \in t : Sum(t) = f[y] + Sum(t \ {y})
  <2> HIDE DEF Sum
  <2> QED BY <1>2, <1>4
<1> HIDE DEF c
<1>8. m \ {c} \in SUBSET m /\ m \ {c} # m /\ x \in m \ {c}
  BY <1>3, <1>5, <1>6
<1>9. Sum(m \ {c}) = f[x] + Sum(rest)
  <2> HIDE DEF Sum
  <2> QED BY <1>7, <1>8
<1>10. m \ {x} \in SUBSET m /\ m \ {x} # m /\ c \in m \ {x} /\ (m \ {x}) \ {c} = rest
  BY <1>3, <1>5, <1>6
<1>11. Sum(m \ {x}) = f[c] + Sum(rest)
  <2> HIDE DEF Sum, rest
  <2> QED BY <1>7, <1>10
<1>12. rest \in SUBSET S /\ IsFiniteSet(rest)
  BY <1>4, FS_Subset
<1>13. Sum(rest) \in Int
  BY <1>12, SumInt
<1>14. f[c] \in Int /\ f[x] \in Int
  BY <1>3, <1>4, <1>5
<1> QED
  <2> HIDE DEF Sum, rest
  <2> QED BY <1>3, <1>5, <1>9, <1>11, <1>13, <1>14

LEMMA SumAdded ==
    ASSUME NEW f, NEW S, IsFiniteSet(S), NEW e, e \notin S, \A x \in S \cup {e} : f[x] \in Int
    PROVE  SumFunctionOnSet(f, S \cup {e}) = SumFunctionOnSet(f, S) + f[e]
<1>1. IsFiniteSet(S \cup {e}) /\ (S \cup {e}) \ {e} = S
  BY FS_AddElement
<1>2. SumFunctionOnSet(f, S \cup {e}) = f[e] + SumFunctionOnSet(f, S)
  BY <1>1, SumElement
<1> QED
  BY <1>2, SumInt

(***************************************************************************)
(* Comparing sums.                                                         *)
(***************************************************************************)
LEMMA SumMonotonic ==
    ASSUME NEW S, IsFiniteSet(S), NEW f, NEW g,
           \A x \in S : f[x] \in Int /\ g[x] \in Int /\ f[x] <= g[x]
    PROVE  SumFunctionOnSet(f, S) <= SumFunctionOnSet(g, S)
<1> DEFINE Bad == {s \in SUBSET S : ~(SumFunctionOnSet(f, s) <= SumFunctionOnSet(g, s))}
<1>1. SUFFICES ASSUME Bad # {} PROVE FALSE
  OBVIOUS
<1>2. PICK m \in Bad : \A t \in Bad : t \subseteq m => t = m
  <2>1. Bad \in SUBSET SUBSET S
    OBVIOUS
  <2> HIDE DEF Bad
  <2> QED BY <1>1, <2>1, MinimalSubset
<1>3. m \in SUBSET S /\ ~(SumFunctionOnSet(f, m) <= SumFunctionOnSet(g, m))
  OBVIOUS
<1> DEFINE rest == m \ {Pick(m)}
<1>4. m # {} /\ IsFiniteSet(m) /\ IsFiniteSet(rest)
  <2>1. IsFiniteSet(m) /\ IsFiniteSet(rest)
    BY <1>3, FS_Subset
  <2>2. m # {}
    BY <1>3, SumEmpty
  <2> QED BY <2>1, <2>2
<1>5. Pick(m) \in m
  BY <1>4, Picked
<1>6. SumFunctionOnSet(f, rest) <= SumFunctionOnSet(g, rest)
  BY <1>2, <1>3, <1>5
<1>7. SumFunctionOnSet(f, rest) \in Int /\ SumFunctionOnSet(g, rest) \in Int
  BY <1>3, <1>4, SumInt
<1>8. /\ SumFunctionOnSet(f, m) = f[Pick(m)] + SumFunctionOnSet(f, rest)
      /\ SumFunctionOnSet(g, m) = g[Pick(m)] + SumFunctionOnSet(g, rest)
  BY <1>4, SumPicked
<1> QED
  BY <1>3, <1>5, <1>6, <1>7, <1>8

LEMMA SumSame ==
    ASSUME NEW S, IsFiniteSet(S), NEW f, NEW g, \A x \in S : f[x] \in Int /\ g[x] = f[x]
    PROVE  SumFunctionOnSet(f, S) = SumFunctionOnSet(g, S)
<1>1. /\ SumFunctionOnSet(f, S) \in Int /\ SumFunctionOnSet(g, S) \in Int
      /\ SumFunctionOnSet(f, S) <= SumFunctionOnSet(g, S)
      /\ SumFunctionOnSet(g, S) <= SumFunctionOnSet(f, S)
  BY SumInt, SumMonotonic
<1> QED
  BY <1>1

LEMMA SumZero ==
    ASSUME NEW S, IsFiniteSet(S), NEW f, \A x \in S : f[x] = 0
    PROVE  SumFunctionOnSet(f, S) = 0
<1> DEFINE Bad == {s \in SUBSET S : SumFunctionOnSet(f, s) # 0}
<1>1. SUFFICES ASSUME Bad # {} PROVE FALSE
  OBVIOUS
<1>2. PICK m \in Bad : \A t \in Bad : t \subseteq m => t = m
  <2>1. Bad \in SUBSET SUBSET S
    OBVIOUS
  <2> HIDE DEF Bad
  <2> QED BY <1>1, <2>1, MinimalSubset
<1>3. m \in SUBSET S /\ SumFunctionOnSet(f, m) # 0
  OBVIOUS
<1>4. m # {}
  BY <1>3, SumEmpty
<1>5. Pick(m) \in m /\ f[Pick(m)] = 0
  BY <1>3, <1>4, Picked
<1>6. SumFunctionOnSet(f, m \ {Pick(m)}) = 0
  BY <1>2, <1>3, <1>5
<1>7. SumFunctionOnSet(f, m) = f[Pick(m)] + SumFunctionOnSet(f, m \ {Pick(m)})
  BY <1>3, <1>4, SumPicked, FS_Subset
<1> QED
  BY <1>3, <1>5, <1>6, <1>7

(* Sums that are not negative. *)
LEMMA SumNat ==
    ASSUME NEW S, IsFiniteSet(S), NEW f, \A x \in S : f[x] \in Nat
    PROVE  SumFunctionOnSet(f, S) \in Nat
<1> DEFINE zero == [x \in S |-> 0]
<1>1. SumFunctionOnSet(zero, S) = 0
  <2>1. \A x \in S : zero[x] = 0
    OBVIOUS
  <2> HIDE DEF zero
  <2> QED BY <2>1, SumZero
<1>2. SumFunctionOnSet(zero, S) <= SumFunctionOnSet(f, S)
  <2>1. \A x \in S : zero[x] \in Int /\ f[x] \in Int /\ zero[x] <= f[x]
    OBVIOUS
  <2> HIDE DEF zero
  <2> QED BY <2>1, SumMonotonic
<1>3. SumFunctionOnSet(f, S) \in Int
  BY SumInt
<1> QED
  BY <1>1, <1>2, <1>3

LEMMA SumConstant ==
    ASSUME NEW S, IsFiniteSet(S), NEW c \in Int, NEW f, \A x \in S : f[x] = c
    PROVE  SumFunctionOnSet(f, S) = c * Cardinality(S)
<1> DEFINE Bad == {s \in SUBSET S : SumFunctionOnSet(f, s) # c * Cardinality(s)}
<1>1. SUFFICES ASSUME Bad # {} PROVE FALSE
  OBVIOUS
<1>2. PICK m \in Bad : \A t \in Bad : t \subseteq m => t = m
  <2>1. Bad \in SUBSET SUBSET S
    OBVIOUS
  <2> HIDE DEF Bad
  <2> QED BY <1>1, <2>1, MinimalSubset
<1>3. m \in SUBSET S /\ SumFunctionOnSet(f, m) # c * Cardinality(m)
  OBVIOUS
<1>4. IsFiniteSet(m) /\ Cardinality(m) \in Nat
  BY <1>3, FS_Subset, FS_CardinalityType
<1>5. m # {}
  <2>1. c * 0 = 0
    OBVIOUS
  <2> QED BY <1>3, <2>1, SumEmpty, FS_EmptySet
<1>6. Pick(m) \in m /\ f[Pick(m)] = c
  BY <1>3, <1>5, Picked
<1> DEFINE rest == m \ {Pick(m)}
<1>7. SumFunctionOnSet(f, rest) = c * Cardinality(rest)
  BY <1>2, <1>3, <1>6
<1>8. Cardinality(rest) = Cardinality(m) - 1
  BY <1>4, <1>6, FS_RemoveElement
<1>9. SumFunctionOnSet(f, m) = c + SumFunctionOnSet(f, rest)
  BY <1>4, <1>5, <1>6, SumPicked
<1>10. c + c * (Cardinality(m) - 1) = c * Cardinality(m)
  <2>1. \A n \in Nat : c + c * (n - 1) = c * n
    OBVIOUS
  <2> QED BY <1>4, <2>1
<1> QED
  BY <1>3, <1>7, <1>8, <1>9, <1>10

LEMMA SumUnion ==
    ASSUME NEW A, NEW B, IsFiniteSet(A), IsFiniteSet(B), A \cap B = {},
           NEW f, \A x \in A \cup B : f[x] \in Int
    PROVE  SumFunctionOnSet(f, A \cup B) = SumFunctionOnSet(f, A) + SumFunctionOnSet(f, B)
<1> DEFINE Sum(s) == SumFunctionOnSet(f, s)
           Bad == {s \in SUBSET B : Sum(A \cup s) # Sum(A) + Sum(s)}
<1>1. SUFFICES ASSUME Bad # {} PROVE FALSE
  OBVIOUS
<1>2. PICK m \in Bad : \A t \in Bad : t \subseteq m => t = m
  <2>1. Bad \in SUBSET SUBSET B
    OBVIOUS
  <2> HIDE DEF Bad
  <2> QED BY <1>1, <2>1, MinimalSubset
<1>3. m \in SUBSET B /\ Sum(A \cup m) # Sum(A) + Sum(m)
  OBVIOUS
<1>4. Sum(A) \in Int
  BY SumInt
<1>5. m # {}
  <2>1. CASE m = {}
    <3>1. A \cup m = A
      BY <2>1
    <3>2. Sum(A \cup m) = Sum(A) /\ Sum(m) = 0
      BY <2>1, <3>1, SumEmpty
    <3>3. Sum(A) + 0 = Sum(A)
      BY <1>4
    <3> QED BY <1>3, <3>2, <3>3
  <2> QED BY <2>1
<1>6. PICK e \in m : TRUE
  BY <1>5
<1> DEFINE rest == m \ {e}
<1>7. /\ IsFiniteSet(m) /\ IsFiniteSet(rest) /\ IsFiniteSet(A \cup rest)
      /\ e \notin A \cup rest /\ (A \cup rest) \cup {e} = A \cup m /\ rest \cup {e} = m
  BY <1>3, <1>6, FS_Subset, FS_Union
<1>8. \A x \in A \cup m : f[x] \in Int
  BY <1>3
<1>9. Sum(A \cup m) = Sum(A \cup rest) + f[e]
  BY <1>7, <1>8, SumAdded
<1>10. Sum(m) = Sum(rest) + f[e] /\ Sum(rest) \in Int
  BY <1>7, <1>8, SumAdded, SumInt
<1>11. Sum(A \cup rest) = Sum(A) + Sum(rest)
  BY <1>2, <1>3, <1>6
<1>12. f[e] \in Int
  BY <1>6, <1>8
<1> QED
  <2> HIDE DEF Sum, rest
  <2> QED BY <1>3, <1>4, <1>9, <1>10, <1>11, <1>12
=============================================================================
