----------------------------- MODULE FoldLemmas -----------------------------
(***************************************************************************)
(* What the sums and folds of the other modules compute. The community      *)
(* modules define them by a recursive function on the subsets of a finite   *)
(* set, which to the prover is a function chosen to satisfy its equation:   *)
(* the first lemmas show that there is one, and which; the others state     *)
(* what is used of it.                                                      *)
(***************************************************************************)
EXTENDS Integers, Sequences, FiniteSetsExt, Functions,
        FiniteSetTheorems, WellFoundedInduction, TLAPS

-----------------------------------------------------------------------------
(***************************************************************************)
(* Induction, for a set of numbers.                                         *)
(***************************************************************************)
LEMMA NatSetInduction ==
  ASSUME NEW S \in SUBSET Nat, 0 \in S, \A n \in S : n + 1 \in S
  PROVE  \A n \in Nat : n \in S
<1> DEFINE T == Nat \ S
           R == OpToRel(<, Nat)
<1>1. SUFFICES ASSUME T # {} PROVE FALSE
  OBVIOUS
<1>2. IsWellFoundedOn(R, Nat)
  BY NatLessThanWellFounded
<1>3. PICK m \in T : \A k \in T : ~ (<<k, m>> \in R)
  <2> HIDE DEF R
  <2> QED
    BY <1>1, <1>2, WFMin
<1>4. \A k \in T : ~ (k < m)
  BY <1>3 DEF OpToRel
<1>5. m # 0 /\ m \in Nat
  OBVIOUS
<1>6. m - 1 \in S
  BY <1>4, <1>5
<1>7. m \in S
  BY <1>5, <1>6
<1> QED
  BY <1>7

LEMMA MinOfNats ==
  ASSUME NEW S \in SUBSET Nat, S # {}
  PROVE  Min(S) \in S /\ \A y \in S : Min(S) <= y
<1> DEFINE R == OpToRel(<, Nat)
<1>1. IsWellFoundedOn(R, Nat)
  BY NatLessThanWellFounded
<1>2. PICK m \in S : \A k \in S : ~ (<<k, m>> \in R)
  <2> HIDE DEF R
  <2> QED
    BY <1>1, WFMin
<1>3. \A k \in S : ~ (k < m)
  BY <1>2 DEF OpToRel
<1>4. \A k \in S : m <= k
  BY <1>3
<1> QED
  BY <1>4 DEF Min

-----------------------------------------------------------------------------
(***************************************************************************)
(* The function behind a fold: base for the empty set; for another set, the *)
(* step of the element pick takes from it, applied to the rest.             *)
(***************************************************************************)
Picks(pick, D) == \A s \in SUBSET D : s # {} => pick[s] \in s

Obeys(it, sets, V, base, pick, step) ==
  \A s \in sets :
    IF s = {} THEN it[s] = base
    ELSE it[s \ {pick[s]}] \in V => it[s] = step[pick[s]][it[s \ {pick[s]}]]

IsFold(it, sets, V, base, pick, step) ==
  it \in [sets -> V] /\ Obeys(it, sets, V, base, pick, step)

LEMMA FoldExists ==
  ASSUME NEW D, IsFiniteSet(D), NEW V, NEW base \in V,
         NEW pick, Picks(pick, D), NEW step \in [D -> [V -> V]]
  PROVE  \E it : IsFold(it, SUBSET D, V, base, pick, step)
<1> DEFINE Small(n) == {s \in SUBSET D : Cardinality(s) <= n}
           Good == {n \in Nat : \E it : IsFold(it, Small(n), V, base, pick, step)}
<1>1. \A s \in SUBSET D : IsFiniteSet(s) /\ Cardinality(s) \in Nat
                          /\ (Cardinality(s) = 0 <=> s = {})
                          /\ Cardinality(s) <= Cardinality(D)
  BY FS_Subset, FS_CardinalityType, FS_EmptySet
<1>2. 0 \in Good
  <2> DEFINE it == [s \in Small(0) |-> base]
  <2>1. \A s \in Small(0) : s = {}
    BY <1>1
  <2>2. IsFold(it, Small(0), V, base, pick, step)
    <3> HIDE DEF Small
    <3> QED
      BY <2>1 DEF IsFold, Obeys
  <2> HIDE DEF Small, it
  <2> QED
    BY <2>2
<1>3. ASSUME NEW n \in Good PROVE n + 1 \in Good
  <2>1. n \in Nat
    OBVIOUS
  <2>2. PICK it : IsFold(it, Small(n), V, base, pick, step)
    OBVIOUS
  <2> DEFINE new == [s \in Small(n + 1) |->
                       IF s = {} THEN base ELSE step[pick[s]][it[s \ {pick[s]}]]]
  <2>3. ASSUME NEW s \in Small(n + 1), s # {}
        PROVE  /\ pick[s] \in s /\ pick[s] \in D
               /\ s \ {pick[s]} \in Small(n) /\ s \ {pick[s]} \in Small(n + 1)
    <3> DEFINE x == pick[s]
    <3>1. s \in SUBSET D /\ Cardinality(s) <= n + 1
      OBVIOUS
    <3>2. x \in s
      BY <2>3, <3>1 DEF Picks
    <3> HIDE DEF x
    <3>3. IsFiniteSet(s) /\ Cardinality(s) \in Nat
      BY <1>1, <3>1
    <3>4. Cardinality(s \ {x}) = Cardinality(s) - 1
      BY <3>2, <3>3, FS_RemoveElement
    <3>5. Cardinality(s \ {x}) <= n /\ Cardinality(s \ {x}) <= n + 1
      BY <2>1, <3>1, <3>3, <3>4
    <3>6. x \in D /\ s \ {x} \in Small(n) /\ s \ {x} \in Small(n + 1)
      BY <3>1, <3>2, <3>5
    <3> QED
      BY <3>2, <3>6 DEF x
  <2>4. \A s \in Small(n) : s \in Small(n + 1)
    <3> SUFFICES ASSUME NEW s \in Small(n) PROVE s \in Small(n + 1)
      OBVIOUS
    <3>1. s \in SUBSET D /\ Cardinality(s) <= n /\ Cardinality(s) \in Nat
      BY <1>1
    <3>2. Cardinality(s) <= n + 1
      BY <2>1, <3>1
    <3> QED
      BY <3>1, <3>2
  <2> HIDE DEF Small
  <2>5. ASSUME NEW s \in Small(n) PROVE new[s] = it[s]
    <3>1. s # {} => it[s \ {pick[s]}] \in V
      BY <2>2, <2>3, <2>4 DEF IsFold
    <3> QED
      BY <2>2, <2>4, <3>1 DEF IsFold, Obeys
  <2>6. \A s \in Small(n + 1) :
          new[s] = IF s = {} THEN base ELSE step[pick[s]][new[s \ {pick[s]}]]
    BY <2>3, <2>5
  <2>7. ASSUME NEW s \in Small(n + 1) PROVE new[s] \in V
    <3>1. CASE s = {}
      BY <3>1
    <3>2. CASE s # {}
      <4>1. it[s \ {pick[s]}] \in V
        BY <2>2, <2>3, <3>2 DEF IsFold, Obeys
      <4>2. step[pick[s]] \in [V -> V]
        BY <2>3, <3>2
      <4>3. new[s] = step[pick[s]][it[s \ {pick[s]}]]
        BY <3>2
      <4> HIDE DEF new
      <4> QED
        BY <4>1, <4>2, <4>3
    <3> QED
      BY <3>1, <3>2
  <2>8. new \in [Small(n + 1) -> V]
    BY <2>7
  <2> HIDE DEF new
  <2>9. IsFold(new, Small(n + 1), V, base, pick, step)
    BY <2>6, <2>8 DEF IsFold, Obeys
  <2> QED
    BY <2>1, <2>9
<1>4. \A n \in Nat : n \in Good
  <2>1. Good \in SUBSET Nat
    OBVIOUS
  <2> HIDE DEF Good
  <2> QED
    BY <1>2, <1>3, <2>1, NatSetInduction
<1>5. Cardinality(D) \in Nat
  BY FS_CardinalityType
<1>6. Small(Cardinality(D)) = SUBSET D
  BY <1>1
<1> HIDE DEF Small
<1> QED
  BY <1>4, <1>5, <1>6

SameOn(S, g, f) == \A x \in S : g[x] = f[x]
Subsets(D) == {s \in SUBSET D : s # {}}

\* Two folds agree on the sets on which their steps and picks do.
LEMMA FoldsAgree ==
  ASSUME NEW D, IsFiniteSet(D), NEW T \in SUBSET D, NEW V, NEW base,
         NEW pick, Picks(pick, T), NEW pickT, SameOn(Subsets(T), pickT, pick),
         NEW step, NEW stepT, SameOn(T, stepT, step),
         NEW it, IsFold(it, SUBSET D, V, base, pick, step),
         NEW itT, Obeys(itT, SUBSET T, V, base, pickT, stepT)
  PROVE  SameOn(SUBSET T, itT, it)
<1> DEFINE Good == {n \in Nat : \A s \in SUBSET T : Cardinality(s) <= n => itT[s] = it[s]}
<1>1. \A s \in SUBSET T : IsFiniteSet(s) /\ Cardinality(s) \in Nat
                          /\ (Cardinality(s) = 0 <=> s = {}) /\ s \in SUBSET D
  BY FS_Subset, FS_CardinalityType, FS_EmptySet
<1>2. itT[{}] = it[{}]
  BY DEF IsFold, Obeys
<1>3. 0 \in Good
  <2> SUFFICES ASSUME NEW s \in SUBSET T, Cardinality(s) <= 0 PROVE itT[s] = it[s]
    OBVIOUS
  <2>1. s = {}
    BY <1>1
  <2> QED
    BY <1>2, <2>1
<1>4. ASSUME NEW n \in Good PROVE n + 1 \in Good
  <2> SUFFICES ASSUME NEW s \in SUBSET T, Cardinality(s) <= n + 1 PROVE itT[s] = it[s]
    OBVIOUS
  <2>1. CASE s = {}
    BY <1>2, <2>1
  <2>2. CASE s # {}
    <3> DEFINE x == pick[s]
    <3>1. x \in s
      BY <2>2 DEF Picks
    <3>2. Cardinality(s \ {x}) = Cardinality(s) - 1
      BY <1>1, <3>1, FS_RemoveElement
    <3>3. Cardinality(s \ {x}) <= n
      BY <1>1, <3>2
    <3>4. itT[s \ {x}] = it[s \ {x}]
      BY <3>3
    <3>5. pickT[s] = x /\ stepT[x] = step[x]
      <4>1. s \in Subsets(T) /\ x \in T
        BY <2>2, <3>1 DEF Subsets
      <4> QED
        BY <4>1 DEF SameOn
    <3>6. it[s \ {x}] \in V /\ it[s] = step[x][it[s \ {x}]]
      BY <1>1, <2>2, <3>1 DEF IsFold, Obeys
    <3>7. itT[s] = stepT[x][itT[s \ {x}]]
      BY <2>2, <3>4, <3>5, <3>6 DEF Obeys
    <3> HIDE DEF x
    <3> QED
      BY <3>4, <3>5, <3>6, <3>7
  <2> QED
    BY <2>1, <2>2
<1>5. \A n \in Nat : n \in Good
  <2>1. Good \in SUBSET Nat
    OBVIOUS
  <2> HIDE DEF Good
  <2> QED
    BY <1>3, <1>4, <2>1, NatSetInduction
<1> SUFFICES ASSUME NEW s \in SUBSET T PROVE itT[s] = it[s]
  BY DEF SameOn
<1>6. Cardinality(s) \in Nat
  BY <1>1
<1>7. Cardinality(s) \in Good
  BY <1>5, <1>6
<1> QED
  BY <1>6, <1>7

\* Whatever obeys the equation has its values in V.
LEMMA FoldTyped ==
  ASSUME NEW D, IsFiniteSet(D), NEW V, NEW base \in V,
         NEW pick, Picks(pick, D), NEW step \in [D -> [V -> V]],
         NEW it, Obeys(it, SUBSET D, V, base, pick, step)
  PROVE  \A s \in SUBSET D : it[s] \in V
<1> DEFINE Good == {n \in Nat : \A s \in SUBSET D : Cardinality(s) <= n => it[s] \in V}
<1>1. \A s \in SUBSET D : IsFiniteSet(s) /\ Cardinality(s) \in Nat
                          /\ (Cardinality(s) = 0 <=> s = {})
  BY FS_Subset, FS_CardinalityType, FS_EmptySet
<1>2. it[{}] \in V
  BY DEF Obeys
<1>3. 0 \in Good
  <2> SUFFICES ASSUME NEW s \in SUBSET D, Cardinality(s) <= 0 PROVE it[s] \in V
    OBVIOUS
  <2>1. s = {}
    BY <1>1
  <2> QED
    BY <1>2, <2>1
<1>4. ASSUME NEW n \in Good PROVE n + 1 \in Good
  <2> SUFFICES ASSUME NEW s \in SUBSET D, Cardinality(s) <= n + 1 PROVE it[s] \in V
    OBVIOUS
  <2>0. CASE s = {}
    BY <1>2, <2>0
  <2> SUFFICES ASSUME s # {} PROVE it[s] \in V
    BY <2>0
  <2> DEFINE x == pick[s]
  <2>1. x \in s
    BY DEF Picks
  <2>2. Cardinality(s \ {x}) = Cardinality(s) - 1
    BY <1>1, <2>1, FS_RemoveElement
  <2>3. Cardinality(s \ {x}) <= n
    BY <1>1, <2>2
  <2>4. it[s \ {x}] \in V
    BY <2>3
  <2>5. it[s] = step[x][it[s \ {x}]]
    BY <2>4 DEF Obeys
  <2>6. step[x] \in [V -> V]
    BY <2>1
  <2> HIDE DEF x
  <2> QED
    BY <2>4, <2>5, <2>6
<1>5. \A n \in Nat : n \in Good
  <2>1. Good \in SUBSET Nat
    OBVIOUS
  <2> HIDE DEF Good
  <2> QED
    BY <1>3, <1>4, <2>1, NatSetInduction
<1> SUFFICES ASSUME NEW s \in SUBSET D PROVE it[s] \in V
  OBVIOUS
<1>6. Cardinality(s) \in Nat
  BY <1>1
<1>7. Cardinality(s) \in Good
  BY <1>5, <1>6
<1> QED
  BY <1>6, <1>7

-----------------------------------------------------------------------------
(***************************************************************************)
(* Sums of numbers over a finite set.                                       *)
(***************************************************************************)
SumPick(D) == [s \in SUBSET D |-> CHOOSE x \in s : TRUE]
SumStep(f, D) == [x \in D |-> [v \in Nat |-> f[x] + v]]

LEMMA SumIsFold ==
  ASSUME NEW D, IsFiniteSet(D), NEW f, \A x \in D : f[x] \in Nat
  PROVE  \E it : /\ IsFold(it, SUBSET D, Nat, 0, SumPick(D), SumStep(f, D))
                 /\ it[D] = SumFunctionOnSet(f, D)
<1> DEFINE pick == SumPick(D)
           step == SumStep(f, D)
<1>1. Picks(pick, D)
  BY DEF Picks, SumPick
<1>2. step \in [D -> [Nat -> Nat]]
  BY DEF SumStep
<1>3. PICK it : IsFold(it, SUBSET D, Nat, 0, pick, step)
  <2> HIDE DEF pick, step
  <2> QED
    BY <1>1, <1>2, FoldExists
<1> DEFINE Rec(h) == h = [s \in SUBSET D |->
                       IF s = {} THEN 0
                       ELSE LET x == CHOOSE y \in s : TRUE IN f[x] + h[s \ {x}]]
           iter == CHOOSE h : Rec(h)
<1>4. SumFunctionOnSet(f, D) = iter[D]
  BY DEF SumFunctionOnSet, FoldFunctionOnSet, MapThenFoldSet
<1>5. \A s \in SUBSET D : s # {} => /\ pick[s] = CHOOSE y \in s : TRUE
                                    /\ pick[s] \in s
  BY DEF SumPick
<1>6. \A x \in D : \A v \in Nat : step[x][v] = f[x] + v
  BY DEF SumStep
<1> HIDE DEF pick, step
<1>7. Rec(it)
  <2>1. it \in [SUBSET D -> Nat]
    BY <1>3 DEF IsFold
  <2>2. ASSUME NEW s \in SUBSET D, s # {}
        PROVE it[s] = f[CHOOSE y \in s : TRUE] + it[s \ {CHOOSE y \in s : TRUE}]
    <3>1. pick[s] \in s /\ pick[s] = CHOOSE y \in s : TRUE
      BY <1>5, <2>2
    <3>2. s \ {pick[s]} \in SUBSET D
      OBVIOUS
    <3>3. it[s \ {pick[s]}] \in Nat
      BY <2>1, <3>2
    <3>4. it[s] = step[pick[s]][it[s \ {pick[s]}]]
      BY <1>3, <2>2, <3>3 DEF IsFold, Obeys
    <3>5. it[s] = f[pick[s]] + it[s \ {pick[s]}]
      BY <1>6, <3>1, <3>3, <3>4
    <3> QED
      BY <3>1, <3>5
  <2>3. it[{}] = 0
    BY <1>3 DEF IsFold, Obeys
  <2> QED
    BY <2>1, <2>2, <2>3
<1>8. Rec(iter)
  <2> HIDE DEF Rec
  <2> QED
    BY <1>7
<1>9. Obeys(iter, SUBSET D, Nat, 0, pick, step)
  <2> HIDE DEF iter
  <2>1. ASSUME NEW s \in SUBSET D, s # {}, iter[s \ {pick[s]}] \in Nat
        PROVE  iter[s] = step[pick[s]][iter[s \ {pick[s]}]]
    <3>1. pick[s] \in s /\ pick[s] = CHOOSE y \in s : TRUE
      BY <1>5, <2>1
    <3>2. iter[s] = f[pick[s]] + iter[s \ {pick[s]}]
      BY <1>8, <2>1, <3>1
    <3> QED
      BY <1>6, <2>1, <3>1, <3>2
  <2>2. iter[{}] = 0
    BY <1>8
  <2> HIDE DEF Rec
  <2> QED
    BY <2>1, <2>2 DEF Obeys
<1>10. \A s \in SUBSET D : iter[s] \in Nat
  <2> HIDE DEF iter, Rec
  <2> QED
    BY <1>1, <1>2, <1>9, FoldTyped DEF pick, step
<1>11. iter \in [SUBSET D -> Nat]
  <2> HIDE DEF iter
  <2> QED
    BY <1>8, <1>10
<1> HIDE DEF iter, Rec
<1> QED
  BY <1>4, <1>9, <1>11 DEF IsFold, pick, step

LEMMA SumEmpty == ASSUME NEW f PROVE SumFunctionOnSet(f, {}) = 0
<1>1. IsFiniteSet({}) /\ \A x \in {} : f[x] \in Nat
  BY FS_EmptySet
<1>2. PICK it : /\ IsFold(it, SUBSET {}, Nat, 0, SumPick({}), SumStep(f, {}))
                /\ it[{}] = SumFunctionOnSet(f, {})
  BY <1>1, SumIsFold
<1> QED
  BY <1>2 DEF IsFold, Obeys

LEMMA SumType ==
  ASSUME NEW D, IsFiniteSet(D), NEW f, \A x \in D : f[x] \in Nat
  PROVE  SumFunctionOnSet(f, D) \in Nat
<1>1. PICK it : /\ IsFold(it, SUBSET D, Nat, 0, SumPick(D), SumStep(f, D))
                /\ it[D] = SumFunctionOnSet(f, D)
  BY SumIsFold
<1>2. it[D] \in Nat
  BY <1>1 DEF IsFold
<1> QED
  BY <1>1, <1>2

\* Only the values on the set count.
LEMMA SumAgree ==
  ASSUME NEW D, IsFiniteSet(D), NEW T \in SUBSET D,
         NEW f, \A x \in D : f[x] \in Nat, NEW g, SameOn(T, g, f),
         NEW it, IsFold(it, SUBSET D, Nat, 0, SumPick(D), SumStep(f, D))
  PROVE  it[T] = SumFunctionOnSet(g, T)
<1>1. IsFiniteSet(T) /\ \A x \in T : g[x] \in Nat
  BY FS_Subset DEF SameOn
<1>2. PICK itT : /\ IsFold(itT, SUBSET T, Nat, 0, SumPick(T), SumStep(g, T))
                 /\ itT[T] = SumFunctionOnSet(g, T)
  BY <1>1, SumIsFold
<1>3. Picks(SumPick(D), T)
  BY DEF Picks, SumPick
<1>4. SameOn(Subsets(T), SumPick(T), SumPick(D))
  BY DEF SameOn, Subsets, SumPick
<1>5. SameOn(T, SumStep(g, T), SumStep(f, D))
  BY DEF SameOn, SumStep
<1>6. Obeys(itT, SUBSET T, Nat, 0, SumPick(T), SumStep(g, T))
  BY <1>2 DEF IsFold
<1>7. T \in SUBSET T
  OBVIOUS
<1>8. SameOn(SUBSET T, itT, it)
  BY <1>3, <1>4, <1>5, <1>6, FoldsAgree
<1> QED
  BY <1>2, <1>7, <1>8 DEF SameOn

LEMMA SumCongruence ==
  ASSUME NEW D, IsFiniteSet(D), NEW f, \A x \in D : f[x] \in Nat,
         NEW g, SameOn(D, g, f)
  PROVE  SumFunctionOnSet(g, D) = SumFunctionOnSet(f, D)
<1>1. PICK it : /\ IsFold(it, SUBSET D, Nat, 0, SumPick(D), SumStep(f, D))
                /\ it[D] = SumFunctionOnSet(f, D)
  BY SumIsFold
<1>2. D \in SUBSET D
  OBVIOUS
<1>3. it[D] = SumFunctionOnSet(g, D)
  BY <1>1, <1>2, SumAgree
<1> QED
  BY <1>1, <1>3

LEMMA SumChosen ==
  ASSUME NEW D, IsFiniteSet(D), D # {}, NEW f, \A x \in D : f[x] \in Nat
  PROVE  \E x \in D : SumFunctionOnSet(f, D) = f[x] + SumFunctionOnSet(f, D \ {x})
<1>1. PICK it : /\ IsFold(it, SUBSET D, Nat, 0, SumPick(D), SumStep(f, D))
                /\ it[D] = SumFunctionOnSet(f, D)
  BY SumIsFold
<1> DEFINE x == CHOOSE y \in D : TRUE
<1>2. x \in D
  OBVIOUS
<1>3. SumPick(D)[D] = x
  BY DEF SumPick
<1> HIDE DEF x
<1>4. it[D \ {x}] \in Nat
  BY <1>1 DEF IsFold
<1>5. it[D] = SumStep(f, D)[x][it[D \ {x}]]
  BY <1>1, <1>3, <1>4 DEF IsFold, Obeys
<1>6. it[D] = f[x] + it[D \ {x}]
  BY <1>2, <1>4, <1>5 DEF SumStep
<1>7. D \ {x} \in SUBSET D /\ SameOn(D \ {x}, f, f)
  BY DEF SameOn
<1>8. it[D \ {x}] = SumFunctionOnSet(f, D \ {x})
  BY <1>1, <1>7, SumAgree
<1> QED
  BY <1>1, <1>2, <1>6, <1>8

\* Any element may be taken out of a sum.
LEMMA SumSplit ==
  ASSUME NEW U, IsFiniteSet(U), NEW f, \A x \in U : f[x] \in Nat, NEW k \in U
  PROVE  SumFunctionOnSet(f, U) = f[k] + SumFunctionOnSet(f, U \ {k})
<1> DEFINE Sum(s) == SumFunctionOnSet(f, s)
           Good == {n \in Nat : \A s \in SUBSET U : Cardinality(s) = n =>
                      \A j \in s : Sum(s) = f[j] + Sum(s \ {j})}
<1>1. \A s \in SUBSET U : /\ IsFiniteSet(s) /\ Cardinality(s) \in Nat
                          /\ (Cardinality(s) = 0 <=> s = {})
                          /\ Sum(s) \in Nat
  <2> SUFFICES ASSUME NEW s \in SUBSET U
               PROVE  /\ IsFiniteSet(s) /\ Cardinality(s) \in Nat
                      /\ (Cardinality(s) = 0 <=> s = {})
                      /\ Sum(s) \in Nat
    OBVIOUS
  <2>1. IsFiniteSet(s) /\ \A x \in s : f[x] \in Nat
    BY FS_Subset
  <2>2. Sum(s) \in Nat
    BY <2>1, SumType
  <2> QED
    BY <2>1, <2>2, FS_CardinalityType, FS_EmptySet
<1>2. 0 \in Good
  <2> SUFFICES ASSUME NEW s \in SUBSET U, Cardinality(s) = 0, NEW j \in s PROVE FALSE
    OBVIOUS
  <2> QED
    BY <1>1
<1>3. ASSUME NEW n \in Good PROVE n + 1 \in Good
  <2>0. n \in Nat
    OBVIOUS
  <2> SUFFICES ASSUME NEW s \in SUBSET U, Cardinality(s) = n + 1, NEW j \in s
               PROVE  Sum(s) = f[j] + Sum(s \ {j})
    OBVIOUS
  <2>1. IsFiniteSet(s) /\ s # {} /\ \A x \in s : f[x] \in Nat
    BY <1>1
  <2>2. PICK x \in s : SumFunctionOnSet(f, s) = f[x] + SumFunctionOnSet(f, s \ {x})
    BY <2>1, SumChosen
  <2>3. CASE x = j
    BY <2>2, <2>3
  <2>4. CASE x # j
    <3>1. \A y \in s : Cardinality(s \ {y}) = n
      <4> SUFFICES ASSUME NEW y \in s PROVE Cardinality(s \ {y}) = n
        OBVIOUS
      <4>1. Cardinality(s \ {y}) = Cardinality(s) - 1
        BY <2>1, FS_RemoveElement
      <4> QED
        BY <2>0, <4>1
    <3>2. \A y \in s : \A z \in s \ {y} : Sum(s \ {y}) = f[z] + Sum((s \ {y}) \ {z})
      <4> SUFFICES ASSUME NEW y \in s
                   PROVE  \A z \in s \ {y} : Sum(s \ {y}) = f[z] + Sum((s \ {y}) \ {z})
        OBVIOUS
      <4>1. s \ {y} \in SUBSET U /\ Cardinality(s \ {y}) = n
        BY <3>1
      <4> HIDE DEF Sum
      <4> QED
        BY <4>1
    <3>3. Sum(s \ {x}) = f[j] + Sum((s \ {x}) \ {j})
      <4>1. j \in s \ {x}
        BY <2>4
      <4> HIDE DEF Sum
      <4> QED
        BY <3>2, <4>1
    <3>4. Sum(s \ {j}) = f[x] + Sum((s \ {j}) \ {x})
      <4>1. x \in s \ {j}
        BY <2>4
      <4> HIDE DEF Sum
      <4> QED
        BY <3>2, <4>1
    <3>5. (s \ {x}) \ {j} = (s \ {j}) \ {x}
      OBVIOUS
    <3>6. Sum((s \ {j}) \ {x}) \in Nat
      <4>1. (s \ {j}) \ {x} \in SUBSET U
        OBVIOUS
      <4> HIDE DEF Sum
      <4> QED
        BY <1>1, <4>1
    <3>7. f[x] \in Nat /\ f[j] \in Nat
      BY <2>1
    <3>8. Sum(s) = f[x] + Sum(s \ {x})
      BY <2>2
    <3> DEFINE all == Sum(s)
               rest == Sum((s \ {j}) \ {x})
               fx == f[x]
               fj == f[j]
    <3>9. /\ all = fx + Sum(s \ {x}) /\ Sum(s \ {x}) = fj + rest
          /\ Sum(s \ {j}) = fx + rest
      BY <3>3, <3>4, <3>5, <3>8
    <3>10. fx \in Nat /\ fj \in Nat /\ rest \in Nat
      BY <3>6, <3>7
    <3> HIDE DEF Sum, all, rest, fx, fj
    <3>11. all = fx + (fj + rest)
      BY <3>9
    <3>12. all = fj + (fx + rest)
      BY <3>10, <3>11
    <3>13. all = fj + Sum(s \ {j})
      BY <3>9, <3>12
    <3> QED
      BY <3>13 DEF all, fj
  <2> QED
    BY <2>3, <2>4
<1>4. \A n \in Nat : n \in Good
  <2>1. Good \in SUBSET Nat
    OBVIOUS
  <2> HIDE DEF Good
  <2> QED
    BY <1>2, <1>3, <2>1, NatSetInduction
<1>5. Cardinality(U) \in Good /\ U \in SUBSET U
  BY <1>4, FS_CardinalityType
<1> HIDE DEF Sum
<1>6. Sum(U) = f[k] + Sum(U \ {k})
  BY <1>5
<1> QED
  BY <1>6 DEF Sum

\* Another value, or a value more.
LEMMA SumChange ==
  ASSUME NEW D, IsFiniteSet(D), NEW f, \A x \in D : f[x] \in Nat, NEW k \in D,
         NEW g, g[k] \in Nat, SameOn(D \ {k}, g, f)
  PROVE  SumFunctionOnSet(g, D) + f[k] = SumFunctionOnSet(f, D) + g[k]
<1> DEFINE R == D \ {k}
           fk == f[k]
           gk == g[k]
           rest == SumFunctionOnSet(f, R)
<1>1. IsFiniteSet(R) /\ \A x \in R : f[x] \in Nat
  BY FS_RemoveElement
<1>2. \A x \in D : g[x] \in Nat
  BY DEF SameOn
<1>3. SumFunctionOnSet(g, D) = gk + SumFunctionOnSet(g, R)
  BY <1>2, SumSplit
<1>4. SumFunctionOnSet(f, D) = fk + rest
  BY SumSplit
<1>5. SumFunctionOnSet(g, R) = rest
  BY <1>1, SumCongruence
<1>6. fk \in Nat /\ gk \in Nat /\ rest \in Nat
  BY <1>1, SumType
<1> HIDE DEF R, fk, gk, rest
<1>7. gk + rest + fk = fk + rest + gk
  BY <1>6
<1>8. SumFunctionOnSet(g, D) + fk = SumFunctionOnSet(f, D) + gk
  BY <1>3, <1>4, <1>5, <1>7
<1> QED
  BY <1>8 DEF fk, gk

LEMMA SumAdd ==
  ASSUME NEW D, IsFiniteSet(D), NEW f, \A x \in D : f[x] \in Nat, NEW k, k \notin D,
         NEW g, g[k] \in Nat, SameOn(D, g, f)
  PROVE  SumFunctionOnSet(g, D \union {k}) = SumFunctionOnSet(f, D) + g[k]
<1> DEFINE E == D \union {k}
           gk == g[k]
           all == SumFunctionOnSet(f, D)
<1>1. IsFiniteSet(E) /\ E \ {k} = D /\ k \in E
  BY FS_AddElement
<1>2. \A x \in E : g[x] \in Nat
  BY DEF SameOn
<1> HIDE DEF E
<1>3. SumFunctionOnSet(g, E) = g[k] + SumFunctionOnSet(g, E \ {k})
  BY <1>1, <1>2, SumSplit
<1>4. SumFunctionOnSet(g, D) = all
  BY SumCongruence
<1>5. gk \in Nat /\ all \in Nat
  BY SumType
<1>6. SumFunctionOnSet(g, E) = gk + all
  BY <1>1, <1>3, <1>4
<1> HIDE DEF gk, all
<1>7. SumFunctionOnSet(g, E) = all + gk
  BY <1>5, <1>6
<1> QED
  BY <1>7 DEF E, gk, all

\* An entry of a table of numbers grows by v, or starts with it.
LEMMA SumGrow ==
  ASSUME NEW D, IsFiniteSet(D), NEW f \in [D -> Nat], NEW k, NEW v \in Nat,
         NEW g, DOMAIN g = D \union {k}, SameOn(D \ {k}, g, f),
         g[k] = (IF k \in D THEN f[k] ELSE 0) + v
  PROVE  SumFunction(g) = SumFunction(f) + v
<1>1. SumFunction(f) = SumFunctionOnSet(f, D) /\ SumFunction(g) = SumFunctionOnSet(g, D \union {k})
  BY DEF SumFunction
<1>2. \A x \in D : f[x] \in Nat
  OBVIOUS
<1>3. SumFunctionOnSet(f, D) \in Nat
  BY <1>2, SumType
<1> DEFINE gk == g[k]
           fk == f[k]
           all == SumFunctionOnSet(f, D)
<1>4. CASE k \in D
  <2>1. D \union {k} = D /\ fk \in Nat /\ gk = fk + v /\ gk \in Nat
    BY <1>4
  <2>2. SumFunctionOnSet(g, D) + f[k] = SumFunctionOnSet(f, D) + g[k]
    BY <1>2, <1>4, <2>1, SumChange
  <2>3. IsFiniteSet(D) /\ \A x \in D : g[x] \in Nat
    BY <1>2, <2>1 DEF SameOn
  <2>4. SumFunctionOnSet(g, D) \in Nat
    BY <2>3, SumType
  <2> DEFINE new == SumFunctionOnSet(g, D)
  <2>5. new + fk = all + gk /\ new \in Nat /\ all \in Nat
    BY <1>3, <2>2, <2>4
  <2>6. new = SumFunction(g) /\ all = SumFunction(f)
    BY <1>1, <2>1
  <2> HIDE DEF new, gk, fk, all
  <2>7. new = all + v
    BY <2>1, <2>5
  <2> QED
    BY <2>6, <2>7
<1>5. CASE k \notin D
  <2>1. SameOn(D, g, f) /\ gk = v
    BY <1>5 DEF SameOn
  <2>2. SumFunctionOnSet(g, D \union {k}) = SumFunctionOnSet(f, D) + g[k]
    BY <1>2, <1>5, <2>1, SumAdd
  <2> QED
    BY <1>1, <2>1, <2>2
<1> QED
  BY <1>4, <1>5

-----------------------------------------------------------------------------
(***************************************************************************)
(* Sums of the numbers of a sequence.                                       *)
(***************************************************************************)
LEMMA SumOfEmpty == SumFunction(<< >>) = 0
<1>1. DOMAIN << >> = {}
  OBVIOUS
<1> QED
  BY <1>1, SumEmpty DEF SumFunction

LEMMA SumOfSeqType ==
  ASSUME NEW s \in Seq(Nat)
  PROVE  SumFunction(s) \in Nat
<1>1. DOMAIN s = 1 .. Len(s) /\ Len(s) \in Nat
  OBVIOUS
<1>2. IsFiniteSet(DOMAIN s)
  BY <1>1, FS_Interval
<1>3. \A i \in DOMAIN s : s[i] \in Nat
  OBVIOUS
<1> QED
  BY <1>2, <1>3, SumType DEF SumFunction

LEMMA SumOfAppend ==
  ASSUME NEW s \in Seq(Nat), NEW v \in Nat
  PROVE  SumFunction(Append(s, v)) = SumFunction(s) + v
<1> DEFINE new == Append(s, v)
           k == Len(s) + 1
           D == DOMAIN s
<1>1. D = 1 .. Len(s) /\ Len(s) \in Nat
  OBVIOUS
<1>2. DOMAIN new = 1 .. k
  OBVIOUS
<1>3. IsFiniteSet(D)
  BY <1>1, FS_Interval
<1>4. k \notin D
  BY <1>1
<1>5. DOMAIN new = D \union {k}
  BY <1>1, <1>2
<1>6. \A i \in D : s[i] \in Nat /\ new[i] = s[i]
  OBVIOUS
<1>7. new[k] = v
  OBVIOUS
<1> HIDE DEF new, k, D
<1>8. SameOn(D, new, s)
  BY <1>6 DEF SameOn
<1>9. SumFunctionOnSet(new, D \union {k}) = SumFunctionOnSet(s, D) + new[k]
  BY <1>3, <1>4, <1>6, <1>7, <1>8, SumAdd
<1> QED
  BY <1>5, <1>7, <1>9 DEF SumFunction, new, D
=============================================================================
