--------------------------- MODULE OnboardProofs ---------------------------
(***************************************************************************)
(* Theorems about Onboard, for every deployment, URL and bound: the numbers *)
(* and hosts its checks read, the deployment beside the run, and what a     *)
(* block that is printed, or is not, says about it.                         *)
(***************************************************************************)
EXTENDS Onboard, DeploymentProofs, FoldLemmas, SequenceTheorems

-----------------------------------------------------------------------------
(***************************************************************************)
(* Numbers and their digits.                                                *)
(***************************************************************************)
LEMMA MaxOfNats ==
  ASSUME NEW n \in Nat, NEW S \in SUBSET (0 .. n), S # {}
  PROVE  Max(S) \in S /\ \A y \in S : y <= Max(S)
<1> DEFINE T == {k \in Nat : n - k \in S}
<1>1. \A y \in S : n - y \in T /\ n - (n - y) = y
  OBVIOUS
<1>2. T \in SUBSET Nat /\ T # {}
  BY <1>1
<1>3. Min(T) \in T /\ \A k \in T : Min(T) <= k
  <2> HIDE DEF T
  <2> QED
    BY <1>2, MinOfNats
<1> DEFINE m == Min(T)
<1>4. m \in T /\ \A k \in T : m <= k
  BY <1>3
<1> HIDE DEF m
<1>5. m \in Nat /\ n - m \in S
  BY <1>4
<1>6. \A y \in S : m <= n - y
  BY <1>1, <1>4
<1>7. \A y \in S : n - m >= y
  BY <1>5, <1>6
<1>8. \E x \in S : \A y \in S : x >= y
  BY <1>5, <1>7
<1>9. Max(S) \in S /\ \A y \in S : Max(S) >= y
  BY <1>8 DEF Max
<1>10. S \in SUBSET Nat
  OBVIOUS
<1> QED
  BY <1>9, <1>10

LEMMA MaxOfOne == ASSUME NEW x \in Nat PROVE Max({x}) = x
  BY DEF Max

DigitPick(D) == [s \in SUBSET D |-> Max(s)]
DigitStep(digits, base, D) == [i \in D |-> [v \in Nat |-> v * base + digits[i]]]

\* The digits before the n-th are read first: one digit more is its value, and base
\* times the value of the others.
LEMMA ValueIsFold ==
  ASSUME NEW digits \in Seq(Nat), NEW base \in Nat,
         NEW D, D = DOMAIN digits
  PROVE  \E it : /\ IsFold(it, SUBSET D, Nat, 0, DigitPick(D), DigitStep(digits, base, D))
                 /\ it[D] = Value(digits, base)
<1> DEFINE pick == DigitPick(D)
           step == DigitStep(digits, base, D)
<1>0. D = 1 .. Len(digits) /\ Len(digits) \in Nat /\ IsFiniteSet(D)
  BY FS_Interval
<1>1. \A s \in SUBSET D : s # {} => pick[s] = Max(s) /\ pick[s] \in s
  <2> SUFFICES ASSUME NEW s \in SUBSET D, s # {} PROVE pick[s] = Max(s) /\ pick[s] \in s
    OBVIOUS
  <2>1. pick[s] = Max(s)
    BY DEF DigitPick
  <2>2. s \in SUBSET (0 .. Len(digits))
    BY <1>0
  <2>3. Max(s) \in s
    BY <1>0, <2>2, MaxOfNats
  <2> QED
    BY <2>1, <2>3
<1>2. Picks(pick, D)
  BY <1>1 DEF Picks
<1>3. \A i \in D : digits[i] \in Nat
  OBVIOUS
<1>4. \A i \in D : \A v \in Nat : v * base + digits[i] \in Nat
  BY <1>3
<1>5. step \in [D -> [Nat -> Nat]]
  BY <1>4 DEF DigitStep
<1>6. \A i \in D : \A v \in Nat : step[i][v] = v * base + digits[i]
  BY DEF DigitStep
<1>7. PICK it : IsFold(it, SUBSET D, Nat, 0, pick, step)
  <2> HIDE DEF pick, step
  <2> QED
    BY <1>0, <1>2, <1>5, FoldExists
<1> DEFINE Rec(h) == h = [s \in SUBSET D |->
                       IF s = {} THEN 0
                       ELSE LET x == Max(s) IN h[s \ {x}] * base + digits[x]]
           iter == CHOOSE h : Rec(h)
<1>8. Value(digits, base) = iter[D]
  BY DEF Value, FoldLeft, MapThenFoldSet
<1> HIDE DEF pick, step
<1>9. Rec(it)
  <2>1. it \in [SUBSET D -> Nat]
    BY <1>7 DEF IsFold
  <2>2. ASSUME NEW s \in SUBSET D, s # {}
        PROVE it[s] = it[s \ {Max(s)}] * base + digits[Max(s)]
    <3>1. pick[s] \in s /\ pick[s] = Max(s)
      BY <1>1, <2>2
    <3>2. s \ {pick[s]} \in SUBSET D
      OBVIOUS
    <3>3. it[s \ {pick[s]}] \in Nat
      BY <2>1, <3>2
    <3>4. it[s] = step[pick[s]][it[s \ {pick[s]}]]
      BY <1>7, <2>2, <3>3 DEF IsFold, Obeys
    <3>5. it[s] = it[s \ {pick[s]}] * base + digits[pick[s]]
      BY <1>6, <3>1, <3>3, <3>4
    <3> QED
      BY <3>1, <3>5
  <2>3. it[{}] = 0
    BY <1>7 DEF IsFold, Obeys
  <2> QED
    BY <2>1, <2>2, <2>3
<1>10. Rec(iter)
  <2> HIDE DEF Rec
  <2> QED
    BY <1>9
<1>11. Obeys(iter, SUBSET D, Nat, 0, pick, step)
  <2> HIDE DEF iter
  <2>1. ASSUME NEW s \in SUBSET D, s # {}, iter[s \ {pick[s]}] \in Nat
        PROVE  iter[s] = step[pick[s]][iter[s \ {pick[s]}]]
    <3>1. pick[s] \in s /\ pick[s] = Max(s)
      BY <1>1, <2>1
    <3>2. iter[s] = iter[s \ {pick[s]}] * base + digits[pick[s]]
      BY <1>10, <2>1, <3>1
    <3> QED
      BY <1>6, <2>1, <3>1, <3>2
  <2>2. iter[{}] = 0
    BY <1>10
  <2> HIDE DEF Rec
  <2> QED
    BY <2>1, <2>2 DEF Obeys
<1>12. \A s \in SUBSET D : iter[s] \in Nat
  <2> HIDE DEF iter, Rec
  <2> QED
    BY <1>0, <1>2, <1>5, <1>11, FoldTyped
<1>13. iter \in [SUBSET D -> Nat]
  <2> HIDE DEF iter
  <2> QED
    BY <1>10, <1>12
<1> HIDE DEF iter, Rec
<1> QED
  BY <1>8, <1>11, <1>13 DEF IsFold, pick, step

LEMMA ValueType ==
  ASSUME NEW digits \in Seq(Nat), NEW base \in Nat
  PROVE  Value(digits, base) \in Nat
<1> DEFINE D == DOMAIN digits
<1>1. PICK it : /\ IsFold(it, SUBSET D, Nat, 0, DigitPick(D), DigitStep(digits, base, D))
                /\ it[D] = Value(digits, base)
  <2> HIDE DEF D
  <2>1. D = DOMAIN digits
    BY DEF D
  <2> QED
    BY <2>1, ValueIsFold
<1> QED
  BY <1>1 DEF IsFold

LEMMA ValueOfEmpty == ASSUME NEW base \in Nat PROVE Value(<< >>, base) = 0
<1>1. << >> \in Seq(Nat) /\ {} = DOMAIN << >>
  OBVIOUS
<1>2. PICK it : /\ IsFold(it, SUBSET {}, Nat, 0, DigitPick({}), DigitStep(<< >>, base, {}))
                /\ it[{}] = Value(<< >>, base)
  BY <1>1, ValueIsFold
<1> QED
  BY <1>2 DEF IsFold, Obeys

LEMMA ValueOfAppend ==
  ASSUME NEW digits \in Seq(Nat), NEW base \in Nat, NEW d \in Nat
  PROVE  Value(Append(digits, d), base) = Value(digits, base) * base + d
<1> DEFINE new == Append(digits, d)
           k == Len(digits) + 1
           D == DOMAIN new
           T == DOMAIN digits
<1>1. T = 1 .. Len(digits) /\ Len(digits) \in Nat /\ IsFiniteSet(T)
  BY FS_Interval
<1>2. D = 1 .. k /\ new \in Seq(Nat) /\ IsFiniteSet(D)
  BY <1>1, FS_Interval
<1>3. k \in D /\ D \ {k} = T /\ T \in SUBSET D /\ D # {}
  BY <1>1, <1>2
<1>4. new[k] = d /\ \A i \in T : new[i] = digits[i]
  OBVIOUS
<1>5. D \in SUBSET (0 .. k) /\ k \in Nat
  BY <1>1, <1>2
<1>5a. D = DOMAIN new /\ T = DOMAIN digits
  OBVIOUS
<1> HIDE DEF new, k, D, T
<1>6. Max(D) \in D /\ \A y \in D : y <= Max(D)
  BY <1>3, <1>5, MaxOfNats
<1>7. Max(D) = k
  BY <1>2, <1>3, <1>5, <1>6
<1>8. PICK it : /\ IsFold(it, SUBSET D, Nat, 0, DigitPick(D), DigitStep(new, base, D))
                /\ it[D] = Value(new, base)
  BY <1>2, <1>5a, ValueIsFold
<1>9. PICK itT : /\ IsFold(itT, SUBSET T, Nat, 0, DigitPick(T), DigitStep(digits, base, T))
                 /\ itT[T] = Value(digits, base)
  BY <1>5a, ValueIsFold
<1>10. Picks(DigitPick(D), T)
  <2> SUFFICES ASSUME NEW s \in SUBSET T, s # {} PROVE DigitPick(D)[s] \in s
    BY DEF Picks
  <2>1. s \in SUBSET D /\ s \in SUBSET (0 .. k)
    BY <1>3, <1>5
  <2>2. Max(s) \in s
    BY <1>5, <2>1, MaxOfNats
  <2> QED
    BY <2>1, <2>2 DEF DigitPick
<1>11. SameOn(Subsets(T), DigitPick(T), DigitPick(D))
  BY <1>3 DEF SameOn, Subsets, DigitPick
<1>12. SameOn(T, DigitStep(digits, base, T), DigitStep(new, base, D))
  BY <1>3, <1>4 DEF SameOn, DigitStep
<1>13. Obeys(itT, SUBSET T, Nat, 0, DigitPick(T), DigitStep(digits, base, T))
  BY <1>9 DEF IsFold
<1>14. SameOn(SUBSET T, itT, it)
  BY <1>2, <1>3, <1>8, <1>10, <1>11, <1>12, <1>13, FoldsAgree
<1>15. it[T] = Value(digits, base)
  BY <1>9, <1>14 DEF SameOn
<1>16. it[T] \in Nat
  BY <1>3, <1>8 DEF IsFold
<1>17. DigitPick(D)[D] = k
  BY <1>7 DEF DigitPick
<1>18. it[D] = DigitStep(new, base, D)[k][it[T]]
  BY <1>3, <1>8, <1>16, <1>17 DEF IsFold, Obeys
<1>19. DigitStep(new, base, D)[k][it[T]] = it[T] * base + d
  BY <1>3, <1>4, <1>16 DEF DigitStep
<1> QED
  BY <1>8, <1>15, <1>18, <1>19 DEF new

-----------------------------------------------------------------------------
(***************************************************************************)
(* The digits of a number are its digits.                                   *)
(***************************************************************************)
HexStep(f, n) == IF n < 16 THEN <<n>> ELSE Append(f[n \div 16], n % 16)

\* A function that obeys the equation of HexDigits up to k.
HexTo(f, k) == \A n \in 0 .. k : f[n] = HexStep(f, n)

LEMMA Hexes == \A n \in Nat : n >= 16 =>
                 n \div 16 \in Nat /\ n \div 16 < n /\ n % 16 \in 0 .. 15
  OBVIOUS

LEMMA HexUnique ==
  ASSUME NEW k \in Nat, NEW f, HexTo(f, k), NEW g, HexTo(g, k)
  PROVE  \A n \in 0 .. k : f[n] = g[n]
<1> DEFINE Good == {i \in Nat : \A n \in 0 .. i : n <= k => f[n] = g[n]}
<1>1. 0 \in Good
  <2> SUFFICES f[0] = g[0]
    OBVIOUS
  <2>1. f[0] = HexStep(f, 0) /\ g[0] = HexStep(g, 0)
    BY DEF HexTo
  <2>2. HexStep(f, 0) = <<0>> /\ HexStep(g, 0) = <<0>>
    BY DEF HexStep
  <2> QED
    BY <2>1, <2>2
<1>2. ASSUME NEW i \in Good PROVE i + 1 \in Good
  <2>0. i \in Nat /\ \A n \in 0 .. i : n <= k => f[n] = g[n]
    OBVIOUS
  <2> SUFFICES ASSUME NEW n \in 0 .. i + 1, n <= k PROVE f[n] = g[n]
    BY <2>0
  <2>1. n \in 0 .. k /\ n \in Nat
    BY <2>0
  <2>2. f[n] = HexStep(f, n) /\ g[n] = HexStep(g, n)
    BY <2>1 DEF HexTo
  <2>3. CASE n < 16
    BY <2>2, <2>3 DEF HexStep
  <2>4. CASE n >= 16
    <3>1. n \div 16 \in 0 .. i /\ n \div 16 <= k
      BY <2>0, <2>1, <2>4, Hexes
    <3>2. f[n \div 16] = g[n \div 16]
      BY <2>0, <3>1
    <3>3. f[n] = Append(f[n \div 16], n % 16) /\ g[n] = Append(g[n \div 16], n % 16)
      BY <2>1, <2>2, <2>4 DEF HexStep
    <3> QED
      BY <3>2, <3>3
  <2> QED
    BY <2>1, <2>3, <2>4
<1>3. \A i \in Nat : i \in Good
  <2>1. Good \in SUBSET Nat
    OBVIOUS
  <2> HIDE DEF Good
  <2> QED
    BY <1>1, <1>2, <2>1, NatSetInduction
<1>4. k \in Good
  BY <1>3
<1> QED
  BY <1>4

LEMMA HexBounded == ASSUME NEW k \in Nat PROVE \E f : HexTo(f, k)
<1> DEFINE Good == {i \in Nat : \E f : HexTo(f, i)}
<1>1. 0 \in Good
  <2> DEFINE f == [n \in {0} |-> <<0>>]
  <2>1. HexTo(f, 0)
    BY DEF HexTo, HexStep
  <2> HIDE DEF f
  <2> QED
    BY <2>1
<1>2. ASSUME NEW i \in Good PROVE i + 1 \in Good
  <2>0. i \in Nat
    OBVIOUS
  <2>1. PICK f : HexTo(f, i)
    OBVIOUS
  <2> DEFINE g == [n \in 0 .. i + 1 |-> IF n <= i THEN f[n] ELSE HexStep(f, n)]
  <2>2. \A n \in 0 .. i : n \in 0 .. i + 1 /\ g[n] = f[n]
    BY <2>0
  <2>3. \A n \in 0 .. i + 1 : g[n] = HexStep(f, n)
    <3> SUFFICES ASSUME NEW n \in 0 .. i + 1 PROVE g[n] = HexStep(f, n)
      OBVIOUS
    <3>1. CASE n <= i
      <4>1. n \in 0 .. i
        BY <2>0, <3>1
      <4>2. f[n] = HexStep(f, n)
        BY <2>1, <4>1 DEF HexTo
      <4> QED
        BY <2>2, <4>1, <4>2
    <3>2. CASE ~ (n <= i)
      BY <3>2
    <3> QED
      BY <3>1, <3>2
  <2> HIDE DEF g
  <2>4. ASSUME NEW n \in 0 .. i + 1 PROVE HexStep(g, n) = HexStep(f, n)
    <3>1. CASE n < 16
      BY <3>1 DEF HexStep
    <3>2. CASE n >= 16
      <4>1. n \div 16 \in 0 .. i
        BY <2>0, <3>2, Hexes
      <4>2. g[n \div 16] = f[n \div 16]
        BY <2>2, <4>1
      <4> QED
        BY <4>2 DEF HexStep
    <3> QED
      BY <2>0, <3>1, <3>2
  <2>5. HexTo(g, i + 1)
    BY <2>3, <2>4 DEF HexTo
  <2> QED
    BY <2>0, <2>5
<1>3. \A i \in Nat : i \in Good
  <2>1. Good \in SUBSET Nat
    OBVIOUS
  <2> HIDE DEF Good
  <2> QED
    BY <1>1, <1>2, <2>1, NatSetInduction
<1>4. k \in Good
  BY <1>3
<1> QED
  BY <1>4

LEMMA HexEquation == \A n \in Nat : HexDigits[n] = HexStep(HexDigits, n)
<1> DEFINE To(k) == CHOOSE f : HexTo(f, k)
           h == [n \in Nat |-> To(n)[n]]
           Rec(f) == f = [n \in Nat |-> IF n < 16 THEN <<n>> ELSE Append(f[n \div 16], n % 16)]
<1>1. \A k \in Nat : HexTo(To(k), k)
  BY HexBounded
<1>2. \A n \in Nat : h[n] = To(n)[n]
  OBVIOUS
<1>3. ASSUME NEW n \in Nat, NEW m \in 0 .. n PROVE To(n)[m] = h[m]
  <2> HIDE DEF To, h
  <2>1. m \in Nat /\ m \in 0 .. m /\ \A x \in 0 .. m : x \in 0 .. n
    OBVIOUS
  <2>2. HexTo(To(n), m)
    BY <1>1, <2>1 DEF HexTo
  <2>3. HexTo(To(m), m)
    BY <1>1, <2>1
  <2>4. To(n)[m] = To(m)[m]
    BY <2>1, <2>2, <2>3, HexUnique
  <2> QED
    BY <1>2, <2>1, <2>4
<1>4. ASSUME NEW n \in Nat PROVE h[n] = HexStep(h, n)
  <2> HIDE DEF To, h
  <2>1. n \in 0 .. n
    OBVIOUS
  <2>2. h[n] = HexStep(To(n), n)
    BY <1>1, <1>2, <2>1 DEF HexTo
  <2>3. CASE n < 16
    BY <2>2, <2>3 DEF HexStep
  <2>4. CASE n >= 16
    <3>1. n \div 16 \in 0 .. n
      BY <2>4, Hexes
    <3>2. To(n)[n \div 16] = h[n \div 16]
      BY <1>3, <3>1
    <3> QED
      BY <2>2, <3>2 DEF HexStep
  <2> QED
    BY <2>3, <2>4
<1>5. Rec(h)
  <2>1. DOMAIN h = Nat /\ h = [n \in Nat |-> h[n]]
    OBVIOUS
  <2> HIDE DEF h
  <2> QED
    BY <1>4, <2>1 DEF HexStep
<1>6. HexDigits = CHOOSE f : Rec(f)
  BY DEF HexDigits
<1>7. Rec(HexDigits)
  <2> HIDE DEF Rec
  <2> QED
    BY <1>5, <1>6
<1> HIDE DEF h, To
<1> QED
  BY <1>7 DEF HexStep

IsHexOf(digits, n) ==
  digits \in Seq(0 .. 15) /\ digits # << >> /\ Value(digits, 16) = n

LEMMA HexValue == \A n \in Nat : IsHexOf(HexDigits[n], n)
<1> DEFINE Good == {i \in Nat : \A n \in 0 .. i : IsHexOf(HexDigits[n], n)}
<1>1. ASSUME NEW n \in 0 .. 15 PROVE IsHexOf(HexDigits[n], n)
  <2>1. HexDigits[n] = <<n>>
    <3>1. HexDigits[n] = HexStep(HexDigits, n)
      BY HexEquation
    <3>2. HexStep(HexDigits, n) = <<n>>
      BY DEF HexStep
    <3> QED
      BY <3>1, <3>2
  <2>2. <<n>> = Append(<< >>, n) /\ << >> \in Seq(Nat) /\ n \in Nat
    OBVIOUS
  <2>3. Value(Append(<< >>, n), 16) = Value(<< >>, 16) * 16 + n
    BY <2>2, ValueOfAppend
  <2>4. Value(<< >>, 16) = 0
    BY ValueOfEmpty
  <2>5. Value(<<n>>, 16) = n
    BY <2>2, <2>3, <2>4
  <2>6. <<n>> \in Seq(0 .. 15) /\ <<n>> # << >>
    OBVIOUS
  <2> QED
    BY <2>1, <2>5, <2>6 DEF IsHexOf
<1>2. 0 \in Good
  BY <1>1
<1>3. ASSUME NEW i \in Good PROVE i + 1 \in Good
  <2>0. i \in Nat /\ \A n \in 0 .. i : IsHexOf(HexDigits[n], n)
    OBVIOUS
  <2> SUFFICES ASSUME NEW n \in 0 .. i + 1, n >= 16 PROVE IsHexOf(HexDigits[n], n)
    BY <1>1, <2>0
  <2> DEFINE high == n \div 16
             low == n % 16
             digits == HexDigits[high]
  <2>1. n \in Nat /\ high \in 0 .. i /\ low \in 0 .. 15 /\ n = high * 16 + low
    BY <2>0, Hexes
  <2>2. HexDigits[n] = Append(digits, low)
    <3>1. HexDigits[n] = HexStep(HexDigits, n)
      BY <2>1, HexEquation
    <3>2. HexStep(HexDigits, n) = Append(digits, low)
      BY <2>1 DEF HexStep
    <3> QED
      BY <3>1, <3>2
  <2>3. IsHexOf(digits, high)
    BY <2>0, <2>1
  <2> HIDE DEF high, low, digits
  <2>4. digits \in Seq(0 .. 15) /\ Value(digits, 16) = high
    BY <2>3 DEF IsHexOf
  <2>5. digits \in Seq(Nat) /\ low \in Nat
    BY <2>1, <2>4
  <2>6. Value(Append(digits, low), 16) = Value(digits, 16) * 16 + low
    BY <2>5, ValueOfAppend
  <2>7. Append(digits, low) \in Seq(0 .. 15) /\ Append(digits, low) # << >>
    BY <2>1, <2>4
  <2> QED
    BY <2>1, <2>2, <2>4, <2>6, <2>7 DEF IsHexOf
<1>4. \A i \in Nat : i \in Good
  <2>1. Good \in SUBSET Nat
    OBVIOUS
  <2> HIDE DEF Good
  <2> QED
    BY <1>2, <1>3, <2>1, NatSetInduction
<1> SUFFICES ASSUME NEW n \in Nat PROVE IsHexOf(HexDigits[n], n)
  OBVIOUS
<1>5. n \in Good /\ n \in 0 .. n
  BY <1>4
<1> QED
  BY <1>5

\* What render.sh's chain id is read as.
LEMMA ChainId ==
  ASSUME NEW text \in [form : {"dec", "hex"}, digits : Seq(0 .. 15)]
  PROVE  \/ parse_chain_id(text) = {}
         \/ \E n \in Nat : parse_chain_id(text) = {n} /\ Max(parse_chain_id(text)) = n
<1>1. text.digits \in Seq(Nat)
  OBVIOUS
<1>2. Value(text.digits, 16) \in Nat /\ Value(text.digits, 10) \in Nat
  BY <1>1, ValueType
<1>3. parse_chain_id(text) = {} \/ parse_chain_id(text) = {Value(text.digits, 16)}
      \/ parse_chain_id(text) = {Value(text.digits, 10)}
  BY DEF parse_chain_id
<1> QED
  BY <1>2, <1>3, MaxOfOne

-----------------------------------------------------------------------------
(***************************************************************************)
(* URLs.                                                                    *)
(***************************************************************************)
LEMMA SequenceOfFour ==
  ASSUME NEW a, NEW b, NEW c, NEW d
  PROVE  /\ <<a, b, c, d>> \in Seq({a, b, c, d})
         /\ Len(<<a, b, c, d>>) = 4
         /\ <<a, b, c, d>>[1] = a /\ <<a, b, c, d>>[2] = b
  OBVIOUS

LEMMA FirstOfSequence ==
  ASSUME NEW S, NEW s \in Seq(S), NEW n \in {1, 2}, Len(s) >= n
  PROVE  /\ SubSeq(s, 1, n) \in Seq(S) /\ Len(SubSeq(s, 1, n)) = n
         /\ \A i \in 1 .. n : SubSeq(s, 1, n)[i] = s[i]
<1>1. \A i \in 1 .. n : s[i] \in S
  BY LenProperties
<1> QED
  BY <1>1, SubSeqProperties

LEMMA StartsWithOne ==
  ASSUME NEW S, NEW s \in Seq(S), NEW x
  PROVE  StartsWith(s, <<x>>) <=> Len(s) > 1 /\ s[1] = x
<1> DEFINE t == <<x>>
<1>1. t \in Seq({x}) /\ Len(t) = 1 /\ t[1] = x
  OBVIOUS
<1> HIDE DEF t
<1>2. Len(s) \in Nat
  BY LenProperties
<1>3. StartsWith(s, t) <=> Len(s) > 1 /\ SubSeq(t, 1, 1) = SubSeq(s, 1, 1)
  BY <1>1, <1>2 DEF StartsWith, IsPrefix
<1>4. Len(SubSeq(t, 1, 1)) = 1 /\ SubSeq(t, 1, 1)[1] = x
      /\ SubSeq(t, 1, 1) \in Seq({x})
  BY <1>1, FirstOfSequence
<1>5. ASSUME Len(s) > 1 PROVE SubSeq(t, 1, 1) = SubSeq(s, 1, 1) <=> s[1] = x
  <2>1. Len(SubSeq(s, 1, 1)) = 1 /\ SubSeq(s, 1, 1)[1] = s[1]
        /\ SubSeq(s, 1, 1) \in Seq(S)
    BY <1>2, <1>5, FirstOfSequence
  <2> QED
    BY <1>4, <2>1
<1> QED
  BY <1>3, <1>5 DEF t

LEMMA StartsWithTwo ==
  ASSUME NEW S, NEW s \in Seq(S), NEW x, NEW y
  PROVE  StartsWith(s, <<x, y>>) <=> Len(s) > 2 /\ s[1] = x /\ s[2] = y
<1> DEFINE t == <<x, y>>
<1>1. t \in Seq({x, y}) /\ Len(t) = 2 /\ t[1] = x /\ t[2] = y
  OBVIOUS
<1> HIDE DEF t
<1>2. Len(s) \in Nat
  BY LenProperties
<1>3. StartsWith(s, t) <=> Len(s) > 2 /\ SubSeq(t, 1, 2) = SubSeq(s, 1, 2)
  BY <1>1, <1>2 DEF StartsWith, IsPrefix
<1>4. Len(SubSeq(t, 1, 2)) = 2 /\ SubSeq(t, 1, 2)[1] = x /\ SubSeq(t, 1, 2)[2] = y
      /\ SubSeq(t, 1, 2) \in Seq({x, y})
  BY <1>1, FirstOfSequence
<1>5. ASSUME Len(s) > 2
      PROVE  SubSeq(t, 1, 2) = SubSeq(s, 1, 2) <=> s[1] = x /\ s[2] = y
  <2>1. Len(SubSeq(s, 1, 2)) = 2 /\ SubSeq(s, 1, 2)[1] = s[1] /\ SubSeq(s, 1, 2)[2] = s[2]
        /\ SubSeq(s, 1, 2) \in Seq(S)
    BY <1>2, <1>5, FirstOfSequence
  <2> QED
    BY <1>4, <2>1
<1> QED
  BY <1>3, <1>5 DEF t

\* An octet is told from another by its text. (ToString is known by OctetAssumption
\* only: no prover but Zenon takes a formula that has it.)
LEMMA OctetsDiffer == \A a, b \in 0 .. 255 : ToString(a) = ToString(b) => a = b
  BY OctetAssumption, Zenon

LEMMA OctetNamed ==
  ASSUME NEW a \in 0 .. 255, NEW k \in 0 .. 255, NEW text, ToString(k) = text
  PROVE  ToString(a) = text <=> a = k
  BY OctetsDiffer, Zenon

LEMMA OctetText ==
  ASSUME NEW a \in 0 .. 255
  PROVE  /\ ToString(a) = "0" <=> a = 0
         /\ ToString(a) = "10" <=> a = 10
         /\ ToString(a) = "127" <=> a = 127
         /\ ToString(a) = "172" <=> a = 172
         /\ ToString(a) = "192" <=> a = 192
         /\ ToString(a) = "168" <=> a = 168
         /\ ToString(a) = "169" <=> a = 169
         /\ ToString(a) = "254" <=> a = 254
         /\ (\E o \in 16 .. 31 : ToString(a) = ToString(o)) <=> a \in 16 .. 31
<1>1. ToString(a) = "0" <=> a = 0
  <2>1. 0 \in 0 .. 255
    OBVIOUS
  <2>2. ToString(0) = "0"
    BY OctetAssumption, Zenon
  <2> QED
    BY <2>1, <2>2, OctetNamed, Zenon
<1>2. ToString(a) = "10" <=> a = 10
  <2>1. 10 \in 0 .. 255
    OBVIOUS
  <2>2. ToString(10) = "10"
    BY OctetAssumption, Zenon
  <2> QED
    BY <2>1, <2>2, OctetNamed, Zenon
<1>3. ToString(a) = "127" <=> a = 127
  <2>1. 127 \in 0 .. 255
    OBVIOUS
  <2>2. ToString(127) = "127"
    BY OctetAssumption, Zenon
  <2> QED
    BY <2>1, <2>2, OctetNamed, Zenon
<1>4. ToString(a) = "172" <=> a = 172
  <2>1. 172 \in 0 .. 255
    OBVIOUS
  <2>2. ToString(172) = "172"
    BY OctetAssumption, Zenon
  <2> QED
    BY <2>1, <2>2, OctetNamed, Zenon
<1>5. ToString(a) = "192" <=> a = 192
  <2>1. 192 \in 0 .. 255
    OBVIOUS
  <2>2. ToString(192) = "192"
    BY OctetAssumption, Zenon
  <2> QED
    BY <2>1, <2>2, OctetNamed, Zenon
<1>6. ToString(a) = "168" <=> a = 168
  <2>1. 168 \in 0 .. 255
    OBVIOUS
  <2>2. ToString(168) = "168"
    BY OctetAssumption, Zenon
  <2> QED
    BY <2>1, <2>2, OctetNamed, Zenon
<1>7. ToString(a) = "169" <=> a = 169
  <2>1. 169 \in 0 .. 255
    OBVIOUS
  <2>2. ToString(169) = "169"
    BY OctetAssumption, Zenon
  <2> QED
    BY <2>1, <2>2, OctetNamed, Zenon
<1>8. ToString(a) = "254" <=> a = 254
  <2>1. 254 \in 0 .. 255
    OBVIOUS
  <2>2. ToString(254) = "254"
    BY OctetAssumption, Zenon
  <2> QED
    BY <2>1, <2>2, OctetNamed, Zenon
<1>9. (\E o \in 16 .. 31 : ToString(a) = ToString(o)) <=> a \in 16 .. 31
  <2>1. \A o \in 16 .. 31 : o \in 0 .. 255
    OBVIOUS
  <2> QED
    BY <2>1, OctetsDiffer, Zenon
<1> QED
  BY <1>1, <1>2, <1>3, <1>4, <1>5, <1>6, <1>7, <1>8, <1>9, Zenon

\* The hosts the check knows by name.
Local(s) == s \in {<<"">>, <<"localhost">>, <<"0", "0", "0", "0">>}

LEMMA OneLabel ==
  ASSUME NEW s, NEW n \in Nat, n = Len(s), n > 1, NEW x
  PROVE  s # <<x>>
<1>1. Len(<<x>>) = 1
  OBVIOUS
<1>2. ASSUME s = <<x>> PROVE n = 1
  BY <1>1, <1>2
<1> QED
  BY <1>2

LEMMA LocalLemma ==
  ASSUME NEW s, NEW n \in Nat, n = Len(s), n > 1, s[1] # "0"
  PROVE  ~ Local(s)
<1>2. \A w \in {<<"0", "0", "0", "0">>} : w[1] = "0"
  OBVIOUS
<1>3. s \notin {<<"">>, <<"localhost">>}
  BY OneLabel
<1>4. s \notin {<<"0", "0", "0", "0">>}
  BY <1>2
<1> QED
  BY <1>3, <1>4 DEF Local

\* A host the check refuses, by its parts.
LEMMA Refused ==
  ASSUME NEW S, NEW s \in Seq(S), NEW n \in Nat, n = Len(s)
  PROVE  unreachable(s) <=>
           \/ Local(s)
           \/ n > 1 /\ s[1] \in {"127", "10"}
           \/ n > 2 /\ s[1] = "192" /\ s[2] = "168"
           \/ n > 2 /\ s[1] = "169" /\ s[2] = "254"
           \/ n > 1 /\ s[1] = "172" /\ \E o \in 16 .. 31 : s[2] = ToString(o)
           \/ n = 1
<1>1. StartsWith(s, <<"127">>) <=> n > 1 /\ s[1] = "127"
  BY StartsWithOne
<1>2. StartsWith(s, <<"10">>) <=> n > 1 /\ s[1] = "10"
  BY StartsWithOne
<1>3. StartsWith(s, <<"172">>) <=> n > 1 /\ s[1] = "172"
  BY StartsWithOne
<1>4. StartsWith(s, <<"192", "168">>) <=> n > 2 /\ s[1] = "192" /\ s[2] = "168"
  BY StartsWithTwo
<1>5. StartsWith(s, <<"169", "254">>) <=> n > 2 /\ s[1] = "169" /\ s[2] = "254"
  BY StartsWithTwo
<1> QED
  BY <1>1, <1>2, <1>3, <1>4, <1>5 DEF unreachable, Local

LEMMA OctetUrl ==
  ASSUME NEW u, u.octets \in [1 .. 4 -> 0 .. 255]
  PROVE  unreachable(Host(u)) <=> ~ Public(u)
<1>1. PICK a \in 0 .. 255, b \in 0 .. 255, c \in 0 .. 255, d \in 0 .. 255 :
        u.octets = <<a, b, c, d>>
  <2>1. u.octets = <<u.octets[1], u.octets[2], u.octets[3], u.octets[4]>>
    OBVIOUS
  <2>2. u.octets[1] \in 0 .. 255 /\ u.octets[2] \in 0 .. 255
        /\ u.octets[3] \in 0 .. 255 /\ u.octets[4] \in 0 .. 255
    OBVIOUS
  <2> QED
    BY <2>1, <2>2
<1> DEFINE ta == ToString(a)
           tb == ToString(b)
           tc == ToString(c)
           td == ToString(d)
           h == <<ta, tb, tc, td>>
<1>2. u.octets # << >>
  BY <1>1
<1>3. Host(u) = h
  <2>1. Host(u) = [i \in 1 .. 4 |-> ToString(<<a, b, c, d>>[i])]
    BY <1>1, <1>2 DEF Host
  <2>2. [i \in 1 .. 4 |-> ToString(<<a, b, c, d>>[i])] = h
    OBVIOUS
  <2> QED
    BY <2>1, <2>2
<1>4. /\ ta = "0" <=> a = 0
      /\ ta = "127" <=> a = 127
      /\ ta = "10" <=> a = 10
      /\ ta = "172" <=> a = 172
      /\ ta = "192" <=> a = 192
      /\ ta = "169" <=> a = 169
  BY OctetText
<1>5. /\ tb = "0" <=> b = 0
      /\ tb = "168" <=> b = 168
      /\ tb = "254" <=> b = 254
      /\ (\E o \in 16 .. 31 : tb = ToString(o)) <=> b \in 16 .. 31
  BY OctetText
<1>6. (tc = "0" <=> c = 0) /\ (td = "0" <=> d = 0)
  BY OctetText
<1> HIDE DEF ta, tb, tc, td
<1>7. h \in Seq({ta, tb, tc, td}) /\ Len(h) = 4 /\ h[1] = ta /\ h[2] = tb
  BY SequenceOfFour
<1>8. PICK n \in Nat : n = Len(h) /\ n = 4
  BY <1>7
<1>9. Local(h) <=> a = 0 /\ b = 0 /\ c = 0 /\ d = 0
  <2>1. h = <<"0", "0", "0", "0">> <=> ta = "0" /\ tb = "0" /\ tc = "0" /\ td = "0"
    <3>1. h[1] = ta /\ h[2] = tb /\ h[3] = tc /\ h[4] = td
      OBVIOUS
    <3>2. \A w \in {<<"0", "0", "0", "0">>} :
            w[1] = "0" /\ w[2] = "0" /\ w[3] = "0" /\ w[4] = "0"
      OBVIOUS
    <3> QED
      BY <3>1, <3>2
  <2> HIDE DEF h
  <2>2. n > 1 /\ n = Len(h)
    BY <1>8
  <2>3. h # <<"">> /\ h # <<"localhost">>
    BY <2>2, OneLabel
  <2> QED
    BY <1>4, <1>5, <1>6, <2>1, <2>3 DEF Local
<1>10. u.octets = <<0, 0, 0, 0>> <=> a = 0 /\ b = 0 /\ c = 0 /\ d = 0
  BY <1>1
<1>11. unreachable(h) <=>
         \/ a = 0 /\ b = 0 /\ c = 0 /\ d = 0
         \/ a = 127 \/ a = 10
         \/ a = 192 /\ b = 168
         \/ a = 169 /\ b = 254
         \/ a = 172 /\ b \in 16 .. 31
  <2> HIDE DEF h
  <2>1. unreachable(h) <=>
           \/ Local(h)
           \/ n > 1 /\ h[1] \in {"127", "10"}
           \/ n > 2 /\ h[1] = "192" /\ h[2] = "168"
           \/ n > 2 /\ h[1] = "169" /\ h[2] = "254"
           \/ n > 1 /\ h[1] = "172" /\ \E o \in 16 .. 31 : h[2] = ToString(o)
           \/ n = 1
    BY <1>7, <1>8, Refused
  <2>2. (\E o \in 16 .. 31 : h[2] = ToString(o)) <=> b \in 16 .. 31
    BY <1>5, <1>7
  <2> QED
    BY <1>4, <1>5, <1>7, <1>8, <1>9, <2>1, <2>2
<1>12. u.octets[1] = a /\ u.octets[2] = b
  BY <1>1
<1>13. /\ In(u.octets, 10, 0, 256) <=> a = 10
       /\ In(u.octets, 127, 0, 256) <=> a = 127
  BY <1>12 DEF In
<1>14. In(u.octets, 172, 16, 16) <=> a = 172 /\ b \in 16 .. 31
  BY <1>12 DEF In
<1>15. In(u.octets, 192, 168, 1) <=> a = 192 /\ b = 168
  BY <1>12 DEF In
<1>16. In(u.octets, 169, 254, 1) <=> a = 169 /\ b = 254
  BY <1>12 DEF In
<1>17. Public(u) <=>
         /\ ~ (a = 0 /\ b = 0 /\ c = 0 /\ d = 0)
         /\ ~ (a = 10) /\ ~ (a = 127)
         /\ ~ (a = 172 /\ b \in 16 .. 31)
         /\ ~ (a = 192 /\ b = 168)
         /\ ~ (a = 169 /\ b = 254)
  BY <1>2, <1>10, <1>13, <1>14, <1>15, <1>16 DEF Public
<1> HIDE DEF h
<1> QED
  BY <1>3, <1>11, <1>17

\* The check refuses no public URL but those whose host begins with a number it
\* looks for, and lets no other URL pass.
LEMMA UrlLemma ==
  ASSUME NEW u \in Urls
  PROVE  /\ ~ unreachable(Host(u)) => Public(u)
         /\ /\ Public(u)
            /\ u.octets # << >> \/ u.labels[1] \notin {"0", "10", "127", "172", "192", "169"}
            => ~ unreachable(Host(u))
<1>1. CASE u.octets # << >>
  <2>1. u.octets \in [1 .. 4 -> 0 .. 255]
    BY <1>1, UrlAssumption
  <2> QED
    BY <2>1, OctetUrl
<1>2. CASE u.octets = << >>
  <2>1. u.labels \in Seq(STRING) /\ u.labels # << >>
    BY <1>2, UrlAssumption
  <2>2. PICK n \in Nat \ {0} : n = Len(u.labels)
    BY <2>1, EmptySeq
  <2>3. Host(u) = u.labels /\ (Public(u) <=> n > 1)
    BY <1>2, <2>2 DEF Host, Public
  <2> DEFINE s == u.labels
  <2>4. unreachable(s) <=>
           \/ Local(s)
           \/ n > 1 /\ s[1] \in {"127", "10"}
           \/ n > 2 /\ s[1] = "192" /\ s[2] = "168"
           \/ n > 2 /\ s[1] = "169" /\ s[2] = "254"
           \/ n > 1 /\ s[1] = "172" /\ \E o \in 16 .. 31 : s[2] = ToString(o)
           \/ n = 1
    BY <2>1, <2>2, Refused
  <2>5. n > 1 /\ s[1] # "0" => ~ Local(s)
    BY <2>2, LocalLemma
  <2> HIDE DEF s
  <2>6. ~ unreachable(s) => n > 1
    BY <2>4
  <2>7. n > 1 /\ s[1] \notin {"0", "10", "127", "172", "192", "169"} => ~ unreachable(s)
    BY <2>4, <2>5
  <2> QED
    BY <1>2, <2>3, <2>6, <2>7 DEF s
<1> QED
  BY <1>1, <1>2

\* For every first two octets the comparison of text is exact.
LEMMA UrlExact == UrlCheckExact
<1> SUFFICES ASSUME NEW a \in 0 .. 255, NEW b \in 0 .. 255, NEW c \in 0 .. 1
             PROVE  LET u == [scheme |-> "http", octets |-> <<a, b, c, 0>>, labels |-> << >>,
                              behind |-> "nothing"]
                    IN  Check("reachable", "Pass") \in check_aggregator_url(u) <=> Public(u)
  BY DEF UrlCheckExact
<1> DEFINE u == [scheme |-> "http", octets |-> <<a, b, c, 0>>, labels |-> << >>,
                 behind |-> "nothing"]
<1>1. u.octets = <<a, b, c, 0>> /\ u.scheme = "http"
  OBVIOUS
<1>2. <<a, b, c, 0>> \in [1 .. 4 -> 0 .. 255]
  OBVIOUS
<1> HIDE DEF u
<1>3. unreachable(Host(u)) <=> ~ Public(u)
  BY <1>1, <1>2, OctetUrl
<1>4. check_aggregator_url(u) =
        {Check("reachable", IF unreachable(Host(u)) THEN "Fail" ELSE "Pass"), Check("TLS", "Warn")}
  BY <1>1 DEF check_aggregator_url
<1>5. Check("reachable", "Pass") \in check_aggregator_url(u) <=> ~ unreachable(Host(u))
  BY <1>4 DEF Check
<1> QED
  BY <1>3, <1>5 DEF u

-----------------------------------------------------------------------------
(***************************************************************************)
(* The deployment beside the run.                                           *)
(***************************************************************************)
\* What a gateway was started from since the last render has a chain id that can
\* be read.
Startable == "restart" \in done => \A g \in gateway_json : parse_chain_id(g.chain_id) # {}

\* An address book has no name without an address.
NamesGiven == \A book \in addresses : \A key \in DOMAIN book : book[key].name # Blank

DeploymentInv == TypeInv /\ AgreeInv /\ FetchInv /\ Startable /\ NamesGiven

LEMMA DeploymentStep ==
  [Next]_<<deployment, onboard, disturbed>> =>
    /\ [DeploymentNext]_deployment
    /\ Run => UNCHANGED deployment
  BY DEF Next, Run, ReadConfig, FetchDomain, ReadAddresses, Meanwhile

LEMMA StartableNext ==
  DeploymentInv /\ [DeploymentNext]_deployment => Startable'
<1> SUFFICES ASSUME DeploymentInv, [DeploymentNext]_deployment, "restart" \in done'
             PROVE  \A g \in gateway_json' : parse_chain_id(g.chain_id) # {}
  BY DEF Startable
<1>0. Startable /\ Rendering /\ Small(gateway_json)
  BY DEF DeploymentInv, TypeInv, FileTypes, AgreeInv
<1>1. CASE gateway_json' = gateway_json /\ "restart" \in done
  BY <1>0, <1>1 DEF Startable
<1>2. CASE StartGateway
  <2>1. PICK x \in gateway_json : parse_chain_id(x.chain_id) # {}
    BY <1>2 DEF StartGateway
  <2>2. \A g \in gateway_json : g = x
    BY <1>0 DEF Small
  <2>3. gateway_json' = gateway_json
    BY <1>2 DEF StartGateway, runtime
  <2> QED
    BY <2>1, <2>2, <2>3
<1>3. CASE script.pc # "idle" /\ done' = done
  BY <1>0, <1>3 DEF Rendering
<1>4. CASE Load \/ WriteComposeEnv
  BY <1>4 DEF Load, WriteComposeEnv
<1>5. CASE Quiet \/ StopGateway \/ Down
  <2>1. gateway_json' = gateway_json /\ done' = done
    BY <1>5, QuietLemma DEF StopGateway, Down, runtime
  <2> QED
    BY <1>1, <2>1
<1>6. CASE Up
  <2>1. gateway_json' = gateway_json /\ Did("up")
    BY <1>6 DEF Up, runtime
  <2>2. "restart" \in done
    BY <2>1, DidLemma
  <2> QED
    BY <1>1, <2>1, <2>2
<1> QED
  BY <1>2, <1>3, <1>4, <1>5, <1>6, NextSplit DEF WriteGatewayJson, WriteEscrowJson, Validate,
     Interrupt, At

LEMMA NamesNext == NamesGiven /\ [DeploymentNext]_deployment => NamesGiven'
<1> SUFFICES ASSUME NamesGiven, [DeploymentNext]_deployment PROVE NamesGiven'
  OBVIOUS
<1>1. CASE addresses' = addresses
  BY <1>1 DEF NamesGiven
<1>2. CASE FetchAddresses
  <2> SUFFICES ASSUME NEW book \in addresses', NEW key \in DOMAIN book
               PROVE  book[key].name # Blank
    BY DEF NamesGiven
  <2>1. PICK chain \in Chains, books \in Books,
             written \in {{}, {GRT}, {GRT, COLLECTOR}, {GRT, COLLECTOR, SERVICE}} :
          addresses' = {[k \in written |-> Fields(chain, books)[k]]}
    BY <1>2 DEF FetchAddresses
  <2>2. key \in written /\ book[key] = Fields(chain, books)[key]
    BY <2>1
  <2>3. key \in {GRT, COLLECTOR, SERVICE}
    BY <2>2
  <2> QED
    BY <2>2, <2>3, FieldNames
<1> QED
  BY <1>1, <1>2 DEF DeploymentNext, Operator, Render, Compose, EditEnv,
     GenKey, RemoveKey, Load, WriteGatewayJson, WriteEscrowJson, Validate, WriteComposeEnv,
     Interrupt, Up, StartGateway, StopGateway, Down, deployment, inputs

LEMMA DeploymentInit == Init => DeploymentInv
<1>1. Init => Startable /\ NamesGiven
  BY DEF Init, Startable, NamesGiven
<1> QED
  BY <1>1, TypeInit, AgreeInit, FetchInit DEF DeploymentInv

LEMMA DeploymentInvNext ==
  DeploymentInv /\ [DeploymentNext]_deployment => DeploymentInv'
  BY TypeNext, RenderingNext, RenderedNext, FetchNext, StartableNext, NamesNext
     DEF DeploymentInv, AgreeInv

-----------------------------------------------------------------------------
(***************************************************************************)
(* What a check says when it does not fail.                                 *)
(***************************************************************************)
LEMMA CheckFields ==
  ASSUME NEW name, NEW outcome
  PROVE  Check(name, outcome).name = name /\ Check(name, outcome).outcome = outcome
  BY DEF Check

LEMMA MayOnboardSplit ==
  ASSUME NEW A, NEW B
  PROVE  may_onboard(A \union B) <=> may_onboard(A) /\ may_onboard(B)
  BY DEF may_onboard

LEMMA UrlOutcome ==
  ASSUME NEW u
  PROVE  may_onboard(check_aggregator_url(u)) <=> u.scheme # "none" /\ ~ unreachable(Host(u))
<1>1. CASE u.scheme = "none"
  <2>1. check_aggregator_url(u) = {Check("reachable", "Fail")}
    BY <1>1 DEF check_aggregator_url
  <2> QED
    BY <1>1, <2>1, CheckFields DEF may_onboard
<1>2. CASE u.scheme # "none"
  <2> DEFINE reach == Check("reachable", IF unreachable(Host(u)) THEN "Fail" ELSE "Pass")
             tls == Check("TLS", IF u.scheme = "https" THEN "Pass" ELSE "Warn")
  <2>1. check_aggregator_url(u) = {reach, tls}
    BY <1>2 DEF check_aggregator_url
  <2>2. reach.outcome = IF unreachable(Host(u)) THEN "Fail" ELSE "Pass"
    BY CheckFields
  <2>3. tls.outcome = IF u.scheme = "https" THEN "Pass" ELSE "Warn"
    BY CheckFields
  <2> HIDE DEF reach, tls
  <2>4. tls.outcome # "Fail"
    BY <2>3
  <2>5. reach.outcome # "Fail" <=> ~ unreachable(Host(u))
    BY <2>2
  <2> QED
    BY <1>2, <2>1, <2>4, <2>5 DEF may_onboard
<1> QED
  BY <1>1, <1>2

LEMMA DomainOutcome ==
  ASSUME NEW c
  PROVE  check_domain(c).outcome # "Fail" <=>
           \E info \in fetch_domain_info(url) : domain_matches(info, c)
<1> DEFINE ok == \E info \in fetch_domain_info(url) : domain_matches(info, c)
<1>1. check_domain(c) = Check("domain", IF ok THEN "Pass" ELSE "Fail")
  BY DEF check_domain
<1> HIDE DEF ok
<1>2. check_domain(c).outcome = IF ok THEN "Pass" ELSE "Fail"
  BY <1>1, CheckFields
<1>3. check_domain(c).outcome # "Fail" <=> ok
  BY <1>2
<1> QED
  BY <1>3 DEF ok

\* The address book has no other address for what it has an address for.
Matches(book, c) ==
  /\ COLLECTOR \in DOMAIN book => c.verifier = book[COLLECTOR].name
  /\ SERVICE \in DOMAIN book => c.data_service = book[SERVICE].name

LEMMA DriftOutcome ==
  ASSUME NEW c, NEW book
  PROVE  check_address_drift(RenderedAddresses(c), book).outcome # "Fail" <=> Matches(book, c)
<1> DEFINE rendered == RenderedAddresses(c)
           ok == \A key \in DOMAIN book \intersect DOMAIN rendered :
                   eq_ignore_ascii_case(rendered[key], book[key])
<1>1. COLLECTOR # SERVICE
  BY DEF COLLECTOR, SERVICE
<1>2. /\ DOMAIN rendered = {COLLECTOR, SERVICE}
      /\ rendered[COLLECTOR] = Checksummed(c.verifier)
      /\ rendered[SERVICE] = Checksummed(c.data_service)
  BY <1>1 DEF RenderedAddresses
<1>3. /\ Checksummed(c.verifier).name = c.verifier
      /\ Checksummed(c.data_service).name = c.data_service
  BY DEF Checksummed
<1>4. check_address_drift(rendered, book) =
        Check("addresses", IF ok THEN "Pass" ELSE "Fail")
  BY DEF check_address_drift
<1> HIDE DEF rendered
<1>5. ok <=> Matches(book, c)
  BY <1>2, <1>3 DEF Matches, eq_ignore_ascii_case
<1> HIDE DEF ok
<1>6. check_address_drift(rendered, book).outcome = IF ok THEN "Pass" ELSE "Fail"
  BY <1>4, CheckFields
<1>7. check_address_drift(rendered, book).outcome # "Fail" <=> Matches(book, c)
  BY <1>5, <1>6
<1> QED
  BY <1>7 DEF rendered

LEMMA AddressesOutcome ==
  ASSUME NEW c
  PROVE  may_onboard(check_addresses(c)) <=> \A book \in addresses : Matches(book, c)
<1> DEFINE drift(book) == check_address_drift(RenderedAddresses(c), book)
<1>1. CASE addresses = {}
  <2>1. check_addresses(c) = {Check("addresses", "Warn")}
    BY <1>1 DEF check_addresses
  <2> QED
    BY <1>1, <2>1, CheckFields DEF may_onboard
<1>2. CASE addresses # {}
  <2>1. check_addresses(c) = {drift(book) : book \in addresses}
    BY <1>2 DEF check_addresses
  <2>2. \A book : drift(book).outcome # "Fail" <=> Matches(book, c)
    BY DriftOutcome
  <2> HIDE DEF drift
  <2> QED
    BY <2>1, <2>2 DEF may_onboard
<1> QED
  BY <1>1, <1>2

LEMMA MatchesAgrees ==
  ASSUME NEW c, NEW book
  PROVE  /\ Matches(book, c) => Agrees(book, c.verifier, c.data_service)
         /\ /\ Agrees(book, c.verifier, c.data_service)
            /\ \A key \in DOMAIN book : book[key].name # Blank
            => Matches(book, c)
<1>1. \A key : key \in DOMAIN book => Entry(book, key) = book[key]
  BY DEF Entry
<1>2. \A key : key \notin DOMAIN book => Entry(book, key).name = Blank
  BY DEF Entry
<1> QED
  BY <1>1, <1>2 DEF Matches, Agrees

\* All that the checks of a run are.
CheckTypes == [name : {"reachable", "TLS", "domain", "addresses"},
               outcome : {"Pass", "Warn", "Fail"}]

LEMMA CheckTyped ==
  ASSUME NEW name \in {"reachable", "TLS", "domain", "addresses"},
         NEW outcome \in {"Pass", "Warn", "Fail"}
  PROVE  Check(name, outcome) \in CheckTypes
  BY DEF Check, CheckTypes

LEMMA ChecksTyped ==
  /\ \A u : check_aggregator_url(u) \subseteq CheckTypes
  /\ \A c : check_domain(c) \in CheckTypes /\ check_addresses(c) \subseteq CheckTypes
<1>1. ASSUME NEW u PROVE check_aggregator_url(u) \subseteq CheckTypes
  BY CheckTyped DEF check_aggregator_url
<1>2. ASSUME NEW c PROVE check_domain(c) \in CheckTypes
  BY CheckTyped DEF check_domain
<1>3. ASSUME NEW c PROVE check_addresses(c) \subseteq CheckTypes
  BY CheckTyped DEF check_addresses, check_address_drift
<1> QED
  BY <1>1, <1>2, <1>3

-----------------------------------------------------------------------------
(***************************************************************************)
(* The types of a run.                                                      *)
(***************************************************************************)
RunTypes ==
  /\ pc \in {"config", "domain", "addresses", "done"}
  /\ url \in Urls \union {NoUrl} /\ (pc # "config" => url \in Urls)
  /\ Small(cfg)
  /\ checks \subseteq CheckTypes
  /\ result \in {"none", "fatal", "NOT READY", "READY"}
  /\ pc \in {"domain", "addresses"} => cfg # {}
  /\ pc # "done" => result = "none"
  /\ block # {} <=> result = "READY"

\* The block of a configuration.
BlockOf(c) == [sender |-> c.payer, aggregator_url |-> url, collector |-> c.verifier,
               subgraph_service |-> c.data_service, chain_id |-> c.chain_id]

LEMMA ReadLemma ==
  ASSUME ReadAddresses
  PROVE  /\ pc = "addresses" /\ pc' = "done"
         /\ checks' = checks \union UNION {check_addresses(c) : c \in cfg}
         /\ book_read' = addresses
         /\ result' = IF may_onboard(checks') THEN "READY" ELSE "NOT READY"
         /\ block' = IF may_onboard(checks') THEN {BlockOf(c) : c \in cfg} ELSE block
         /\ UNCHANGED <<deployment, url, cfg, told, disturbed>>
  BY DEF ReadAddresses, BlockOf

\* What a configuration is made of: one file, or none.
LEMMA ConfigSmall ==
  ASSUME NEW file, Small(file)
  PROVE  Small(from_gateway_json(file))
<1> DEFINE Taken(g) == [chain_id |-> Max(parse_chain_id(g.chain_id)),
                        verifier |-> g.verifier.name,
                        payer |-> g.payer.name,
                        data_service |-> g.subgraph_service.name,
                        signer |-> g.signer]
           use == {f \in file : /\ parse_chain_id(f.chain_id) # {}
                                /\ Blank \notin {f.verifier.name, f.payer.name,
                                                 f.subgraph_service.name}
                                /\ f.api_keys > 0}
<1>1. from_gateway_json(file) = {Taken(g) : g \in use}
  BY DEF from_gateway_json
<1>2. use \subseteq file
  OBVIOUS
<1> HIDE DEF Taken, use
<1>3. Small(use)
  BY <1>2, SmallLemma
<1>4. CASE use = {}
  BY <1>1, <1>4 DEF Small
<1>5. CASE \E x : use = {x}
  <2>1. PICK x : use = {x}
    BY <1>5
  <2>2. from_gateway_json(file) = {Taken(x)}
    BY <1>1, <2>1
  <2> QED
    BY <2>2, SmallLemma
<1> QED
  BY <1>3, <1>4, <1>5 DEF Small

LEMMA RunTypesNext ==
  ASSUME DeploymentInv, RunTypes, [Next]_<<deployment, onboard, disturbed>>
  PROVE  RunTypes'
<1>1. CASE ReadConfig
  <2>1. pc = "config" /\ result = "none" /\ UNCHANGED block
    BY <1>1 DEF ReadConfig, RunTypes
  <2>2. url' \in Urls /\ cfg' = from_gateway_json(gateway_json)
    BY <1>1 DEF ReadConfig
  <2>3. Small(cfg')
    BY <2>2, ConfigSmall DEF DeploymentInv, TypeInv, FileTypes
  <2>4. \/ cfg' = {} /\ pc' = "done" /\ result' = "fatal" /\ UNCHANGED checks
        \/ /\ cfg' # {} /\ pc' = "domain" /\ UNCHANGED result
           /\ checks' = check_aggregator_url(url')
    BY <1>1 DEF ReadConfig
  <2>5. checks' \subseteq CheckTypes
    BY <2>4, ChecksTyped DEF RunTypes
  <2> QED
    BY <2>1, <2>2, <2>3, <2>4, <2>5 DEF RunTypes, Small
<1>2. CASE FetchDomain
  <2>1. /\ pc = "domain" /\ pc' = "addresses"
        /\ checks' = checks \union {check_domain(c) : c \in cfg}
        /\ UNCHANGED <<url, cfg, result, block>>
    BY <1>2 DEF FetchDomain
  <2>2. checks' \subseteq CheckTypes
    BY <2>1, ChecksTyped DEF RunTypes
  <2> QED
    BY <2>1, <2>2 DEF RunTypes, Small
<1>3. CASE ReadAddresses
  <2>1. pc' = "done" /\ UNCHANGED <<url, cfg>> /\ url \in Urls /\ cfg # {}
    BY <1>3, ReadLemma DEF RunTypes
  <2>2. checks' \subseteq CheckTypes
    <3>1. checks' = checks \union UNION {check_addresses(c) : c \in cfg}
      BY <1>3, ReadLemma
    <3>2. UNION {check_addresses(c) : c \in cfg} \subseteq CheckTypes
      BY ChecksTyped
    <3> QED
      BY <3>1, <3>2 DEF RunTypes
  <2>3. result = "none" /\ block = {}
    BY <1>3, ReadLemma DEF RunTypes
  <2>4. /\ result' = IF may_onboard(checks') THEN "READY" ELSE "NOT READY"
        /\ block' = IF may_onboard(checks') THEN {BlockOf(c) : c \in cfg} ELSE {}
    BY <1>3, <2>3, ReadLemma
  <2>5. block' # {} <=> result' = "READY"
    BY <2>1, <2>4
  <2>6. result' \in {"none", "fatal", "NOT READY", "READY"}
    BY <2>4
  <2> QED
    BY <2>1, <2>2, <2>5, <2>6 DEF RunTypes, Small
<1>4. CASE UNCHANGED onboard
  BY <1>4 DEF RunTypes, onboard, Small
<1> QED
  BY <1>1, <1>2, <1>3, <1>4 DEF Next, Run, Meanwhile

LEMMA RunTypesInit == OnboardInit => RunTypes
  BY SmallLemma DEF OnboardInit, RunTypes

\* Every step of the run, or of the deployment beside it, keeps the types.
OnboardInv == DeploymentInv /\ RunTypes

LEMMA OnboardInvInit == OnboardInit => OnboardInv
  BY DeploymentInit, RunTypesInit DEF OnboardInit, OnboardInv

LEMMA OnboardInvNext ==
  OnboardInv /\ [Next]_<<deployment, onboard, disturbed>> => OnboardInv'
  BY DeploymentStep, DeploymentInvNext, RunTypesNext DEF OnboardInv

LEMMA OnboardInvariance == Spec => []OnboardInv
  BY OnboardInvInit, OnboardInvNext, PTL DEF Spec

\* Every variable of the run and of the deployment has its type, and there is a
\* block exactly when the run says READY.
THEOREM OnboardTypes == Spec => []OnboardTypeOK
<1>1. OnboardInv => OnboardTypeOK
  <2> SUFFICES ASSUME OnboardInv PROVE OnboardTypeOK
    OBVIOUS
  <2>1. TypeOK
    BY TypeLemma DEF OnboardInv, DeploymentInv
  <2>2. Cardinality(cfg) <= 1
    BY SmallCardinality DEF OnboardInv, RunTypes
  <2> QED
    BY <2>1, <2>2 DEF OnboardInv, RunTypes, CheckTypes, OnboardTypeOK
<1> QED
  BY <1>1, OnboardInvariance, PTL

\* A run of gib-onboard only reads: beside it the operator, the scripts and Compose
\* do what they do alone, so that Onboard implements the specification of Deployment.
THEOREM BesideTheorem == Spec => DeploymentSpec
<1>1. OnboardInit => Init
  BY DEF OnboardInit
<1>2. [Next]_<<deployment, onboard, disturbed>> => [DeploymentNext]_deployment
  BY DeploymentStep
<1> QED
  BY <1>1, <1>2, PTL DEF Spec, DeploymentSpec

\* What is proved of the deployment alone therefore holds beside a run, where
\* gib-onboard reads its files between any two of its steps.
THEOREM DeploymentBeside ==
  Spec => [](KeysKept /\ OneFetch /\ RenderAgrees /\ SettlesInAgreement)
BY BesideTheorem, KeysTheorem, FetchTheorem, RenderTheorem, SettlesTheorem, PTL

\* The comparison of text, octet by octet, tells the public addresses from the others.
THEOREM UrlTheorem == Spec => []UrlCheckExact
<1>1. UrlCheckExact
  BY UrlExact
<1> QED
  BY <1>1, PTL

-----------------------------------------------------------------------------
(***************************************************************************)
(* A block is vouched for.                                                  *)
(***************************************************************************)
\* What a run takes from gateway.json: a number for the chain, a collector, and the
\* subgraph service that was fetched with it.
WellFormed(c) ==
  c.chain_id \in Nat /\ c.verifier # Blank /\ <<c.verifier, c.data_service>> \in fetches

\* The aggregator that was asked works in the domain of a configuration.
AnsweredFor(c) ==
  \E n \in {d[1] : d \in told} : told = {<<n, c.verifier>>} /\ TakenFor(n, c.chain_id)

\* What has been checked when no check failed so far.
Vouched ==
  /\ \A c \in cfg : WellFormed(c)
  /\ pc \in {"domain", "addresses"} /\ may_onboard(checks) => Public(url)
  /\ pc = "addresses" /\ may_onboard(checks) => \A c \in cfg : AnsweredFor(c)
  /\ BlockIsVouched

\* How a configuration comes from the file.
TakenFrom(c, g) ==
  /\ \E n \in Nat : parse_chain_id(g.chain_id) = {n} /\ c.chain_id = n
  /\ c.verifier = g.verifier.name
  /\ c.payer = g.payer.name
  /\ c.data_service = g.subgraph_service.name
  /\ Blank \notin {c.verifier, c.payer, c.data_service}

LEMMA ConfigTaken ==
  ASSUME OnboardInv
  PROVE  \A c \in from_gateway_json(gateway_json) : \E g \in gateway_json : TakenFrom(c, g)
<1> SUFFICES ASSUME NEW c \in from_gateway_json(gateway_json)
             PROVE  \E g \in gateway_json : TakenFrom(c, g)
  OBVIOUS
<1>1. PICK g \in gateway_json :
        /\ parse_chain_id(g.chain_id) # {}
        /\ Blank \notin {g.verifier.name, g.payer.name, g.subgraph_service.name}
        /\ c = [chain_id |-> Max(parse_chain_id(g.chain_id)),
                verifier |-> g.verifier.name,
                payer |-> g.payer.name,
                data_service |-> g.subgraph_service.name,
                signer |-> g.signer]
  BY DEF from_gateway_json
<1>2. g.chain_id \in ChainTexts
  BY DEF OnboardInv, DeploymentInv, TypeInv, FileTypes
<1>3. PICK n \in Nat : parse_chain_id(g.chain_id) = {n} /\ Max(parse_chain_id(g.chain_id)) = n
  BY <1>1, <1>2, ChainId DEF ChainTexts
<1>4. /\ c.chain_id = n /\ c.verifier = g.verifier.name /\ c.payer = g.payer.name
      /\ c.data_service = g.subgraph_service.name
  BY <1>1, <1>3
<1>5. TakenFrom(c, g)
  BY <1>1, <1>3, <1>4 DEF TakenFrom
<1> QED
  BY <1>5

LEMMA ConfigWellFormed ==
  ASSUME OnboardInv
  PROVE  \A c \in from_gateway_json(gateway_json) : WellFormed(c)
<1> SUFFICES ASSUME NEW c \in from_gateway_json(gateway_json) PROVE WellFormed(c)
  OBVIOUS
<1>1. PICK g \in gateway_json : TakenFrom(c, g)
  BY ConfigTaken
<1>2. OfOneFetch(g.verifier.name, g.subgraph_service.name)
  BY DEF OnboardInv, DeploymentInv, FetchInv
<1> QED
  BY <1>1, <1>2 DEF TakenFrom, OfOneFetch, WellFormed

\* What an aggregator behind a URL says of itself.
LEMMA AggregatorLemma ==
  ASSUME OnboardInv, NEW u, NEW a \in Behind(u)
  PROVE  \E n \in Nat : /\ parse_chain_id(a.chain) = {n}
                        /\ DomainOf(a) = <<n, a.verifier.name>>
                        /\ InfoOf(a).verifyingContract = a.verifier.name
                        /\ InfoOf(a).form = "hex"
                        /\ InfoOf(a).digits = HexDigits[n]
                        /\ Behind(u) = {a}
<1>1. Starts(a) /\ (a \in aggregator \/ a = Stranger)
  BY DEF Behind
<1>2. a.chain \in ChainTexts /\ Small(aggregator)
  BY <1>1, StrangerAssumption DEF OnboardInv, DeploymentInv, TypeInv, ServiceTypes, ChainTexts
<1>3. PICK n \in Nat : parse_chain_id(a.chain) = {n} /\ Max(parse_chain_id(a.chain)) = n
  BY <1>1, <1>2, ChainId DEF ChainTexts, Starts
<1>4. DomainOf(a) = <<n, a.verifier.name>> /\ DomainOf(a)[1] = n
  BY <1>3 DEF DomainOf
<1>5. /\ InfoOf(a).verifyingContract = a.verifier.name
      /\ InfoOf(a).form = "hex"
      /\ InfoOf(a).digits = HexDigits[n]
  BY <1>4 DEF InfoOf
<1>6. Behind(u) = {a}
  BY <1>2 DEF Behind, Small
<1> QED
  BY <1>3, <1>4, <1>5, <1>6

\* The domain check of a configuration: against the domain the aggregator works in.
LEMMA DomainLemma ==
  ASSUME NEW n \in Nat, NEW info, NEW c, c.chain_id \in Nat,
         info.form = "hex", info.digits = HexDigits[n]
  PROVE  domain_matches(info, c) <=>
           info.verifyingContract = c.verifier /\ TakenFor(n, c.chain_id)
<1>1. Value(HexDigits[n], 16) = n
  BY HexValue DEF IsHexOf
<1>2. info.form # "number"
  OBVIOUS
<1>3. domain_matches(info, c) <=>
        /\ info.verifyingContract = c.verifier
        /\ \/ Value(info.digits, 16) = c.chain_id
           \/ Decimal(info.digits) /\ Value(info.digits, 10) = c.chain_id
  BY <1>2 DEF domain_matches
<1> QED
  BY <1>1, <1>3 DEF TakenFor

\* The check does not fail unless an aggregator behind the URL runs in the domain.
LEMMA AnswerLemma ==
  ASSUME OnboardInv, NEW c, WellFormed(c), check_domain(c).outcome # "Fail"
  PROVE  \E a \in Behind(url), n \in Nat :
           /\ {DomainOf(x) : x \in Behind(url)} = {<<n, c.verifier>>}
           /\ DomainOf(a) = <<n, c.verifier>>
           /\ parse_chain_id(a.chain) = {n}
           /\ TakenFor(n, c.chain_id)
<1>1. PICK info \in fetch_domain_info(url) : domain_matches(info, c)
  BY DomainOutcome
<1>2. info.verifyingContract = c.verifier /\ c.verifier # Blank /\ c.chain_id \in Nat
  BY <1>1 DEF domain_matches, WellFormed
<1>3. info \in {InfoOf(a) : a \in Behind(url)}
  <2> DEFINE noData == [verifyingContract |-> Blank, form |-> "hex", digits |-> << >>]
  <2>1. info = noData \/ info \in {InfoOf(a) : a \in Behind(url)}
    BY <1>1 DEF fetch_domain_info
  <2>2. noData.verifyingContract = Blank
    OBVIOUS
  <2> HIDE DEF noData
  <2> QED
    BY <1>2, <2>1, <2>2
<1>8. PICK a \in Behind(url) : info = InfoOf(a)
  BY <1>3
<1>9. PICK n \in Nat : /\ parse_chain_id(a.chain) = {n}
                       /\ DomainOf(a) = <<n, a.verifier.name>>
                       /\ InfoOf(a).verifyingContract = a.verifier.name
                       /\ InfoOf(a).form = "hex"
                       /\ InfoOf(a).digits = HexDigits[n]
                       /\ Behind(url) = {a}
  BY AggregatorLemma
<1>10. info.form = "hex" /\ info.digits = HexDigits[n]
       /\ info.verifyingContract = a.verifier.name
  BY <1>8, <1>9
<1>11. TakenFor(n, c.chain_id)
  BY <1>1, <1>2, <1>10, DomainLemma
<1>12. DomainOf(a) = <<n, c.verifier>>
  BY <1>2, <1>9, <1>10
<1>13. {DomainOf(x) : x \in Behind(url)} = {<<n, c.verifier>>}
  BY <1>9, <1>12
<1> QED
  BY <1>9, <1>11, <1>12, <1>13

LEMMA VouchedNext ==
  ASSUME OnboardInv, OnboardInv', Vouched, [Next]_<<deployment, onboard, disturbed>>
  PROVE  Vouched'
<1>0. /\ fetches \subseteq fetches'
      /\ \A c : WellFormed(c) => WellFormed(c)'
  <2>1. fetches \subseteq fetches'
    BY DeploymentStep, FetchesGrow
  <2> QED
    BY <2>1 DEF WellFormed
<1>1. CASE ReadConfig
  <2>1. /\ pc = "config" /\ url' \in Urls /\ UNCHANGED <<deployment, block>>
        /\ cfg' = from_gateway_json(gateway_json)
        /\ pc' # "addresses"
        /\ pc' = "domain" => checks' = check_aggregator_url(url')
    BY <1>1 DEF ReadConfig
  <2>2. \A c \in cfg' : WellFormed(c)'
    BY <1>0, <2>1, ConfigWellFormed
  <2>3. ASSUME pc' = "domain", may_onboard(checks') PROVE Public(url')
    BY <2>1, <2>3, UrlOutcome, UrlLemma
  <2>4. block' = {}
    BY <2>1 DEF OnboardInv, RunTypes
  <2>5. BlockIsVouched'
    BY <2>4 DEF BlockIsVouched
  <2> QED
    BY <2>1, <2>2, <2>3, <2>5 DEF Vouched
<1>2. CASE FetchDomain
  <2>1. /\ pc = "domain" /\ pc' = "addresses"
        /\ checks' = checks \union {check_domain(c) : c \in cfg}
        /\ told' = {DomainOf(a) : a \in Behind(url)}
        /\ UNCHANGED <<url, cfg, block>>
    BY <1>2 DEF FetchDomain
  <2>2. url \in Urls /\ block' = {}
    BY <2>1 DEF OnboardInv, RunTypes
  <2>3. ASSUME may_onboard(checks')
        PROVE  may_onboard(checks) /\ \A c \in cfg : check_domain(c).outcome # "Fail"
    BY <2>1, <2>3 DEF may_onboard
  <2>4. ASSUME may_onboard(checks'), NEW c \in cfg' PROVE AnsweredFor(c)'
    <3>1. c \in cfg /\ WellFormed(c) /\ check_domain(c).outcome # "Fail"
      BY <2>1, <2>3, <2>4 DEF Vouched
    <3>2. \E n \in Nat : /\ {DomainOf(x) : x \in Behind(url)} = {<<n, c.verifier>>}
                          /\ TakenFor(n, c.chain_id)
      BY <3>1, AnswerLemma
    <3>3. PICK n \in Nat : told' = {<<n, c.verifier>>} /\ TakenFor(n, c.chain_id)
      BY <2>1, <3>2
    <3>4. n \in {d[1] : d \in told'}
      <4>1. <<n, c.verifier>>[1] = n /\ <<n, c.verifier>> \in told'
        BY <3>3
      <4> QED
        BY <4>1
    <3> QED
      BY <3>3, <3>4 DEF AnsweredFor
  <2>5. BlockIsVouched'
    BY <2>2 DEF BlockIsVouched
  <2>6. \A c \in cfg' : WellFormed(c)'
    BY <1>0, <2>1 DEF Vouched
  <2>7. may_onboard(checks') => Public(url')
    BY <2>1, <2>3 DEF Vouched
  <2> QED
    BY <2>4, <2>5, <2>6, <2>7 DEF Vouched
<1>3. CASE ReadAddresses
  <2>1. /\ pc = "addresses" /\ pc' = "done"
        /\ checks' = checks \union UNION {check_addresses(c) : c \in cfg}
        /\ book_read' = addresses
        /\ block' = IF may_onboard(checks') THEN {BlockOf(c) : c \in cfg} ELSE block
        /\ UNCHANGED <<url, cfg, told>>
    BY <1>3, ReadLemma
  <2>2. block = {}
    BY <2>1 DEF OnboardInv, RunTypes
  <2>3. ASSUME NEW b \in block'
        PROVE  /\ Public(b.aggregator_url)
               /\ \E n \in {d[1] : d \in told'} : /\ told' = {<<n, b.collector>>}
                                                 /\ TakenFor(n, b.chain_id)
               /\ \A book \in book_read' : Agrees(book, b.collector, b.subgraph_service)
               /\ <<b.collector, b.subgraph_service>> \in fetches'
    <3>1. may_onboard(checks') /\ \E c \in cfg : b = BlockOf(c)
      BY <2>1, <2>2
    <3>2. PICK c \in cfg : b = BlockOf(c)
      BY <3>1
    <3>3. /\ b.aggregator_url = url /\ b.collector = c.verifier
          /\ b.subgraph_service = c.data_service /\ b.chain_id = c.chain_id
      BY <3>2 DEF BlockOf
    <3>4. may_onboard(checks) /\ may_onboard(check_addresses(c))
      BY <2>1, <3>1 DEF may_onboard
    <3>5. Public(url) /\ AnsweredFor(c) /\ WellFormed(c)
      BY <2>1, <3>4 DEF Vouched
    <3>6. \A book \in addresses : Agrees(book, c.verifier, c.data_service)
      BY <3>4, AddressesOutcome, MatchesAgrees
    <3> QED
      BY <1>0, <2>1, <3>3, <3>5, <3>6 DEF AnsweredFor, WellFormed
  <2>4. BlockIsVouched'
    BY <2>3 DEF BlockIsVouched
  <2>5. \A c \in cfg' : WellFormed(c)'
    BY <1>0, <2>1 DEF Vouched
  <2> QED
    BY <2>1, <2>4, <2>5 DEF Vouched
<1>4. CASE UNCHANGED onboard
  <2>1. UNCHANGED <<pc, url, cfg, checks, block, told, book_read>>
    BY <1>4 DEF onboard
  <2>2. BlockIsVouched'
    BY <1>0, <2>1 DEF Vouched, BlockIsVouched, TakenFor, Agrees, Entry, Public
  <2>3. \A c : AnsweredFor(c) => AnsweredFor(c)'
    BY <2>1 DEF AnsweredFor
  <2>4. \A c \in cfg' : WellFormed(c)'
    BY <1>0, <2>1 DEF Vouched
  <2> QED
    BY <2>1, <2>2, <2>3, <2>4 DEF Vouched
<1> QED
  BY <1>1, <1>2, <1>3, <1>4 DEF Next, Run, Meanwhile

\* A block is printed only for a public URL, when the aggregator behind it worked with
\* the block's collector, on its chain or one taken for it (TakenFor), and the address
\* book that was read had no other address, although the deployment may have changed
\* between any two of these reads; its two addresses come from one fetch.
THEOREM BlockTheorem == Spec => []BlockIsVouched
<1>1. OnboardInit => Vouched
  <2> SUFFICES ASSUME OnboardInit PROVE Vouched
    OBVIOUS
  <2>1. cfg = {} /\ pc = "config" /\ block = {}
    BY DEF OnboardInit
  <2> QED
    BY <2>1 DEF Vouched, BlockIsVouched
<1>2. OnboardInv /\ OnboardInv' /\ Vouched /\ [Next]_<<deployment, onboard, disturbed>>
        => Vouched'
  BY VouchedNext
<1>3. Vouched => BlockIsVouched
  BY DEF Vouched
<1> QED
  BY <1>1, <1>2, <1>3, OnboardInvariance, PTL DEF Spec

-----------------------------------------------------------------------------
(***************************************************************************)
(* A run beside which the deployment stood still.                           *)
(***************************************************************************)
DomainChecks == {check_domain(c) : c \in cfg}
AddressChecks == UNION {check_addresses(c) : c \in cfg}

\* What the run found is still so: the checks, made again, would be the same.
Undisturbed ==
  /\ pc = "config" => ~ disturbed
  /\ pc # "config" /\ ~ disturbed => cfg = from_gateway_json(gateway_json)
  /\ pc = "domain" /\ ~ disturbed => checks = check_aggregator_url(url)
  /\ pc = "addresses" /\ ~ disturbed =>
       checks = check_aggregator_url(url) \union DomainChecks
  /\ pc = "done" /\ ~ disturbed =>
       IF cfg = {} THEN block = {}
       ELSE /\ checks = check_aggregator_url(url) \union DomainChecks \union AddressChecks
            /\ result = IF may_onboard(checks) THEN "READY" ELSE "NOT READY"
            /\ block = IF may_onboard(checks) THEN {BlockOf(c) : c \in cfg} ELSE {}

LEMMA SameChecks ==
  ASSUME UNCHANGED <<deployment, url, cfg>>
  PROVE  DomainChecks' = DomainChecks /\ AddressChecks' = AddressChecks
<1>1. UNCHANGED <<aggregator, addresses>>
  BY DEF deployment, services, inputs
<1>2. \A c : check_domain(c)' = check_domain(c)
  BY <1>1 DEF check_domain, fetch_domain_info, Behind, InfoOf, DomainOf
<1>3. \A c : check_addresses(c)' = check_addresses(c)
  BY <1>1 DEF check_addresses
<1> QED
  BY <1>2, <1>3 DEF DomainChecks, AddressChecks

LEMMA UndisturbedNext ==
  ASSUME OnboardInv, Undisturbed, [Next]_<<deployment, onboard, disturbed>>
  PROVE  Undisturbed'
<1>1. CASE ReadConfig
  <2>1. /\ pc = "config" /\ UNCHANGED <<deployment, block, disturbed>>
        /\ cfg' = from_gateway_json(gateway_json)
        /\ \/ cfg' = {} /\ pc' = "done"
           \/ pc' = "domain" /\ checks' = check_aggregator_url(url')
    BY <1>1 DEF ReadConfig
  <2>2. block' = {}
    BY <2>1 DEF OnboardInv, RunTypes
  <2>3. gateway_json' = gateway_json
    BY <2>1 DEF deployment, runtime
  <2> QED
    BY <2>1, <2>2, <2>3 DEF Undisturbed
<1>2. CASE FetchDomain
  <2>1. /\ pc = "domain" /\ pc' = "addresses"
        /\ checks' = checks \union DomainChecks
        /\ UNCHANGED <<deployment, url, cfg, disturbed>>
    BY <1>2 DEF FetchDomain, DomainChecks
  <2>2. DomainChecks' = DomainChecks /\ gateway_json' = gateway_json
    BY <2>1, SameChecks DEF deployment, runtime
  <2> QED
    BY <2>1, <2>2 DEF Undisturbed
<1>3. CASE ReadAddresses
  <2>1. /\ pc = "addresses" /\ pc' = "done"
        /\ checks' = checks \union AddressChecks
        /\ result' = IF may_onboard(checks') THEN "READY" ELSE "NOT READY"
        /\ block' = IF may_onboard(checks') THEN {BlockOf(c) : c \in cfg} ELSE block
        /\ UNCHANGED <<deployment, url, cfg, disturbed>>
    BY <1>3, ReadLemma DEF AddressChecks
  <2>2. /\ DomainChecks' = DomainChecks /\ AddressChecks' = AddressChecks
        /\ gateway_json' = gateway_json
    BY <2>1, SameChecks DEF deployment, runtime
  <2>3. block = {} /\ cfg # {}
    BY <2>1 DEF OnboardInv, RunTypes
  <2>4. {BlockOf(c) : c \in cfg}' = {BlockOf(c) : c \in cfg}
    BY <2>1 DEF BlockOf
  <2>5. ASSUME ~ disturbed'
        PROVE  checks' = check_aggregator_url(url') \union DomainChecks' \union AddressChecks'
    BY <2>1, <2>2, <2>5 DEF Undisturbed
  <2>6. block' = IF may_onboard(checks') THEN {BlockOf(c) : c \in cfg}' ELSE {}
    BY <2>1, <2>3, <2>4
  <2>7. ~ disturbed' => cfg' = from_gateway_json(gateway_json')
    BY <2>1, <2>2 DEF Undisturbed
  <2>8. pc' = "done" /\ result' = IF may_onboard(checks') THEN "READY" ELSE "NOT READY"
    BY <2>1
  <2>9. cfg' # {}
    BY <2>1, <2>3
  <2> QED
    BY <2>5, <2>6, <2>7, <2>8, <2>9 DEF Undisturbed
<1>4. CASE Meanwhile
  <2>1. pc # "done" /\ pc' = pc /\ disturbed' = (pc # "config")
    BY <1>4 DEF Meanwhile, onboard
  <2> QED
    BY <2>1 DEF Undisturbed
<1>5. CASE UNCHANGED <<deployment, onboard, disturbed>>
  <2>1. UNCHANGED <<deployment, pc, url, cfg, checks, result, block, disturbed, gateway_json>>
    BY <1>5 DEF onboard, deployment, runtime
  <2>2. /\ DomainChecks' = DomainChecks /\ AddressChecks' = AddressChecks
    BY <2>1, SameChecks
  <2>3. {BlockOf(c) : c \in cfg}' = {BlockOf(c) : c \in cfg}
    BY <2>1 DEF BlockOf
  <2> QED
    BY <2>1, <2>2, <2>3 DEF Undisturbed
<1> QED
  BY <1>1, <1>2, <1>3, <1>4, <1>5 DEF Next, Run

RunInv == OnboardInv /\ Vouched /\ Undisturbed

LEMMA RunInvariance == Spec => []RunInv
<1>1. OnboardInit => Vouched /\ Undisturbed
  <2> SUFFICES ASSUME OnboardInit PROVE Vouched /\ Undisturbed
    OBVIOUS
  <2>1. cfg = {} /\ pc = "config" /\ block = {} /\ ~ disturbed
    BY DEF OnboardInit
  <2> QED
    BY <2>1 DEF Vouched, BlockIsVouched, Undisturbed
<1>2. RunInv /\ [Next]_<<deployment, onboard, disturbed>> => RunInv'
  BY OnboardInvNext, VouchedNext, UndisturbedNext DEF RunInv
<1> QED
  BY <1>1, <1>2, OnboardInvInit, PTL DEF Spec, RunInv

-----------------------------------------------------------------------------
(***************************************************************************)
(* A settled deployment.                                                    *)
(***************************************************************************)
LEMMA SettledLemma ==
  ASSUME OnboardInv, Settled, NEW g \in gateway_json
  PROVE  /\ gateway \subseteq gateway_json
         /\ \A x \in gateway_json : x = g
         /\ parse_chain_id(g.chain_id) # {}
         /\ g.verifier.name # Blank
         /\ \A a \in aggregator :
              a.chain = g.chain_id /\ a.verifier = g.verifier /\ a.signer = g.signer
<1>1. {"render", "clean", "up", "restart"} \subseteq done
  BY DEF Settled
<1>2. gateway \subseteq gateway_json /\ parse_chain_id(g.chain_id) # {}
  BY <1>1 DEF OnboardInv, DeploymentInv, AgreeInv, Deployed, Startable
<1>3. Small(gateway_json)
  BY DEF OnboardInv, DeploymentInv, TypeInv, FileTypes
<1>4. \A x \in gateway_json : x = g
  BY <1>3 DEF Small
<1>5. g.verifier.name # Blank
  BY DEF OnboardInv, DeploymentInv, FetchInv, OfOneFetch
<1>6. ASSUME NEW a \in aggregator
      PROVE  a.chain = g.chain_id /\ a.verifier = g.verifier /\ a.signer = g.signer
  <2>1. PICK c \in compose_env :
          a.chain = c.chain /\ a.verifier = c.verifier /\ a.signer = c.signer
    BY <1>1 DEF OnboardInv, DeploymentInv, AgreeInv, Deployed
  <2>2. PICK e \in escrow_json : TRUE
    BY <1>1 DEF OnboardInv, DeploymentInv, AgreeInv, Rendered
  <2>3. g.signer = c.signer /\ g.chain_id = c.chain /\ g.verifier = c.verifier
    BY <1>1, <2>2 DEF OnboardInv, DeploymentInv, AgreeInv, Rendered
  <2> QED
    BY <2>1, <2>3
<1> QED
  BY <1>2, <1>4, <1>5, <1>6

LEMMA WorksLemma == RunInv => SettledBlockWorks
<1> SUFFICES ASSUME RunInv, Settled, gateway # {}, ~ disturbed, NEW b \in block
             PROVE  /\ \E g \in gateway : SentBy(b, g)
                    /\ b.aggregator_url.behind # "stranger" => WouldWork(b)
  BY DEF SettledBlockWorks
<1>0. OnboardInv /\ Vouched /\ Undisturbed
  BY DEF RunInv
<1>1. pc = "done" /\ url \in Urls
  BY <1>0 DEF OnboardInv, RunTypes
<1>2. /\ cfg = from_gateway_json(gateway_json)
      /\ may_onboard(checks)
      /\ checks = check_aggregator_url(url) \union DomainChecks \union AddressChecks
      /\ block = {BlockOf(c) : c \in cfg}
  BY <1>0, <1>1 DEF Undisturbed
<1>3. PICK c \in cfg : b = BlockOf(c)
  BY <1>2
<1>4. /\ b.aggregator_url = url /\ b.collector = c.verifier
      /\ b.chain_id = c.chain_id /\ b.sender = c.payer
  BY <1>3 DEF BlockOf
<1>5. Public(b.aggregator_url)
  BY <1>0 DEF Vouched, BlockIsVouched
<1>6. check_domain(c).outcome # "Fail"
  BY <1>2, <1>3 DEF may_onboard, DomainChecks
<1>7. WellFormed(c)
  BY <1>0, <1>3 DEF Vouched
<1>8. PICK a \in Behind(url), n \in Nat : /\ DomainOf(a) = <<n, c.verifier>>
                                         /\ parse_chain_id(a.chain) = {n}
  BY <1>0, <1>6, <1>7, AnswerLemma
<1>9. PICK g \in gateway_json : TakenFrom(c, g)
  BY <1>0, <1>2, <1>3, ConfigTaken
<1>10. PICK m \in Nat : parse_chain_id(g.chain_id) = {m} /\ c.chain_id = m
  BY <1>9 DEF TakenFrom
<1>11. g \in gateway
  BY <1>0, SettledLemma
<1>12. SentBy(b, g)
  <2>1. Max(parse_chain_id(g.chain_id)) = m
    BY <1>10, MaxOfOne
  <2>2. g.payer.name = b.sender /\ g.verifier.name = b.collector
    BY <1>4, <1>9 DEF TakenFrom
  <2> QED
    BY <1>4, <1>10, <2>1, <2>2 DEF SentBy
<1>13. ASSUME url.behind # "stranger" PROVE Accepts(b, a, g)
  <2>1. a \in aggregator
    BY <1>13 DEF Behind
  <2>2. a.chain = g.chain_id /\ a.signer = g.signer
    BY <1>0, <2>1, SettledLemma
  <2>3. n = m
    BY <1>8, <1>10, <2>2
  <2> QED
    BY <1>4, <1>8, <1>10, <2>2, <2>3 DEF Accepts
<1> QED
  BY <1>4, <1>5, <1>11, <1>12, <1>13 DEF WouldWork

LEMMA RefusalLemma == RunInv => NoFalseRefusal
<1> SUFFICES ASSUME RunInv, pc = "done", Settled, ~ disturbed, aggregator # {},
                    Public(url), url.scheme # "none", url.behind = "aggregator",
                    url.octets # << >>
                      \/ url.labels[1] \notin {"0", "10", "127", "172", "192", "169"},
                    NEW g \in gateway_json,
                    g.api_keys > 0,
                    Blank \notin {g.subgraph_service.name, g.payer.name},
                    \A book \in addresses :
                      Agrees(book, g.verifier.name, g.subgraph_service.name)
             PROVE  result = "READY"
  BY DEF NoFalseRefusal
<1>0. OnboardInv /\ Vouched /\ Undisturbed
  BY DEF RunInv
<1>1. url \in Urls /\ cfg = from_gateway_json(gateway_json)
  BY <1>0 DEF OnboardInv, RunTypes, Undisturbed
<1>2. /\ \A x \in gateway_json : x = g
      /\ parse_chain_id(g.chain_id) # {} /\ g.verifier.name # Blank
      /\ \A a \in aggregator : a.chain = g.chain_id /\ a.verifier = g.verifier
  BY <1>0, SettledLemma
<1>3. cfg # {}
  BY <1>1, <1>2 DEF from_gateway_json
<1>4. /\ checks = check_aggregator_url(url) \union DomainChecks \union AddressChecks
      /\ result = IF may_onboard(checks) THEN "READY" ELSE "NOT READY"
  BY <1>0, <1>3 DEF Undisturbed
<1>5. may_onboard(check_aggregator_url(url))
  BY <1>1, UrlLemma, UrlOutcome
<1>6. ASSUME NEW c \in cfg
      PROVE  check_domain(c).outcome # "Fail" /\ may_onboard(check_addresses(c))
  <2>1. TakenFrom(c, g)
    BY <1>0, <1>1, <1>2, ConfigTaken
  <2>2. PICK a \in aggregator : a.chain = g.chain_id /\ a.verifier = g.verifier
    BY <1>2
  <2>3. a \in Behind(url)
    BY <1>2, <2>2 DEF Behind, Starts
  <2>4. PICK n \in Nat : /\ parse_chain_id(a.chain) = {n}
                         /\ DomainOf(a) = <<n, a.verifier.name>>
                         /\ InfoOf(a).verifyingContract = a.verifier.name
                         /\ InfoOf(a).form = "hex"
                         /\ InfoOf(a).digits = HexDigits[n]
                         /\ Behind(url) = {a}
    BY <1>0, <2>3, AggregatorLemma
  <2>5. c.chain_id = n /\ c.verifier = a.verifier.name
        /\ c.verifier = g.verifier.name /\ c.data_service = g.subgraph_service.name
    BY <2>1, <2>2, <2>4 DEF TakenFrom
  <2>6. TakenFor(n, c.chain_id)
    BY <2>5 DEF TakenFor
  <2>7. domain_matches(InfoOf(a), c)
    BY <2>4, <2>5, <2>6, DomainLemma
  <2>8. InfoOf(a) \in fetch_domain_info(url)
    BY <2>3 DEF fetch_domain_info
  <2>9. check_domain(c).outcome # "Fail"
    BY <2>7, <2>8, DomainOutcome
  <2>10. \A book \in addresses : Matches(book, c)
    <3> SUFFICES ASSUME NEW book \in addresses PROVE Matches(book, c)
      OBVIOUS
    <3>1. Agrees(book, c.verifier, c.data_service)
      BY <2>5
    <3>2. \A key \in DOMAIN book : book[key].name # Blank
      BY <1>0 DEF OnboardInv, DeploymentInv, NamesGiven
    <3> QED
      BY <3>1, <3>2, MatchesAgrees
  <2> QED
    BY <2>9, <2>10, AddressesOutcome
<1>7. may_onboard(checks)
  BY <1>4, <1>5, <1>6 DEF may_onboard, DomainChecks, AddressChecks
<1> QED
  BY <1>4, <1>7

\* Over a settled deployment that stood still, the indexer's receipts would aggregate
\* by the block that is printed: sent by the running gateway for the block's sender,
\* accepted by the aggregator behind its URL, if that is not somebody else's.
THEOREM WorksTheorem == Spec => []SettledBlockWorks
  BY RunInvariance, WorksLemma, PTL

\* And it is printed: no check fails there.
THEOREM RefusalTheorem == Spec => []NoFalseRefusal
  BY RunInvariance, RefusalLemma, PTL
=============================================================================
