----------------------------- MODULE LoopProofs -----------------------------
(***************************************************************************)
(* Three parts of the main loop, for every value of their constants: the   *)
(* attribution of link traffic to threads (Attribution), the making and    *)
(* adopting of plans (PlannerPipeline) and the villain controller          *)
(* (VillainControl); and that the first may assume of the second what it   *)
(* does assume.                                                            *)
(***************************************************************************)
EXTENDS Attribution, PlannerPipeline, VillainControl, TLAPS, FiniteSetTheorems, WellFoundedInduction

-----------------------------------------------------------------------------
(* Sums.  A sum is the number of its units, and so it can be taken apart at *)
(* any element, in whatever order SumFunctionOnSet adds up.                 *)

\* The least of a set of naturals is one of them.
LEMMA LeastNat ==
    ASSUME NEW T \in SUBSET Nat, T # {}
    PROVE  \E x \in T : \A y \in T : x <= y
<1> DEFINE R == OpToRel(<, Nat)
<1>1. \E x \in T : \A y \in T : ~(<<y, x>> \in R)
  BY NatLessThanWellFounded, WFMin
<1>2. \A x, y \in Nat : (<<y, x>> \in R) <=> y < x
  BY DEF OpToRel
<1> HIDE DEF R
<1>3. PICK x \in T : \A y \in T : ~(<<y, x>> \in R)
  BY <1>1
<1>4. ASSUME NEW y \in T PROVE x <= y
  <2>1. ~(y < x)
    BY <1>2, <1>3
  <2>2. QED
    BY <2>1
<1>5. QED
  BY <1>4

\* What holds of the empty set, and of a set whenever it holds of the set without
\* any one element, holds of every finite set.  W is the set of subsets it holds of.
LEMMA SubsetInduction ==
    ASSUME NEW S, IsFiniteSet(S), NEW W, {} \in W,
           \A s \in SUBSET S : s # {} /\ (\A x \in s : s \ {x} \in W) => s \in W
    PROVE  \A s \in SUBSET S : s \in W
<1> SUFFICES ASSUME NEW bad \in SUBSET S, bad \notin W PROVE FALSE
  OBVIOUS
<1> DEFINE Bad == {s \in SUBSET S : s \notin W}
           N == {Cardinality(s) : s \in Bad}
<1>1. \A s \in SUBSET S : IsFiniteSet(s) /\ Cardinality(s) \in Nat
  BY FS_Subset, FS_CardinalityType
<1>2. N \in SUBSET Nat /\ N # {}
  BY <1>1
<1>3. PICK n \in N : \A m \in N : n <= m
  BY <1>2, LeastNat
<1>4. PICK s \in Bad : n = Cardinality(s)
  OBVIOUS
<1>5. PICK x \in s : s \ {x} \notin W
  OBVIOUS
<1>6. s \ {x} \in SUBSET S
  OBVIOUS
<1>7. Cardinality(s \ {x}) = Cardinality(s) - 1
  BY <1>1, FS_RemoveElement
<1>8. Cardinality(s \ {x}) \in N
  BY <1>5, <1>6
<1> HIDE DEF N, Bad
<1>9. n <= n - 1 /\ n \in Nat
  BY <1>2, <1>3, <1>4, <1>7, <1>8
<1>10. QED
  BY <1>9

\* The units of a function: f[x] many for every x of S.
Units(f, S) == UNION {{x} \X (1..f[x]) : x \in S}

\* A finite set has finitely many units.
LEMMA UnitsFinite ==
    ASSUME NEW S, IsFiniteSet(S), NEW f, \A x \in S : f[x] \in Nat
    PROVE  IsFiniteSet(Units(f, S)) /\ Cardinality(Units(f, S)) \in Nat
<1> DEFINE U == {{x} \X (1..f[x]) : x \in S}
           g == [x \in S |-> {x} \X (1..f[x])]
<1>1. g \in Surjection(S, U)
  BY DEF Surjection
<1>2. IsFiniteSet(U)
  BY <1>1, FS_Surjection
<1>3. ASSUME NEW x \in S PROVE IsFiniteSet({x} \X (1..f[x]))
  <2>1. 1 \in Int /\ f[x] \in Int
    OBVIOUS
  <2>2. IsFiniteSet(1..f[x])
    BY <2>1, FS_Interval
  <2>3. IsFiniteSet({x})
    BY FS_Singleton
  <2>4. QED
    BY <2>2, <2>3, FS_Product
<1>4. \A T \in U : IsFiniteSet(T)
  BY <1>3
<1>5. IsFiniteSet(UNION U)
  BY <1>2, <1>4, FS_UNION
<1>6. QED
  BY <1>5, FS_CardinalityType DEF Units

\* Without x there are f[x] units fewer.
LEMMA UnitsStep ==
    ASSUME NEW S, IsFiniteSet(S), NEW f, \A x \in S : f[x] \in Nat, NEW x \in S
    PROVE  Cardinality(Units(f, S)) = f[x] + Cardinality(Units(f, S \ {x}))
<1> DEFINE A == {x} \X (1..f[x])
           B == Units(f, S \ {x})
<1>1. f[x] \in Nat
  OBVIOUS
<1>2. IsFiniteSet(1..f[x]) /\ Cardinality(1..f[x]) = f[x]
  <2>1. 1 \in Int /\ f[x] \in Int
    BY <1>1
  <2>2. IsFiniteSet(1..f[x]) /\ Cardinality(1..f[x]) = IF 1 > f[x] THEN 0 ELSE f[x] - 1 + 1
    BY <2>1, FS_Interval
  <2>3. QED
    BY <1>1, <2>2
<1>3. IsFiniteSet({x}) /\ Cardinality({x}) = 1
  BY FS_Singleton
<1>4. IsFiniteSet(A) /\ Cardinality(A) = 1 * f[x]
  BY <1>2, <1>3, FS_Product
<1>5. IsFiniteSet(S \ {x})
  BY FS_RemoveElement
<1>6. IsFiniteSet(B) /\ Cardinality(B) \in Nat
  BY <1>5, UnitsFinite
<1>7. Units(f, S) = A \cup B
  BY DEF Units
<1>8. A \cap B = {}
  BY DEF Units
<1>9. Cardinality({}) = 0
  BY FS_EmptySet
<1> HIDE DEF A, B
<1>10. Cardinality(A \cup B) = Cardinality(A) + Cardinality(B) - Cardinality(A \cap B)
  BY <1>4, <1>6, FS_Union
<1>11. Cardinality(Units(f, S)) = 1 * f[x] + Cardinality(B) - 0
  BY <1>4, <1>7, <1>8, <1>9, <1>10
<1>12. Cardinality(Units(f, S)) = f[x] + Cardinality(B)
  BY <1>1, <1>6, <1>11
<1>13. QED
  BY <1>12 DEF B

\* The empty set has no unit.
LEMMA UnitsEmpty ==
    ASSUME NEW f
    PROVE  Cardinality(Units(f, {})) = 0
<1>1. Units(f, {}) = {}
  BY DEF Units
<1>2. QED
  BY <1>1, FS_EmptySet

\* A sum over a finite set is the number of its units.
LEMMA SumUnits ==
    ASSUME NEW S, IsFiniteSet(S), NEW f, \A x \in S : f[x] \in Nat
    PROVE  SumFunctionOnSet(f, S) = Cardinality(Units(f, S))
<1> DEFINE Pick(s) == CHOOSE x \in s : TRUE
           Eq(g) == g = [s \in SUBSET S |->
                           IF s = {} THEN 0 ELSE f[Pick(s)] + g[s \ {Pick(s)}]]
           iter == CHOOSE g : Eq(g)
           count == [s \in SUBSET S |-> Cardinality(Units(f, s))]
<1>1. SumFunctionOnSet(f, S) = iter[S]
  BY DEF SumFunctionOnSet, FoldFunctionOnSet, MapThenFoldSet
<1>2. \A s \in SUBSET S : s # {} => Pick(s) \in s
  OBVIOUS
<1> HIDE DEF Pick
<1>3. \A s \in SUBSET S : IsFiniteSet(s)
  BY FS_Subset
<1>4. ASSUME NEW s \in SUBSET S
      PROVE  count[s] = IF s = {} THEN 0 ELSE f[Pick(s)] + count[s \ {Pick(s)}]
  <2>1. CASE s = {}
    BY <2>1, UnitsEmpty
  <2>2. CASE s # {}
    <3>1. Pick(s) \in s
      BY <1>2, <2>2
    <3>2. Cardinality(Units(f, s)) = f[Pick(s)] + Cardinality(Units(f, s \ {Pick(s)}))
      BY <3>1, <1>3, UnitsStep
    <3>3. QED
      BY <2>2, <3>2
  <2>3. QED
    BY <2>1, <2>2
<1> HIDE DEF Pick
<1>5. Eq(count)
  <2>1. count = [s \in SUBSET S |-> count[s]]
    OBVIOUS
  <2> HIDE DEF count
  <2>2. QED
    BY <2>1, <1>4
<1> HIDE DEF count
<1>6. Eq(iter)
  <2> HIDE DEF Eq
  <2>1. \E g : Eq(g)
    BY <1>5
  <2>2. QED
    BY <2>1
<1> HIDE DEF iter
<1> DEFINE W == {s \in SUBSET S : iter[s] = count[s]}
<1>7. \A s \in SUBSET S :
        iter[s] = IF s = {} THEN 0 ELSE f[Pick(s)] + iter[s \ {Pick(s)}]
  BY <1>6
<1>8. {} \in W
  BY <1>4, <1>7
<1>9. ASSUME NEW s \in SUBSET S, s # {}, \A x \in s : s \ {x} \in W
      PROVE  s \in W
  <2>1. Pick(s) \in s
    BY <1>2, <1>9
  <2>2. iter[s \ {Pick(s)}] = count[s \ {Pick(s)}]
    BY <2>1, <1>9
  <2>3. QED
    BY <2>2, <1>4, <1>7, <1>9
<1>10. \A s \in SUBSET S : s \in W
  BY <1>8, <1>9, SubsetInduction
<1>11. S \in SUBSET S /\ count[S] = Cardinality(Units(f, S))
  BY DEF count
<1>12. QED
  BY <1>1, <1>10, <1>11

\* A sum is taken apart at any of its elements.
LEMMA SumStep ==
    ASSUME NEW S, IsFiniteSet(S), NEW f, \A x \in S : f[x] \in Nat
    PROVE  /\ SumFunctionOnSet(f, S) \in Nat
           /\ S = {} => SumFunctionOnSet(f, S) = 0
           /\ \A x \in S : SumFunctionOnSet(f, S) = f[x] + SumFunctionOnSet(f, S \ {x})
<1>1. SumFunctionOnSet(f, S) = Cardinality(Units(f, S))
  BY SumUnits
<1>2. ASSUME NEW x \in S
      PROVE  SumFunctionOnSet(f, S) = f[x] + SumFunctionOnSet(f, S \ {x})
  <2>1. IsFiniteSet(S \ {x})
    BY FS_RemoveElement
  <2>2. SumFunctionOnSet(f, S \ {x}) = Cardinality(Units(f, S \ {x}))
    BY <2>1, SumUnits
  <2>3. QED
    BY <1>1, <2>2, UnitsStep
<1>3. SumFunctionOnSet(f, S) \in Nat
  BY <1>1, UnitsFinite
<1>4. S = {} => SumFunctionOnSet(f, S) = 0
  BY <1>1, UnitsEmpty
<1>5. QED
  BY <1>2, <1>3, <1>4

\* Products of naturals: distribution and order.
LEMMA TimesFacts ==
    ASSUME NEW a \in Nat, NEW b \in Nat, NEW c \in Nat
    PROVE  /\ a * b \in Nat /\ a * (b + c) = a * b + a * c
           /\ b <= c => a * b <= a * c
           /\ 0 < a /\ a * b <= a * c => b <= c
<1>1. a * b \in Nat
  OBVIOUS
<1>2. a * (b + c) = a * b + a * c
  OBVIOUS
<1>3. b <= c => a * b <= a * c
  OBVIOUS
<1>4. 0 < a /\ a * b <= a * c => b <= c
  OBVIOUS
<1>5. QED
  BY <1>1, <1>2, <1>3, <1>4

\* If each value of f, scaled by k, is at most that of g, scaled by m, then so are the sums.
LEMMA SumScaled ==
    ASSUME NEW S, IsFiniteSet(S), NEW f, \A x \in S : f[x] \in Nat,
           NEW g, \A x \in S : g[x] \in Nat,
           NEW k \in Nat, NEW m \in Nat, \A x \in S : k * f[x] <= m * g[x]
    PROVE  k * SumFunctionOnSet(f, S) <= m * SumFunctionOnSet(g, S)
<1> DEFINE F(s) == SumFunctionOnSet(f, s)
           G(s) == SumFunctionOnSet(g, s)
           W == {s \in SUBSET S : k * F(s) <= m * G(s)}
<1>1. ASSUME NEW s \in SUBSET S
      PROVE  /\ IsFiniteSet(s) /\ F(s) \in Nat /\ G(s) \in Nat
             /\ s = {} => F(s) = 0 /\ G(s) = 0
             /\ \A x \in s : F(s) = f[x] + F(s \ {x}) /\ G(s) = g[x] + G(s \ {x})
  <2>1. IsFiniteSet(s)
    BY FS_Subset
  <2>2. QED
    BY <2>1, SumStep
<1> HIDE DEF F, G
<1>2. {} \in W
  <2>1. F({}) = 0 /\ G({}) = 0
    BY <1>1
  <2>2. QED
    BY <2>1
<1>3. ASSUME NEW s \in SUBSET S, s # {}, \A x \in s : s \ {x} \in W
      PROVE  s \in W
  <2>1. PICK x \in s : TRUE
    BY <1>3
  <2> DEFINE r == s \ {x}
  <2>2. r \in SUBSET S /\ k * F(r) <= m * G(r) /\ F(r) \in Nat /\ G(r) \in Nat
    BY <1>1, <1>3
  <2>3. F(s) = f[x] + F(r) /\ G(s) = g[x] + G(r)
    BY <1>1
  <2>4. f[x] \in Nat /\ g[x] \in Nat /\ k * f[x] <= m * g[x]
    OBVIOUS
  <2> HIDE DEF r
  <2>5. k * F(s) = k * f[x] + k * F(r)
    BY <2>2, <2>3, <2>4, TimesFacts
  <2>6. m * G(s) = m * g[x] + m * G(r)
    BY <2>2, <2>3, <2>4, TimesFacts
  <2>7. k * f[x] \in Nat /\ k * F(r) \in Nat /\ m * g[x] \in Nat /\ m * G(r) \in Nat
    BY <2>2, <2>4, TimesFacts
  <2>8. k * F(s) <= m * G(s)
    BY <2>2, <2>4, <2>5, <2>6, <2>7
  <2>9. QED
    BY <2>8
<1>4. \A s \in SUBSET S : s \in W
  BY <1>2, <1>3, SubsetInduction
<1>5. QED
  BY <1>4 DEF F, G

\* Smaller values, smaller sum; and a sum of zeros is zero.
LEMMA SumOrder ==
    ASSUME NEW S, IsFiniteSet(S), NEW f, NEW g,
           \A x \in S : f[x] \in Nat /\ g[x] \in Nat /\ f[x] <= g[x]
    PROVE  SumFunctionOnSet(f, S) <= SumFunctionOnSet(g, S)
<1>1. \A x \in S : 1 * f[x] <= 1 * g[x]
  OBVIOUS
<1>2. 1 * SumFunctionOnSet(f, S) <= 1 * SumFunctionOnSet(g, S)
  BY <1>1, SumScaled
<1>3. SumFunctionOnSet(f, S) \in Nat /\ SumFunctionOnSet(g, S) \in Nat
  BY SumStep
<1>4. QED
  BY <1>2, <1>3

\* Only the values on S count.
LEMMA SumSame ==
    ASSUME NEW S, IsFiniteSet(S), NEW f, NEW g,
           \A x \in S : f[x] \in Nat /\ g[x] = f[x]
    PROVE  SumFunctionOnSet(g, S) = SumFunctionOnSet(f, S)
<1>1. SumFunctionOnSet(f, S) <= SumFunctionOnSet(g, S)
  BY SumOrder
<1>2. SumFunctionOnSet(g, S) <= SumFunctionOnSet(f, S)
  BY SumOrder
<1>3. SumFunctionOnSet(f, S) \in Nat /\ SumFunctionOnSet(g, S) \in Nat
  BY SumStep
<1>4. QED
  BY <1>1, <1>2, <1>3

\* Elements whose value is zero do not count.
LEMMA SumPositive ==
    ASSUME NEW S, IsFiniteSet(S), NEW f, \A x \in S : f[x] \in Nat,
           NEW T \in SUBSET S, \A x \in S \ T : f[x] = 0
    PROVE  SumFunctionOnSet(f, S) = SumFunctionOnSet(f, T)
<1> DEFINE F(s) == SumFunctionOnSet(f, s)
           W == {s \in SUBSET S : F(s) = F(s \cap T)}
<1>1. ASSUME NEW s \in SUBSET S
      PROVE  /\ IsFiniteSet(s) /\ F(s) \in Nat
             /\ \A x \in s : F(s) = f[x] + F(s \ {x})
  <2>1. IsFiniteSet(s)
    BY FS_Subset
  <2>2. QED
    BY <2>1, SumStep
<1> HIDE DEF F
<1>2. {} \in W
  <2>1. {} \cap T = {}
    OBVIOUS
  <2>2. QED
    BY <2>1
<1>3. ASSUME NEW s \in SUBSET S, s # {}, \A x \in s : s \ {x} \in W
      PROVE  s \in W
  <2>1. PICK x \in s : TRUE
    BY <1>3
  <2>2. F(s) = f[x] + F(s \ {x}) /\ F(s \ {x}) = F((s \ {x}) \cap T)
    BY <1>1, <1>3
  <2>3. CASE x \in T
    <3>1. F(s \cap T) = f[x] + F((s \cap T) \ {x})
      BY <1>1, <2>3
    <3>2. (s \cap T) \ {x} = (s \ {x}) \cap T
      OBVIOUS
    <3>3. QED
      BY <2>2, <3>1, <3>2
  <2>4. CASE x \notin T
    <3>1. (s \ {x}) \cap T = s \cap T
      BY <2>4
    <3>2. f[x] = 0 /\ F(s \cap T) \in Nat
      BY <1>1, <2>4
    <3>3. QED
      BY <2>2, <3>1, <3>2
  <2>5. QED
    BY <2>3, <2>4
<1>4. \A s \in SUBSET S : s \in W
  BY <1>2, <1>3, SubsetInduction
<1>5. S \in SUBSET S /\ S \cap T = T
  OBVIOUS
<1>6. QED
  BY <1>4, <1>5 DEF F

\* The greatest of a finite set of naturals is one of them.
LEMMA MaxOfFinite ==
    ASSUME NEW T \in SUBSET Nat, IsFiniteSet(T), T # {}
    PROVE  Max(T) \in T
<1> DEFINE W == {s \in SUBSET T : s # {} => \E m \in s : \A y \in s : m >= y}
<1>1. {} \in W
  OBVIOUS
<1>2. ASSUME NEW s \in SUBSET T, s # {}, \A x \in s : s \ {x} \in W
      PROVE  s \in W
  <2>1. PICK x \in s : TRUE
    BY <1>2
  <2>2. CASE s \ {x} = {}
    <3>1. \A y \in s : x >= y
      BY <2>2
    <3>2. QED
      BY <3>1
  <2>3. CASE s \ {x} # {}
    <3>1. PICK m \in s \ {x} : \A y \in s \ {x} : m >= y
      BY <1>2, <2>3
    <3>2. CASE m >= x
      BY <3>1, <3>2
    <3>3. CASE ~(m >= x)
      <4>1. \A y \in s : x >= y
        BY <3>1, <3>3
      <4>2. QED
        BY <4>1
    <3>4. QED
      BY <3>2, <3>3
  <2>4. QED
    BY <2>2, <2>3
<1> HIDE DEF W
<1>3. \A s \in SUBSET T : s \in W
  BY <1>1, <1>2, SubsetInduction
<1>4. T \in W
  BY <1>3
<1>5. \E m \in T : \A y \in T : m >= y
  BY <1>4 DEF W
<1>6. QED
  BY <1>5 DEF Max

\* A quotient of naturals, times the divisor, is at most the dividend.
LEMMA DivFacts ==
    ASSUME NEW a \in Nat, NEW b \in Nat \ {0}
    PROVE  a \div b \in Nat /\ b * (a \div b) <= a
<1>1. a \div b \in Nat
  OBVIOUS
<1>2. b * (a \div b) <= a
  OBVIOUS
<1>3. QED
  BY <1>1, <1>2

-----------------------------------------------------------------------------
(* What the operators of Attribution promise.                              *)

\* The shares of a change sum up to the change or, if no thread moved with it, to
\* nothing.
LEMMA SharesFacts ==
    ASSUME NEW delta \in Nat, NEW C \in SUBSET Threads, NEW weights \in [C -> Nat]
    PROVE  LET sh == Shares(delta, weights)
           IN  /\ DOMAIN sh \in SUBSET C /\ \A t \in DOMAIN sh : sh[t] \in Nat
               /\ SumFunctionOnSet(sh, DOMAIN sh) <= delta
<1> DEFINE paid == {t \in C : weights[t] > 0}
           total == SumFunctionOnSet(weights, C)
           part == [t \in paid |-> (delta * weights[t]) \div total]
           sh == [t \in paid |-> IF t = Max(paid) THEN delta - SumFunctionOnSet(part, paid \ {t})
                                 ELSE part[t]]
<1>1. Shares(delta, weights) = sh
  <2>1. DOMAIN weights = C /\ SumFunction(weights) = total
    BY DEF SumFunction
  <2>2. QED
    BY <2>1 DEF Shares
<1>2. IsFiniteSet(C) /\ paid \in SUBSET C /\ IsFiniteSet(paid) /\ paid \in SUBSET Nat
  BY FS_Subset, AttributionAssumption
<1>3. CASE paid = {}
  <2>1. DOMAIN sh = {}
    BY <1>3
  <2>2. SumFunctionOnSet(sh, {}) = 0
    BY SumStep, FS_EmptySet
  <2>3. QED
    BY <1>1, <2>1, <2>2
<1>4. CASE paid # {}
  <2> DEFINE last == Max(paid)
             others == paid \ {last}
             rest == SumFunctionOnSet(part, others)
  <2>1. last \in paid
    BY <1>2, <1>4, MaxOfFinite
  <2>2. total \in Nat
    BY <1>2, SumStep
  <2>3. total = SumFunctionOnSet(weights, paid)
    BY <1>2, SumPositive
  <2>4. IsFiniteSet(others)
    BY <1>2, FS_RemoveElement
  <2>5. \A t \in paid : weights[t] \in Nat /\ weights[t] > 0
    OBVIOUS
  <2>6. total = weights[last] + SumFunctionOnSet(weights, others)
    BY <1>2, <2>1, <2>3, SumStep
  <2>7. SumFunctionOnSet(weights, others) \in Nat
    BY <2>4, SumStep
  <2>8. total > 0 /\ SumFunctionOnSet(weights, others) <= total
    BY <2>1, <2>5, <2>6, <2>7
  <2> HIDE DEF total, last
  <2>9. ASSUME NEW t \in paid
        PROVE  part[t] \in Nat /\ total * part[t] <= delta * weights[t]
    <3>1. delta * weights[t] \in Nat
      BY TimesFacts
    <3>2. part[t] = (delta * weights[t]) \div total
      OBVIOUS
    <3>3. QED
      BY <3>1, <3>2, <2>2, <2>8, DivFacts
  <2> HIDE DEF part
  <2>10. rest \in Nat
    BY <2>4, <2>9, SumStep
  <2>11. total * rest <= delta * SumFunctionOnSet(weights, others)
    BY <2>2, <2>4, <2>5, <2>9, SumScaled
  <2>12. delta * SumFunctionOnSet(weights, others) <= delta * total
    BY <2>2, <2>7, <2>8, TimesFacts
  <2>13. total * rest <= total * delta
    <3>1. delta * total = total * delta
      BY <2>2
    <3>2. total * rest \in Nat /\ total * delta \in Nat
      BY <2>2, <2>10, TimesFacts
    <3>3. delta * SumFunctionOnSet(weights, others) \in Nat
      BY <2>7, TimesFacts
    <3>4. QED
      BY <2>11, <2>12, <3>1, <3>2, <3>3
  <2>14. rest <= delta
    BY <2>2, <2>8, <2>10, <2>13, TimesFacts
  <2>15. sh[last] = delta - rest /\ \A t \in others : sh[t] = part[t]
    BY <2>1 DEF last
  <2>16. \A t \in paid : sh[t] \in Nat
    <3>1. sh[last] \in Nat
      BY <2>10, <2>14, <2>15
    <3>2. QED
      BY <2>9, <2>15, <3>1
  <2>17. SumFunctionOnSet(sh, others) = rest
    BY <2>4, <2>9, <2>15, SumSame
  <2>18. SumFunctionOnSet(sh, paid) = sh[last] + SumFunctionOnSet(sh, others)
    BY <1>2, <2>1, <2>16, SumStep
  <2>19. SumFunctionOnSet(sh, paid) <= delta
    BY <2>10, <2>14, <2>15, <2>17, <2>18
  <2>20. DOMAIN sh = paid
    OBVIOUS
  <2> HIDE DEF sh
  <2>21. QED
    BY <1>1, <2>16, <2>19, <2>20
<1>5. QED
  BY <1>3, <1>4

\* Decay raises no thread's evidence, and leaves what the link allows.
LEMMA DecayFacts ==
    ASSUME NEW ev \in [Threads -> Nat], NEW bw \in Nat
    PROVE  LET r == decay_io_cs_link_evidence_to_current(ev, bw)
           IN  /\ r \in [Threads -> Nat]
               /\ \A t \in Threads : r[t] <= ev[t]
               /\ SumFunction(r) <= Limit(bw)
<1> DEFINE owing == {t \in Threads : ev[t] > 0}
           sum == SumFunctionOnSet(ev, Threads)
           limit == Limit(bw)
           scaled == [t \in Threads |-> (ev[t] * limit) \div sum]
           last == Max(owing)
           others == owing \ {last}
           left == Larger(limit - SumFunctionOnSet(scaled, others), 0)
           cut == [scaled EXCEPT ![last] = Smaller(ev[last], left)]
           r == decay_io_cs_link_evidence_to_current(ev, bw)
<1>1. DOMAIN ev = Threads /\ SumFunction(ev) = sum
  BY DEF SumFunction
<1>2. r = IF owing = {} \/ sum <= limit THEN ev ELSE cut
  BY <1>1 DEF decay_io_cs_link_evidence_to_current
<1>3. IsFiniteSet(Threads) /\ Threads \in SUBSET Nat /\ owing \in SUBSET Threads
  BY AttributionAssumption
<1>4. IsFiniteSet(owing) /\ IsFiniteSet(others)
  BY <1>3, FS_Subset
<1>5. limit \in Nat
  <2>1. bw * 5 \in Nat
    OBVIOUS
  <2>2. QED
    BY <2>1, DivFacts DEF Limit
<1>6. sum \in Nat
  BY <1>3, SumStep
<1>7. sum = SumFunctionOnSet(ev, owing)
  <2>1. \A t \in Threads \ owing : ev[t] = 0
    OBVIOUS
  <2> HIDE DEF owing
  <2>2. QED
    BY <1>3, <2>1, SumPositive
<1>8. CASE owing = {} \/ sum <= limit
  <2>1. r = ev
    BY <1>2, <1>8
  <2>2. sum <= limit
    <3>1. owing = {} => sum = 0
      BY <1>4, <1>7, SumStep
    <3>2. QED
      BY <1>5, <1>8, <3>1
  <2>3. QED
    BY <1>1, <2>1, <2>2
<1>9. CASE owing # {} /\ limit < sum
  <2> HIDE DEF limit, sum
  <2>1. last \in owing
    BY <1>3, <1>4, <1>9, MaxOfFinite
  <2> HIDE DEF last
  <2>2. ASSUME NEW t \in Threads
        PROVE  /\ scaled[t] \in Nat /\ sum * scaled[t] <= limit * ev[t]
               /\ scaled[t] <= ev[t]
    <3>1. ev[t] * limit \in Nat /\ ev[t] * limit = limit * ev[t]
      BY <1>5, TimesFacts
    <3>2. scaled[t] = (ev[t] * limit) \div sum
      OBVIOUS
    <3>3. scaled[t] \in Nat /\ sum * scaled[t] <= limit * ev[t]
      BY <1>5, <1>6, <1>9, <3>1, <3>2, DivFacts
    <3>4. ev[t] * limit <= ev[t] * sum /\ ev[t] * sum = sum * ev[t]
      BY <1>5, <1>6, <1>9, TimesFacts
    <3>5. sum * scaled[t] <= sum * ev[t]
      <4>1. sum * scaled[t] \in Nat /\ sum * ev[t] \in Nat
        BY <1>6, <3>3, TimesFacts
      <4>2. QED
        BY <3>1, <3>3, <3>4, <4>1
    <3>6. 0 < sum
      BY <1>5, <1>6, <1>9
    <3>7. QED
      BY <1>6, <3>3, <3>5, <3>6, TimesFacts
  <2>3. \A t \in Threads \ owing : scaled[t] = 0
    <3> SUFFICES ASSUME NEW t \in Threads \ owing PROVE scaled[t] = 0
      OBVIOUS
    <3>1. ev[t] = 0
      OBVIOUS
    <3>2. QED
      BY <2>2, <3>1
  <2> HIDE DEF scaled
  <2> DEFINE rest == SumFunctionOnSet(scaled, others)
             evs == SumFunctionOnSet(ev, others)
  <2>4. rest \in Nat /\ evs \in Nat
    BY <1>4, <2>2, SumStep
  <2>5. sum * rest <= limit * evs
    BY <1>4, <1>5, <1>6, <2>2, SumScaled
  <2>6. sum = ev[last] + evs
    BY <1>4, <1>7, <2>1, SumStep
  <2>7. evs <= sum
    BY <2>1, <2>4, <2>6
  <2>8. limit * evs <= limit * sum /\ limit * sum = sum * limit
    BY <1>5, <1>6, <2>4, <2>7, TimesFacts
  <2>9. sum * rest \in Nat /\ limit * evs \in Nat /\ sum * limit \in Nat
    BY <1>5, <1>6, <2>4, TimesFacts
  <2>10. sum * rest <= sum * limit
    BY <2>5, <2>8, <2>9
  <2>11. rest <= limit
    BY <1>5, <1>6, <1>9, <2>4, <2>10, TimesFacts
  <2>12. left = limit - rest
    BY <1>5, <2>4, <2>11 DEF Larger
  <2> HIDE DEF rest
  <2>13. left \in Nat /\ rest + left = limit
    BY <1>5, <2>4, <2>11, <2>12
  <2> HIDE DEF left
  <2>14. r = cut
    BY <1>2, <1>5, <1>6, <1>9
  <2>15. scaled \in [Threads -> Nat]
    BY <2>2 DEF scaled
  <2>16. /\ Smaller(ev[last], left) \in Nat
         /\ Smaller(ev[last], left) <= ev[last] /\ Smaller(ev[last], left) <= left
    BY <2>1, <2>13 DEF Smaller
  <2>17. cut \in [Threads -> Nat] /\ cut[last] = Smaller(ev[last], left)
    BY <2>1, <2>15, <2>16
  <2>18. \A t \in Threads \ {last} : cut[t] = scaled[t]
    BY <2>15
  <2>19. \A t \in Threads : cut[t] <= ev[t]
    BY <2>2, <2>16, <2>17, <2>18
  <2> HIDE DEF cut
  <2>20. SumFunction(cut) = SumFunctionOnSet(cut, Threads)
    BY <2>17 DEF SumFunction
  <2>21. SumFunctionOnSet(cut, Threads) = SumFunctionOnSet(cut, owing)
    <3>1. \A t \in Threads \ owing : cut[t] = 0
      BY <2>1, <2>3, <2>18
    <3> HIDE DEF owing
    <3>2. QED
      BY <1>3, <2>17, <3>1, SumPositive
  <2>22. SumFunctionOnSet(cut, owing) = cut[last] + SumFunctionOnSet(cut, others)
    BY <1>4, <2>1, <2>17, SumStep
  <2>23. SumFunctionOnSet(cut, others) = rest
    <3>1. \A t \in others : scaled[t] \in Nat /\ cut[t] = scaled[t]
      BY <2>2, <2>18
    <3>2. QED
      BY <1>4, <3>1, SumSame DEF rest
  <2>24. SumFunction(cut) <= limit
    BY <1>5, <2>4, <2>13, <2>16, <2>17, <2>20, <2>21, <2>22, <2>23
  <2>25. QED
    BY <2>14, <2>17, <2>19, <2>24 DEF limit
<1>10. QED
  BY <1>5, <1>6, <1>8, <1>9

\* An attribution that is armed: the plan it is for, and what was noted then.
TrafficValue == [dram : Nat, other : Nat, l2 : Nat]
Noted ==
    [armed : {TRUE}, key : Nat \X Nat, age : Nat, base : [Links -> Nat \cup {Unnoted}],
     applied : SUBSET Links, candidates : SUBSET Threads,
     traffic : UNION {[C -> TrafficValue] : C \in SUBSET Threads}]
NotedOrNone ==
    \/ pending = None
    \/ pending \in Noted /\ DOMAIN pending.traffic = pending.candidates

\* The fields of an armed attribution.
LEMMA NotedFacts ==
    ASSUME NotedOrNone, pending.armed
    PROVE  /\ pending \in Noted
           /\ pending.candidates \in SUBSET Threads
           /\ pending.traffic \in [pending.candidates -> TrafficValue]
           /\ pending.base \in [Links -> Nat \cup {Unnoted}]
<1>1. pending \in Noted /\ DOMAIN pending.traffic = pending.candidates
  BY DEF NotedOrNone, None
<1>2. PICK C \in SUBSET Threads : pending.traffic \in [C -> TrafficValue]
  BY <1>1 DEF Noted
<1>3. C = pending.candidates
  BY <1>1, <1>2
<1>4. QED
  BY <1>1, <1>2, <1>3 DEF Noted

\* A weight is a natural.
LEMMA WeightNat ==
    ASSUME NEW was \in Nat, NEW is \in Nat
    PROVE  Weight(was, is) \in Nat
<1> DEFINE d == Abs(is - was)
           m == Larger(was, WeightFloor)
           q == (d * WeightScale) \div m
<1>1. WeightScale \in Nat /\ WeightFloor \in Nat \ {0} /\ WeightMin \in Nat
  BY AttributionAssumption
<1>2. d \in Nat /\ m \in Nat \ {0}
  BY <1>1 DEF Abs, Larger
<1> HIDE DEF d, m
<1>3. d * WeightScale \in Nat
  BY <1>1, <1>2, TimesFacts
<1>4. q \in Nat
  BY <1>2, <1>3, DivFacts
<1>5. Larger(q, 1) \in Nat
  <2> HIDE DEF q
  <2>1. QED
    BY <1>4 DEF Larger
<1>6. Weight(was, is) = IF is = was \/ Larger(q, 1) < WeightMin THEN 0 ELSE Larger(q, 1)
  BY DEF Weight, d, m
<1> HIDE DEF q
<1>7. QED
  BY <1>5, <1>6

\* The traffic by any source is a natural.
LEMMA IngressNat ==
    ASSUME NEW tr \in TrafficValue, NEW k \in 1..3
    PROVE  Ingress(tr, Sources[k]) \in Nat
<1>1. tr.dram \in Nat /\ tr.other \in Nat /\ tr.l2 \in Nat
  BY DEF TrafficValue
<1>2. CASE k = 1
  BY <1>1, <1>2 DEF Ingress, Sources
<1>3. CASE k = 2
  BY <1>1, <1>3 DEF Ingress, Sources
<1>4. CASE k = 3
  BY <1>1, <1>4 DEF Ingress, Sources
<1>5. QED
  BY <1>2, <1>3, <1>4

\* Every candidate has a weight.
LEMMA WeightsFacts ==
    ASSUME NotedOrNone, pending.armed, NEW delta, NEW tr \in [Threads -> TrafficValue], NEW gone
    PROVE  plan_cs_ingress_weights(delta, tr, gone) \in [pending.candidates -> Nat]
<1> DEFINE C == pending.candidates
           By(k) == WeightsBy(Sources[k], delta, tr, gone)
           telling == {k \in 1..3 : \E t \in C : By(k)[t] > 0}
<1>1. C \in SUBSET Threads /\ pending.traffic \in [C -> TrafficValue]
  BY NotedFacts
<1>2. ASSUME NEW k \in 1..3 PROVE By(k) \in [C -> Nat]
  <2> DEFINE was(t) == Ingress(pending.traffic[t], Sources[k])
             is(t) == Ingress(tr[t], Sources[k])
  <2>1. \A t \in C : was(t) \in Nat /\ is(t) \in Nat
    BY <1>1, IngressNat
  <2>2. By(k) = [t \in C |-> IF t \notin gone /\ SameDirection(is(t) - was(t), delta)
                             THEN Weight(was(t), is(t)) ELSE 0]
    BY DEF WeightsBy
  <2> HIDE DEF was, is, By
  <2>3. \A t \in C : Weight(was(t), is(t)) \in Nat
    BY <2>1, WeightNat
  <2>4. QED
    BY <2>2, <2>3
<1>3. DOMAIN Sources = 1..3
  BY DEF Sources
<1>4. plan_cs_ingress_weights(delta, tr, gone) =
        IF telling = {} THEN [t \in C |-> 0] ELSE By(Min(telling))
  BY <1>3 DEF plan_cs_ingress_weights
<1>5. telling # {} => Min(telling) \in 1..3
  <2>1. telling \in SUBSET Nat /\ telling \in SUBSET (1..3)
    OBVIOUS
  <2> HIDE DEF telling
  <2>2. telling # {} => \E x \in telling : \A y \in telling : x <= y
    BY <2>1, LeastNat
  <2>3. telling # {} => Min(telling) \in telling
    BY <2>2 DEF Min
  <2>4. QED
    BY <2>1, <2>3
<1> HIDE DEF telling, By
<1>6. QED
  BY <1>2, <1>4, <1>5

\* Evidence rises by no more than the share of a rise, and not at all after a fall.
LEMMA UpdateFacts ==
    ASSUME NEW old \in Nat, NEW share \in Nat, NEW delta \in Int
    PROVE  LET new == update_plan_cs_thread_signature(old, share, delta)
           IN  /\ new \in Nat /\ new <= old + share
               /\ delta <= 0 => new <= old
<1> DEFINE q == (share + DecayDivisor - 1) \div DecayDivisor
           new == update_plan_cs_thread_signature(old, share, delta)
<1>1. DecayDivisor \in Nat \ {0}
  BY AttributionAssumption
<1>2. share + DecayDivisor - 1 \in Nat
  BY <1>1
<1>3. q \in Nat
  BY <1>1, <1>2, DivFacts
<1>4. new = IF share = 0 THEN old ELSE IF delta > 0 THEN ewma(old, share)
            ELSE Larger(old - q, 0)
  BY DEF update_plan_cs_thread_signature
<1> HIDE DEF q, new
<1>5. Larger(old - q, 0) \in Nat /\ Larger(old - q, 0) <= old
  BY <1>3 DEF Larger
<1>6. ewma(old, share) \in Nat /\ ewma(old, share) <= old + share
  BY DEF ewma
<1>7. new \in Nat /\ new <= old + share /\ (delta <= 0 => new <= old)
  BY <1>4, <1>5, <1>6
<1>8. QED
  BY <1>7 DEF new

\* What a thread has gained.
Gain(new, old) == [t \in Threads |-> Larger(new[t] - old[t], 0)]

\* Gains are naturals, none if nothing rose, and at least those over what lies lower.
LEMMA GainFacts ==
    ASSUME NEW old \in [Threads -> Nat], NEW new \in [Threads -> Nat]
    PROVE  /\ Gain(new, old) \in [Threads -> Nat]
           /\ SumFunction(Gain(new, old)) = SumFunctionOnSet(Gain(new, old), Threads)
           /\ (\A t \in Threads : new[t] <= old[t]) => SumFunction(Gain(new, old)) = 0
           /\ \A low \in [Threads -> Nat] : (\A t \in Threads : low[t] <= new[t])
                => SumFunction(Gain(low, old)) <= SumFunction(Gain(new, old))
<1>0. IsFiniteSet(Threads)
  BY AttributionAssumption
<1>1. \A n \in [Threads -> Nat] : /\ Gain(n, old) \in [Threads -> Nat]
                                  /\ SumFunction(Gain(n, old)) = SumFunctionOnSet(Gain(n, old), Threads)
  <2> SUFFICES ASSUME NEW n \in [Threads -> Nat]
               PROVE  /\ Gain(n, old) \in [Threads -> Nat]
                      /\ SumFunction(Gain(n, old)) = SumFunctionOnSet(Gain(n, old), Threads)
    OBVIOUS
  <2>1. \A t \in Threads : Larger(n[t] - old[t], 0) \in Nat
    BY DEF Larger
  <2>2. Gain(n, old) \in [Threads -> Nat]
    BY <2>1 DEF Gain
  <2>3. DOMAIN Gain(n, old) = Threads
    BY <2>2
  <2>4. QED
    BY <2>2, <2>3 DEF SumFunction
<1>2. ASSUME \A t \in Threads : new[t] <= old[t]
      PROVE  SumFunction(Gain(new, old)) = 0
  <2>1. \A t \in Threads : Gain(new, old)[t] = 0
    BY <1>2 DEF Gain, Larger
  <2>2. {} \in SUBSET Threads /\ \A t \in Threads \ {} : Gain(new, old)[t] = 0
    BY <2>1
  <2>3. SumFunctionOnSet(Gain(new, old), Threads) = SumFunctionOnSet(Gain(new, old), {})
    BY <1>0, <2>1, <2>2, SumPositive
  <2>4. SumFunctionOnSet(Gain(new, old), {}) = 0
    BY FS_EmptySet, SumStep
  <2>5. QED
    BY <1>1, <2>3, <2>4
<1>3. ASSUME NEW low \in [Threads -> Nat], \A t \in Threads : low[t] <= new[t]
      PROVE  SumFunction(Gain(low, old)) <= SumFunction(Gain(new, old))
  <2>1. \A t \in Threads : Larger(low[t] - old[t], 0) <= Larger(new[t] - old[t], 0)
    BY <1>3 DEF Larger
  <2>2. \A t \in Threads : Gain(low, old)[t] <= Gain(new, old)[t]
    BY <2>1 DEF Gain
  <2>3. SumFunctionOnSet(Gain(low, old), Threads) <= SumFunctionOnSet(Gain(new, old), Threads)
    BY <1>0, <1>1, <2>2, SumOrder
  <2>4. QED
    BY <1>1, <2>3
<1>4. QED
  BY <1>1, <1>2, <1>3

\* A fresh link: after a fall no evidence rises, after a rise all of it together by
\* no more than the link.
LEMMA ApplyFacts ==
    ASSUME NotedOrNone, pending.armed, NEW ev \in [Threads -> Nat], NEW base \in Nat,
           NEW bw \in Nat, NEW tr \in [Threads -> TrafficValue], NEW gone
    PROVE  LET r == ApplyLink(ev, base, bw, tr, gone)
           IN  /\ r \in [Threads -> Nat]
               /\ bw <= base => \A t \in Threads : r[t] <= ev[t]
               /\ bw > base => SumFunction(Gain(r, ev)) <= bw - base
<1> DEFINE delta == bw - base
           weights == plan_cs_ingress_weights(delta, tr, gone)
           shares == Shares(Abs(delta), weights)
           shared == [t \in Threads |->
                        IF t \in DOMAIN shares
                        THEN update_plan_cs_thread_signature(ev[t], shares[t], delta)
                        ELSE ev[t]]
           r == ApplyLink(ev, base, bw, tr, gone)
<1>1. r = IF delta = 0 THEN ev
          ELSE IF delta < 0 THEN decay_io_cs_link_evidence_to_current(shared, bw) ELSE shared
  BY DEF ApplyLink
<1>2. delta \in Int /\ Abs(delta) \in Nat /\ (delta > 0 => Abs(delta) = delta)
  BY DEF Abs
<1>3. pending.candidates \in SUBSET Threads /\ weights \in [pending.candidates -> Nat]
  BY NotedFacts, WeightsFacts
<1> HIDE DEF weights
<1>4. /\ DOMAIN shares \in SUBSET Threads /\ \A t \in DOMAIN shares : shares[t] \in Nat
      /\ SumFunctionOnSet(shares, DOMAIN shares) <= Abs(delta)
  BY <1>2, <1>3, SharesFacts
<1> HIDE DEF shares, r, delta
<1>5. ASSUME NEW t \in Threads
      PROVE  /\ shared[t] \in Nat /\ (delta <= 0 => shared[t] <= ev[t])
             /\ t \in DOMAIN shares => shared[t] <= ev[t] + shares[t]
             /\ t \notin DOMAIN shares => shared[t] = ev[t]
  <2>1. ev[t] \in Nat
    OBVIOUS
  <2>2. CASE t \in DOMAIN shares
    <3>1. shared[t] = update_plan_cs_thread_signature(ev[t], shares[t], delta)
      BY <2>2
    <3>2. shares[t] \in Nat
      BY <1>4, <2>2
    <3>3. QED
      BY <1>2, <2>1, <2>2, <3>1, <3>2, UpdateFacts
  <2>3. CASE t \notin DOMAIN shares
    BY <2>1, <2>3
  <2>4. QED
    BY <2>2, <2>3
<1>6. shared \in [Threads -> Nat]
  BY <1>5
<1> HIDE DEF shared
<1>7. CASE delta = 0
  BY <1>1, <1>7 DEF r, delta
<1>8. CASE delta < 0
  <2>1. r = decay_io_cs_link_evidence_to_current(shared, bw)
    BY <1>1, <1>2, <1>8
  <2>2. r \in [Threads -> Nat] /\ \A t \in Threads : r[t] <= shared[t]
    BY <1>6, <2>1, DecayFacts
  <2>3. \A t \in Threads : r[t] <= ev[t]
    BY <1>2, <1>5, <1>6, <1>8, <2>2
  <2>4. ~(bw > base)
    BY <1>8 DEF delta
  <2>5. QED
    BY <2>2, <2>3, <2>4 DEF r
<1>9. CASE delta > 0
  <2>1. r = shared
    BY <1>1, <1>2, <1>9
  <2> DEFINE g == Gain(shared, ev)
  <2>2. g \in [Threads -> Nat] /\ SumFunction(g) = SumFunctionOnSet(g, Threads)
    BY <1>6, GainFacts
  <2>3. IsFiniteSet(Threads)
    BY AttributionAssumption
  <2>4. \A t \in Threads \ DOMAIN shares : g[t] = 0
    BY <1>5 DEF Gain, Larger
  <2>5. \A t \in DOMAIN shares : g[t] <= shares[t]
    BY <1>4, <1>5 DEF Gain, Larger
  <2> HIDE DEF g
  <2>6. SumFunctionOnSet(g, Threads) = SumFunctionOnSet(g, DOMAIN shares)
    BY <1>4, <2>2, <2>3, <2>4, SumPositive
  <2>7. IsFiniteSet(DOMAIN shares)
    BY <1>4, <2>3, FS_Subset
  <2>8. SumFunctionOnSet(g, DOMAIN shares) <= SumFunctionOnSet(shares, DOMAIN shares)
    BY <1>4, <2>2, <2>5, <2>7, SumOrder
  <2>9. SumFunctionOnSet(g, DOMAIN shares) \in Nat /\ SumFunctionOnSet(shares, DOMAIN shares) \in Nat
    BY <1>4, <2>2, <2>7, SumStep
  <2>10. SumFunction(g) <= delta
    BY <1>2, <1>4, <1>9, <2>2, <2>6, <2>8, <2>9
  <2>11. ~(bw <= base)
    BY <1>9 DEF delta
  <2>12. QED
    BY <1>6, <2>1, <2>10, <2>11 DEF r, delta, g
<1>10. QED
  BY <1>2, <1>7, <1>8, <1>9

-----------------------------------------------------------------------------
(* Type correctness.                                                       *)

\* The latest sample of a link.
SampleValue == [bw : Nat, stale : BOOLEAN, newer : BOOLEAN]

\* Types of what the attribution keeps.
TypeOK ==
    /\ loopPc \in {"observe", "adopt"}
    /\ latest \in Nat /\ active \in Nat \X Nat /\ lastArmed \in Nat \X Nat
    /\ cs \in [Links -> SampleValue]
    /\ traffic \in [Threads -> TrafficValue]
    /\ away \in SUBSET Threads
    /\ evidence \in [Links -> [Threads -> Nat]]
    /\ NotedOrNone

\* At the start nothing is known and nothing is armed.
LEMMA TypeInit == Init => TypeOK
<1> SUFFICES ASSUME Init PROVE TypeOK
  OBVIOUS
<1>1. NoPlan \in Nat \X Nat /\ NoSample \in SampleValue /\ NoTraffic \in TrafficValue
  BY DEF NoPlan, NoSample, SampleValue, NoTraffic, TrafficValue
<1>2. cs \in [Links -> SampleValue] /\ traffic \in [Threads -> TrafficValue]
  BY <1>1 DEF Init
<1>3. evidence \in [Links -> [Threads -> Nat]]
  BY DEF Init
<1>4. QED
  BY <1>1, <1>2, <1>3 DEF Init, TypeOK, NotedOrNone

\* What the evidence is after the samples and messages of a pass.
Applied(l) == apply_plan_cs_attribution(cs', traffic', away').evidence[l]

\* Samples and messages keep their types.
LEMMA ObserveInputs ==
    ASSUME TypeOK, Observe
    PROVE  /\ cs' \in [Links -> SampleValue] /\ traffic' \in [Threads -> TrafficValue]
           /\ away' \in SUBSET Threads /\ latest' \in Nat /\ latest <= latest'
<1>1. PICK got \in SUBSET Links, from \in SUBSET Threads :
        \E bw \in [got -> Bandwidths], new \in [from -> Traffic] :
           ReceiveSamples(got, bw) /\ RefreshThreads(from, new)
  BY DEF Observe
<1>2. PICK bw \in [got -> Bandwidths], new \in [from -> Traffic] :
        ReceiveSamples(got, bw) /\ RefreshThreads(from, new)
  BY <1>1
<1>3. latest' \in Nat /\ latest <= latest'
  BY <1>2, AttributionAssumption DEF ReceiveSamples, TypeOK
<1>4. pending.armed \in BOOLEAN
  <2>1. CASE pending = None
    BY <2>1 DEF None
  <2>2. CASE pending \in Noted
    BY <2>2 DEF Noted
  <2>3. QED
    BY <2>1, <2>2 DEF TypeOK, NotedOrNone
<1>5. cs' \in [Links -> SampleValue]
  <2>1. \A l \in got : bw[l] \in Nat
    BY AttributionAssumption
  <2>2. \A l \in got : [bw |-> bw[l], stale |-> FALSE, newer |-> pending.armed] \in SampleValue
    BY <1>4, <2>1 DEF SampleValue
  <2>3. cs' = [l \in Links |-> IF l \in got
                               THEN [bw |-> bw[l], stale |-> FALSE, newer |-> pending.armed]
                               ELSE cs[l]]
    BY <1>2 DEF ReceiveSamples
  <2>4. QED
    BY <2>2, <2>3 DEF TypeOK
<1>6. traffic' \in [Threads -> TrafficValue]
  <2>1. \A t \in from : new[t] \in TrafficValue
    BY AttributionAssumption DEF TrafficValue
  <2>2. QED
    BY <1>2, <2>1 DEF RefreshThreads, TypeOK
<1>7. away' \in SUBSET Threads
  BY <1>2 DEF RefreshThreads, TypeOK
<1>8. QED
  BY <1>3, <1>5, <1>6, <1>7

\* What a pass does with the evidence on a link.
LEMMA ObserveEvidence ==
    ASSUME TypeOK, Observe, NEW l \in Links
    PROVE  /\ Applied(l) \in [Threads -> Nat]
           /\ evidence' \in [Links -> [Threads -> Nat]]
           /\ \A t \in Threads : evidence'[l][t] <= Applied(l)[t]
           /\ Live(cs', l) => SumFunction(evidence'[l]) <= Limit(cs'[l].bw)
           /\ ~pending.armed \/ l \notin Fresh(cs') => Applied(l) = evidence[l]
           /\ pending.armed /\ l \in Fresh(cs') =>
                /\ pending.base[l] \in Nat
                /\ cs'[l].bw <= pending.base[l] =>
                     \A t \in Threads : Applied(l)[t] <= evidence[l][t]
                /\ cs'[l].bw > pending.base[l] =>
                     SumFunction(Gain(Applied(l), evidence[l])) <= cs'[l].bw - pending.base[l]
<1> DEFINE Link(k) == ApplyLink(evidence[k], pending.base[k], cs'[k].bw, traffic', away')
           App(k) == apply_plan_cs_attribution(cs', traffic', away').evidence[k]
<1>1. /\ cs' \in [Links -> SampleValue] /\ traffic' \in [Threads -> TrafficValue]
  BY ObserveInputs
<1>2. \A k \in Links : cs'[k].bw \in Nat
  BY <1>1 DEF SampleValue
<1>3. \A k \in Links : App(k) = IF pending.armed /\ k \in Fresh(cs') THEN Link(k) ELSE evidence[k]
  BY DEF apply_plan_cs_attribution
<1>4. \A k \in Links : pending.armed /\ k \in Fresh(cs') => pending.base[k] \in Nat
  BY NotedFacts DEF TypeOK, Fresh
<1>5. NotedOrNone /\ \A k \in Links : evidence[k] \in [Threads -> Nat]
  BY DEF TypeOK
<1>6. ASSUME NEW k \in Links, pending.armed, k \in Fresh(cs')
      PROVE  /\ Link(k) \in [Threads -> Nat]
             /\ cs'[k].bw <= pending.base[k] => \A t \in Threads : Link(k)[t] <= evidence[k][t]
             /\ cs'[k].bw > pending.base[k] =>
                  SumFunction(Gain(Link(k), evidence[k])) <= cs'[k].bw - pending.base[k]
  BY <1>1, <1>2, <1>4, <1>5, <1>6, ApplyFacts
<1> HIDE DEF Link
<1>7. \A k \in Links : App(k) \in [Threads -> Nat]
  BY <1>3, <1>5, <1>6
<1>8. evidence' = [k \in Links |->
                     IF Live(cs', k) THEN decay_io_cs_link_evidence_to_current(App(k), cs'[k].bw)
                     ELSE App(k)]
  BY DEF Observe, decay_io_cs_evidence_to_current_samples
<1> HIDE DEF App
<1>9. ASSUME NEW k \in Links
      PROVE  /\ evidence'[k] \in [Threads -> Nat]
             /\ \A t \in Threads : evidence'[k][t] <= App(k)[t]
             /\ Live(cs', k) => SumFunction(evidence'[k]) <= Limit(cs'[k].bw)
  <2>1. CASE Live(cs', k)
    BY <1>2, <1>7, <1>8, <2>1, DecayFacts
  <2>2. CASE ~Live(cs', k)
    <3>1. evidence'[k] = App(k)
      BY <1>8, <2>2
    <3>2. QED
      BY <1>7, <2>2, <3>1
  <2>3. QED
    BY <2>1, <2>2
<1>10. evidence' \in [Links -> [Threads -> Nat]]
  BY <1>8, <1>9
<1>11. Applied(l) = App(l)
  BY DEF Applied, App
<1>12. QED
  BY <1>3, <1>4, <1>6, <1>7, <1>9, <1>10, <1>11

\* An attribution stays as it is noted, ages, or ends.
LEMMA KeepsNoted ==
    ASSUME NotedOrNone, pending.armed
    PROVE  /\ \A a \in SUBSET Links :
                LET p == [pending EXCEPT !.applied = a]
                IN  /\ p \in Noted /\ DOMAIN p.traffic = p.candidates
                    /\ p.armed /\ p.key = pending.key /\ p.age = pending.age
           /\ LET p == [pending EXCEPT !.age = @ + 1]
              IN  /\ p \in Noted /\ DOMAIN p.traffic = p.candidates
                  /\ p.armed /\ p.key = pending.key /\ p.age = pending.age + 1
<1>1. pending \in Noted /\ DOMAIN pending.traffic = pending.candidates
  BY DEF NotedOrNone, None
<1>2. ASSUME NEW a \in SUBSET Links
      PROVE  LET p == [pending EXCEPT !.applied = a]
             IN  /\ p \in Noted /\ p.traffic = pending.traffic /\ p.candidates = pending.candidates
                 /\ p.armed /\ p.key = pending.key /\ p.age = pending.age
  BY <1>1 DEF Noted
<1>3. ASSUME NEW n \in Nat
      PROVE  LET p == [pending EXCEPT !.age = n]
             IN  /\ p \in Noted /\ p.traffic = pending.traffic /\ p.candidates = pending.candidates
                 /\ p.armed /\ p.key = pending.key /\ p.age = n
  BY <1>1 DEF Noted
<1>4. pending.age + 1 \in Nat
  BY <1>1 DEF Noted
<1>5. [pending EXCEPT !.age = @ + 1] = [pending EXCEPT !.age = pending.age + 1]
  OBVIOUS
<1> DEFINE n == pending.age + 1
           p == [pending EXCEPT !.age = n]
<1>6. /\ p \in Noted /\ p.traffic = pending.traffic /\ p.candidates = pending.candidates
      /\ p.armed /\ p.key = pending.key /\ p.age = n
  <2>1. n \in Nat
    BY <1>4
  <2> HIDE DEF n
  <2>2. QED
    BY <2>1, <1>3
<1> HIDE DEF p
<1>7. [pending EXCEPT !.age = @ + 1] = p
  BY <1>5 DEF p
<1>8. QED
  BY <1>1, <1>2, <1>6, <1>7

\* A pass may end an attribution but not replace it.
LEMMA ObservePending ==
    ASSUME TypeOK, Observe
    PROVE  /\ NotedOrNone'
           /\ pending'.armed => /\ pending.armed /\ pending'.key = pending.key
                                /\ pending'.age = pending.age
<1> DEFINE fresh == Fresh(cs')
           applied == pending.applied \cup fresh
           open == {l \in Links : pending.base[l] # Unnoted} \ applied
<1>1. pending' = IF ~pending.armed THEN None
                 ELSE IF (fresh = {} /\ Expired) \/ (fresh # {} /\ open = {}) THEN None
                 ELSE [pending EXCEPT !.applied = applied]
  BY DEF Observe, apply_plan_cs_attribution
<1>2. pending.armed => applied \in SUBSET Links
  BY NotedFacts DEF TypeOK, Noted, Fresh
<1>3. NotedOrNone
  BY DEF TypeOK
<1>4. CASE pending' = None
  BY <1>4 DEF NotedOrNone, None
<1>5. CASE pending.armed /\ pending' = [pending EXCEPT !.applied = applied]
  <2> HIDE DEF applied
  <2>1. /\ pending' \in Noted /\ DOMAIN pending'.traffic = pending'.candidates
        /\ pending'.key = pending.key /\ pending'.age = pending.age
    BY <1>2, <1>3, <1>5, KeepsNoted
  <2>2. QED
    BY <1>5, <2>1 DEF NotedOrNone
<1>6. QED
  BY <1>1, <1>4, <1>5

\* Time keeps the types, and only makes the armed attribution older.
LEMMA TickFacts ==
    ASSUME TypeOK, Tick
    PROVE  /\ TypeOK'
           /\ pending'.armed => /\ pending.armed /\ pending'.key = pending.key
                                /\ pending'.age \in Nat /\ pending.age <= pending'.age
<1>1. PICK late \in SUBSET Links, gone \in SUBSET Threads :
        /\ cs' = [l \in Links |-> IF l \in late THEN NoSample ELSE cs[l]]
        /\ away' = away \cup gone
        /\ traffic' = [t \in Threads |-> IF t \in gone THEN NoTraffic ELSE traffic[t]]
  BY DEF Tick
<1>2. NoSample \in SampleValue /\ NoTraffic \in TrafficValue
  BY DEF NoSample, SampleValue, NoTraffic, TrafficValue
<1>3. cs' \in [Links -> SampleValue] /\ traffic' \in [Threads -> TrafficValue]
  BY <1>1, <1>2 DEF TypeOK
<1>4. away' \in SUBSET Threads
  BY <1>1 DEF TypeOK
<1>5. UNCHANGED <<loopPc, latest, active, lastArmed, evidence>>
  BY DEF Tick, plans
<1>6. NotedOrNone
  BY DEF TypeOK
<1>7. CASE pending.armed /\ pending' = [pending EXCEPT !.age = @ + 1]
  <2>1. /\ pending' \in Noted /\ DOMAIN pending'.traffic = pending'.candidates
        /\ pending'.key = pending.key /\ pending'.age = pending.age + 1
    BY <1>6, <1>7, KeepsNoted
  <2>2. pending.age \in Nat
    BY <1>6, <1>7, NotedFacts DEF Noted
  <2>3. NotedOrNone'
    BY <2>1 DEF NotedOrNone
  <2>4. QED
    BY <1>3, <1>4, <1>5, <1>7, <2>1, <2>2, <2>3 DEF TypeOK
<1>8. CASE pending' = pending
  <2>1. pending.armed => pending.age \in Nat
    BY <1>6, NotedFacts DEF Noted
  <2>2. NotedOrNone'
    BY <1>6, <1>8 DEF NotedOrNone
  <2>3. QED
    BY <1>3, <1>4, <1>5, <1>8, <2>1, <2>2 DEF TypeOK
<1>9. QED
  BY <1>7, <1>8 DEF Tick

\* The first half of a pass keeps the types.
LEMMA ObserveType ==
    ASSUME TypeOK, Observe
    PROVE  TypeOK'
<1>1. evidence' \in [Links -> [Threads -> Nat]]
  <2>1. CASE Links = {}
    <3>1. evidence' = [l \in Links |->
                         IF Live(cs', l) THEN decay_io_cs_link_evidence_to_current(
                              apply_plan_cs_attribution(cs', traffic', away').evidence[l], cs'[l].bw)
                         ELSE apply_plan_cs_attribution(cs', traffic', away').evidence[l]]
      BY DEF Observe, decay_io_cs_evidence_to_current_samples
    <3>2. QED
      BY <2>1, <3>1
  <2>2. CASE Links # {}
    BY <2>2, ObserveEvidence
  <2>3. QED
    BY <2>1, <2>2
<1>2. QED
  BY <1>1, ObserveInputs, ObservePending DEF Observe, TypeOK

\* A plan that is adopted has a sweep and a revision, and goes before no other.
LEMMA ResultsFacts ==
    ASSUME TypeOK, NEW k \in Results
    PROVE  /\ k \in Nat \X Nat
           /\ k = active \/ (k[1] >= active[1] /\ k[2] >= active[2] /\ k[1] > 0)
           /\ k = active \/ k[1] <= latest
<1>1. active \in Nat \X Nat /\ active[1] \in Nat /\ active[2] \in Nat /\ latest \in Nat
  BY DEF TypeOK
<1>2. CASE k = active
  BY <1>1, <1>2
<1>3. CASE k \in (Larger(active[1], 1)..latest) \X (active[2]..(active[2] + 2))
  <2>1. Larger(active[1], 1) \in Nat /\ Larger(active[1], 1) >= active[1] /\ Larger(active[1], 1) >= 1
    BY <1>1 DEF Larger
  <2>2. /\ k[1] \in Larger(active[1], 1)..latest
        /\ k[2] \in active[2]..(active[2] + 2) /\ k = <<k[1], k[2]>>
    BY <1>3
  <2>3. QED
    BY <1>1, <2>1, <2>2
<1>4. QED
  BY <1>2, <1>3 DEF Results

\* Arming notes the plan, if it is not the one armed last.
LEMMA ArmFacts ==
    ASSUME TypeOK, NEW entries \in SUBSET Threads, NEW plan \in Nat \X Nat,
           arm_plan_cs_attribution(plan, entries)
    PROVE  \/ UNCHANGED <<pending, lastArmed, cs>>
           \/ /\ pending' \in Noted /\ DOMAIN pending'.traffic = pending'.candidates
              /\ pending'.armed /\ pending'.key = plan
              /\ lastArmed' = plan /\ lastArmed # plan /\ plan # NoPlan
              /\ cs' \in [Links -> SampleValue]
<1> DEFINE candidates == collect_plan_cs_candidates(entries)
           base == capture_plan_cs_link_baselines
           p == [armed |-> TRUE, key |-> plan, age |-> 0,
                 base |-> base, applied |-> {}, candidates |-> candidates,
                 traffic |-> [t \in candidates |-> traffic[t]]]
<1>1. CASE ~MayArm(plan) \/ candidates = {} \/ \A l \in Links : base[l] = Unnoted
  BY <1>1 DEF arm_plan_cs_attribution
<1>2. CASE ~(~MayArm(plan) \/ candidates = {} \/ \A l \in Links : base[l] = Unnoted)
  <2>1. /\ pending' = p
        /\ lastArmed' = plan /\ cs' = [l \in Links |-> [cs[l] EXCEPT !.newer = FALSE]]
    BY <1>2 DEF arm_plan_cs_attribution
  <2>2. lastArmed # plan /\ plan # NoPlan
    BY <1>2 DEF MayArm
  <2>3. candidates \in SUBSET Threads
    BY DEF collect_plan_cs_candidates
  <2>4. \A l \in Links : cs[l] \in SampleValue
    BY DEF TypeOK
  <2>5. cs' \in [Links -> SampleValue]
    <3>1. \A l \in Links : [cs[l] EXCEPT !.newer = FALSE] \in SampleValue
      BY <2>4 DEF SampleValue
    <3>2. QED
      BY <2>1, <3>1
  <2>6. base \in [Links -> Nat \cup {Unnoted}]
    BY <2>4 DEF capture_plan_cs_link_baselines, SampleValue
  <2>7. [t \in candidates |-> traffic[t]] \in [candidates -> TrafficValue]
    BY <2>3 DEF TypeOK
  <2> HIDE DEF candidates, base
  <2>8. [t \in candidates |-> traffic[t]] \in UNION {[C -> TrafficValue] : C \in SUBSET Threads}
    BY <2>3, <2>7
  <2>9. p \in Noted /\ DOMAIN p.traffic = p.candidates /\ p.armed /\ p.key = plan
    BY <2>3, <2>6, <2>8 DEF Noted
  <2>10. QED
    BY <2>1, <2>2, <2>5, <2>9
<1>3. QED
  BY <1>1, <1>2

\* The second half of a pass keeps the types.
LEMMA AdoptType ==
    ASSUME TypeOK, AdoptPlan
    PROVE  TypeOK'
<1>1. active' \in Nat \X Nat
  BY ResultsFacts DEF AdoptPlan
<1>2. PICK entries \in SUBSET Threads : arm_plan_cs_attribution(active', entries)
  BY DEF AdoptPlan
<1>3. \/ UNCHANGED <<pending, lastArmed, cs>>
      \/ /\ pending' \in Noted /\ DOMAIN pending'.traffic = pending'.candidates
         /\ lastArmed' = active' /\ cs' \in [Links -> SampleValue]
  BY <1>1, <1>2, ArmFacts
<1>4. NotedOrNone'
  BY <1>3 DEF TypeOK, NotedOrNone
<1>5. QED
  BY <1>1, <1>3, <1>4 DEF AdoptPlan, TypeOK

\* Pruning a thread only takes evidence away.
LEMMA PruneFacts ==
    ASSUME TypeOK, NEW t \in Threads, prune_dead_threads(t)
    PROVE  /\ TypeOK' /\ UNCHANGED <<pending, lastArmed, active, latest, loopPc>>
           /\ \A l \in Links : evidence'[l] \in [Threads -> Nat]
                /\ \A u \in Threads : evidence'[l][u] <= evidence[l][u]
<1>1. /\ UNCHANGED <<loopPc, latest, active, lastArmed, cs, traffic, away, pending>>
      /\ evidence' = [l \in Links |-> [evidence[l] EXCEPT ![t] = 0]]
  BY DEF prune_dead_threads, plans
<1>2. ASSUME NEW l \in Links
      PROVE  /\ [evidence[l] EXCEPT ![t] = 0] \in [Threads -> Nat]
             /\ \A u \in Threads : [evidence[l] EXCEPT ![t] = 0][u] <= evidence[l][u]
  BY DEF TypeOK
<1>3. evidence' \in [Links -> [Threads -> Nat]]
  BY <1>1, <1>2
<1>4. NotedOrNone'
  BY <1>1 DEF TypeOK, NotedOrNone
<1>5. TypeOK'
  BY <1>1, <1>3, <1>4 DEF TypeOK
<1>6. QED
  BY <1>1, <1>2, <1>3, <1>5

\* Every step keeps the types.
LEMMA TypeStep == TypeOK /\ [Next]_vars => TypeOK'
<1> SUFFICES ASSUME TypeOK, [Next]_vars PROVE TypeOK'
  OBVIOUS
<1>1. CASE Tick
  BY <1>1, TickFacts
<1>2. CASE Observe
  BY <1>2, ObserveType
<1>3. CASE AdoptPlan
  BY <1>3, AdoptType
<1>4. CASE \E t \in Threads : prune_dead_threads(t)
  BY <1>4, PruneFacts
<1>5. CASE UNCHANGED vars
  BY <1>5 DEF vars, plans, TypeOK, NotedOrNone
<1>6. QED
  BY <1>1, <1>2, <1>3, <1>4, <1>5 DEF Next, Pass

\* Spec keeps the types: in particular no evidence of app::run falls below zero,
\* however often it is scaled down, and every armed attribution is complete.
THEOREM AttributionTypeCorrect == Spec => []TypeOK
  BY TypeInit, TypeStep, PTL DEF Spec

-----------------------------------------------------------------------------
(* Attributions go forward.                                                *)

\* The plan armed last is not after the active one.
Behind == lastArmed[1] <= active[1] /\ lastArmed[2] <= active[2]

\* What ArmedForward says of a step.
ArmsLater ==
    pending'.armed /\ (~pending.armed \/ pending'.key # pending.key \/ pending'.age < pending.age)
      => Later(pending'.key, lastArmed)

\* Every step keeps that, and arms only a plan after the one armed last.
LEMMA ForwardStep == TypeOK /\ Behind /\ [Next]_vars => Behind' /\ ArmsLater
<1> SUFFICES ASSUME TypeOK, Behind, [Next]_vars PROVE Behind' /\ ArmsLater
  OBVIOUS
<1>1. /\ active[1] \in Nat /\ active[2] \in Nat /\ active = <<active[1], active[2]>>
      /\ lastArmed[1] \in Nat /\ lastArmed[2] \in Nat /\ lastArmed = <<lastArmed[1], lastArmed[2]>>
  BY DEF TypeOK
<1>2. pending.armed => pending.age \in Nat
  BY NotedFacts DEF TypeOK, Noted
<1>3. CASE Tick
  <2>1. pending'.armed => /\ pending.armed /\ pending'.key = pending.key
                          /\ pending'.age \in Nat /\ pending.age <= pending'.age
    BY <1>3, TickFacts
  <2>2. pending.armed /\ pending'.armed => ~(pending'.age < pending.age)
    BY <1>2, <2>1
  <2>3. QED
    BY <1>3, <2>1, <2>2 DEF Tick, plans, Behind, ArmsLater
<1>4. CASE Observe
  <2>1. pending'.armed => pending.armed /\ pending'.key = pending.key /\ pending'.age = pending.age
    BY <1>4, ObservePending
  <2>2. QED
    BY <1>2, <1>4, <2>1 DEF Observe, Behind, ArmsLater
<1>5. CASE AdoptPlan
  <2>1. active' \in Results
    BY <1>5 DEF AdoptPlan
  <2>2. /\ active' \in Nat \X Nat
        /\ active' = active \/ (active'[1] >= active[1] /\ active'[2] >= active[2])
    BY <2>1, ResultsFacts
  <2>3. /\ active'[1] \in Nat /\ active'[2] \in Nat /\ active' = <<active'[1], active'[2]>>
        /\ active'[1] >= lastArmed[1] /\ active'[2] >= lastArmed[2]
    BY <1>1, <2>2 DEF Behind
  <2>4. PICK entries \in SUBSET Threads : arm_plan_cs_attribution(active', entries)
    BY <1>5 DEF AdoptPlan
  <2>5. CASE UNCHANGED <<pending, lastArmed, cs>>
    <3>1. ArmsLater
      BY <1>2, <2>5 DEF ArmsLater
    <3>2. QED
      BY <2>3, <2>5, <3>1 DEF Behind
  <2>6. CASE /\ pending'.armed /\ pending'.key = active'
             /\ lastArmed' = active' /\ lastArmed # active'
    <3>1. Behind'
      BY <2>3, <2>6 DEF Behind
    <3>2. active'[1] # lastArmed[1] \/ active'[2] # lastArmed[2]
      BY <1>1, <2>3, <2>6
    <3>3. Later(active', lastArmed)
      BY <1>1, <2>3, <3>2 DEF Later
    <3>4. QED
      BY <2>6, <3>1, <3>3 DEF ArmsLater
  <2>7. QED
    BY <2>2, <2>4, <2>5, <2>6, ArmFacts
<1>6. CASE \E t \in Threads : prune_dead_threads(t)
  <2>1. UNCHANGED <<pending, lastArmed, active>>
    BY <1>6, PruneFacts
  <2>2. QED
    BY <1>2, <2>1 DEF Behind, ArmsLater
<1>7. CASE UNCHANGED vars
  BY <1>2, <1>7 DEF vars, plans, Behind, ArmsLater
<1>8. QED
  BY <1>3, <1>4, <1>5, <1>6, <1>7 DEF Next, Pass

\* No plan is armed twice and none after a later one.
THEOREM ArmedForwardCorrect == Spec => ArmedForward
<1>1. Init => TypeOK /\ Behind
  BY TypeInit DEF Init, Behind, NoPlan
<1>2. TypeOK /\ Behind /\ [Next]_vars => TypeOK' /\ Behind'
  BY TypeStep, ForwardStep
<1>3. TypeOK /\ Behind /\ [Next]_vars => [ArmsLater]_vars
  BY ForwardStep
<1>4. Spec => [][ArmsLater]_vars
  BY <1>1, <1>2, <1>3, PTL DEF Spec
<1>5. QED
  BY <1>4 DEF ArmedForward, ArmsLater

-----------------------------------------------------------------------------
(* Evidence is covered by samples.                                         *)

\* What GainsCovered says of a step.
GainsBySamples ==
    \A l \in Links :
        LET gains == SumFunction([t \in Threads |-> Larger(evidence'[l][t] - evidence[l][t], 0)])
        IN  gains > 0 => /\ pending.armed /\ l \in Fresh(cs')
                         /\ gains <= cs'[l].bw - pending.base[l]

\* Only the first half of a pass adds evidence, and no more than the samples show.
LEMMA GainsStep == TypeOK /\ [Next]_vars => GainsBySamples
<1> SUFFICES ASSUME TypeOK, [Next]_vars, NEW l \in Links
             PROVE  LET gains == SumFunction(Gain(evidence'[l], evidence[l]))
                    IN  gains > 0 => /\ pending.armed /\ l \in Fresh(cs')
                                     /\ gains <= cs'[l].bw - pending.base[l]
  BY DEF GainsBySamples, Gain
<1> DEFINE gains == SumFunction(Gain(evidence'[l], evidence[l]))
<1>1. evidence[l] \in [Threads -> Nat]
  BY DEF TypeOK
<1>2. TypeOK'
  BY TypeStep
<1>3. evidence'[l] \in [Threads -> Nat]
  BY <1>2 DEF TypeOK
<1>4. ASSUME \A t \in Threads : evidence'[l][t] <= evidence[l][t]
      PROVE  ~(gains > 0)
  BY <1>1, <1>3, <1>4, GainFacts
<1>5. CASE evidence' = evidence
  <2>1. \A t \in Threads : evidence'[l][t] <= evidence[l][t]
    BY <1>1, <1>5
  <2>2. QED
    BY <1>4, <2>1
<1>6. CASE Observe
  <2>1. /\ Applied(l) \in [Threads -> Nat]
        /\ \A t \in Threads : evidence'[l][t] <= Applied(l)[t]
        /\ ~pending.armed \/ l \notin Fresh(cs') => Applied(l) = evidence[l]
        /\ pending.armed /\ l \in Fresh(cs') =>
             /\ pending.base[l] \in Nat
             /\ cs'[l].bw <= pending.base[l] =>
                  \A t \in Threads : Applied(l)[t] <= evidence[l][t]
             /\ cs'[l].bw > pending.base[l] =>
                  SumFunction(Gain(Applied(l), evidence[l])) <= cs'[l].bw - pending.base[l]
    BY <1>6, ObserveEvidence
  <2>2. cs'[l].bw \in Nat
    BY <1>2 DEF TypeOK, SampleValue
  <2>3. CASE ~pending.armed \/ l \notin Fresh(cs')
    BY <1>4, <2>1, <2>3
  <2>4. CASE pending.armed /\ l \in Fresh(cs')
    <3>1. CASE cs'[l].bw <= pending.base[l]
      <4>1. \A t \in Threads : evidence'[l][t] <= evidence[l][t]
        BY <1>1, <1>3, <2>1, <2>4, <3>1
      <4>2. QED
        BY <1>4, <4>1
    <3>2. CASE cs'[l].bw > pending.base[l]
      <4> DEFINE all == SumFunction(Gain(Applied(l), evidence[l]))
      <4>1. gains <= all
        BY <1>1, <1>3, <2>1, GainFacts
      <4>2. all <= cs'[l].bw - pending.base[l]
        BY <2>1, <2>4, <3>2
      <4>3. gains \in Nat /\ all \in Nat
        <5>1. IsFiniteSet(Threads)
          BY AttributionAssumption
        <5>2. /\ Gain(evidence'[l], evidence[l]) \in [Threads -> Nat]
              /\ gains = SumFunctionOnSet(Gain(evidence'[l], evidence[l]), Threads)
              /\ Gain(Applied(l), evidence[l]) \in [Threads -> Nat]
              /\ all = SumFunctionOnSet(Gain(Applied(l), evidence[l]), Threads)
          BY <1>1, <1>3, <2>1, GainFacts
        <5>3. SumFunctionOnSet(Gain(evidence'[l], evidence[l]), Threads) \in Nat
          BY <5>1, <5>2, SumStep
        <5>4. SumFunctionOnSet(Gain(Applied(l), evidence[l]), Threads) \in Nat
          BY <5>1, <5>2, SumStep
        <5>5. QED
          BY <5>2, <5>3, <5>4
      <4> HIDE DEF gains, all
      <4>4. gains <= cs'[l].bw - pending.base[l]
        BY <2>1, <2>2, <2>4, <4>1, <4>2, <4>3
      <4>5. QED
        BY <2>4, <4>4 DEF gains
    <3>3. QED
      BY <2>1, <2>2, <2>4, <3>1, <3>2
  <2>5. QED
    BY <2>3, <2>4
<1>7. CASE \E t \in Threads : prune_dead_threads(t)
  <2>1. \A t \in Threads : evidence'[l][t] <= evidence[l][t]
    BY <1>7, PruneFacts
  <2>2. QED
    BY <1>4, <2>1
<1>8. CASE Tick \/ AdoptPlan \/ UNCHANGED vars
  BY <1>5, <1>8 DEF Tick, AdoptPlan, vars
<1>9. QED
  BY <1>6, <1>7, <1>8 DEF Next, Pass

\* What threads gain in a pass is at most the rise of the link since the plan was
\* armed, whatever rounding does to the shares.
THEOREM GainsCoveredCorrect == Spec => GainsCovered
<1>1. TypeOK /\ [Next]_vars => [GainsBySamples]_vars
  BY GainsStep
<1>2. Spec => [][GainsBySamples]_vars
  BY <1>1, TypeInit, TypeStep, PTL DEF Spec
<1>3. QED
  BY <1>2, PTL DEF GainsCovered, GainsBySamples

\* The first half of a pass leaves the evidence covered; elsewhere nothing is claimed.
LEMMA CoveredStep == TypeOK /\ EvidenceCovered /\ [Next]_vars => EvidenceCovered'
<1> SUFFICES ASSUME TypeOK, EvidenceCovered, [Next]_vars PROVE EvidenceCovered'
  OBVIOUS
<1>1. CASE Observe
  BY <1>1, ObserveEvidence DEF EvidenceCovered, Live
<1>2. CASE Tick \/ AdoptPlan \/ \E t \in Threads : prune_dead_threads(t)
  <2>1. loopPc' = "observe"
    BY <1>2 DEF Tick, AdoptPlan, prune_dead_threads
  <2>2. QED
    BY <2>1 DEF EvidenceCovered
<1>3. CASE UNCHANGED vars
  BY <1>3 DEF vars, EvidenceCovered, Live
<1>4. QED
  BY <1>1, <1>2, <1>3 DEF Next, Pass

\* After every pass threads answer for at most 5/4 of what a link carries.
THEOREM EvidenceCoveredCorrect == Spec => []EvidenceCovered
<1>1. Init => EvidenceCovered
  BY DEF Init, EvidenceCovered
<1>2. QED
  BY <1>1, TypeInit, TypeStep, CoveredStep, PTL DEF Spec

-----------------------------------------------------------------------------
(* The planner pipeline.                                                   *)

\* Reads of the last result.
LEMMA LastResult ==
    ASSUME PipelineTypeOK, results # <<>>
    PROVE  Len(results) \in 1..Len(results) /\ results[Len(results)] \in Plan
  BY DEF PipelineTypeOK

\* The merged job keeps its phase and takes the request's snapshot.
LEMMA MergeFacts ==
    ASSUME NEW j \in Job, NEW r \in Request
    PROVE  LET m == [Merge(j, r) EXCEPT !.phase = "debounce"]
           IN  m \in Job /\ m.phase = "debounce" /\ m.epoch = r.epoch /\ m.base = r.base
<1>. DEFINE s == j.triggers \cup r.triggers
            q == [j EXCEPT !.epoch = r.epoch, !.base = r.base, !.triggers = s]
<1>1. Merge(j, r) = q
  BY DEF Merge
<1>2. s \in SUBSET Triggers
  BY DEF Job, Request
<1>. HIDE DEF s
<1>3. q \in Job /\ q.epoch = r.epoch /\ q.base = r.base
  BY <1>2 DEF Job, Request
<1>. HIDE DEF q
<1>. QED
  BY <1>1, <1>3 DEF Job

\* A plan is computed from the job's snapshot.
LEMMA ComputeFacts ==
    ASSUME NEW j \in Job, NEW g \in BOOLEAN
    PROVE  LET p == compute_plan(j, g)
           IN  p \in Plan /\ p.epoch = j.epoch /\ p.rev = j.base + 1
  BY DEF compute_plan, Job, Plan

\* An install takes the last result, or leaves the plan alone.
LEMMA InstallFacts ==
    ASSUME PipelineTypeOK, NEW from, NEW to, Install(from, to)
    PROVE  /\ active_plan' \in Plan /\ globals' \in SUBSET Nat /\ results' = <<>>
           /\ results = <<>> => active_plan' = active_plan
           /\ results # <<>> => active_plan' = results[Len(results)]
           /\ passPc = from /\ passPc' = to
           /\ UNCHANGED <<epoch, sweeps, latest_sweep, swept, requests, job, sent>>
<1>1. active_plan' = IF results = <<>> THEN active_plan ELSE results[Len(results)]
  BY DEF Install
<1>2. active_plan' \in Plan
  BY <1>1, LastResult DEF PipelineTypeOK
<1>3. globals' \in SUBSET Nat
  <2>1. \A i \in 1..Len(results) : results[i].epoch \in Nat
    <3>1. \A i \in 1..Len(results) : results[i] \in Plan
      BY DEF PipelineTypeOK
    <3>. QED
      BY <3>1 DEF Plan
  <2>. DEFINE E == {results[i].epoch : i \in {k \in 1..Len(results) : results[k].global}}
  <2>2. E \subseteq Nat
    BY <2>1
  <2>3. globals' = globals \cup E
    BY DEF Install
  <2>. HIDE DEF E
  <2>. QED
    BY <2>2, <2>3 DEF PipelineTypeOK
<1>. QED
  BY <1>1, <1>2, <1>3 DEF Install

\* Every step keeps the types.
LEMMA PipelineTypeStep == PipelineTypeOK /\ [PipelineNext]_pipelineVars => PipelineTypeOK'
<1>. SUFFICES ASSUME PipelineTypeOK, [PipelineNext]_pipelineVars PROVE PipelineTypeOK'
  OBVIOUS
<1>1. CASE SweepComplete
  BY <1>1 DEF SweepComplete, PipelineTypeOK, loopVars
<1>2. CASE apply_sample_updates
  <2>1. sweeps # <<>> => sweeps[Len(sweeps)] \in Nat
    BY DEF PipelineTypeOK
  <2>2. latest_sweep' \in Nat
    BY <1>2, <2>1 DEF apply_sample_updates, PipelineTypeOK
  <2>. QED
    BY <1>2, <2>2 DEF apply_sample_updates, PipelineTypeOK
<1>3. CASE InstallEarly
  <2>1. Install("install", "request")
    BY <1>3 DEF InstallEarly
  <2>2. /\ active_plan' \in Plan /\ globals' \in SUBSET Nat /\ results' = <<>>
        /\ passPc' \in {"request", "samples"}
        /\ UNCHANGED <<epoch, sweeps, latest_sweep, swept, requests, job, sent>>
    BY <2>1, InstallFacts
  <2>. QED
    BY <2>2 DEF PipelineTypeOK
<1>4. CASE InstallLate
  <2>1. Install("adopt", "samples")
    BY <1>4 DEF InstallLate
  <2>2. /\ active_plan' \in Plan /\ globals' \in SUBSET Nat /\ results' = <<>>
        /\ passPc' \in {"request", "samples"}
        /\ UNCHANGED <<epoch, sweeps, latest_sweep, swept, requests, job, sent>>
    BY <2>1, InstallFacts
  <2>. QED
    BY <2>2 DEF PipelineTypeOK
<1>5. CASE SendRequest
  <2>1. PICK triggers \in SUBSET Triggers :
          requests' = IF Channel THEN Append(requests, build_planner_input(triggers))
                      ELSE requests
    BY <1>5 DEF SendRequest
  <2>2. build_planner_input(triggers) \in Request
    BY DEF build_planner_input, PipelineTypeOK, Request, Plan
  <2>3. requests' \in Seq(Request) /\ Len(requests') <= 1
    BY <2>1, <2>2 DEF Channel, PipelineTypeOK
  <2>. QED
    BY <1>5, <2>3 DEF SendRequest, PipelineTypeOK
<1>6. CASE NoRequest
  BY <1>6 DEF NoRequest, PipelineTypeOK
<1>7. CASE TakeRequest
  <2>1. /\ Head(requests) \in Request /\ Tail(requests) \in Seq(Request)
        /\ Len(Tail(requests)) <= 1
    BY <1>7 DEF TakeRequest, PipelineTypeOK
  <2>2. job' \in Job
    BY <1>7, <2>1, MergeFacts DEF TakeRequest, PipelineTypeOK
  <2>. QED
    BY <1>7, <2>1, <2>2 DEF TakeRequest, PipelineTypeOK, loopVars
<1>8. CASE DebounceEnds
  <2>1. job' \in Job
    BY <1>8 DEF DebounceEnds, PipelineTypeOK, Job
  <2>. QED
    BY <1>8, <2>1 DEF DebounceEnds, PipelineTypeOK, loopVars
<1>9. CASE ComputePlan
  <2>1. PICK g \in BOOLEAN : results' = Append(results, compute_plan(job, g))
    BY <1>9 DEF ComputePlan
  <2>2. results' \in Seq(Plan)
    BY <2>1, ComputeFacts DEF PipelineTypeOK
  <2>3. NoJob \in Job
    BY DEF NoJob, Job
  <2>. QED
    BY <1>9, <2>2, <2>3 DEF ComputePlan, PipelineTypeOK, loopVars
<1>10. CASE UNCHANGED pipelineVars
  BY <1>10 DEF pipelineVars, loopVars, PipelineTypeOK
<1>. QED
  BY <1>1, <1>2, <1>3, <1>4, <1>5, <1>6, <1>7, <1>8, <1>9, <1>10
     DEF PipelineNext, MainStep, WorkerStep

\* The initial state is well typed.
LEMMA PipelineTypeInit == PipelineInit => PipelineTypeOK
<1>. SUFFICES ASSUME PipelineInit PROVE PipelineTypeOK
  OBVIOUS
<1>1. NoActivePlan \in Plan /\ NoJob \in Job
  BY DEF NoActivePlan, NoJob, Plan, Job
<1>2. sweeps \in Seq(Nat) /\ results \in Seq(Plan)
  BY DEF PipelineInit
<1>3. requests \in Seq(Request) /\ Len(requests) <= 1
  BY DEF PipelineInit
<1>4. epoch \in Nat /\ latest_sweep \in Nat /\ sent \in Nat /\ globals \in SUBSET Nat
  BY DEF PipelineInit
<1>5. swept \in BOOLEAN /\ active_plan \in Plan /\ job \in Job
  BY <1>1, Zenon DEF PipelineInit
<1>6. passPc \in {"samples", "install", "request", "adopt"}
  BY DEF PipelineInit
<1>. QED
  BY <1>2, <1>3, <1>4, <1>5, <1>6 DEF PipelineTypeOK

\* Spec keeps the types, and the request channel never holds two requests.
THEOREM PipelineTypeCorrect == PipelineSpec => []PipelineTypeOK
  BY PipelineTypeInit, PipelineTypeStep, PTL DEF PipelineSpec

-----------------------------------------------------------------------------
(* Plans come in order.  Everything on its way was built from the plan that *)
(* was active at that time, which the active plan has not fallen behind: a  *)
(* request or a job carries at least the epoch of every earlier one, and    *)
(* its plan will have at least the revision of every earlier one.           *)

\* e and b are the epoch and the base revision of a request or a job.
Ahead(e, b) ==
    /\ 0 < e /\ active_plan.epoch <= e /\ e <= latest_sweep
    /\ b <= active_plan.rev /\ active_plan.rev <= b + 1
    /\ \A i \in 1..Len(results) : results[i].epoch <= e /\ results[i].rev <= b + 1

\* What is on its way comes in the order it was made.
Ordered ==
    /\ active_plan.epoch <= latest_sweep
    /\ \A i \in 1..Len(results) :
         /\ active_plan.epoch <= results[i].epoch /\ results[i].epoch <= latest_sweep
         /\ active_plan.rev <= results[i].rev /\ results[i].rev <= active_plan.rev + 1
         /\ 0 < results[i].epoch /\ 0 < results[i].rev
    /\ \A i, k \in 1..Len(results) : i <= k =>
         results[i].epoch <= results[k].epoch /\ results[i].rev <= results[k].rev
    /\ job.phase # "idle" => Ahead(job.epoch, job.base)
    /\ \A r \in 1..Len(requests) :
         /\ Ahead(requests[r].epoch, requests[r].base)
         /\ job.phase # "idle" => job.epoch <= requests[r].epoch /\ job.base <= requests[r].base

\* The active plan stays, or a plan takes its place that was made for it, or for
\* the one before it.
Forward ==
    active_plan' # active_plan =>
      /\ active_plan'.epoch \in active_plan.epoch..latest_sweep /\ active_plan'.epoch > 0
      /\ active_plan'.rev \in active_plan.rev..(active_plan.rev + 1) /\ active_plan'.rev > 0

\* An install keeps the order and moves the active plan forward.
LEMMA InstallOrdered ==
    ASSUME PipelineTypeOK, Ordered, NEW from, NEW to, Install(from, to)
    PROVE  Ordered' /\ Forward
<1>1. /\ active_plan' \in Plan /\ results' = <<>>
      /\ results = <<>> => active_plan' = active_plan
      /\ results # <<>> => active_plan' = results[Len(results)]
      /\ UNCHANGED <<latest_sweep, requests, job>>
  BY InstallFacts
<1>2. active_plan.epoch \in Nat /\ active_plan.rev \in Nat /\ latest_sweep \in Nat
  BY DEF PipelineTypeOK, Plan
<1>3. CASE results = <<>>
  BY <1>1, <1>2, <1>3 DEF Ordered, Ahead, Forward
<1>4. CASE results # <<>>
  <2>. DEFINE n == Len(results)
  <2>1. /\ n \in 1..n /\ active_plan' = results[n]
        /\ active_plan'.epoch \in Nat /\ active_plan'.rev \in Nat
    BY <1>1, <1>4, LastResult DEF Plan
  <2>2. /\ active_plan.epoch <= active_plan'.epoch /\ active_plan'.epoch <= latest_sweep
        /\ active_plan.rev <= active_plan'.rev /\ active_plan'.rev <= active_plan.rev + 1
        /\ 0 < active_plan'.epoch /\ 0 < active_plan'.rev
    BY <2>1 DEF Ordered
  <2>3. ASSUME NEW e \in Nat, NEW b \in Nat, Ahead(e, b)
        PROVE  Ahead(e, b)'
    <3>1. active_plan'.epoch <= e /\ active_plan'.rev <= b + 1
      BY <2>1, <2>3 DEF Ahead
    <3>2. b <= active_plan'.rev
      BY <1>2, <2>1, <2>2, <2>3 DEF Ahead
    <3>. QED
      BY <1>1, <2>3, <3>1, <3>2 DEF Ahead
  <2>4. job.epoch \in Nat /\ job.base \in Nat
    BY DEF PipelineTypeOK, Job
  <2>5. \A r \in 1..Len(requests) : requests[r].epoch \in Nat /\ requests[r].base \in Nat
    <3>1. \A r \in 1..Len(requests) : requests[r] \in Request
      BY DEF PipelineTypeOK
    <3>. QED
      BY <3>1 DEF Request
  <2>6. (job.phase # "idle" => Ahead(job.epoch, job.base))'
    <3>1. CASE job.phase = "idle"
      BY <3>1, <1>1
    <3>2. CASE job.phase # "idle"
      <4>1. Ahead(job.epoch, job.base)
        BY <3>2 DEF Ordered
      <4>2. Ahead(job.epoch, job.base)'
        BY <4>1, <2>3, <2>4, <1>1 DEF Ahead
      <4>. QED
        BY <4>2
    <3>. QED
      BY <3>1, <3>2
  <2>7. (\A r \in 1..Len(requests) : Ahead(requests[r].epoch, requests[r].base))'
    <3>. SUFFICES ASSUME NEW r \in 1..Len(requests)
                  PROVE  Ahead(requests[r].epoch, requests[r].base)'
      BY <1>1
    <3>1. Ahead(requests[r].epoch, requests[r].base)
      BY DEF Ordered
    <3>. QED
      BY <3>1, <2>3, <2>5, <1>1 DEF Ahead
  <2>8. (\A r \in 1..Len(requests) :
           job.phase # "idle" => job.epoch <= requests[r].epoch /\ job.base <= requests[r].base)'
    BY <1>1 DEF Ordered
  <2>9. 1..Len(results') = {}
    BY <1>1
  <2>. QED
    BY <1>1, <1>2, <2>1, <2>2, <2>6, <2>7, <2>8, <2>9 DEF Ordered, Forward
<1>. QED
  BY <1>3, <1>4

\* What the proofs below read of the types.
LEMMA Reads ==
    ASSUME PipelineTypeOK
    PROVE  /\ active_plan.epoch \in Nat /\ active_plan.rev \in Nat /\ latest_sweep \in Nat
           /\ job.epoch \in Nat /\ job.base \in Nat
           /\ \A r \in 1..Len(requests) : requests[r].epoch \in Nat /\ requests[r].base \in Nat
           /\ \A i \in 1..Len(results) : results[i].epoch \in Nat /\ results[i].rev \in Nat
<1>1. \A r \in 1..Len(requests) : requests[r] \in Request
  BY DEF PipelineTypeOK
<1>2. \A i \in 1..Len(results) : results[i] \in Plan
  BY DEF PipelineTypeOK
<1>. QED
  BY <1>1, <1>2 DEF PipelineTypeOK, Plan, Job, Request

\* A pass that learns of sweeps only raises the latest epoch.
LEMMA SamplesOrdered ==
    ASSUME PipelineTypeOK, Ordered, apply_sample_updates
    PROVE  Ordered'
<1>1. sweeps # <<>> => sweeps[Len(sweeps)] \in Nat
  BY DEF PipelineTypeOK
<1>2. latest_sweep' \in Nat /\ latest_sweep <= latest_sweep'
  BY <1>1 DEF apply_sample_updates, PipelineTypeOK
<1>3. UNCHANGED <<active_plan, requests, job, results>>
  BY DEF apply_sample_updates
<1>4. \A e, b \in Nat : Ahead(e, b) => Ahead(e, b)'
  BY <1>2, <1>3, Reads DEF Ahead
<1>5. (job.phase # "idle" => Ahead(job.epoch, job.base))'
  BY <1>3, <1>4, Reads DEF Ordered
<1>6. (\A r \in 1..Len(requests) :
         /\ Ahead(requests[r].epoch, requests[r].base)
         /\ job.phase # "idle" =>
              job.epoch <= requests[r].epoch /\ job.base <= requests[r].base)'
  BY <1>3, <1>4, Reads DEF Ordered
<1>7. (\A i \in 1..Len(results) :
         /\ active_plan.epoch <= results[i].epoch /\ results[i].epoch <= latest_sweep
         /\ active_plan.rev <= results[i].rev /\ results[i].rev <= active_plan.rev + 1
         /\ 0 < results[i].epoch /\ 0 < results[i].rev)'
  BY <1>2, <1>3, Reads DEF Ordered
<1>8. (\A i, k \in 1..Len(results) : i <= k =>
         results[i].epoch <= results[k].epoch /\ results[i].rev <= results[k].rev)'
  BY <1>3 DEF Ordered
<1>9. (active_plan.epoch <= latest_sweep)'
  BY <1>2, <1>3, Reads DEF Ordered
<1>. QED
  BY <1>5, <1>6, <1>7, <1>8, <1>9 DEF Ordered

\* A request is built from the newest epoch and the active plan.
LEMMA SendOrdered ==
    ASSUME PipelineTypeOK, Ordered, SendRequest
    PROVE  Ordered'
<1>1. UNCHANGED <<latest_sweep, active_plan, job, results>>
  BY DEF SendRequest
<1>2. PICK triggers \in SUBSET Triggers :
        requests' = IF Channel THEN Append(requests, build_planner_input(triggers))
                    ELSE requests
  BY DEF SendRequest
<1>3. CASE ~Channel
  <2>1. requests' = requests
    BY <1>2, <1>3
  <2>. QED
    BY <1>1, <2>1 DEF Ordered, Ahead
<1>4. CASE Channel
  <2>. DEFINE req == build_planner_input(triggers)
  <2>1. req.epoch = latest_sweep /\ req.base = active_plan.rev
    BY DEF build_planner_input
  <2>. HIDE DEF req
  <2>2. requests' = <<req>>
    BY <1>2, <1>4 DEF Channel, req
  <2>3. 1..Len(requests') = {1} /\ requests'[1] = req
    BY <2>2
  <2>4. Ahead(req.epoch, req.base)
    BY <2>1, Reads DEF Ahead, Ordered, SendRequest
  <2>5. job.phase # "idle" => job.epoch <= req.epoch /\ job.base <= req.base
    BY <2>1 DEF Ordered, Ahead
  <2>6. ASSUME NEW r \in 1..Len(requests')
        PROVE  (/\ Ahead(requests[r].epoch, requests[r].base)
                /\ job.phase # "idle" =>
                     job.epoch <= requests[r].epoch /\ job.base <= requests[r].base)'
    <3>1. requests'[r] = req
      BY <2>3
    <3>. QED
      BY <3>1, <1>1, <2>4, <2>5 DEF Ahead
  <2>. QED
    BY <1>1, <2>6 DEF Ordered, Ahead
<1>. QED
  BY <1>3, <1>4

\* A job takes over the snapshot of the only request.
LEMMA TakeOrdered ==
    ASSUME PipelineTypeOK, Ordered, TakeRequest
    PROVE  Ordered'
<1>1. Head(requests) \in Request /\ 1 \in 1..Len(requests) /\ Head(requests) = requests[1]
  BY DEF TakeRequest, PipelineTypeOK
<1>2. job'.epoch = requests[1].epoch /\ job'.base = requests[1].base
  BY <1>1, MergeFacts DEF TakeRequest, PipelineTypeOK
<1>3. 1..Len(requests') = {}
  BY DEF TakeRequest, PipelineTypeOK
<1>4. UNCHANGED <<latest_sweep, active_plan, results>>
  BY DEF TakeRequest, loopVars
<1>5. Ahead(requests[1].epoch, requests[1].base)
  BY <1>1 DEF Ordered
<1>6. Ahead(job.epoch, job.base)'
  BY <1>2, <1>4, <1>5 DEF Ahead
<1>. QED
  BY <1>3, <1>4, <1>6 DEF Ordered

\* The end of the debounce window changes the phase only.
LEMMA DebounceOrdered ==
    ASSUME PipelineTypeOK, Ordered, DebounceEnds
    PROVE  Ordered'
<1>1. job'.epoch = job.epoch /\ job'.base = job.base /\ job.phase # "idle"
  BY DEF DebounceEnds, PipelineTypeOK, Job
<1>2. UNCHANGED <<latest_sweep, active_plan, results, requests>>
  BY DEF DebounceEnds, loopVars
<1>. QED
  BY <1>1, <1>2 DEF Ordered, Ahead

\* The new plan is the last one, and not behind any other.
LEMMA ComputeOrdered ==
    ASSUME PipelineTypeOK, Ordered, ComputePlan
    PROVE  Ordered'
<1>1. PICK g \in BOOLEAN : results' = Append(results, compute_plan(job, g))
  BY DEF ComputePlan
<1>. DEFINE p == compute_plan(job, g)
            n == Len(results)
<1>2. p \in Plan /\ p.epoch = job.epoch /\ p.rev = job.base + 1
  BY ComputeFacts DEF PipelineTypeOK
<1>. HIDE DEF p
<1>3. /\ n \in Nat /\ Len(results') = n + 1 /\ results'[n + 1] = p
      /\ \A i \in 1..n : results'[i] = results[i]
  BY <1>1, <1>2 DEF p, PipelineTypeOK
<1>. HIDE DEF n
<1>4. UNCHANGED <<latest_sweep, active_plan, requests>> /\ job'.phase = "idle" /\ job.phase # "idle"
  BY DEF ComputePlan, loopVars, NoJob
<1>5. Ahead(job.epoch, job.base)
  BY <1>4 DEF Ordered
<1>6. \A i \in 1..(n + 1) : i \in 1..n \/ i = n + 1
  BY <1>3
<1>7. /\ active_plan.epoch <= p.epoch /\ p.epoch <= latest_sweep
      /\ active_plan.rev <= p.rev /\ p.rev <= active_plan.rev + 1
      /\ 0 < p.epoch /\ 0 < p.rev
      /\ \A i \in 1..n : results[i].epoch <= p.epoch /\ results[i].rev <= p.rev
  BY <1>2, <1>5, Reads DEF Ahead, n
<1>8. (\A i \in 1..Len(results) :
         /\ active_plan.epoch <= results[i].epoch /\ results[i].epoch <= latest_sweep
         /\ active_plan.rev <= results[i].rev /\ results[i].rev <= active_plan.rev + 1
         /\ 0 < results[i].epoch /\ 0 < results[i].rev)'
  BY <1>3, <1>4, <1>6, <1>7 DEF Ordered, n
<1>9. (\A i, k \in 1..Len(results) : i <= k =>
         results[i].epoch <= results[k].epoch /\ results[i].rev <= results[k].rev)'
  <2>. SUFFICES ASSUME NEW i \in 1..(n + 1), NEW k \in 1..(n + 1), i <= k
                PROVE  /\ results'[i].epoch <= results'[k].epoch
                       /\ results'[i].rev <= results'[k].rev
    BY <1>3
  <2>1. CASE k \in 1..n
    <3>1. i \in 1..n
      BY <2>1, <1>3
    <3>. QED
      BY <3>1, <2>1, <1>3 DEF Ordered, n
  <2>2. CASE k = n + 1 /\ i \in 1..n
    BY <2>2, <1>3, <1>7
  <2>3. CASE k = n + 1 /\ i = n + 1
    BY <2>3, <1>2, <1>3 DEF Plan
  <2>. QED
    BY <1>6, <2>1, <2>2, <2>3
<1>10. (\A r \in 1..Len(requests) : Ahead(requests[r].epoch, requests[r].base))'
  <2>. SUFFICES ASSUME NEW r \in 1..Len(requests)
                PROVE  Ahead(requests[r].epoch, requests[r].base)'
    BY <1>4
  <2>1. /\ Ahead(requests[r].epoch, requests[r].base)
        /\ job.epoch <= requests[r].epoch /\ job.base <= requests[r].base
    BY <1>4 DEF Ordered
  <2>2. p.epoch <= requests[r].epoch /\ p.rev <= requests[r].base + 1
    BY <2>1, <1>2, Reads
  <2>3. \A i \in 1..(n + 1) : /\ results'[i].epoch <= requests[r].epoch
                              /\ results'[i].rev <= requests[r].base + 1
    BY <2>1, <2>2, <1>3, <1>6 DEF Ahead, n
  <2>. QED
    BY <2>1, <2>3, <1>3, <1>4 DEF Ahead
<1>. QED
  BY <1>4, <1>8, <1>9, <1>10 DEF Ordered

\* Every step keeps the order.
LEMMA OrderedStep == PipelineTypeOK /\ Ordered /\ [PipelineNext]_pipelineVars => Ordered'
<1>. SUFFICES ASSUME PipelineTypeOK, Ordered, [PipelineNext]_pipelineVars PROVE Ordered'
  OBVIOUS
<1>1. CASE SweepComplete
  BY <1>1 DEF SweepComplete, loopVars, Ordered, Ahead
<1>2. CASE InstallEarly \/ InstallLate
  BY <1>2, InstallOrdered DEF InstallEarly, InstallLate
<1>3. CASE NoRequest
  BY <1>3 DEF NoRequest, Ordered, Ahead
<1>4. CASE UNCHANGED pipelineVars
  BY <1>4 DEF pipelineVars, loopVars, Ordered, Ahead
<1>. QED
  BY <1>1, <1>2, <1>3, <1>4, SamplesOrdered, SendOrdered, TakeOrdered, DebounceOrdered,
     ComputeOrdered DEF PipelineNext, MainStep, WorkerStep

\* Every step leaves the active plan or moves it forward.
LEMMA PlanForwardStep == PipelineTypeOK /\ Ordered /\ [PipelineNext]_pipelineVars => Forward
<1>. SUFFICES ASSUME PipelineTypeOK, Ordered, [PipelineNext]_pipelineVars PROVE Forward
  OBVIOUS
<1>1. CASE InstallEarly \/ InstallLate
  BY <1>1, InstallOrdered DEF InstallEarly, InstallLate
<1>2. CASE active_plan' = active_plan
  BY <1>2 DEF Forward
<1>3. SweepComplete \/ apply_sample_updates \/ SendRequest \/ NoRequest \/ WorkerStep
        \/ UNCHANGED pipelineVars => active_plan' = active_plan
  BY DEF SweepComplete, apply_sample_updates, SendRequest, NoRequest, WorkerStep,
         TakeRequest, DebounceEnds, ComputePlan, pipelineVars, loopVars
<1>. QED
  BY <1>1, <1>2, <1>3 DEF PipelineNext, MainStep

\* Plans are adopted in order: the active plan never returns to an earlier sweep or
\* an earlier revision, and never skips a revision.
THEOREM PlanForwardCorrect == PipelineSpec => PlanForward
<1>1. PipelineInit => Ordered
  BY DEF PipelineInit, Ordered, NoActivePlan, NoJob
<1>. QED
  BY <1>1, PipelineTypeInit, PipelineTypeStep, OrderedStep, PlanForwardStep, PTL
     DEF PipelineSpec, PlanForward, Forward

-----------------------------------------------------------------------------
(* The backlog.  A request is made once in a pass, and the pass has emptied *)
(* the result channel before and empties it after: outside that stretch     *)
(* there is only what the request channel and the worker hold.              *)

\* How many plans the worker is at.
Working == IF job = NoJob THEN 0 ELSE 1

\* Before the second receiving of a pass there may be three on their way.
BacklogInv ==
    /\ job.phase = "idle" => job = NoJob
    /\ Backlog
    /\ passPc # "adopt" => Len(requests) + Len(results) + Working <= 2

\* Every step keeps the backlog bounded.
LEMMA BacklogStep == PipelineTypeOK /\ BacklogInv /\ [PipelineNext]_pipelineVars => BacklogInv'
<1>. SUFFICES ASSUME PipelineTypeOK, BacklogInv, [PipelineNext]_pipelineVars PROVE BacklogInv'
  OBVIOUS
<1>0. Working \in {0, 1} /\ Len(requests) \in Nat /\ Len(results) \in Nat
  BY DEF Working, PipelineTypeOK
<1>1. CASE SweepComplete \/ apply_sample_updates \/ UNCHANGED pipelineVars
  BY <1>1 DEF SweepComplete, apply_sample_updates, pipelineVars, loopVars, BacklogInv,
     Backlog, Working
<1>2. CASE InstallEarly \/ InstallLate
  <2>1. results' = <<>> /\ UNCHANGED <<requests, job>>
    BY <1>2, InstallFacts DEF InstallEarly, InstallLate
  <2>2. Len(requests') + Len(results') + Working' <= 2
    BY <2>1, <1>0 DEF PipelineTypeOK, Working
  <2>3. Backlog'
    BY <2>1, <2>2, <1>0 DEF Backlog, Working
  <2>. QED
    BY <2>1, <2>2, <2>3 DEF BacklogInv
<1>3. CASE NoRequest
  BY <1>3 DEF NoRequest, BacklogInv, Backlog, Working
<1>4. CASE SendRequest
  <2>1. passPc # "adopt" /\ passPc' = "adopt" /\ UNCHANGED <<job, results>>
    BY <1>4 DEF SendRequest
  <2>2. Len(requests') <= Len(requests) + 1 /\ Len(requests') \in Nat
    <3>1. PICK triggers \in SUBSET Triggers :
            requests' = IF Channel THEN Append(requests, build_planner_input(triggers))
                        ELSE requests
      BY <1>4 DEF SendRequest
    <3>2. build_planner_input(triggers) \in Request
      BY DEF build_planner_input, PipelineTypeOK, Request, Plan
    <3>. QED
      BY <3>1, <3>2 DEF PipelineTypeOK
  <2>3. Len(requests) + Len(results) + Working <= 2
    BY <2>1 DEF BacklogInv
  <2>4. Len(requests') + Len(results) + Working <= 3
    BY <2>2, <2>3, <1>0
  <2>. QED
    BY <2>1, <2>4 DEF BacklogInv, Backlog, Working
<1>5. CASE TakeRequest
  <2>1. Len(requests') = Len(requests) - 1 /\ UNCHANGED <<passPc, results>>
    BY <1>5 DEF TakeRequest, PipelineTypeOK, loopVars
  <2>2. job'.phase = "debounce"
    BY <1>5, MergeFacts DEF TakeRequest, PipelineTypeOK
  <2>3. Working' \in {0, 1}
    BY DEF Working
  <2>4. Len(requests') + Working' <= Len(requests) + Working
    BY <2>1, <2>3, <1>0
  <2>5. Len(requests') + Len(results') + Working' <= Len(requests) + Len(results) + Working
    BY <2>1, <2>3, <2>4, <1>0
  <2>. QED
    BY <2>1, <2>2, <2>3, <2>5, <1>0 DEF BacklogInv, Backlog, Working
<1>6. CASE DebounceEnds
  <2>1. job'.phase = "compute" /\ job # NoJob /\ UNCHANGED <<passPc, results, requests>>
    BY <1>6 DEF DebounceEnds, PipelineTypeOK, Job, NoJob, loopVars
  <2>2. Working' = 1 /\ Working = 1
    BY <2>1 DEF Working, NoJob
  <2>. QED
    BY <2>1, <2>2 DEF BacklogInv, Backlog, Working
<1>7. CASE ComputePlan
  <2>1. job' = NoJob /\ job # NoJob /\ UNCHANGED <<passPc, requests>>
    BY <1>7 DEF ComputePlan, NoJob, loopVars
  <2>2. Len(results') = Len(results) + 1
    <3>1. PICK g \in BOOLEAN : results' = Append(results, compute_plan(job, g))
      BY <1>7 DEF ComputePlan
    <3>. QED
      BY <3>1, ComputeFacts DEF PipelineTypeOK
  <2>3. Working' = 0 /\ Working = 1
    BY <2>1 DEF Working
  <2>4. Len(requests') + Len(results') + Working' = Len(requests) + Len(results) + Working
    BY <2>1, <2>2, <2>3, <1>0
  <2>. QED
    BY <2>1, <2>4 DEF BacklogInv, Backlog, Working
<1>. QED
  BY <1>1, <1>2, <1>3, <1>4, <1>5, <1>6, <1>7 DEF PipelineNext, MainStep, WorkerStep

\* At most three plans are on their way, as requests, in the worker or as results,
\* although the result channel is unbounded.
THEOREM BacklogCorrect == PipelineSpec => []Backlog
<1>1. PipelineInit => BacklogInv
  BY DEF PipelineInit, BacklogInv, Backlog, Working, NoJob
<1>2. BacklogInv => Backlog
  BY DEF BacklogInv
<1>. QED
  BY <1>1, <1>2, PipelineTypeInit, PipelineTypeStep, BacklogStep, PTL DEF PipelineSpec
-----------------------------------------------------------------------------
(* The plans Attribution is given.  Attribution assumes how the active plan *)
(* moves when results are received (Results), and how far the sweep epoch   *)
(* does (ReceiveSamples).  Both are what the pipeline does: watch a run of   *)
(* it with the eyes of Attribution, whose active plan is the one of the end *)
(* of the pass, and whose epoch is that of the main loop.                   *)

\* Attribution tells plans apart by epoch and revision.
Key(plan) == <<plan.epoch, plan.rev>>

\* What the watcher sees.
watched == <<pipelineVars, active, latest>>

\* Attribution has the plan of the end of the pass, and the epoch of the main loop.
Watch ==
    /\ latest' = latest_sweep'
    /\ active' = IF passPc = "adopt" /\ passPc' # "adopt" THEN Key(active_plan') ELSE active

\* A run of the pipeline that is watched so.
Watched == PipelineSpec /\ active = NoPlan /\ latest = 0 /\ [][Watch]_watched

\* One receiving of results moves the plan of key k to that of key m.
Received(k, m, n) ==
    m = k \/ (m[1] \in Larger(k[1], 1)..n /\ m[2] \in Larger(k[2], 1)..(k[2] + 1))

\* No sweep is announced before it is complete, and after the first half of a
\* pass the plan has moved at most once.
WatchInv ==
    /\ latest = latest_sweep /\ active \in Nat \X Nat
    /\ epoch <= MaxSweepEpoch /\ latest_sweep <= epoch
    /\ \A i \in 1..Len(sweeps) : sweeps[i] <= epoch
    /\ passPc \in {"samples", "install"} => active = Key(active_plan)
    /\ passPc \in {"request", "adopt"} => Received(active, Key(active_plan), latest)

\* Two receivings in a pass stay within Results.
LEMMA TwoReceived ==
    ASSUME NEW k \in Nat \X Nat, NEW m, active \in Nat \X Nat, latest \in Nat,
           m \in Nat \X Nat, Received(active, k, latest), Received(k, m, latest),
           m[2] <= MaxRev
    PROVE  m \in Results
<1>1. /\ active[1] \in Nat /\ active[2] \in Nat /\ k[1] \in Nat /\ k[2] \in Nat
      /\ m[1] \in Nat /\ m[2] \in Nat /\ m = <<m[1], m[2]>> /\ MaxRev \in Nat
  BY AttributionAssumption
<1>2. CASE m = active
  BY <1>2 DEF Results
<1>3. CASE m # active
  <2>1. /\ m[1] \in Larger(active[1], 1)..latest
        /\ m[2] \in active[2]..(active[2] + 2) /\ m[2] \in 1..MaxRev
    BY <1>1, <1>3 DEF Received, Larger
  <2>2. m \in (Larger(active[1], 1)..latest) \X (active[2]..(active[2] + 2))
    BY <1>1, <2>1
  <2>3. QED
    BY <2>1, <2>2 DEF Results
<1>4. QED
  BY <1>2, <1>3

\* A step of the pipeline receives results at most once.
LEMMA MoveReceived ==
    ASSUME PipelineTypeOK, PipelineTypeOK', Ordered, [PipelineNext]_pipelineVars
    PROVE  Received(Key(active_plan), Key(active_plan'), latest_sweep)
<1>1. Forward
  BY PlanForwardStep
<1>2. /\ active_plan.epoch \in Nat /\ active_plan.rev \in Nat /\ latest_sweep \in Nat
      /\ active_plan'.epoch \in Nat /\ active_plan'.rev \in Nat
  BY DEF PipelineTypeOK, Plan
<1>3. QED
  BY <1>1, <1>2 DEF Forward, Received, Key, Larger

\* What Attribution sees of a step: the active plan moves within Results, the
\* epoch up to MaxEpoch, and not both at once.
TakesPlans ==
    /\ active'[2] <= MaxRev => active' \in Results
    /\ latest' \in latest..MaxEpoch
    /\ latest' # latest => active' = active

\* The sampler and the receiving of its events keep the epochs in their bounds.
LEMMA EpochStep ==
    ASSUME PipelineTypeOK, WatchInv, [PipelineNext]_pipelineVars
    PROVE  /\ epoch' <= MaxSweepEpoch /\ latest_sweep' <= epoch'
           /\ latest_sweep' \in latest_sweep..MaxSweepEpoch
           /\ \A i \in 1..Len(sweeps') : sweeps'[i] <= epoch'
           /\ latest_sweep' # latest_sweep => passPc = "samples" /\ passPc' = "install"
<1>1. /\ epoch \in Nat /\ latest_sweep \in Nat /\ MaxSweepEpoch \in Nat /\ sweeps \in Seq(Nat)
      /\ epoch <= MaxSweepEpoch /\ latest_sweep <= epoch
      /\ \A i \in 1..Len(sweeps) : sweeps[i] <= epoch
  BY BoundAssumption DEF PipelineTypeOK, WatchInv
<1>2. CASE SweepComplete
  <2>1. /\ epoch' = epoch + 1 /\ epoch < MaxSweepEpoch /\ UNCHANGED <<passPc, latest_sweep>>
        /\ sweeps' = Append(sweeps, epoch + 1)
    BY <1>2 DEF SweepComplete, loopVars
  <2>2. ASSUME NEW i \in 1..Len(sweeps') PROVE sweeps'[i] <= epoch'
    <3>1. /\ Len(sweeps') = Len(sweeps) + 1
          /\ sweeps'[i] = IF i = Len(sweeps) + 1 THEN epoch + 1 ELSE sweeps[i]
      BY <1>1, <2>1, <2>2
    <3>2. i \in 1..Len(sweeps) => sweeps[i] \in Nat /\ sweeps[i] <= epoch
      BY <1>1
    <3>3. i = Len(sweeps) + 1 \/ i \in 1..Len(sweeps)
      BY <1>1, <2>2, <3>1
    <3>4. QED
      BY <1>1, <2>1, <3>1, <3>2, <3>3
  <2>3. QED
    BY <1>1, <2>1, <2>2
<1>3. CASE apply_sample_updates
  <2>1. /\ passPc = "samples" /\ passPc' = "install" /\ epoch' = epoch /\ sweeps' = <<>>
        /\ latest_sweep' = IF sweeps # <<>> /\ sweeps[Len(sweeps)] > latest_sweep
                         THEN sweeps[Len(sweeps)] ELSE latest_sweep
    BY <1>3 DEF apply_sample_updates
  <2>2. sweeps # <<>> => sweeps[Len(sweeps)] \in Nat /\ sweeps[Len(sweeps)] <= epoch
    BY <1>1
  <2>3. QED
    BY <1>1, <2>1, <2>2
<1>4. CASE UNCHANGED <<epoch, sweeps, latest_sweep>>
  BY <1>1, <1>4
<1>5. QED
  BY <1>2, <1>3, <1>4 DEF PipelineNext, MainStep, WorkerStep, InstallEarly, InstallLate,
     Install, SendRequest, NoRequest, TakeRequest, DebounceEnds, ComputePlan,
     pipelineVars, loopVars

\* How the step of the pass goes on, and where the plan may move.
LEMMA PcStep ==
    ASSUME PipelineTypeOK, [PipelineNext]_pipelineVars
    PROVE  \/ passPc' = passPc /\ active_plan' = active_plan
           \/ passPc = "samples" /\ passPc' = "install" /\ active_plan' = active_plan
           \/ passPc = "install" /\ passPc' = "request"
           \/ passPc = "request" /\ passPc' = "adopt" /\ active_plan' = active_plan
           \/ passPc = "adopt" /\ passPc' = "samples"
  BY DEF PipelineNext, MainStep, WorkerStep, InstallEarly, InstallLate, Install,
     SendRequest, NoRequest, TakeRequest, DebounceEnds, ComputePlan,
     SweepComplete, apply_sample_updates, pipelineVars, loopVars

\* Every step keeps the invariant and is one that Attribution allows for.
LEMMA WatchStep ==
    ASSUME PipelineTypeOK, PipelineTypeOK', Ordered, WatchInv, MaxSweepEpoch <= MaxEpoch,
           [PipelineNext]_pipelineVars, [Watch]_watched
    PROVE  WatchInv' /\ TakesPlans
<1>1. /\ latest = latest_sweep /\ latest \in Nat /\ active \in Nat \X Nat
      /\ Key(active_plan) \in Nat \X Nat /\ Key(active_plan') \in Nat \X Nat
  BY DEF WatchInv, PipelineTypeOK, Plan, Key
<1>2. /\ latest' = latest_sweep'
      /\ active' = IF passPc = "adopt" /\ passPc' # "adopt" THEN Key(active_plan') ELSE active
  BY <1>1 DEF Watch, watched, pipelineVars, loopVars
<1>3. /\ epoch' <= MaxSweepEpoch /\ latest_sweep' <= epoch'
      /\ latest_sweep' \in latest_sweep..MaxEpoch
      /\ \A i \in 1..Len(sweeps') : sweeps'[i] <= epoch'
  BY <1>1, EpochStep, BoundAssumption, AttributionAssumption
<1>4. Received(Key(active_plan), Key(active_plan'), latest)
  BY <1>1, MoveReceived
<1>5. latest_sweep' # latest_sweep => passPc = "samples" /\ passPc' = "install"
  BY EpochStep
<1>6. \A k : Received(k, k, latest) /\ active \in Results
  BY DEF Received, Results
<1>7. CASE passPc' = passPc /\ active_plan' = active_plan
  <2>1. active' = active /\ latest' = latest
    BY <1>1, <1>2, <1>5, <1>7
  <2>2. /\ passPc' \in {"samples", "install"} => active' = Key(active_plan')
        /\ passPc' \in {"request", "adopt"} => Received(active', Key(active_plan'), latest')
    BY <1>7, <2>1 DEF WatchInv
  <2>3. QED
    BY <1>1, <1>2, <1>6, <2>1, <2>2, <1>3 DEF WatchInv, TakesPlans
<1>8. CASE passPc = "samples" /\ passPc' = "install" /\ active_plan' = active_plan
  <2>1. active' = active /\ active = Key(active_plan')
    BY <1>2, <1>8 DEF WatchInv
  <2>2. QED
    BY <1>1, <1>2, <1>6, <1>8, <2>1, <1>3 DEF WatchInv, TakesPlans
<1>9. CASE passPc = "install" /\ passPc' = "request"
  <2>1. active' = active /\ active = Key(active_plan) /\ latest' = latest
    BY <1>1, <1>2, <1>5, <1>9 DEF WatchInv
  <2>2. Received(active', Key(active_plan'), latest')
    BY <1>4, <2>1
  <2>3. QED
    BY <1>1, <1>2, <1>6, <1>9, <2>1, <2>2, <1>3 DEF WatchInv, TakesPlans
<1>10. CASE passPc = "request" /\ passPc' = "adopt" /\ active_plan' = active_plan
  <2>1. active' = active /\ latest' = latest /\ Received(active, Key(active_plan), latest)
    BY <1>1, <1>2, <1>5, <1>10 DEF WatchInv
  <2>2. Received(active', Key(active_plan'), latest')
    BY <1>10, <2>1
  <2>3. QED
    BY <1>1, <1>2, <1>6, <1>10, <2>1, <2>2, <1>3 DEF WatchInv, TakesPlans
<1>11. CASE passPc = "adopt" /\ passPc' = "samples"
  <2>1. /\ active' = Key(active_plan') /\ latest' = latest
        /\ Received(active, Key(active_plan), latest)
    BY <1>1, <1>2, <1>5, <1>11 DEF WatchInv
  <2>2. active'[2] <= MaxRev => active' \in Results
    BY <1>1, <1>4, <2>1, TwoReceived
  <2>3. QED
    BY <1>1, <1>2, <1>11, <2>1, <2>2, <1>3 DEF WatchInv, TakesPlans
<1>12. QED
  BY <1>7, <1>8, <1>9, <1>10, <1>11, PcStep

\* What Attribution assumes of the planner the pipeline keeps, up to the bounds on
\* revisions and sweeps: in whatever order the sampler, the main loop and the worker step,
\* the plan that is active at the end of a pass (app.rs receives results before
\* and after the planner request) is within Results of the one before it.
THEOREM ResultsCorrect ==
    ASSUME MaxSweepEpoch <= MaxEpoch
    PROVE  Watched => [][TakesPlans]_watched
<1>1. PipelineInit /\ active = NoPlan /\ latest = 0 => PipelineTypeOK /\ Ordered /\ WatchInv
  <2>1. PipelineInit => PipelineTypeOK
    BY PipelineTypeInit
  <2>2. PipelineInit /\ active = NoPlan /\ latest = 0 => Ordered /\ WatchInv
    BY BoundAssumption
       DEF PipelineInit, Ordered, WatchInv, Received, Key, NoPlan, NoActivePlan, NoJob
  <2>3. QED
    BY <2>1, <2>2
<1>2. /\ PipelineTypeOK /\ Ordered /\ WatchInv /\ [PipelineNext]_pipelineVars /\ [Watch]_watched
      => PipelineTypeOK' /\ Ordered' /\ WatchInv' /\ TakesPlans
  BY PipelineTypeStep, OrderedStep, WatchStep
<1>3. QED
  BY <1>1, <1>2, PTL DEF Watched, PipelineSpec

-----------------------------------------------------------------------------
(* The villain controller.                                                 *)

\* Multiplication by a natural keeps an order.
LEMMA MulMonotone ==
    ASSUME NEW d \in Nat, NEW a \in Nat, NEW b \in Nat, a <= b
    PROVE  d * a <= d * b
<1>1. b - a \in Nat
  OBVIOUS
<1>2. d * (b - a) \in Nat /\ d * a \in Nat
  BY <1>1
<1>3. d * b = d * a + d * (b - a)
  OBVIOUS
<1>. QED
  BY <1>2, <1>3

\* What elapsed / divisor adds to a bucket never outweighs the time elapsed.
LEMMA RefillBound ==
    ASSUME NEW d \in Nat \ {0}, NEW e \in Nat
    PROVE  e \div d \in Nat /\ d * (e \div d) <= e
  OBVIOUS

\* One refill keeps a budget: w is what was spent and is left, k the refill.
LEMMA BudgetStep ==
    ASSUME NEW d \in Nat, NEW w \in Nat, NEW v \in Nat, NEW k \in Nat,
           NEW b \in Nat, NEW x \in Nat, NEW e \in Nat,
           v <= w + k, d * w <= b + x, d * k <= e
    PROVE  d * v <= b + x + e
<1>1. d * v <= d * (w + k)
  BY MulMonotone
<1>2. d * (w + k) = d * w + d * k
  OBVIOUS
<1>3. d * w \in Nat /\ d * k \in Nat /\ d * v \in Nat
  OBVIOUS
<1>. QED
  BY <1>1, <1>2, <1>3

\* The capacity holds at least one slice and the divisor is positive.
LEMMA PolicyFacts ==
    /\ villain_token_capacity_ns \in Nat /\ Slice <= villain_token_capacity_ns
    /\ villain_token_refill_divisor \in Nat \ {0}
    /\ Slice \in Nat \ {0} /\ DeferBound \in Nat \ {0}
<1>1. \A n \in Nat : AtLeastOne(n) \in Nat /\ AtLeastOne(n) >= 1
  BY DEF AtLeastOne
<1>2. /\ AtLeastOne(TickDeferMax) \in Nat /\ AtLeastOne(TickDeferMax) >= 1
      /\ AtLeastOne(RefillDivisor) \in Nat /\ AtLeastOne(RefillDivisor) >= 1
      /\ AtLeastOne(TickReevalEvery) \in Nat /\ AtLeastOne(TickReevalEvery) >= 1
  BY <1>1, PolicyAssumption
<1>3. Slice * 1 <= Slice * AtLeastOne(TickDeferMax)
  BY <1>2, PolicyAssumption, MulMonotone
<1>4. Slice * AtLeastOne(TickDeferMax) \in Nat
  BY <1>2, PolicyAssumption
<1>5. AtLeastOne(RefillDivisor) * 1 <= AtLeastOne(RefillDivisor) * AtLeastOne(TickReevalEvery)
  BY <1>2, MulMonotone
<1>6. AtLeastOne(RefillDivisor) * AtLeastOne(TickReevalEvery) \in Nat
  BY <1>2
<1>. QED
  BY <1>2, <1>3, <1>4, <1>5, <1>6, PolicyAssumption
     DEF villain_token_capacity_ns, villain_token_refill_divisor

-----------------------------------------------------------------------------
(* What one decision does to a thread's throttle entry.                    *)

\* Throttle entries.
EntrySet == [link : CsLinks \cup {0}, tokens : 0..villain_token_capacity_ns,
             refill : Nat, since : Nat]

\* A refill: the bucket is opened full, or gains what the time elapsed is worth.
LEMMA RefillFacts ==
    ASSUME NEW e \in EntrySet, NEW l \in CsLinks, now \in Nat, e.refill <= now
    PROVE  LET f == refill_villain_tokens(e, l) IN
           /\ f \in EntrySet /\ f.refill = now
           /\ Opens(e, l) => f.tokens = villain_token_capacity_ns /\ f.since = 0
           /\ ~Opens(e, l) =>
                /\ f.since = e.since
                /\ f.tokens <= e.tokens + (now - e.refill) \div villain_token_refill_divisor
<1>1. /\ (now - e.refill) \div villain_token_refill_divisor \in Nat
  <2>1. now - e.refill \in Nat
    BY DEF EntrySet
  <2>. QED
    BY <2>1, PolicyFacts, RefillBound
<1>. DEFINE k == (now - e.refill) \div villain_token_refill_divisor
<1>2. k \in Nat
  BY <1>1
<1>. HIDE DEF k
<1>3. refill_villain_tokens(e, l) =
        IF Opens(e, l)
        THEN [link |-> l, tokens |-> villain_token_capacity_ns, refill |-> now, since |-> 0]
        ELSE [e EXCEPT !.tokens = IF e.tokens + k <= villain_token_capacity_ns
                                  THEN e.tokens + k ELSE villain_token_capacity_ns,
                       !.refill = now]
  BY DEF refill_villain_tokens, k
<1>4. CASE Opens(e, l)
  BY <1>3, <1>4, PolicyFacts DEF EntrySet
<1>5. CASE ~Opens(e, l)
  <2>1. e.tokens \in 0..villain_token_capacity_ns /\ e.since \in Nat /\ e.link \in CsLinks \cup {0}
    BY DEF EntrySet
  <2>. DEFINE n == IF e.tokens + k <= villain_token_capacity_ns
                   THEN e.tokens + k ELSE villain_token_capacity_ns
  <2>2. n \in 0..villain_token_capacity_ns /\ n <= e.tokens + k
    BY <2>1, <1>2, PolicyFacts
  <2>. HIDE DEF n
  <2>3. refill_villain_tokens(e, l) = [e EXCEPT !.tokens = n, !.refill = now]
    BY <1>3, <1>5 DEF n
  <2>. QED
    BY <2>1, <2>2, <2>3, <1>5 DEF EntrySet, k
<1>. QED
  BY <1>4, <1>5

\* The three outcomes of the bucket.
LEMMA ThrottleFacts ==
    ASSUME NEW e \in EntrySet, now \in Nat \ {0}, e.since <= now
    PROVE  LET d == apply_villain_token_throttle(e) IN
           /\ d.action \in {"paid", "forced", "defer"}
           /\ d.entry \in EntrySet /\ d.entry.refill = e.refill
           /\ d.action = "paid" => d.entry.since = 0 /\ d.entry.tokens + Slice = e.tokens
           /\ d.action = "forced" => /\ d.entry.since = 0 /\ d.entry.tokens = 0
                                     /\ e.since # 0 /\ e.since + DeferBound <= now
           /\ d.action = "defer" =>
                /\ e.tokens < Slice /\ d.entry.tokens = e.tokens
                /\ d.entry.since = IF e.since = 0 THEN now ELSE e.since
                /\ now < d.entry.since + DeferBound
<1>. DEFINE since == IF e.since = 0 THEN now ELSE e.since
            d == apply_villain_token_throttle(e)
<1>1. /\ since \in Nat /\ since <= now /\ e.tokens \in 0..villain_token_capacity_ns
      /\ e.since \in Nat /\ e.refill \in Nat /\ e.link \in CsLinks \cup {0}
  BY DEF EntrySet
<1>2. CASE e.tokens >= Slice
  <2>. DEFINE n == e.tokens - Slice
              f == [e EXCEPT !.tokens = n, !.since = 0]
  <2>1. d = [entry |-> f, action |-> "paid"]
    BY <1>2 DEF apply_villain_token_throttle, EntrySet
  <2>2. n \in 0..villain_token_capacity_ns /\ n + Slice = e.tokens
    BY <1>1, <1>2, PolicyFacts
  <2>. HIDE DEF n
  <2>3. f \in EntrySet /\ f.refill = e.refill /\ f.since = 0 /\ f.tokens = n
    BY <2>2 DEF EntrySet
  <2>4. d.entry = f /\ d.action = "paid"
    BY <2>1
  <2>. HIDE DEF f, d
  <2>5. /\ d.action \in {"paid", "forced", "defer"} /\ d.action # "forced" /\ d.action # "defer"
        /\ d.entry \in EntrySet /\ d.entry.refill = e.refill
        /\ d.entry.since = 0 /\ d.entry.tokens + Slice = e.tokens
    BY <2>2, <2>3, <2>4
  <2>. QED
    BY <2>5 DEF d
<1>3. CASE ~(e.tokens >= Slice) /\ now - since >= DeferBound
  <2>. DEFINE f == [e EXCEPT !.tokens = 0, !.since = 0]
  <2>1. d = [entry |-> f, action |-> "forced"]
    BY <1>3 DEF apply_villain_token_throttle
  <2>2. e.since # 0 /\ e.since + DeferBound <= now
    BY <1>1, <1>3, PolicyFacts
  <2>3. f \in EntrySet /\ f.refill = e.refill /\ f.since = 0 /\ f.tokens = 0
    <3>1. 0 \in 0..villain_token_capacity_ns /\ 0 \in Nat
      BY PolicyFacts
    <3>. QED
      BY <3>1, <1>1 DEF EntrySet
  <2>. HIDE DEF f
  <2>. QED
    BY <2>1, <2>2, <2>3
<1>4. CASE ~(e.tokens >= Slice) /\ ~(now - since >= DeferBound)
  <2>1. d = [entry |-> [e EXCEPT !.since = since], action |-> "defer"]
    BY <1>4 DEF apply_villain_token_throttle
  <2>2. now < since + DeferBound /\ e.tokens < Slice
    BY <1>1, <1>4, PolicyFacts
  <2>. QED
    BY <1>1, <2>1, <2>2, PolicyFacts DEF EntrySet
<1>. QED
  BY <1>2, <1>3, <1>4

-----------------------------------------------------------------------------
(* The inductive invariant, one predicate on the values of a thread each   *)
(* for its account and for its waiting message.                            *)

\* Bills and waiting times.
BillSet == [opened : Nat, spent : Nat, forced : Nat]
WaitSet == [start : Nat, last : Nat, refused : Nat]

\* What was spent and is left is covered by the burst and the time up to the last
\* refill, and the next forced slice is a deferral bound away.
Account(e, b, n) ==
    /\ e.refill <= n /\ b.opened <= e.refill
    /\ villain_token_refill_divisor * (b.spent + e.tokens)
         <= villain_token_refill_divisor * villain_token_capacity_ns + (e.refill - b.opened)
    /\ DeferBound * b.forced + b.opened <= n
    /\ e.since # 0 => DeferBound * b.forced + b.opened <= e.since

\* The deferral clock belongs to the waiting message, and is the time of its first
\* deferral unless the message was refused.
Waiting(e, w, m, n) ==
    /\ e.since <= n /\ w.start <= n
    /\ w.start # 0 => m = "tick"
    /\ e.since # 0 => m = "tick" /\ w.start # 0 /\ w.start <= e.since
    /\ w.start # 0 /\ w.refused = 0 => e.since = w.start /\ w.last < w.start + DeferBound

\* Both, of every thread.
ThrottleInv ==
    \A t \in Managed : /\ Account(entry[t], bill[t], now)
                       /\ Waiting(entry[t], wait[t], msg[t], now)

\* What deciding a message does to the throttle entry: every dispatch stops the
\* deferral clock, a deferral starts it or leaves it running.
LEMMA DecisionFacts ==
    ASSUME VillainTypeOK, NEW t \in Managed, NEW l \in CsLinks \cup {0},
           entry[t].refill <= now, entry[t].since <= now,
           entry[t].since # 0 => msg[t] = "tick"
    PROVE  LET d == maybe_apply_villain_token_throttle(t, l) IN
           /\ d.entry \in EntrySet
           /\ d.action \in {"free", "paid", "forced", "defer"}
           /\ d.action # "defer" => d.entry.since = 0
           /\ d.action = "defer" =>
                /\ msg[t] = "tick"
                /\ d.entry.since = IF entry[t].since = 0 THEN now ELSE entry[t].since
                /\ now < d.entry.since + DeferBound
<1>. DEFINE e == entry[t]
            d == maybe_apply_villain_token_throttle(t, l)
<1>1. e \in EntrySet /\ now \in Nat \ {0}
  BY DEF VillainTypeOK, EntrySet
<1>2. CASE l = 0
  <2>1. d.entry = NoThrottle /\ d.action = "free"
    BY <1>2 DEF maybe_apply_villain_token_throttle
  <2>2. NoThrottle \in EntrySet /\ NoThrottle.since = 0
    BY PolicyFacts DEF NoThrottle, EntrySet
  <2>. QED
    BY <2>1, <2>2
<1>3. CASE l # 0 /\ msg[t] # "tick"
  <2>1. d.entry = e /\ d.action = "free"
    BY <1>3 DEF maybe_apply_villain_token_throttle
  <2>. QED
    BY <2>1, <1>1, <1>3
<1>4. CASE l # 0 /\ msg[t] = "tick"
  <2>. DEFINE f == refill_villain_tokens(e, l)
  <2>1. d = apply_villain_token_throttle(f)
    BY <1>4 DEF maybe_apply_villain_token_throttle
  <2>2. /\ f \in EntrySet
        /\ Opens(e, l) => f.tokens = villain_token_capacity_ns /\ f.since = 0
        /\ ~Opens(e, l) => f.since = e.since
    BY <1>1, <1>4, RefillFacts
  <2>. HIDE DEF f
  <2>3. f.since <= now /\ f.since \in Nat /\ f.tokens \in Nat
    <3>1. e.since \in Nat /\ f.since \in Nat /\ f.tokens \in Nat
      BY <1>1, <2>2 DEF EntrySet
    <3>. QED
      BY <3>1, <2>2, <1>1
  <2>4. /\ d.action \in {"paid", "forced", "defer"}
        /\ d.entry \in EntrySet
        /\ d.action # "defer" => d.entry.since = 0
        /\ d.action = "defer" =>
             /\ f.tokens < Slice
             /\ d.entry.since = IF f.since = 0 THEN now ELSE f.since
             /\ now < d.entry.since + DeferBound
    BY <2>1, <2>2, <2>3, <1>1, ThrottleFacts
  <2>. HIDE DEF d
  <2>5. d.action = "defer" => ~Opens(e, l)
    BY <2>2, <2>3, <2>4, PolicyFacts
  <2>6. d.action = "defer" => f.since = e.since
    BY <2>2, <2>5
  <2>7. /\ d.entry \in EntrySet
        /\ d.action \in {"free", "paid", "forced", "defer"}
        /\ d.action # "defer" => d.entry.since = 0
        /\ d.action = "defer" =>
             /\ msg[t] = "tick"
             /\ d.entry.since = IF entry[t].since = 0 THEN now ELSE entry[t].since
             /\ now < d.entry.since + DeferBound
    BY <2>4, <2>6, <1>4
  <2>. QED
    BY <2>7 DEF d
<1>. QED
  BY <1>2, <1>3, <1>4

\* What deciding a message does to the account of its thread.
LEMMA AccountStep ==
    ASSUME VillainTypeOK, NEW t \in Managed, NEW l \in CsLinks \cup {0},
           Account(entry[t], bill[t], now), entry[t].since <= now
    PROVE  LET d == maybe_apply_villain_token_throttle(t, l)
               b == Billed(t, l, d.action)
           IN  b \in BillSet /\ Account(d.entry, b, now)
<1>. DEFINE e == entry[t]
            a == bill[t]
            d == maybe_apply_villain_token_throttle(t, l)
            b == Billed(t, l, d.action)
            D == villain_token_refill_divisor
            C == villain_token_capacity_ns
<1>. SUFFICES b \in BillSet /\ Account(d.entry, b, now)
  OBVIOUS
<1>1. e \in EntrySet /\ a \in BillSet /\ now \in Nat \ {0}
  BY DEF VillainTypeOK, EntrySet, BillSet
<1>2. /\ e.refill \in Nat /\ e.since \in Nat /\ e.tokens \in 0..C
      /\ a.opened \in Nat /\ a.spent \in Nat /\ a.forced \in Nat
      /\ C \in Nat /\ D \in Nat \ {0} /\ DeferBound \in Nat
      /\ D * C \in Nat
  BY <1>1, PolicyFacts DEF EntrySet, BillSet
<1>3. CASE l = 0
  <2>1. d.entry = NoThrottle /\ b = NoBill
    BY <1>3 DEF maybe_apply_villain_token_throttle, Billed
  <2>2. Account(NoThrottle, NoBill, now) /\ NoBill \in BillSet
    <3>1. D * (0 + 0) = 0 /\ DeferBound * 0 = 0
      BY <1>2
    <3>. QED
      BY <3>1, <1>1, <1>2 DEF Account, NoThrottle, NoBill, BillSet
  <2>. QED
    BY <2>1, <2>2
<1>4. CASE l # 0 /\ msg[t] # "tick"
  <2>1. d.entry = e /\ d.action = "free"
    BY <1>4 DEF maybe_apply_villain_token_throttle
  <2>2. b = a
    BY <1>4, <2>1 DEF Billed
  <2>. QED
    BY <2>1, <2>2, <1>1
<1>5. CASE l # 0 /\ msg[t] = "tick"
  <2>. DEFINE f == refill_villain_tokens(e, l)
              k == (now - e.refill) \div D
  <2>1. d = apply_villain_token_throttle(f)
    BY <1>5 DEF maybe_apply_villain_token_throttle
  <2>2. /\ f \in EntrySet /\ f.refill = now
        /\ Opens(e, l) => f.tokens = C /\ f.since = 0
        /\ ~Opens(e, l) => f.since = e.since /\ f.tokens <= e.tokens + k
    BY <1>1, <1>5, RefillFacts DEF Account
  <2>3. now - e.refill \in Nat /\ k \in Nat /\ D * k <= now - e.refill
    <3>1. now - e.refill \in Nat
      BY <1>1, <1>2 DEF Account
    <3>. QED
      BY <3>1, <1>2, RefillBound
  <2>. HIDE DEF f, k
  <2>4. f.tokens \in 0..C /\ f.since \in Nat /\ f.since <= now
    BY <1>1, <1>2, <2>2 DEF EntrySet
  <2>5. /\ d.action \in {"paid", "forced", "defer"}
        /\ d.entry \in EntrySet /\ d.entry.refill = now
        /\ d.action = "paid" => d.entry.since = 0 /\ d.entry.tokens + Slice = f.tokens
        /\ d.action = "forced" => /\ d.entry.since = 0 /\ d.entry.tokens = 0
                                  /\ f.since # 0 /\ f.since + DeferBound <= now
        /\ d.action = "defer" =>
             /\ f.tokens < Slice /\ d.entry.tokens = f.tokens
             /\ d.entry.since = IF f.since = 0 THEN now ELSE f.since
    BY <2>1, <2>2, <2>4, <1>1, ThrottleFacts
  <2>. HIDE DEF d
  <2>6. d.entry.tokens \in Nat /\ d.entry.since \in Nat /\ Slice \in Nat
    BY <2>5, PolicyFacts DEF EntrySet
  <2>7. CASE Opens(e, l)
    <3>1. d.action = "paid"
      BY <2>2, <2>5, <2>7, PolicyFacts
    <3>2. b = [opened |-> now, spent |-> Slice, forced |-> 0]
      <4>. DEFINE c == [NoBill EXCEPT !.opened = now]
      <4>1. c = [opened |-> now, spent |-> 0, forced |-> 0]
        BY DEF NoBill
      <4>. HIDE DEF c
      <4>2. b = [c EXCEPT !.spent = @ + Slice]
        BY <1>5, <2>7, <3>1 DEF Billed, c
      <4>. QED
        BY <4>1, <4>2, <2>6
    <3>3. Slice + d.entry.tokens = C /\ DeferBound * 0 = 0
      BY <1>2, <2>2, <2>5, <2>6, <2>7, <3>1
    <3>4. /\ b \in BillSet /\ b.opened = now /\ b.forced = 0
          /\ b.spent + d.entry.tokens = C
      BY <3>2, <3>3, <2>6, <1>1 DEF BillSet
    <3>. HIDE DEF b, D, C
    <3>5. D * (b.spent + d.entry.tokens) <= D * C + (d.entry.refill - b.opened)
      BY <3>4, <2>5, <1>1, <1>2
    <3>. QED
      BY <3>1, <3>3, <3>4, <3>5, <2>5, <1>1 DEF Account, D, C
  <2>8. CASE ~Opens(e, l)
    <3>1. /\ a.opened <= e.refill /\ e.refill <= now
          /\ D * (a.spent + e.tokens) <= D * C + (e.refill - a.opened)
          /\ DeferBound * a.forced + a.opened <= now
          /\ e.since # 0 => DeferBound * a.forced + a.opened <= e.since
      BY DEF Account
    <3>2. /\ DeferBound * a.forced \in Nat
          /\ DeferBound * (a.forced + 1) = DeferBound * a.forced + DeferBound
      BY <1>2
    <3>. DEFINE v == b.spent + d.entry.tokens
    <3>3. ASSUME b \in BillSet, b.opened = a.opened, v <= a.spent + e.tokens + k
          PROVE  /\ b.opened <= d.entry.refill
                 /\ D * v <= D * C + (d.entry.refill - b.opened)
      <4>1. v \in Nat /\ a.spent + e.tokens \in Nat /\ e.refill - a.opened \in Nat
        BY <3>1, <3>3, <1>2, <2>6 DEF BillSet
      <4>. DEFINE x == e.refill - a.opened
                  y == now - e.refill
                  w == a.spent + e.tokens
      <4>2. D * w <= D * C + x /\ D * k <= y /\ v <= w + k
        BY <3>1, <3>3, <2>3
      <4>3. w \in Nat /\ x \in Nat /\ y \in Nat
        BY <4>1, <2>3
      <4>. HIDE DEF v, w, x, y
      <4>4. D * v <= D * C + x + y
        BY <4>1, <4>2, <4>3, <1>2, <2>3, BudgetStep
      <4>5. x + y = d.entry.refill - b.opened /\ b.opened <= d.entry.refill
        BY <3>1, <3>3, <1>1, <1>2, <2>5 DEF x, y
      <4>6. D * v \in Nat
        BY <4>1, <1>2
      <4>. QED
        BY <4>3, <4>4, <4>5, <4>6, <1>2
    <3>4. CASE d.action = "paid"
      <4>1. b = [a EXCEPT !.spent = @ + Slice]
        BY <1>5, <2>8, <3>4 DEF Billed
      <4>2. /\ b \in BillSet /\ b.opened = a.opened /\ b.forced = a.forced
            /\ b.spent = a.spent + Slice
        BY <4>1, <1>1, <1>2, <2>6 DEF BillSet
      <4>. HIDE DEF b
      <4>3. v <= a.spent + e.tokens + k
        BY <4>2, <3>4, <1>2, <2>2, <2>3, <2>4, <2>5, <2>6, <2>8
      <4>. QED
        BY <4>2, <4>3, <3>1, <3>3, <3>4, <1>1, <2>5 DEF Account
    <3>5. CASE d.action = "forced"
      <4>1. b = [a EXCEPT !.forced = @ + 1]
        BY <1>5, <2>8, <3>5 DEF Billed
      <4>2. /\ b \in BillSet /\ b.opened = a.opened /\ b.forced = a.forced + 1
            /\ b.spent = a.spent
        BY <4>1, <1>1, <1>2 DEF BillSet
      <4>. HIDE DEF b
      <4>3. v <= a.spent + e.tokens + k
        BY <4>2, <3>5, <1>2, <2>3, <2>5, <2>6
      <4>4. DeferBound * b.forced + b.opened <= now
        BY <4>2, <3>1, <3>2, <3>5, <1>1, <1>2, <2>2, <2>5, <2>8
      <4>. QED
        BY <4>2, <4>3, <4>4, <3>3, <3>5, <1>1, <2>5 DEF Account
    <3>6. CASE d.action = "defer"
      <4>1. b = a
        BY <1>5, <2>8, <3>6 DEF Billed
      <4>. HIDE DEF b
      <4>2. v <= a.spent + e.tokens + k
        BY <4>1, <3>6, <1>2, <2>2, <2>3, <2>4, <2>5, <2>6, <2>8
      <4>3. d.entry.since # 0 => DeferBound * b.forced + b.opened <= d.entry.since
        BY <4>1, <3>1, <3>6, <2>2, <2>5, <2>8
      <4>. QED
        BY <4>1, <4>2, <4>3, <3>1, <3>3, <1>1, <2>5 DEF Account
    <3>. QED
      BY <3>4, <3>5, <3>6, <2>5
  <2>. QED
    BY <2>7, <2>8
<1>. QED
  BY <1>3, <1>4, <1>5

-----------------------------------------------------------------------------
(* Type correctness.                                                       *)

\* Latches.
LatchSet == [tid : Managed \cup {NoTid}, hold : Nat, clears : Nat, clearTs : Nat]

\* Whatever villain is chosen afresh, the latch of a link remains a latch.
LEMMA LatchType ==
    ASSUME VillainTypeOK, NEW l \in CsLinks, NEW fresh \in Managed \cup {NoTid}, NEW s
    PROVE  effective_villain(l, fresh, s) \in LatchSet
<1>1. latch[l] \in LatchSet /\ sample[l].ts \in Nat /\ now \in Nat
  BY DEF VillainTypeOK, LatchSet
<1>2. NoLatch \in LatchSet
  BY DEF NoLatch, LatchSet
<1>3. AtLeastOne(SettleNs) \in Nat
  BY PolicyAssumption DEF AtLeastOne
<1>4. Acquired(fresh) \in LatchSet
  BY <1>1, <1>2, <1>3 DEF Acquired, LatchSet
<1>5. Counted(l) \in LatchSet
  <2>. DEFINE n == latch[l].clears + 1
  <2>1. n \in Nat
    BY <1>1 DEF LatchSet
  <2>. HIDE DEF n
  <2>2. [latch[l] EXCEPT !.clears = n, !.clearTs = sample[l].ts] \in LatchSet
    BY <2>1, <1>1 DEF LatchSet
  <2>. QED
    BY <2>2, <1>1 DEF Counted, n
<1>6. Held(l) \in LatchSet
  <2>1. [latch[l] EXCEPT !.clears = 0, !.clearTs = 0] \in LatchSet
    BY <1>1 DEF LatchSet
  <2>. QED
    BY <2>1, <1>1, <1>5 DEF Held
<1>. QED
  BY <1>2, <1>4, <1>6 DEF effective_villain

\* A dispatch either completes the message or is refused by a full ring buffer.
LEMMA DispatchOutcomes ==
    ASSUME NEW t \in Managed, Dispatch(t)
    PROVE  \/ /\ msg' = [msg EXCEPT ![t] = "none"] /\ wait' = [wait EXCEPT ![t] = NoWait]
              /\ seen' = [seen EXCEPT ![t] = now] /\ todo' = todo \ {t}
           \/ /\ wait' = [wait EXCEPT ![t].refused = @ + 1]
              /\ todo' = {} /\ UNCHANGED <<msg, seen>>
  BY DEF Dispatch

\* Every step keeps the types, given that the deferral clock is not in the future.
LEMMA VillainTypeStep ==
    ASSUME VillainTypeOK, ThrottleInv, [VillainNext]_villainVars
    PROVE  VillainTypeOK'
<1>. USE DEF VillainTypeOK
<1>1. CASE Clock
  BY <1>1 DEF Clock
<1>2. ASSUME NEW l \in CsLinks, NEW over \in BOOLEAN, Sample(l, over)
      PROVE  VillainTypeOK'
  BY <1>2 DEF Sample
<1>3. ASSUME NEW t \in Managed, NEW trigger \in {"tick", "other"}, Arrive(t, trigger)
      PROVE  VillainTypeOK'
  BY <1>3 DEF Arrive
<1>4. CASE BeginPass
  <2>. DEFINE s == [t \in Managed |-> IF msg[t] = "none" THEN seen[t] ELSE now]
  <2>1. PICK fresh \in FreshVillains :
          latch' = [l \in CsLinks |-> effective_villain(l, fresh[l], s)]
    BY <1>4 DEF BeginPass
  <2>2. s \in [Managed -> Nat]
    OBVIOUS
  <2>3. fresh \in [CsLinks -> Managed \cup {NoTid}]
    BY DEF FreshVillains
  <2>. HIDE DEF s
  <2>4. \A l \in CsLinks : effective_villain(l, fresh[l], s) \in LatchSet
    <3>1. \A l \in CsLinks : fresh[l] \in Managed \cup {NoTid}
      BY <2>3
    <3>. QED
      BY <3>1, LatchType
  <2>5. latch' \in [CsLinks -> LatchSet]
    BY <2>1, <2>4
  <2>6. eff' \in [CsLinks -> Managed \cup {NoTid}]
    BY <1>4, <2>5 DEF BeginPass, LatchSet
  <2>7. cleared' \in [CsLinks -> SUBSET Nat]
    <3>. DEFINE c(l) == IF latch[l].tid = NoTid \/ Overloaded(l) THEN {}
                        ELSE IF Clear(l) THEN cleared[l] \cup {sample[l].ts} ELSE cleared[l]
    <3>1. \A l \in CsLinks : c(l) \in SUBSET Nat
      OBVIOUS
    <3>2. cleared' = [l \in CsLinks |-> c(l)]
      BY <1>4 DEF BeginPass
    <3>. HIDE DEF c
    <3>. QED
      BY <3>1, <3>2
  <2>8. /\ seen' = s /\ passAt' = now /\ todo' = {t \in Managed : msg[t] # "none"}
        /\ UNCHANGED <<now, sample, entry, msg, wait, bill>>
    BY <1>4 DEF BeginPass, s
  <2>. QED
    BY <2>2, <2>5, <2>6, <2>7, <2>8 DEF LatchSet
<1>5. ASSUME NEW t \in Managed, Defer(t) \/ Dispatch(t)
      PROVE  VillainTypeOK'
  <2>1. PICK l \in CsLinks \cup {0} :
          LET d == maybe_apply_villain_token_throttle(t, l) IN
          /\ entry' = [entry EXCEPT ![t] = d.entry]
          /\ bill' = [bill EXCEPT ![t] = Billed(t, l, d.action)]
    BY <1>5 DEF Defer, Dispatch
  <2>. DEFINE d == maybe_apply_villain_token_throttle(t, l)
  <2>2. /\ entry[t].refill <= now /\ entry[t].since <= now
        /\ entry[t].since # 0 => msg[t] = "tick"
        /\ Account(entry[t], bill[t], now)
    BY DEF ThrottleInv, Account, Waiting
  <2>3. d.entry \in EntrySet
    BY <2>2, DecisionFacts
  <2>4. Billed(t, l, d.action) \in BillSet
    BY <2>2, AccountStep
  <2>. HIDE DEF d
  <2>5. entry' \in [Managed -> EntrySet] /\ bill' \in [Managed -> BillSet]
    BY <2>1, <2>3, <2>4 DEF d, EntrySet, BillSet
  <2>6. wait' \in [Managed -> WaitSet]
    <3>1. wait \in [Managed -> WaitSet] /\ wait[t] \in WaitSet
      BY DEF WaitSet
    <3>2. CASE Defer(t)
      <4>. DEFINE n == IF wait[t].start = 0 THEN now ELSE wait[t].start
      <4>1. n \in Nat
        BY <3>1 DEF WaitSet
      <4>. HIDE DEF n
      <4>2. wait' = [wait EXCEPT ![t] = [wait[t] EXCEPT !.start = n, !.last = now]]
        BY <3>1, <3>2 DEF Defer, n
      <4>3. [wait[t] EXCEPT !.start = n, !.last = now] \in WaitSet
        BY <3>1, <4>1 DEF WaitSet
      <4>. QED
        BY <4>2, <4>3, <3>1
    <3>3. CASE Dispatch(t)
      <4>1. NoWait \in WaitSet
        BY DEF NoWait, WaitSet
      <4>. DEFINE n == wait[t].refused + 1
      <4>2. n \in Nat
        BY <3>1 DEF WaitSet
      <4>. HIDE DEF n
      <4>3. [wait[t] EXCEPT !.refused = n] \in WaitSet
        BY <3>1, <4>2 DEF WaitSet
      <4>4. CASE wait' = [wait EXCEPT ![t] = NoWait]
        BY <3>1, <4>1, <4>4
      <4>5. CASE wait' = [wait EXCEPT ![t].refused = @ + 1]
        BY <3>1, <4>3, <4>5 DEF n
      <4>. QED
        BY <3>3, <4>4, <4>5, DispatchOutcomes
    <3>. QED
      BY <3>2, <3>3, <1>5
  <2>7. /\ seen' \in [Managed -> Nat] /\ msg' \in [Managed -> {"none", "tick", "other"}]
        /\ todo' \subseteq {u \in Managed : msg'[u] # "none"}
    <3>1. CASE Defer(t)
      BY <3>1 DEF Defer
    <3>2. CASE Dispatch(t)
      <4>1. CASE /\ msg' = [msg EXCEPT ![t] = "none"]
                 /\ seen' = [seen EXCEPT ![t] = now] /\ todo' = todo \ {t}
        BY <4>1
      <4>2. CASE todo' = {} /\ UNCHANGED <<msg, seen>>
        BY <4>2
      <4>. QED
        BY <3>2, <4>1, <4>2, DispatchOutcomes
    <3>. QED
      BY <3>1, <3>2, <1>5
  <2>8. UNCHANGED <<now, passAt, sample, latch, eff, cleared>>
    BY <1>5 DEF Defer, Dispatch
  <2>. QED
    BY <2>5, <2>6, <2>7, <2>8 DEF EntrySet, BillSet, WaitSet
<1>6. CASE UNCHANGED villainVars
  BY <1>6 DEF villainVars
<1>. QED
  BY <1>1, <1>2, <1>3, <1>4, <1>5, <1>6 DEF VillainNext

-----------------------------------------------------------------------------
(* The bounds.                                                             *)

\* The passing of time keeps the account and the clock of a thread.
LEMMA TimePasses ==
    ASSUME NEW e \in EntrySet, NEW b \in BillSet, NEW w \in WaitSet, NEW m,
           NEW n \in Nat, Account(e, b, n), Waiting(e, w, m, n)
    PROVE  Account(e, b, n + 1) /\ Waiting(e, w, m, n + 1)
<1>1. DeferBound * b.forced + b.opened \in Nat /\ e.refill \in Nat /\ e.since \in Nat /\ w.start \in Nat
  BY PolicyFacts DEF BillSet, EntrySet, WaitSet
<1>2. Account(e, b, n + 1)
  BY <1>1 DEF Account
<1>3. Waiting(e, w, m, n + 1)
  BY <1>1 DEF Waiting
<1>. QED
  BY <1>2, <1>3

\* Every step keeps the account and the clock of every thread.
LEMMA ThrottleStep ==
    ASSUME VillainTypeOK, ThrottleInv, [VillainNext]_villainVars
    PROVE  ThrottleInv'
<1>1. /\ now \in Nat \ {0} /\ msg \in [Managed -> {"none", "tick", "other"}]
      /\ entry \in [Managed -> EntrySet] /\ wait \in [Managed -> WaitSet]
      /\ bill \in [Managed -> BillSet]
  BY DEF VillainTypeOK, EntrySet, WaitSet, BillSet
<1>2. CASE Clock
  <2>1. now' = now + 1 /\ UNCHANGED <<entry, bill, wait, msg>>
    BY <1>2 DEF Clock
  <2>2. \A t \in Managed : /\ Account(entry[t], bill[t], now + 1)
                           /\ Waiting(entry[t], wait[t], msg[t], now + 1)
    <3>. SUFFICES ASSUME NEW t \in Managed
                  PROVE  /\ Account(entry[t], bill[t], now + 1)
                         /\ Waiting(entry[t], wait[t], msg[t], now + 1)
      OBVIOUS
    <3>1. /\ entry[t] \in EntrySet /\ bill[t] \in BillSet /\ wait[t] \in WaitSet
          /\ now \in Nat
      BY <1>1
    <3>2. Account(entry[t], bill[t], now) /\ Waiting(entry[t], wait[t], msg[t], now)
      BY DEF ThrottleInv
    <3>. QED
      BY <3>1, <3>2, TimePasses
  <2>. QED
    BY <2>1, <2>2 DEF ThrottleInv, Account, Waiting
<1>3. CASE UNCHANGED <<now, entry, bill, wait, msg>>
  BY <1>3 DEF ThrottleInv, Account, Waiting
<1>4. ASSUME NEW t \in Managed, NEW trigger \in {"tick", "other"}, Arrive(t, trigger)
      PROVE  ThrottleInv'
  <2>1. /\ msg[t] = "none" /\ msg' = [msg EXCEPT ![t] = trigger]
        /\ UNCHANGED <<now, entry, bill, wait>>
    BY <1>4 DEF Arrive
  <2>. SUFFICES ASSUME NEW u \in Managed
                PROVE  /\ Account(entry[u], bill[u], now)
                       /\ Waiting(entry[u], wait[u], msg'[u], now)
    BY <2>1 DEF ThrottleInv, Account, Waiting
  <2>2. Account(entry[u], bill[u], now) /\ Waiting(entry[u], wait[u], msg[u], now)
    BY DEF ThrottleInv
  <2>3. CASE u = t
    BY <2>1, <2>2, <2>3, <1>1 DEF Waiting
  <2>4. CASE u # t
    BY <2>1, <2>2, <2>4, <1>1
  <2>. QED
    BY <2>3, <2>4
<1>5. ASSUME NEW t \in Managed, Defer(t) \/ Dispatch(t)
      PROVE  ThrottleInv'
  <2>1. PICK l \in CsLinks \cup {0} :
          LET d == maybe_apply_villain_token_throttle(t, l) IN
          /\ entry' = [entry EXCEPT ![t] = d.entry]
          /\ bill' = [bill EXCEPT ![t] = Billed(t, l, d.action)]
          /\ \/ Defer(t) /\ d.action = "defer"
             \/ Dispatch(t) /\ d.action # "defer"
    BY <1>5 DEF Defer, Dispatch
  <2>. DEFINE d == maybe_apply_villain_token_throttle(t, l)
              b == Billed(t, l, d.action)
  <2>2. /\ entry[t].refill <= now /\ entry[t].since <= now
        /\ entry[t].since # 0 => msg[t] = "tick"
        /\ Account(entry[t], bill[t], now) /\ Waiting(entry[t], wait[t], msg[t], now)
    BY DEF ThrottleInv, Account, Waiting
  <2>3. /\ d.entry \in EntrySet
        /\ d.action # "defer" => d.entry.since = 0
        /\ d.action = "defer" =>
             /\ msg[t] = "tick"
             /\ d.entry.since = IF entry[t].since = 0 THEN now ELSE entry[t].since
             /\ now < d.entry.since + DeferBound
    BY <2>2, DecisionFacts
  <2>4. Account(d.entry, b, now)
    BY <2>2, AccountStep
  <2>5. /\ entry' = [entry EXCEPT ![t] = d.entry] /\ bill' = [bill EXCEPT ![t] = b]
        /\ \/ Defer(t) /\ d.action = "defer"
           \/ Dispatch(t) /\ d.action # "defer"
    BY <2>1
  <2>. HIDE DEF d, b
  <2>6. /\ now' = now /\ wait[t] \in WaitSet /\ entry[t] \in EntrySet
        /\ \A u \in Managed \ {t} : wait'[u] = wait[u] /\ msg'[u] = msg[u]
    <3>1. CASE Defer(t)
      BY <3>1, <1>1 DEF Defer
    <3>2. CASE Dispatch(t)
      BY <3>2, <1>1 DEF Dispatch
    <3>. QED
      BY <3>1, <3>2, <1>5
  <2>7. Waiting(d.entry, wait'[t], msg'[t], now)
    <3>1. CASE Defer(t) /\ d.action = "defer"
      <4>. DEFINE w == wait[t]
                  n == IF w.start = 0 THEN now ELSE w.start
      <4>1. wait'[t].start = n /\ wait'[t].last = now /\ wait'[t].refused = w.refused
        BY <3>1, <1>1, <2>6 DEF Defer, WaitSet
      <4>2. msg' = msg
        BY <3>1 DEF Defer
      <4>3. w.start \in Nat /\ w.refused \in Nat /\ entry[t].since \in Nat /\ DeferBound \in Nat
        BY <2>6, PolicyFacts DEF WaitSet, EntrySet
      <4>4. /\ d.entry.since <= now /\ n <= now /\ n # 0 /\ d.entry.since # 0
            /\ n <= d.entry.since
            /\ w.refused = 0 => d.entry.since = n
        BY <3>1, <4>3, <2>2, <2>3, <1>1 DEF Waiting
      <4>. HIDE DEF n
      <4>. QED
        BY <4>1, <4>2, <4>3, <4>4, <3>1, <2>3, <1>1 DEF Waiting
    <3>2. CASE Dispatch(t) /\ d.action # "defer"
      <4>1. d.entry.since = 0
        BY <3>2, <2>3
      <4>2. CASE wait'[t] = NoWait
        BY <4>1, <4>2, <1>1 DEF Waiting, NoWait
      <4>3. CASE wait' = [wait EXCEPT ![t].refused = @ + 1] /\ msg' = msg
        <5>1. /\ wait'[t].start = wait[t].start /\ wait'[t].refused = wait[t].refused + 1
              /\ wait[t].refused \in Nat
          BY <4>3, <1>1, <2>6 DEF WaitSet
        <5>. QED
          BY <5>1, <4>1, <4>3, <2>2, <1>1 DEF Waiting
      <4>. QED
        BY <3>2, <4>2, <4>3, <1>1, DispatchOutcomes
    <3>. QED
      BY <3>1, <3>2, <2>5
  <2>8. \A u \in Managed : /\ Account(entry'[u], bill'[u], now)
                           /\ Waiting(entry'[u], wait'[u], msg'[u], now)
    BY <1>1, <2>4, <2>5, <2>6, <2>7 DEF ThrottleInv
  <2>. QED
    BY <2>6, <2>8 DEF ThrottleInv, Account, Waiting
<1>6. CASE BeginPass \/ \E l \in CsLinks, over \in BOOLEAN : Sample(l, over)
  BY <1>3, <1>6 DEF BeginPass, Sample
<1>7. CASE UNCHANGED villainVars
  BY <1>3, <1>7 DEF villainVars
<1>. QED
  BY <1>2, <1>4, <1>5, <1>6, <1>7 DEF VillainNext

\* At the start nothing was spent and nothing waits.
LEMMA InitHolds == VillainInit => VillainTypeOK /\ ThrottleInv
<1>. SUFFICES ASSUME VillainInit PROVE VillainTypeOK /\ ThrottleInv
  OBVIOUS
<1>1. 0 \in 0..villain_token_capacity_ns
  BY PolicyFacts
<1>2. VillainTypeOK
  BY <1>1 DEF VillainInit, VillainTypeOK, NoLatch, NoThrottle, NoWait, NoBill
<1>3. Account(NoThrottle, NoBill, 1) /\ Waiting(NoThrottle, NoWait, "none", 1)
  <2>1. /\ villain_token_refill_divisor * (0 + 0) = 0 /\ DeferBound * 0 = 0
        /\ villain_token_refill_divisor * villain_token_capacity_ns \in Nat
    BY PolicyFacts
  <2>. QED
    BY <2>1 DEF Account, Waiting, NoThrottle, NoBill, NoWait
<1>4. ThrottleInv
  BY <1>3 DEF VillainInit, ThrottleInv
<1>. QED
  BY <1>2, <1>4

\* The types and the two invariants hold throughout.
LEMMA Invariance == VillainSpec => [](VillainTypeOK /\ ThrottleInv)
  BY InitHolds, VillainTypeStep, ThrottleStep, PTL DEF VillainSpec

\* Spec keeps the types: in particular no bucket of app::run ever holds more than
\* the capacity of villain_token_capacity_ns.
THEOREM VillainTypeCorrect == VillainSpec => []VillainTypeOK
  BY Invariance, PTL

\* No message is put off once the deferral bound has passed since its first
\* deferral, for every policy, whatever the latches, the samples and the links do.
THEOREM DeferBoundedCorrect == VillainSpec => []DeferBounded
<1>1. VillainTypeOK /\ ThrottleInv => DeferBounded
  BY DEF ThrottleInv, Waiting, DeferBounded
<1>. QED
  BY <1>1, Invariance, PTL

\* The deferral clock of a thread is always that of the message that waits.
THEOREM ClockCurrentCorrect == VillainSpec => []ClockCurrent
<1>1. VillainTypeOK /\ ThrottleInv => ClockCurrent
  BY DEF ThrottleInv, Waiting, ClockCurrent
<1>. QED
  BY <1>1, Invariance, PTL

\* The token bucket bounds the time a villain is given, paid and forced.
THEOREM VillainShareCorrect == VillainSpec => []VillainShare
<1>1. VillainTypeOK /\ ThrottleInv => VillainShare
  <2>. SUFFICES ASSUME VillainTypeOK, ThrottleInv, NEW t \in Managed
                PROVE  /\ villain_token_refill_divisor * bill[t].spent
                             <= villain_token_refill_divisor * villain_token_capacity_ns
                                  + (now - bill[t].opened)
                       /\ DeferBound * bill[t].forced <= now - bill[t].opened
    BY DEF VillainShare
  <2>. DEFINE D == villain_token_refill_divisor
              s == bill[t].spent
              k == entry[t].tokens
  <2>1. /\ now \in Nat /\ s \in Nat /\ k \in Nat /\ D \in Nat
        /\ bill[t].opened \in Nat /\ bill[t].forced \in Nat /\ entry[t].refill \in Nat
        /\ DeferBound \in Nat /\ villain_token_capacity_ns \in Nat
    BY PolicyFacts DEF VillainTypeOK
  <2>2. /\ entry[t].refill <= now
        /\ D * (s + k) <= D * villain_token_capacity_ns + (entry[t].refill - bill[t].opened)
        /\ DeferBound * bill[t].forced + bill[t].opened <= now
    BY DEF ThrottleInv, Account
  <2>. HIDE DEF D, s, k
  <2>3. D * s <= D * (s + k)
    BY <2>1, MulMonotone
  <2>4. /\ D * s \in Nat /\ D * (s + k) \in Nat /\ D * villain_token_capacity_ns \in Nat
        /\ DeferBound * bill[t].forced \in Nat
    BY <2>1
  <2>5. /\ D * s <= D * villain_token_capacity_ns + (now - bill[t].opened)
        /\ DeferBound * bill[t].forced <= now - bill[t].opened
    BY <2>1, <2>2, <2>3, <2>4
  <2>. QED
    BY <2>5 DEF D, s
<1>. QED
  BY <1>1, Invariance, PTL

-----------------------------------------------------------------------------
(* The latch.                                                              *)

\* The count of clear samples of a latched villain is of distinct samples, none
\* newer than the one counted last.
LatchInv ==
    \A l \in CsLinks :
      /\ IsFiniteSet(cleared[l]) /\ latch[l].clearTs <= sample[l].ts
      /\ latch[l].tid # NoTid => /\ latch[l].clears <= Cardinality(cleared[l])
                                 /\ \A x \in cleared[l] : x <= latch[l].clearTs

\* What a pass does to a latch: the count stays one of distinct samples, and a
\* villain is given up only for one of the three reasons.
LEMMA LatchPass ==
    ASSUME VillainTypeOK, LatchInv, NEW l \in CsLinks, NEW s,
           NEW f \in Managed \cup {NoTid}, f # NoTid => Overloaded(l)
    PROVE  LET L == effective_villain(l, f, s)
               c == IF latch[l].tid = NoTid \/ Overloaded(l) THEN {}
                    ELSE IF Clear(l) THEN cleared[l] \cup {sample[l].ts} ELSE cleared[l]
           IN  /\ IsFiniteSet(c) /\ L.clearTs <= sample[l].ts
               /\ L.tid # NoTid => L.clears <= Cardinality(c) /\ \A x \in c : x <= L.clearTs
               /\ latch[l].tid # NoTid /\ L.tid # latch[l].tid =>
                    \/ now >= latch[l].hold
                    \/ now - s[latch[l].tid] > ActiveNs
                    \/ L.tid = NoTid /\ Cardinality(c) >= AtLeastOne(ReleaseSamples)
<1> DEFINE L == effective_villain(l, f, s)
           c == IF latch[l].tid = NoTid \/ Overloaded(l) THEN {}
                ELSE IF Clear(l) THEN cleared[l] \cup {sample[l].ts} ELSE cleared[l]
<1>1. /\ IsFiniteSet(cleared[l]) /\ latch[l].clearTs <= sample[l].ts
      /\ latch[l].tid # NoTid => /\ latch[l].clears <= Cardinality(cleared[l])
                                 /\ \A x \in cleared[l] : x <= latch[l].clearTs
  BY DEF LatchInv
<1>2. /\ latch[l] \in LatchSet /\ sample[l].ts \in Nat /\ now \in Nat
      /\ latch[l].clears \in Nat /\ latch[l].clearTs \in Nat /\ cleared[l] \subseteq Nat
  BY DEF VillainTypeOK, LatchSet
<1>3. IsFiniteSet({}) /\ Cardinality({}) = 0
  BY FS_EmptySet
<1>4. AtLeastOne(ReleaseSamples) \in Nat
  BY PolicyAssumption DEF AtLeastOne
<1>5. /\ Acquired(f).clears = 0 /\ Acquired(f).clearTs = 0
      /\ NoLatch.clears = 0 /\ NoLatch.clearTs = 0 /\ NoLatch.tid = NoTid
      /\ Acquired(f).tid = f
  BY DEF Acquired, NoLatch
<1>6. CASE latch[l].tid = NoTid
  <2>1. L = Acquired(f) /\ c = {}
    BY <1>6 DEF effective_villain
  <2> HIDE DEF L, c
  <2>2. QED
    BY <1>2, <1>3, <1>5, <1>6, <2>1 DEF L, c
<1>7. CASE latch[l].tid # NoTid /\ Overloaded(l)
  <2>1. c = {} /\ ~Clear(l)
    BY <1>7 DEF Overloaded, Clear
  <2>2. /\ Held(l).clears = 0 /\ Held(l).clearTs = 0 /\ Held(l).tid = latch[l].tid
    BY <1>2, <1>7, <2>1 DEF Held, LatchSet
  <2>3. CASE LatchAction(l, s) = "hold"
    <3>1. L = Held(l)
      BY <1>7, <2>3 DEF effective_villain
    <3>2. /\ L.clearTs = 0 /\ L.clears = 0 /\ L.tid = latch[l].tid
          /\ \A x \in c : x <= L.clearTs
      BY <2>1, <2>2, <3>1
    <3> HIDE DEF L, c
    <3>3. L.clearTs <= sample[l].ts /\ L.clears <= Cardinality(c) /\ IsFiniteSet(c)
      BY <1>2, <1>3, <2>1, <3>2
    <3>4. QED
      BY <3>2, <3>3 DEF L, c
  <2>4. CASE LatchAction(l, s) # "hold"
    <3>1. LatchAction(l, s) # "release"
      BY <2>1 DEF LatchAction
    <3>2. L = Acquired(f)
      BY <1>7, <2>4, <3>1 DEF effective_villain
    <3>3. now >= latch[l].hold \/ now - s[latch[l].tid] > ActiveNs
      BY <2>1, <2>4, <3>1 DEF LatchAction
    <3>4. /\ L.clearTs = 0 /\ L.clears = 0
          /\ \A x \in c : x <= L.clearTs
      BY <1>5, <2>1, <3>2
    <3> HIDE DEF L, c
    <3>5. L.clearTs <= sample[l].ts /\ L.clears <= Cardinality(c) /\ IsFiniteSet(c)
      BY <1>2, <1>3, <2>1, <3>4
    <3>6. QED
      BY <3>3, <3>4, <3>5 DEF L, c
  <2>5. QED
    BY <2>3, <2>4
<1>8. CASE latch[l].tid # NoTid /\ ~Overloaded(l) /\ Clear(l)
  <2>1. c = cleared[l] \cup {sample[l].ts} /\ f = NoTid
    BY <1>8
  <2>2. IsFiniteSet(c) /\ Cardinality(c) \in Nat /\ Cardinality(cleared[l]) \in Nat
        /\ Cardinality(c) = IF sample[l].ts \in cleared[l] THEN Cardinality(cleared[l])
                                                         ELSE Cardinality(cleared[l]) + 1
    BY <1>1, <2>1, FS_AddElement, FS_CardinalityType
  <2>3. /\ Counted(l).clears <= Cardinality(c) /\ Counted(l).clears \in Nat
        /\ Counted(l).clearTs = sample[l].ts /\ Counted(l).tid = latch[l].tid
        /\ \A x \in c : x <= sample[l].ts
    <3>1. CASE sample[l].ts = latch[l].clearTs
      BY <1>1, <1>2, <1>8, <2>1, <2>2, <3>1 DEF Counted
    <3>2. CASE sample[l].ts # latch[l].clearTs
      <4>1. \A x \in cleared[l] : x < sample[l].ts
        BY <1>1, <1>2, <1>8, <3>2
      <4>2. sample[l].ts \notin cleared[l]
        BY <1>2, <4>1
      <4>3. /\ Counted(l).clears = latch[l].clears + 1
            /\ Counted(l).clearTs = sample[l].ts /\ Counted(l).tid = latch[l].tid
        BY <1>2, <3>2 DEF Counted, LatchSet
      <4>4. Counted(l).clears <= Cardinality(c) /\ Counted(l).clears \in Nat
        BY <1>1, <1>2, <1>8, <2>2, <4>2, <4>3
      <4>5. \A x \in c : x <= sample[l].ts
        BY <1>2, <2>1, <4>1
      <4>6. QED
        BY <4>3, <4>4, <4>5
    <3>3. QED
      BY <3>1, <3>2
  <2>4. CASE LatchAction(l, s) = "hold"
    <3>1. L = Counted(l)
      BY <1>8, <2>4 DEF effective_villain, Held
    <3> HIDE DEF L, c
    <3>2. QED
      BY <1>2, <2>2, <2>3, <3>1 DEF L, c
  <2>5. CASE LatchAction(l, s) = "release"
    <3>1. L = NoLatch
      BY <1>8, <2>5 DEF effective_villain
    <3>2. Counted(l).clears >= AtLeastOne(ReleaseSamples)
      BY <2>5 DEF LatchAction
    <3>3. Cardinality(c) >= AtLeastOne(ReleaseSamples)
      BY <1>4, <2>2, <2>3, <3>2
    <3> HIDE DEF L, c
    <3>4. QED
      BY <1>2, <1>5, <2>2, <3>1, <3>3 DEF L, c
  <2>6. CASE LatchAction(l, s) \notin {"hold", "release"}
    <3>1. L = Acquired(f)
      BY <1>8, <2>6 DEF effective_villain
    <3>2. now >= latch[l].hold \/ now - s[latch[l].tid] > ActiveNs
      BY <2>6 DEF LatchAction
    <3> HIDE DEF L, c
    <3>3. QED
      BY <1>2, <1>5, <2>1, <2>2, <3>1, <3>2 DEF L, c
  <2>7. QED
    BY <2>4, <2>5, <2>6
<1>9. CASE latch[l].tid # NoTid /\ ~Overloaded(l) /\ ~Clear(l)
  <2>1. c = cleared[l] /\ f = NoTid
    BY <1>9
  <2>2. LatchAction(l, s) # "release"
    BY <1>9 DEF LatchAction
  <2>3. CASE LatchAction(l, s) = "hold"
    <3>1. L = latch[l]
      BY <1>9, <2>3 DEF effective_villain, Held
    <3> HIDE DEF L, c
    <3>2. QED
      BY <1>1, <2>1, <3>1 DEF L, c
  <2>4. CASE LatchAction(l, s) # "hold"
    <3>1. L = Acquired(f)
      BY <1>9, <2>2, <2>4 DEF effective_villain
    <3>2. now >= latch[l].hold \/ now - s[latch[l].tid] > ActiveNs
      BY <2>2, <2>4 DEF LatchAction
    <3> HIDE DEF L, c
    <3>3. QED
      BY <1>1, <1>2, <1>5, <2>1, <3>1, <3>2 DEF L, c
  <2>5. QED
    BY <2>3, <2>4
<1>10. QED
  BY <1>6, <1>7, <1>8, <1>9

\* A step gives up a villain only for one of the three reasons.
Sticky ==
    \A l \in CsLinks : latch[l].tid # NoTid /\ latch'[l].tid # latch[l].tid =>
      \/ now >= latch[l].hold
      \/ now - seen'[latch[l].tid] > ActiveNs
      \/ latch'[l].tid = NoTid /\ Cardinality(cleared'[l]) >= AtLeastOne(ReleaseSamples)

\* Every step keeps the counts of clear samples and gives up no villain without
\* a reason.
LEMMA LatchStep ==
    ASSUME VillainTypeOK, LatchInv, [VillainNext]_villainVars
    PROVE  LatchInv' /\ Sticky
<1>1. CASE BeginPass
  <2> DEFINE s == [t \in Managed |-> IF msg[t] = "none" THEN seen[t] ELSE now]
  <2>1. PICK fresh \in FreshVillains : latch' = [l \in CsLinks |-> effective_villain(l, fresh[l], s)]
    BY <1>1 DEF BeginPass
  <2>2. /\ seen' = s /\ UNCHANGED <<now, sample>>
        /\ cleared' = [l \in CsLinks |->
             IF latch[l].tid = NoTid \/ Overloaded(l) THEN {}
             ELSE IF Clear(l) THEN cleared[l] \cup {sample[l].ts} ELSE cleared[l]]
    BY <1>1 DEF BeginPass
  <2> HIDE DEF s
  <2>3. ASSUME NEW l \in CsLinks
        PROVE  /\ IsFiniteSet(cleared'[l]) /\ latch'[l].clearTs <= sample[l].ts
               /\ latch'[l].tid # NoTid => /\ latch'[l].clears <= Cardinality(cleared'[l])
                                           /\ \A x \in cleared'[l] : x <= latch'[l].clearTs
               /\ latch[l].tid # NoTid /\ latch'[l].tid # latch[l].tid =>
                    \/ now >= latch[l].hold
                    \/ now - s[latch[l].tid] > ActiveNs
                    \/ latch'[l].tid = NoTid
                         /\ Cardinality(cleared'[l]) >= AtLeastOne(ReleaseSamples)
    <3>1. /\ fresh[l] \in Managed \cup {NoTid} /\ (fresh[l] # NoTid => Overloaded(l))
          /\ latch'[l] = effective_villain(l, fresh[l], s)
      BY <2>1 DEF FreshVillains
    <3>2. cleared'[l] = IF latch[l].tid = NoTid \/ Overloaded(l) THEN {}
                        ELSE IF Clear(l) THEN cleared[l] \cup {sample[l].ts} ELSE cleared[l]
      BY <2>2
    <3>3. QED
      BY <3>1, <3>2, LatchPass
  <2>4. QED
    BY <2>2, <2>3 DEF LatchInv, Sticky
<1>2. ASSUME NEW l \in CsLinks, NEW over \in BOOLEAN, Sample(l, over) PROVE LatchInv' /\ Sticky
  <2>1. /\ sample' = [sample EXCEPT ![l] = [ts |-> now, over |-> over]]
        /\ sample[l].ts < now /\ UNCHANGED <<latch, cleared>>
    BY <1>2 DEF Sample
  <2>2. ASSUME NEW k \in CsLinks PROVE latch[k].clearTs <= sample'[k].ts
    <3>1. sample[k].ts \in Nat /\ latch[k].clearTs \in Nat /\ now \in Nat
          /\ latch[k].clearTs <= sample[k].ts
      BY DEF VillainTypeOK, LatchInv
    <3>2. sample'[k].ts = IF k = l THEN now ELSE sample[k].ts
      BY <2>1 DEF VillainTypeOK
    <3>3. QED
      BY <2>1, <3>1, <3>2
  <2>3. QED
    BY <2>1, <2>2 DEF LatchInv, Sticky
<1>3. CASE UNCHANGED <<latch, sample, cleared>>
  BY <1>3 DEF LatchInv, Sticky
<1>4. QED
  BY <1>1, <1>2, <1>3 DEF VillainNext, villainVars, Clock, Arrive, Defer, Dispatch

\* A link's villain is replaced or dropped only after its settle window, when the
\* thread has gone inactive, or when enough distinct clear samples came in a row.
THEOREM LatchStickyCorrect == VillainSpec => LatchSticky
<1>1. VillainInit => LatchInv
  BY FS_EmptySet DEF VillainInit, LatchInv, NoLatch
<1>2. VillainTypeOK /\ LatchInv /\ [VillainNext]_villainVars => LatchInv'
  BY LatchStep
<1>3. ASSUME VillainTypeOK, LatchInv, [VillainNext]_villainVars
      PROVE  \A l \in CsLinks : latch[l].tid # NoTid /\ latch'[l].tid # latch[l].tid =>
               \/ now >= latch[l].hold
               \/ now - seen'[latch[l].tid] > ActiveNs
               \/ latch'[l].tid = NoTid
                    /\ Cardinality(cleared'[l]) >= AtLeastOne(ReleaseSamples)
  BY <1>3, LatchStep DEF Sticky
<1>4. QED
  BY <1>1, <1>2, <1>3, VillainTypeCorrect, PTL DEF VillainSpec, LatchSticky
=============================================================================
