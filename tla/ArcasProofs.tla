----------------------------- MODULE ArcasProofs -----------------------------
(***************************************************************************)
(* The ARCAS controller for every topology, configuration and workload:    *)
(* target CPUs are shared only where they must be, the active domains have *)
(* room for the waiting threads where the configuration lets them, and     *)
(* every thread is sent to a CPU of its mask within the active domains.    *)
(***************************************************************************)
EXTENDS Arcas, TLAPS, FiniteSetTheorems, WellFoundedInduction

-----------------------------------------------------------------------------
(* Numbers, sets and sequences.                                            *)

\* The least of a set of naturals is one of them.
LEMMA MinIn ==
    ASSUME NEW T \in SUBSET Nat, T # {}
    PROVE  Min(T) \in T /\ \A y \in T : Min(T) <= y
<1> DEFINE R == OpToRel(<, Nat)
<1>1. \E x \in T : \A y \in T : ~(<<y, x>> \in R)
  BY NatLessThanWellFounded, WFMin
<1>2. \A x, y \in Nat : (<<y, x>> \in R) <=> y < x
  BY DEF OpToRel
<1> HIDE DEF R
<1>3. PICK x \in T : \A y \in T : ~(<<y, x>> \in R)
  BY <1>1
<1>4. ASSUME NEW y \in T PROVE x <= y
  <2>1. ~(y < x)
    BY <1>2, <1>3
  <2>2. QED
    BY <2>1
<1>5. \E z \in T : \A y \in T : z <= y
  BY <1>4
<1>6. QED
  BY <1>5 DEF Min

\* What holds of the empty set, and of a set whenever it holds of the set without
\* any one element, holds of every finite set.  W is the set of subsets it holds of.
LEMMA SubsetInduction ==
    ASSUME NEW S, IsFiniteSet(S), NEW W, {} \in W,
           \A s \in SUBSET S : s # {} /\ (\A x \in s : s \ {x} \in W) => s \in W
    PROVE  \A s \in SUBSET S : s \in W
<1> SUFFICES ASSUME NEW bad \in SUBSET S, bad \notin W PROVE FALSE
  OBVIOUS
<1> DEFINE Bad == {s \in SUBSET S : s \notin W}
           N == {Cardinality(s) : s \in Bad}
<1>1. \A s \in SUBSET S : IsFiniteSet(s) /\ Cardinality(s) \in Nat
  BY FS_Subset, FS_CardinalityType
<1>2. N \in SUBSET Nat /\ N # {}
  BY <1>1
<1>3. PICK n \in N : \A m \in N : n <= m
  BY <1>2, MinIn
<1>4. PICK s \in Bad : n = Cardinality(s)
  OBVIOUS
<1>5. PICK x \in s : s \ {x} \notin W
  OBVIOUS
<1>6. s \ {x} \in SUBSET S
  OBVIOUS
<1>7. Cardinality(s \ {x}) = Cardinality(s) - 1
  BY <1>1, FS_RemoveElement
<1>8. Cardinality(s \ {x}) \in N
  BY <1>5, <1>6
<1> HIDE DEF N, Bad
<1>9. n <= n - 1 /\ n \in Nat
  BY <1>2, <1>3, <1>4, <1>7, <1>8
<1>10. QED
  BY <1>9

\* Removing an element leaves a sequence of the others.
LEMMA RemoveAtSeq ==
    ASSUME NEW S, NEW q \in Seq(S), NEW i \in 1..Len(q)
    PROVE  RemoveAt(q, i) \in Seq(S)
<1>1. SubSeq(q, 1, i - 1) \in Seq(S)
  OBVIOUS
<1>2. SubSeq(q, i + 1, Len(q)) \in Seq(S)
  OBVIOUS
<1>3. QED
  BY <1>1, <1>2 DEF RemoveAt

\* A sequence put behind another.
LEMMA ConcatFacts ==
    ASSUME NEW V, NEW a \in Seq(V), NEW b \in Seq(V)
    PROVE  /\ Len(a \o b) = Len(a) + Len(b) /\ DOMAIN (a \o b) = 1..(Len(a) + Len(b))
           /\ Len(a) \in Nat /\ Len(b) \in Nat
           /\ \A i \in 1..Len(b) : (a \o b)[Len(a) + i] = b[i]
<1>1. Len(a) \in Nat /\ Len(b) \in Nat
  OBVIOUS
<1>2. Len(a \o b) = Len(a) + Len(b) /\ a \o b \in Seq(V)
  OBVIOUS
<1>3. DOMAIN (a \o b) = 1..Len(a \o b)
  BY <1>2
<1>4. ASSUME NEW i \in 1..Len(b) PROVE (a \o b)[Len(a) + i] = b[i]
  <2>1. Len(a) + i \in 1..(Len(a) + Len(b)) /\ Len(a) + i > Len(a) /\ Len(a) + i - Len(a) = i
    BY <1>1
  <2>2. (a \o b)[Len(a) + i] = b[Len(a) + i - Len(a)]
    BY <1>1, <2>1
  <2>3. QED
    BY <2>1, <2>2
<1>5. QED
  BY <1>1, <1>2, <1>3, <1>4

\* R orders the elements of S one after another.
StrictOrder(R, S) ==
    /\ \A x \in S : <<x, x>> \notin R
    /\ \A x, y \in S : x # y => <<x, y>> \in R \/ <<y, x>> \in R
    /\ \A x, y, z \in S : <<x, y>> \in R /\ <<y, z>> \in R => <<x, z>> \in R

\* A finite set is sorted by a strict order: each element has its place.
LEMMA SortedFacts ==
    ASSUME NEW S, IsFiniteSet(S), NEW R, StrictOrder(R, S)
    PROVE  LET q == Sorted(S, R)
           IN  /\ q \in [1..Cardinality(S) -> S] /\ q \in Seq(S) /\ Len(q) = Cardinality(S)
               /\ \A x \in S : \E i \in 1..Cardinality(S) : q[i] = x
               /\ \A i, j \in 1..Cardinality(S) : i < j => <<q[i], q[j]>> \in R
               /\ \A i, j \in 1..Cardinality(S) : q[i] = q[j] => i = j
<1> DEFINE n == Cardinality(S)
           Low(x) == {y \in S : <<y, x>> \in R}
           pos == [x \in S |-> Cardinality(Low(x)) + 1]
           q == Sorted(S, R)
<1>1. n \in Nat
  BY FS_CardinalityType
<1>2. ASSUME NEW x \in S
      PROVE  Cardinality(Low(x)) \in Nat /\ Cardinality(Low(x)) < n /\ IsFiniteSet(Low(x))
  <2>1. Low(x) \in SUBSET S /\ x \notin Low(x)
    BY DEF StrictOrder
  <2>2. IsFiniteSet(Low(x)) /\ Cardinality(Low(x)) <= n /\ Cardinality(Low(x)) \in Nat
    BY <2>1, FS_Subset, FS_CardinalityType
  <2>3. Low(x) # S
    BY <2>1
  <2> HIDE DEF Low
  <2>4. Cardinality(Low(x)) # n
    BY <2>1, <2>3, FS_Subset
  <2>5. QED
    BY <1>1, <2>2, <2>4
<1>3. ASSUME NEW x \in S, NEW z \in S, <<x, z>> \in R
      PROVE  pos[x] < pos[z]
  <2>1. Low(x) \cup {x} \in SUBSET Low(z)
    BY <1>3 DEF StrictOrder
  <2>2. x \notin Low(x)
    BY DEF StrictOrder
  <2> HIDE DEF Low
  <2>3. Cardinality(Low(x) \cup {x}) = Cardinality(Low(x)) + 1
    BY <1>2, <2>2, FS_AddElement
  <2>4. Cardinality(Low(x) \cup {x}) <= Cardinality(Low(z))
    BY <1>2, <2>1, FS_Subset
  <2>5. Cardinality(Low(x)) \in Nat /\ Cardinality(Low(z)) \in Nat
    BY <1>2
  <2>6. QED
    BY <2>3, <2>4, <2>5
<1>4. pos \in [S -> 1..n]
  <2>1. ASSUME NEW x \in S PROVE Cardinality(Low(x)) + 1 \in 1..n
    <3>1. Cardinality(Low(x)) \in Nat /\ Cardinality(Low(x)) < n
      BY <1>2
    <3> HIDE DEF n, Low
    <3>2. QED
      BY <1>1, <3>1
  <2> HIDE DEF n, Low
  <2>2. QED
    BY <2>1
<1>5. q = [i \in 1..n |-> CHOOSE x \in S : Cardinality(Low(x)) = i - 1]
  BY DEF Sorted
<1>6. \A x \in S : pos[x] = Cardinality(Low(x)) + 1 /\ Cardinality(Low(x)) \in Nat
  BY <1>2
<1>7. \A x, z \in S : <<x, z>> \in R => pos[x] < pos[z]
  BY <1>3
<1> HIDE DEF Low, pos, q, n
<1>8. \A x, z \in S : pos[x] = pos[z] => x = z
  <2> SUFFICES ASSUME NEW x \in S, NEW z \in S, x # z PROVE pos[x] # pos[z]
    OBVIOUS
  <2>1. <<x, z>> \in R \/ <<z, x>> \in R
    BY DEF StrictOrder
  <2>2. QED
    BY <1>1, <1>4, <1>7, <2>1
<1>9. IsFiniteSet(1..n) /\ Cardinality(1..n) = n
  <2>1. IsFiniteSet(1..n) /\ Cardinality(1..n) = IF 1 > n THEN 0 ELSE n - 1 + 1
    BY <1>1, FS_Interval
  <2>2. QED
    BY <1>1, <2>1
<1>10. pos \in Injection(S, 1..n)
  BY <1>4, <1>8 DEF Injection, IsInjective
<1>11. pos \in Surjection(S, 1..n)
  BY <1>10, <1>9, FS_Injection DEF n
<1>12. \A i \in 1..n : \E x \in S : pos[x] = i
  BY <1>11 DEF Surjection
<1>13. \A i \in 1..n : q[i] \in S /\ pos[q[i]] = i
  <2> SUFFICES ASSUME NEW i \in 1..n PROVE q[i] \in S /\ pos[q[i]] = i
    OBVIOUS
  <2>1. PICK x \in S : pos[x] = i
    BY <1>12
  <2>2. Cardinality(Low(x)) = i - 1
    BY <1>6, <2>1, <1>1
  <2>3. q[i] = CHOOSE z \in S : Cardinality(Low(z)) = i - 1
    BY <1>5
  <2>4. q[i] \in S /\ Cardinality(Low(q[i])) = i - 1
    BY <2>2, <2>3
  <2>5. QED
    BY <1>6, <2>4, <1>1
<1>14. q \in [1..n -> S]
  BY <1>5, <1>13
<1>15. q \in Seq(S) /\ Len(q) = n
  BY <1>1, <1>14
<1>16. ASSUME NEW x \in S PROVE \E i \in 1..n : q[i] = x
  <2>1. pos[x] \in 1..n
    BY <1>4
  <2>3. q[pos[x]] = x
    BY <1>8, <1>13, <2>1
  <2>4. QED
    BY <2>1, <2>3
<1>17. ASSUME NEW i \in 1..n, NEW j \in 1..n, i < j PROVE <<q[i], q[j]>> \in R
  <2>1. /\ q[i] \in S /\ q[j] \in S /\ pos[q[i]] = i /\ pos[q[j]] = j
    BY <1>13
  <2>2. q[i] # q[j]
    BY <1>17, <2>1
  <2>3. ~(<<q[j], q[i]>> \in R)
    <3>1. SUFFICES ASSUME <<q[j], q[i]>> \in R PROVE FALSE
      OBVIOUS
    <3>2. j < i
      BY <1>7, <2>1, <3>1
    <3>3. QED
      BY <1>1, <1>17, <3>2
  <2>4. QED
    BY <2>1, <2>2, <2>3 DEF StrictOrder
<1>18. \A i, j \in 1..n : q[i] = q[j] => i = j
  BY <1>13
<1>19. QED
  BY <1>14, <1>15, <1>16, <1>17, <1>18 DEF q, n

\* Sets of naturals in ascending order.
LEMMA AscendingFacts ==
    ASSUME NEW S \in SUBSET Nat, IsFiniteSet(S)
    PROVE  LET q == Ascending(S)
           IN  /\ q \in [1..Cardinality(S) -> S] /\ q \in Seq(S) /\ Len(q) = Cardinality(S)
               /\ \A x \in S : \E i \in 1..Cardinality(S) : q[i] = x
               /\ \A i, j \in 1..Cardinality(S) : q[i] = q[j] => i = j
<1> DEFINE R == {p \in S \X S : p[1] < p[2]}
<1>1. StrictOrder(R, S)
  <2>1. \A x, y \in S : <<x, y>> \in R <=> x < y
    OBVIOUS
  <2> HIDE DEF R
  <2>2. QED
    BY <2>1 DEF StrictOrder
<1>2. Ascending(S) = Sorted(S, R)
  BY DEF Ascending
<1> HIDE DEF R
<1>3. QED
  BY <1>1, <1>2, SortedFacts

\* Quotient and remainder.
LEMMA DivMod ==
    ASSUME NEW a \in Nat, NEW b \in Nat \ {0}
    PROVE  a \div b \in Nat /\ a % b \in 0..(b - 1) /\ a = b * (a \div b) + (a % b)
<1>1. a \div b \in Nat
  OBVIOUS
<1>2. a % b \in 0..(b - 1)
  OBVIOUS
<1>3. a - b * (a \div b) = a % b
  OBVIOUS
<1>4. b * (a \div b) \in Nat
  OBVIOUS
<1> DEFINE k == b * (a \div b)
           r == a % b
<1>5. a - k = r /\ k \in Nat
  BY <1>3, <1>4
<1> HIDE DEF k, r
<1>6. a = k + r
  BY <1>5
<1>7. QED
  BY <1>1, <1>2, <1>6 DEF k, r

\* Quotient and remainder are determined.
LEMMA DivUnique ==
    ASSUME NEW b \in Nat \ {0}, NEW k \in Nat, NEW r \in 0..(b - 1)
    PROVE  b * k + r \in Nat /\ (b * k + r) \div b = k /\ (b * k + r) % b = r
<1>1. b * k + r \in Nat
  OBVIOUS
<1>2. (b * k + r) \div b = k
  OBVIOUS
<1>3. (b * k + r) % b = r
  OBVIOUS
<1>4. QED
  BY <1>1, <1>2, <1>3

\* Products of naturals keep the order.
LEMMA TimesFacts ==
    ASSUME NEW a \in Nat, NEW b \in Nat, NEW c \in Nat
    PROVE  /\ a * b \in Nat /\ a * (b + c) = a * b + a * c
           /\ b <= c => a * b <= a * c
           /\ 0 < a /\ a * b < a * c => b < c
<1>1. a * b \in Nat
  OBVIOUS
<1>2. a * (b + c) = a * b + a * c
  OBVIOUS
<1>3. b <= c => a * b <= a * c
  OBVIOUS
<1>4. 0 < a /\ a * b < a * c => b < c
  OBVIOUS
<1>5. QED
  BY <1>1, <1>2, <1>3, <1>4

\* From any cursor on, n steps round a circle of n places reach each of them.
LEMMA RoundAll ==
    ASSUME NEW n \in Nat \ {0}, NEW cursor \in Nat, NEW p \in 0..(n - 1)
    PROVE  \E k \in 0..(n - 1) : (cursor + k) % n = p
<1> DEFINE r == cursor % n
           u == cursor \div n
<1>1. r \in 0..(n - 1) /\ u \in Nat /\ cursor = n * u + r
  BY DivMod
<1> HIDE DEF r, u
<1>2. CASE r <= p
  <2>1. cursor + (p - r) = n * u + p /\ p - r \in 0..(n - 1)
    BY <1>1, <1>2
  <2>2. (n * u + p) % n = p
    BY <1>1, DivUnique
  <2>3. QED
    BY <2>1, <2>2
<1>3. CASE p < r
  <2>1. n * (u + 1) = n * u + n * 1
    BY <1>1, TimesFacts
  <2>2. cursor + (p - r + n) = n * (u + 1) + p /\ p - r + n \in 0..(n - 1)
    BY <1>1, <1>3, <2>1
  <2>3. (n * (u + 1) + p) % n = p
    <3>1. u + 1 \in Nat
      BY <1>1
    <3>2. QED
      BY <3>1, DivUnique
  <2>4. QED
    BY <2>2, <2>3
<1>4. QED
  BY <1>1, <1>2, <1>3

\* Places that are evenly spaced are places; if all are taken, each is its own.
LEMMA EvenPlace ==
    ASSUME NEW n \in Nat, NEW len \in Nat, NEW i \in 1..n
    PROVE  /\ len > 0 => ((i - 1) * len) \div n + 1 \in 1..len
           /\ n = len => ((i - 1) * len) \div n + 1 = i
<1> DEFINE a == (i - 1) * len
           k == a \div n
<1>1. n \in Nat \ {0} /\ i - 1 \in Nat
  OBVIOUS
<1>2. a \in Nat
  BY <1>1, TimesFacts
<1>3. k \in Nat /\ a % n \in 0..(n - 1) /\ a = n * k + (a % n)
  BY <1>1, <1>2, DivMod
<1>4. ASSUME len > 0 PROVE k < len
  <2>1. len * (i - 1) <= len * (n - 1)
    <3>1. n - 1 \in Nat /\ i - 1 <= n - 1
      OBVIOUS
    <3>2. QED
      BY <1>1, <3>1, TimesFacts
  <2>2. len * n = len * (n - 1) + len
    OBVIOUS
  <2>3. a = len * (i - 1) /\ len * n = n * len
    OBVIOUS
  <2> HIDE DEF a, k
  <2>4. n * k < n * len
    <3>1. n * k \in Nat
      BY <1>1, <1>3, TimesFacts
    <3>2. len * (n - 1) \in Nat
      <4>1. n - 1 \in Nat
        OBVIOUS
      <4>2. QED
        BY <4>1, TimesFacts
    <3>3. n * k <= a
      <4> DEFINE r == a % n
      <4>1. r \in 0..(n - 1) /\ a = n * k + r
        BY <1>3
      <4> HIDE DEF r
      <4>2. QED
        BY <1>2, <3>1, <4>1
    <3>4. QED
      BY <1>2, <1>4, <2>1, <2>2, <2>3, <3>1, <3>2, <3>3
  <2>5. QED
    BY <1>1, <1>3, <2>4, TimesFacts
<1>5. ASSUME n = len PROVE k = i - 1
  <2>1. a = n * (i - 1) + 0 /\ 0 \in 0..(n - 1)
    BY <1>5
  <2>2. (n * (i - 1) + 0) \div n = i - 1
    BY <1>1, <2>1, DivUnique
  <2>3. QED
    BY <2>1, <2>2
<1> HIDE DEF k
<1>6. QED
  BY <1>3, <1>4, <1>5 DEF k

-----------------------------------------------------------------------------
(* The spread and the active domains.                                      *)

\* What a pass reads of the masks.
MaskValue == [Tids -> SUBSET Cpus]

\* There are finitely many domains, threads and CPUs.
LEMMA Finite ==
    /\ IsFiniteSet(EligibleDomains) /\ Cardinality(EligibleDomains) \in Nat \ {0}
    /\ \A S \in SUBSET EligibleDomains : IsFiniteSet(S) /\ Cardinality(S) \in Nat /\ S \in SUBSET Nat
    /\ \A S \in SUBSET Cpus : IsFiniteSet(S) /\ Cardinality(S) \in Nat /\ S \in SUBSET Nat
    /\ \A S \in SUBSET Tids : IsFiniteSet(S) /\ Cardinality(S) \in Nat /\ S \in SUBSET Nat
<1>1. IsFiniteSet(EligibleDomains)
  BY ArcasAssumption, TopologyAssumption, FS_Subset
<1>2. Cardinality(EligibleDomains) \in Nat /\ Cardinality(EligibleDomains) # 0
  BY <1>1, ArcasAssumption, FS_CardinalityType, FS_EmptySet
<1>3. ASSUME NEW S \in SUBSET EligibleDomains
      PROVE  IsFiniteSet(S) /\ Cardinality(S) \in Nat /\ S \in SUBSET Nat
  BY <1>1, ArcasAssumption, TopologyAssumption, FS_Subset, FS_CardinalityType
<1>4. ASSUME NEW S \in SUBSET Cpus
      PROVE  IsFiniteSet(S) /\ Cardinality(S) \in Nat /\ S \in SUBSET Nat
  BY TopologyAssumption, FS_Subset, FS_CardinalityType
<1>5. ASSUME NEW S \in SUBSET Tids
      PROVE  IsFiniteSet(S) /\ Cardinality(S) \in Nat /\ S \in SUBSET Nat
  BY TopologyAssumption, FS_Subset, FS_CardinalityType
<1>6. QED
  BY <1>1, <1>2, <1>3, <1>4, <1>5

\* The spread is held between one and what the configuration permits.
LEMMA ClampFacts ==
    /\ effective_max_domains \in 1..Cardinality(EligibleDomains)
    /\ \A n \in Nat : LET s == clamp_spread_domains(n)
                      IN  /\ s \in 1..Cardinality(EligibleDomains)
                          /\ s = effective_max_domains \/ s >= n
<1>1. Cardinality(EligibleDomains) \in Nat \ {0} /\ MaxDomains \in Nat /\ MinDomains \in Nat
  BY Finite, ArcasAssumption
<1>2. effective_max_domains \in 1..Cardinality(EligibleDomains)
  BY <1>1 DEF effective_max_domains, Smaller
<1>3. ASSUME NEW n \in Nat
      PROVE  LET s == clamp_spread_domains(n)
             IN  /\ s \in 1..Cardinality(EligibleDomains)
                 /\ s = effective_max_domains \/ s >= n
  BY <1>1, <1>2 DEF clamp_spread_domains, Smaller, Larger
<1>4. QED
  BY <1>2, <1>3

\* The CPUs of a domain are CPUs, and none is of two domains.
LEMMA SlotFacts ==
    ASSUME NEW masks \in MaskValue
    PROVE  /\ \A d : domain_slot_cpus(d, masks) \in SUBSET Cpus
           /\ \A d : \A c \in domain_slot_cpus(d, masks) : DomainOf[c] = d
           /\ \A d : \A t \in Tids : InDomain(masks[t], d) \in SUBSET domain_slot_cpus(d, masks)
<1> DEFINE union == UNION {masks[t] : t \in Tids}
<1>1. union \in SUBSET Cpus
  BY DEF MaskValue
<1>2. \A d : domain_slot_cpus(d, masks) = InDomain(IF union = {} THEN Cpus ELSE union, d)
  BY DEF domain_slot_cpus
<1>3. \A t \in Tids : masks[t] \in SUBSET union
  OBVIOUS
<1> HIDE DEF union
<1>4. ASSUME NEW d PROVE domain_slot_cpus(d, masks) \in SUBSET Cpus
  BY <1>1, <1>2 DEF InDomain
<1>5. ASSUME NEW d, NEW c \in domain_slot_cpus(d, masks) PROVE DomainOf[c] = d
  BY <1>2 DEF InDomain
<1>6. ASSUME NEW d, NEW t \in Tids PROVE InDomain(masks[t], d) \in SUBSET domain_slot_cpus(d, masks)
  <2> SUFFICES ASSUME NEW c \in InDomain(masks[t], d) PROVE c \in domain_slot_cpus(d, masks)
    OBVIOUS
  <2>1. c \in masks[t] /\ DomainOf[c] = d
    BY DEF InDomain
  <2>2. c \in union /\ union # {}
    BY <1>3, <2>1
  <2>3. QED
    BY <1>2, <2>1, <2>2 DEF InDomain
<1>7. QED
  BY <1>4, <1>5, <1>6

\* The capacity of domains is the sum of their sizes: one more domain adds its CPUs.
LEMMA CapacityStep ==
    ASSUME NEW masks \in MaskValue, NEW S \in SUBSET EligibleDomains
    PROVE  /\ Capacity(S, masks) \in Nat
           /\ S = {} => Capacity(S, masks) = 0
           /\ \A T \in SUBSET S :
                Capacity(S, masks) = Capacity(T, masks) + Capacity(S \ T, masks)
           /\ \A d \in S : /\ Cardinality(domain_slot_cpus(d, masks)) \in Nat
                           /\ Capacity({d}, masks) = Cardinality(domain_slot_cpus(d, masks))
<1> DEFINE All(D) == UNION {domain_slot_cpus(d, masks) : d \in D}
<1>1. \A D : Capacity(D, masks) = Cardinality(All(D))
  BY DEF Capacity
<1>2. \A D : All(D) \in SUBSET Cpus
  BY SlotFacts
<1>3. \A D : IsFiniteSet(All(D)) /\ Cardinality(All(D)) \in Nat
  <2> SUFFICES ASSUME NEW D PROVE IsFiniteSet(All(D)) /\ Cardinality(All(D)) \in Nat
    OBVIOUS
  <2>1. All(D) \in SUBSET Cpus
    BY <1>2
  <2> HIDE DEF All
  <2>2. QED
    BY <2>1, Finite
<1>4. ASSUME S = {} PROVE Capacity(S, masks) = 0
  <2>1. All(S) = {}
    BY <1>4
  <2>2. QED
    BY <1>1, <2>1, FS_EmptySet
<1>5. ASSUME NEW T \in SUBSET S
      PROVE  Capacity(S, masks) = Capacity(T, masks) + Capacity(S \ T, masks)
  <2>1. All(S) = All(T) \cup All(S \ T)
    OBVIOUS
  <2>2. All(T) \cap All(S \ T) = {}
    <3> SUFFICES ASSUME NEW c \in All(T), c \in All(S \ T) PROVE FALSE
      OBVIOUS
    <3>1. PICK d \in T : c \in domain_slot_cpus(d, masks)
      OBVIOUS
    <3>2. PICK e \in S \ T : c \in domain_slot_cpus(e, masks)
      OBVIOUS
    <3>3. d = e
      BY <3>1, <3>2, SlotFacts
    <3>4. QED
      BY <3>3
  <2> HIDE DEF All
  <2>3. Cardinality(All(S)) = Cardinality(All(T)) + Cardinality(All(S \ T)) - Cardinality({})
    BY <1>3, <2>1, <2>2, FS_Union
  <2>4. Cardinality(All(T)) \in Nat /\ Cardinality(All(S \ T)) \in Nat
    BY <1>3
  <2>5. QED
    BY <1>1, <2>3, <2>4, FS_EmptySet
<1>6. ASSUME NEW d \in S
      PROVE  /\ Cardinality(domain_slot_cpus(d, masks)) \in Nat
             /\ Capacity({d}, masks) = Cardinality(domain_slot_cpus(d, masks))
  <2>1. All({d}) = domain_slot_cpus(d, masks)
    OBVIOUS
  <2> HIDE DEF All
  <2>2. QED
    BY <1>1, <1>3, <2>1
<1> HIDE DEF All
<1>7. QED
  BY <1>1, <1>3, <1>4, <1>5, <1>6

\* Domains of at most v CPUs have at most v for each of them, and domains of at least
\* v have at least v for each.
LEMMA CapacityBounds ==
    ASSUME NEW masks \in MaskValue, NEW v \in Nat, NEW S \in SUBSET EligibleDomains
    PROVE  /\ (\A d \in S : Cardinality(domain_slot_cpus(d, masks)) <= v)
                => Capacity(S, masks) <= v * Cardinality(S)
           /\ (\A d \in S : Cardinality(domain_slot_cpus(d, masks)) >= v)
                => Capacity(S, masks) >= v * Cardinality(S)
<1> DEFINE Size(d) == Cardinality(domain_slot_cpus(d, masks))
           Low(s) == (\A d \in s : Size(d) <= v) => Capacity(s, masks) <= v * Cardinality(s)
           High(s) == (\A d \in s : Size(d) >= v) => Capacity(s, masks) >= v * Cardinality(s)
           W == {s \in SUBSET S : Low(s) /\ High(s)}
<1>1. IsFiniteSet(S)
  BY Finite
<1>2. {} \in W
  <2>1. Cardinality({}) = 0 /\ Capacity({}, masks) = 0 /\ v * 0 = 0
    BY CapacityStep, FS_EmptySet
  <2>2. QED
    BY <2>1
<1>3. ASSUME NEW s \in SUBSET S, s # {}, \A x \in s : s \ {x} \in W PROVE s \in W
  <2>1. PICK x \in s : TRUE
    BY <1>3
  <2> DEFINE r == s \ {x}
  <2>2. r \in W /\ r \in SUBSET s
    BY <1>3
  <2>3. Low(r) /\ High(r)
    BY <2>2
  <2>4. Cardinality(r) = Cardinality(s) - 1 /\ Cardinality(s) \in Nat /\ Cardinality(r) \in Nat
    BY Finite, FS_RemoveElement
  <2>5. /\ Capacity(s, masks) = Capacity(r, masks) + Size(x)
        /\ Size(x) \in Nat /\ Capacity(r, masks) \in Nat
    <3>1. s \ r = {x}
      OBVIOUS
    <3>2. Capacity(s, masks) = Capacity(r, masks) + Capacity({x}, masks)
      BY <3>1, CapacityStep
    <3>3. Capacity({x}, masks) = Size(x) /\ Size(x) \in Nat /\ Capacity(r, masks) \in Nat
      BY CapacityStep
    <3>4. QED
      BY <3>2, <3>3
  <2> HIDE DEF r, Size
  <2>6. v * Cardinality(s) = v * Cardinality(r) + v /\ v * Cardinality(r) \in Nat
    <3> DEFINE n == Cardinality(r)
    <3>1. Cardinality(s) = n + 1 /\ n \in Nat
      BY <2>4
    <3> HIDE DEF n
    <3>2. v * (n + 1) = v * n + v /\ v * n \in Nat
      BY <3>1
    <3>3. QED
      BY <3>1, <3>2 DEF n
  <2>7. Low(s)
    <3> SUFFICES ASSUME \A d \in s : Size(d) <= v PROVE Capacity(s, masks) <= v * Cardinality(s)
      OBVIOUS
    <3>1. Capacity(r, masks) <= v * Cardinality(r) /\ Size(x) <= v
      BY <2>2, <2>3
    <3>2. QED
      BY <2>5, <2>6, <3>1
  <2>8. High(s)
    <3> SUFFICES ASSUME \A d \in s : Size(d) >= v PROVE Capacity(s, masks) >= v * Cardinality(s)
      OBVIOUS
    <3>1. Capacity(r, masks) >= v * Cardinality(r) /\ Size(x) >= v
      BY <2>2, <2>3
    <3>2. QED
      BY <2>5, <2>6, <3>1
  <2>9. QED
    BY <2>7, <2>8
<1>4. S \in W
  <2> HIDE DEF W
  <2>1. \A s \in SUBSET S : s \in W
    BY <1>1, <1>2, <1>3, SubsetInduction
  <2>2. QED
    BY <2>1
<1>5. QED
  BY <1>4

\* The candidates are eligible domains, each once; the others have no CPU to offer.
LEMMA CandidatesFacts ==
    ASSUME NEW masks \in MaskValue
    PROVE  LET q == Candidates(masks)
           IN  \E D \in SUBSET EligibleDomains :
                 /\ D # {} /\ ToSet(q) = D /\ Len(q) = Cardinality(D) /\ Len(q) \in Nat \ {0}
                 /\ q \in Seq(D) /\ q \in [1..Len(q) -> D]
                 /\ \A d \in EligibleDomains \ D : domain_slot_cpus(d, masks) = {}
<1> DEFINE usable == {d \in EligibleDomains : domain_slot_cpus(d, masks) # {}}
           D == IF usable = {} THEN EligibleDomains ELSE usable
           q == Ascending(D)
<1>1. Candidates(masks) = q
  BY DEF Candidates, eligible_domain_list
<1>2. /\ D \in SUBSET EligibleDomains /\ D # {}
      /\ \A d \in EligibleDomains \ D : domain_slot_cpus(d, masks) = {}
  BY ArcasAssumption
<1> HIDE DEF D, usable
<1>3. IsFiniteSet(D) /\ D \in SUBSET Nat /\ Cardinality(D) \in Nat
  BY <1>2, Finite
<1>4. /\ q \in [1..Cardinality(D) -> D] /\ q \in Seq(D) /\ Len(q) = Cardinality(D)
      /\ \A x \in D : \E i \in 1..Cardinality(D) : q[i] = x
  BY <1>3, AscendingFacts
<1> HIDE DEF q
<1>5. ToSet(q) = D
  BY <1>4 DEF ToSet
<1>6. Cardinality(D) # 0
  BY <1>2, <1>3, FS_EmptySet
<1>7. QED
  BY <1>1, <1>2, <1>3, <1>4, <1>5, <1>6

\* Domains sorted by size: a strict order.
LEMMA LargerFirstOrder ==
    ASSUME NEW masks \in MaskValue, NEW D \in SUBSET EligibleDomains
    PROVE  StrictOrder(LargerFirst(D, masks), D)
<1> DEFINE size == [d \in D |-> Cardinality(domain_slot_cpus(d, masks))]
           R == LargerFirst(D, masks)
<1>1. \A d \in D : size[d] \in Nat /\ d \in Nat
  BY CapacityStep, Finite
<1>2. \A x, y \in D : <<x, y>> \in R <=> size[x] > size[y] \/ (size[x] = size[y] /\ x < y)
  BY DEF LargerFirst
<1> HIDE DEF size, R
<1>3. \A x \in D : <<x, x>> \notin R
  BY <1>1, <1>2
<1>4. \A x, y \in D : x # y => <<x, y>> \in R \/ <<y, x>> \in R
  BY <1>1, <1>2
<1>5. ASSUME NEW x \in D, NEW y \in D, NEW z \in D, <<x, y>> \in R, <<y, z>> \in R
      PROVE  <<x, z>> \in R
  BY <1>1, <1>2, <1>5
<1>6. QED
  BY <1>3, <1>4, <1>5 DEF StrictOrder, R

\* The n largest domains have as many CPUs as any n of the eligible ones.
LEMMA LargestEnough ==
    ASSUME NEW masks \in MaskValue, NEW D \in SUBSET EligibleDomains,
           \A d \in EligibleDomains \ D : domain_slot_cpus(d, masks) = {},
           NEW n \in 1..Cardinality(D), NEW S \in SUBSET EligibleDomains, Cardinality(S) <= n
    PROVE  LET largest == Sorted(D, LargerFirst(D, masks))
           IN  Capacity(S, masks) <= Capacity({largest[i] : i \in 1..n}, masks)
<1> DEFINE R == LargerFirst(D, masks)
           q == Sorted(D, R)
           len == Cardinality(D)
           T == {q[i] : i \in 1..n}
           Size(d) == Cardinality(domain_slot_cpus(d, masks))
           v == Size(q[n])
<1>1. StrictOrder(R, D) /\ IsFiniteSet(D) /\ len \in Nat
  BY LargerFirstOrder, Finite
<1>2. \A x, y \in D : <<x, y>> \in R => Size(x) >= Size(y)
  <2>1. \A x, y \in D : <<x, y>> \in R => Size(x) > Size(y) \/ Size(x) = Size(y)
    BY DEF LargerFirst
  <2>2. \A x \in D : Size(x) \in Nat
    BY CapacityStep
  <2> HIDE DEF R, Size
  <2>3. QED
    BY <2>1, <2>2
<1>3. /\ q \in [1..len -> D]
      /\ \A x \in D : \E i \in 1..len : q[i] = x
      /\ \A i, j \in 1..len : i < j => <<q[i], q[j]>> \in R
      /\ \A i, j \in 1..len : q[i] = q[j] => i = j
  <2> HIDE DEF R
  <2>1. QED
    BY <1>1, SortedFacts
<1>4. \A d \in EligibleDomains : Size(d) \in Nat
  BY CapacityStep
<1>5. \A d \in EligibleDomains \ D : Size(d) = 0
  BY FS_EmptySet
<1> HIDE DEF R, q, Size, len
<1>6. n \in 1..len /\ \A i \in 1..n : i \in 1..len
  BY <1>1 DEF len
<1>7. T \in SUBSET D /\ q[n] \in D /\ v \in Nat
  BY <1>3, <1>4, <1>6
<1>8. Cardinality(T) = n
  <2> DEFINE f == [i \in 1..n |-> q[i]]
  <2>1. IsFiniteSet(1..n) /\ Cardinality(1..n) = n
    <3>1. IsFiniteSet(1..n) /\ Cardinality(1..n) = IF 1 > n THEN 0 ELSE n - 1 + 1
      BY <1>6, FS_Interval
    <3>2. QED
      BY <1>6, <3>1
  <2>2. f \in [1..n -> T] /\ \A i, j \in 1..n : f[i] = f[j] => i = j
    BY <1>3, <1>6
  <2>3. \A x \in T : \E i \in 1..n : f[i] = x
    OBVIOUS
  <2> HIDE DEF f, T
  <2>4. f \in Bijection(1..n, T)
    BY <2>2, <2>3 DEF Bijection, Injection, Surjection, IsInjective
  <2>5. QED
    BY <2>1, <2>4, FS_Bijection DEF ExistsBijection
<1>9. \A d \in T : Size(d) >= v
  <2> SUFFICES ASSUME NEW i \in 1..n PROVE Size(q[i]) >= v
    OBVIOUS
  <2>1. CASE i = n
    BY <1>7, <2>1
  <2>2. CASE i < n
    <3>1. <<q[i], q[n]>> \in R /\ q[i] \in D /\ q[n] \in D
      BY <1>3, <1>6, <2>2
    <3>2. QED
      BY <1>2, <3>1
  <2>3. QED
    BY <1>6, <2>1, <2>2
<1>10. \A d \in S \ T : Size(d) <= v
  <2> SUFFICES ASSUME NEW d \in S \ T PROVE Size(d) <= v
    OBVIOUS
  <2>1. CASE d \notin D
    BY <1>5, <1>7, <2>1
  <2>2. CASE d \in D
    <3>1. PICK k \in 1..len : q[k] = d
      BY <1>3, <2>2
    <3>2. ~(k \in 1..n)
      BY <3>1
    <3>3. n < k
      BY <1>1, <1>6, <3>2
    <3>4. <<q[n], d>> \in R
      BY <1>3, <1>6, <3>1, <3>3
    <3>5. QED
      BY <1>2, <1>4, <1>7, <2>2, <3>4
  <2>3. QED
    BY <2>1, <2>2
<1> HIDE DEF v, T
<1>11. /\ Cardinality(S \ T) = Cardinality(S) - Cardinality(S \cap T)
       /\ Cardinality(T \ S) = Cardinality(T) - Cardinality(T \cap S)
       /\ S \cap T = T \cap S /\ Cardinality(S \cap T) \in Nat /\ Cardinality(S) \in Nat
       /\ Cardinality(S \ T) \in Nat /\ Cardinality(T \ S) \in Nat
  <2>1. IsFiniteSet(S) /\ IsFiniteSet(T) /\ Cardinality(S) \in Nat
    BY <1>7, Finite
  <2>2. Cardinality(S \cap T) \in Nat /\ Cardinality(S \ T) \in Nat /\ Cardinality(T \ S) \in Nat
    BY <2>1, FS_Subset, FS_CardinalityType
  <2>3. S \cap T = T \cap S
    OBVIOUS
  <2>4. QED
    BY <2>1, <2>2, <2>3, FS_Difference
<1>12. Cardinality(S \ T) <= Cardinality(T \ S)
  BY <1>6, <1>8, <1>11
<1>13. Capacity(S \ T, masks) <= v * Cardinality(S \ T)
  <2>1. S \ T \in SUBSET EligibleDomains
    OBVIOUS
  <2>2. QED
    BY <1>7, <1>10, <2>1, CapacityBounds DEF Size
<1>14. Capacity(T \ S, masks) >= v * Cardinality(T \ S)
  <2>1. T \ S \in SUBSET EligibleDomains /\ \A d \in T \ S : Size(d) >= v
    BY <1>7, <1>9
  <2>2. QED
    BY <1>7, <2>1, CapacityBounds DEF Size
<1>15. v * Cardinality(S \ T) <= v * Cardinality(T \ S) /\ v * Cardinality(S \ T) \in Nat
       /\ v * Cardinality(T \ S) \in Nat
  BY <1>7, <1>11, <1>12, TimesFacts
<1>16. /\ Capacity(S, masks) = Capacity(S \cap T, masks) + Capacity(S \ T, masks)
       /\ Capacity(T, masks) = Capacity(S \cap T, masks) + Capacity(T \ S, masks)
       /\ Capacity(S \cap T, masks) \in Nat /\ Capacity(S \ T, masks) \in Nat
       /\ Capacity(T \ S, masks) \in Nat
  <2>1. T \in SUBSET EligibleDomains
    BY <1>7
  <2>2. S \ (S \cap T) = S \ T /\ T \ (S \cap T) = T \ S
    OBVIOUS
  <2>3. QED
    BY <2>1, <2>2, CapacityStep
<1>17. Capacity(S, masks) <= Capacity(T, masks)
  BY <1>13, <1>14, <1>15, <1>16
<1>18. QED
  BY <1>17 DEF T, q, R

\* The active domains are eligible, and as many as asked for unless there are fewer.
LEMMA SelectFacts ==
    ASSUME NEW masks \in MaskValue, NEW n \in Nat \ {0}
    PROVE  LET sel == select_active_domains(n, masks)
           IN  /\ sel \in Seq(EligibleDomains) /\ Len(sel) \in Nat \ {0}
               /\ n >= Len(Candidates(masks)) => ToSet(sel) = ToSet(Candidates(masks))
               /\ n < Len(Candidates(masks)) =>
                    /\ Len(sel) = n
                    /\ \/ Capacity(ToSet(sel), masks) >= Cardinality(Waiting(masks))
                       \/ \A S \in SUBSET EligibleDomains :
                            Cardinality(S) <= n => Capacity(S, masks) <= Capacity(ToSet(sel), masks)
<1> DEFINE q == Candidates(masks)
           len == Len(q)
           desired == Smaller(n, len)
           even == [i \in 1..desired |-> q[((i - 1) * len) \div desired + 1]]
           sel == select_active_domains(n, masks)
<1>1. PICK D \in SUBSET EligibleDomains :
        /\ D # {} /\ ToSet(q) = D /\ len = Cardinality(D) /\ len \in Nat \ {0}
        /\ q \in Seq(D) /\ q \in [1..len -> D]
        /\ \A d \in EligibleDomains \ D : domain_slot_cpus(d, masks) = {}
  BY CandidatesFacts
<1> DEFINE largest == Sorted(D, LargerFirst(D, masks))
           top == [i \in 1..desired |-> largest[i]]
<1>2. sel = IF desired = len \/ Capacity(ToSet(even), masks) >= Cardinality(Waiting(masks))
            THEN even ELSE top
  BY <1>1 DEF select_active_domains
<1> HIDE DEF q, len, sel
<1>3. desired \in 1..len /\ (n >= len => desired = len) /\ (n < len => desired = n)
  BY <1>1 DEF Smaller
<1> HIDE DEF desired
<1>4. even \in [1..desired -> D]
  <2> SUFFICES ASSUME NEW i \in 1..desired PROVE q[((i - 1) * len) \div desired + 1] \in D
    OBVIOUS
  <2>1. ((i - 1) * len) \div desired + 1 \in 1..len
    <3>1. desired \in Nat /\ len \in Nat /\ len > 0
      BY <1>1, <1>3
    <3>2. QED
      BY <3>1, EvenPlace
  <2>2. QED
    BY <1>1, <2>1
<1>5. top \in [1..desired -> D]
  <2>1. StrictOrder(LargerFirst(D, masks), D) /\ IsFiniteSet(D)
    BY LargerFirstOrder, Finite
  <2>2. largest \in [1..len -> D]
    BY <1>1, <2>1, SortedFacts
  <2> HIDE DEF largest
  <2>3. \A i \in 1..desired : i \in 1..len
    BY <1>1, <1>3
  <2>4. QED
    BY <2>2, <2>3
<1>6. ASSUME n >= len PROVE ToSet(sel) = ToSet(q)
  <2>1. desired = len
    BY <1>3, <1>6
  <2>2. sel = even
    BY <1>2, <2>1
  <2>3. \A i \in 1..len : even[i] = q[i]
    <3> SUFFICES ASSUME NEW i \in 1..len PROVE even[i] = q[i]
      OBVIOUS
    <3>1. ((i - 1) * len) \div desired + 1 = i
      BY <1>1, <1>3, <2>1, EvenPlace
    <3>2. even[i] = q[((i - 1) * len) \div desired + 1]
      BY <2>1
    <3>3. QED
      BY <3>1, <3>2
  <2>4. DOMAIN even = 1..len /\ DOMAIN q = 1..len
    BY <1>1, <2>1
  <2> HIDE DEF even
  <2>5. QED
    BY <2>2, <2>3, <2>4 DEF ToSet
<1>7. ASSUME n < len, ~(Capacity(ToSet(sel), masks) >= Cardinality(Waiting(masks))),
             NEW S \in SUBSET EligibleDomains, Cardinality(S) <= n
      PROVE  Capacity(S, masks) <= Capacity(ToSet(sel), masks)
  <2>1. desired = n /\ n # len /\ n \in 1..len
    BY <1>1, <1>3, <1>7
  <2> HIDE DEF even, top
  <2>2. sel = top
    BY <1>2, <1>7, <2>1
  <2>3. ToSet(top) = {largest[i] : i \in 1..n}
    BY <2>1 DEF top, ToSet
  <2>4. Capacity(S, masks) <= Capacity({largest[i] : i \in 1..n}, masks)
    BY <1>1, <1>7, <2>1, LargestEnough
  <2>5. QED
    BY <2>2, <2>3, <2>4
<1>8. sel \in Seq(EligibleDomains) /\ Len(sel) = desired
  <2> HIDE DEF even, top
  <2>1. sel \in [1..desired -> D]
    BY <1>2, <1>4, <1>5
  <2>2. desired \in Nat
    BY <1>1, <1>3
  <2>3. sel \in Seq(D) /\ Len(sel) = desired
    BY <2>1, <2>2
  <2>4. QED
    BY <2>3
<1>9. desired \in Nat \ {0}
  BY <1>1, <1>3
<1> HIDE DEF even, top
<1>10. QED
  BY <1>3, <1>6, <1>7, <1>8, <1>9 DEF q, len, sel

\* With a spread of what the waiting threads need, or all that is permitted, the
\* selection has a CPU for each, unless no more domains may be or are usable.
LEMMA SelectionEnough ==
    ASSUME NEW masks \in MaskValue, NEW n \in Nat \ {0},
           n = effective_max_domains \/ n >= min_domains_for_runnable_load(masks)
    PROVE  LET sel == select_active_domains(n, masks)
           IN  \/ Capacity(ToSet(sel), masks) >= Cardinality(Waiting(masks))
               \/ ToSet(sel) = ToSet(Candidates(masks))
               \/ Len(sel) = effective_max_domains
<1> DEFINE sel == select_active_domains(n, masks)
           len == Len(Candidates(masks))
           need == Cardinality(Waiting(masks))
           enough == {S \in SUBSET EligibleDomains : Capacity(S, masks) >= need}
<1>1. len \in Nat
  BY CandidatesFacts
<1>2. CASE n >= len
  BY <1>2, SelectFacts
<1>3. CASE n < len /\ n = effective_max_domains
  BY <1>3, SelectFacts
<1>4. CASE n < len /\ n >= min_domains_for_runnable_load(masks)
  <2>1. len <= Cardinality(EligibleDomains) /\ Cardinality(EligibleDomains) \in Nat
    <3>1. PICK D \in SUBSET EligibleDomains : len = Cardinality(D)
      BY CandidatesFacts
    <3>2. QED
      BY <3>1, Finite, FS_Subset
  <2>2. min_domains_for_runnable_load(masks) =
          IF enough = {} THEN Cardinality(EligibleDomains) ELSE Min({Cardinality(S) : S \in enough})
    BY DEF min_domains_for_runnable_load
  <2> DEFINE sizes == {Cardinality(S) : S \in enough}
  <2>3. enough # {}
    BY <1>1, <1>4, <2>1, <2>2
  <2>4. sizes \in SUBSET Nat /\ sizes # {}
    BY <2>3, Finite
  <2>5. Min(sizes) \in sizes
    BY <2>4, MinIn
  <2>6. PICK S \in enough : Cardinality(S) = Min(sizes)
    BY <2>5
  <2>7. Cardinality(S) <= n
    BY <1>4, <2>2, <2>3, <2>6
  <2>8. Capacity(S, masks) >= need /\ Capacity(S, masks) \in Nat /\ S \in SUBSET EligibleDomains
    BY CapacityStep
  <2>9. need \in Nat
    BY Finite DEF Waiting
  <2>10. Capacity(ToSet(sel), masks) \in Nat
    <3>1. sel \in Seq(EligibleDomains)
      BY SelectFacts
    <3>2. ToSet(sel) \in SUBSET EligibleDomains
      BY <3>1 DEF ToSet
    <3>3. QED
      BY <3>2, CapacityStep
  <2>11. Capacity(ToSet(sel), masks) >= need \/ Capacity(S, masks) <= Capacity(ToSet(sel), masks)
    BY <1>4, <2>7, <2>8, SelectFacts
  <2> HIDE DEF need, enough, sizes, sel
  <2>12. Capacity(ToSet(sel), masks) >= need
    BY <2>8, <2>9, <2>10, <2>11
  <2>13. QED
    BY <2>12 DEF sel, need
<1>5. QED
  BY <1>1, <1>2, <1>3, <1>4

-----------------------------------------------------------------------------
(* The targets.                                                            *)

\* Each value of f is what H makes of the set of the values before.
Follows(f, before, H, n) ==
    \A i \in 1..n : /\ f[i] = H[i][before[i]]
                   /\ \A v : v \in before[i] <=> \E j \in 1..(i - 1) : v = f[j]

\* A function can be defined by giving each value from the set of the values before.
LEMMA Recursion ==
    ASSUME NEW n \in Nat, NEW V, NEW H \in [1..n -> [SUBSET V -> V]]
    PROVE  \E f \in [1..n -> V], before \in [1..n -> SUBSET V] : Follows(f, before, H, n)
<1> DEFINE Solves(f, m) == /\ f \in [1..m -> V]
                           /\ \A i \in 1..m : f[i] = H[i][{f[j] : j \in 1..(i - 1)}]
           Bad == {m \in 0..n : ~ \E f : Solves(f, m)}
<1>1. SUFFICES ASSUME Bad # {} PROVE FALSE
  <2>1. n \in 0..n
    OBVIOUS
  <2>2. CASE Bad = {}
    <3>1. PICK f : Solves(f, n)
      BY <2>1, <2>2
    <3> DEFINE before == [i \in 1..n |-> {f[j] : j \in 1..(i - 1)}]
    <3>2. \A i \in 1..n : \A j \in 1..(i - 1) : j \in 1..n
      OBVIOUS
    <3>3. before \in [1..n -> SUBSET V]
      BY <3>1, <3>2
    <3>4. ASSUME NEW i \in 1..n
          PROVE  /\ f[i] = H[i][before[i]]
                 /\ \A v : v \in before[i] <=> \E j \in 1..(i - 1) : v = f[j]
      BY <3>1
    <3> HIDE DEF before
    <3>5. Follows(f, before, H, n)
      BY <3>4 DEF Follows
    <3>6. f \in [1..n -> V]
      BY <3>1
    <3>7. QED
      BY <3>3, <3>5, <3>6
  <2>3. QED
    BY <1>1, <2>2
<1>2. Bad \in SUBSET Nat
  OBVIOUS
<1>3. Min(Bad) \in Bad /\ \A y \in Bad : Min(Bad) <= y
  <2> HIDE DEF Bad
  <2>1. QED
    BY <1>1, <1>2, MinIn
<1> DEFINE m == Min(Bad)
<1>4. m \in 0..n /\ ~ \E f : Solves(f, m)
  BY <1>3
<1> HIDE DEF m
<1>5. m # 0
  <2> DEFINE f == [i \in 1..0 |-> CHOOSE v \in V : TRUE]
  <2>1. 1..0 = {}
    OBVIOUS
  <2>2. Solves(f, 0)
    BY <2>1
  <2> HIDE DEF f, Solves
  <2>3. QED
    BY <1>4, <2>2
<1>6. m - 1 \in 0..n /\ m \in 1..n
  BY <1>4, <1>5
<1>7. m - 1 \notin Bad
  <2>1. m - 1 \in Bad => m <= m - 1
    BY <1>3 DEF m
  <2> HIDE DEF Bad
  <2>2. QED
    BY <1>4, <2>1
<1>8. PICK f : Solves(f, m - 1)
  BY <1>6, <1>7
<1> DEFINE last == H[m][{f[j] : j \in 1..(m - 1)}]
           g == [i \in 1..m |-> IF i = m THEN last ELSE f[i]]
<1>9. \A i \in 1..m : i # m => i \in 1..(m - 1)
  BY <1>4
<1>10. \A i \in 1..m : {g[j] : j \in 1..(i - 1)} = {f[j] : j \in 1..(i - 1)}
  <2> SUFFICES ASSUME NEW i \in 1..m
               PROVE  \A j \in 1..(i - 1) : g[j] = f[j]
    <3> HIDE DEF g
    <3>1. QED
      OBVIOUS
  <2>1. \A j \in 1..(i - 1) : j \in 1..m /\ j # m
    BY <1>4
  <2>2. QED
    BY <2>1
<1>11. last \in V
  <2>1. {f[j] : j \in 1..(m - 1)} \in SUBSET V
    BY <1>8
  <2> HIDE DEF Solves
  <2>2. QED
    BY <1>6, <2>1
<1>12. g \in [1..m -> V]
  <2> HIDE DEF last
  <2>1. \A i \in 1..m : (IF i = m THEN last ELSE f[i]) \in V
    BY <1>8, <1>9, <1>11
  <2>2. QED
    BY <2>1
<1>13. \A i \in 1..m : g[i] = H[i][{f[j] : j \in 1..(i - 1)}]
  <2> SUFFICES ASSUME NEW i \in 1..m PROVE g[i] = H[i][{f[j] : j \in 1..(i - 1)}]
    OBVIOUS
  <2>1. CASE i = m
    BY <2>1
  <2>2. CASE i # m
    <3>1. g[i] = f[i] /\ i \in 1..(m - 1)
      BY <1>9, <2>2
    <3>2. f[i] = H[i][{f[j] : j \in 1..(i - 1)}]
      BY <1>8, <3>1
    <3>3. QED
      BY <3>1, <3>2
  <2>3. QED
    BY <2>1, <2>2
<1> HIDE DEF g
<1>14. Solves(g, m)
  BY <1>10, <1>12, <1>13
<1>15. QED
  BY <1>4, <1>14

\* The order of the waiting threads is strict if their ranks differ.
RanksDiffer(masks, ranks) ==
    /\ \A t \in Waiting(masks) : ranks[t] \in Nat
    /\ \A t, u \in Waiting(masks) : ranks[t] = ranks[u] => t = u

\* Each waiting thread then has one place in the plan.
LEMMA RankedFacts ==
    ASSUME NEW masks \in MaskValue, NEW ranks, RanksDiffer(masks, ranks)
    PROVE  LET q == ranked_tids_for_plan(masks, ranks)
           IN  /\ q \in [1..Len(q) -> Waiting(masks)] /\ Len(q) \in Nat
               /\ \A t \in Waiting(masks) : \E i \in 1..Len(q) : q[i] = t
               /\ \A i, j \in 1..Len(q) : q[i] = q[j] => i = j
<1> DEFINE T == Waiting(masks)
           size == [t \in T |-> Cardinality(masks[t])]
           R == Narrower(masks, ranks)
<1>1. T \in SUBSET Tids /\ IsFiniteSet(T) /\ Cardinality(T) \in Nat
  BY Finite DEF Waiting
<1>2. \A t \in T : size[t] \in Nat
  <2> SUFFICES ASSUME NEW t \in T PROVE Cardinality(masks[t]) \in Nat
    OBVIOUS
  <2>1. masks[t] \in SUBSET Cpus
    BY <1>1 DEF MaskValue
  <2>2. QED
    BY <2>1, Finite
<1>3. \A x, y \in T : <<x, y>> \in R <=> size[x] < size[y] \/ (size[x] = size[y] /\ ranks[x] < ranks[y])
  BY DEF Narrower
<1>4. /\ \A t \in T : ranks[t] \in Nat
      /\ \A t, u \in T : ranks[t] = ranks[u] => t = u
  BY DEF RanksDiffer
<1> HIDE DEF size, R, T
<1>5. StrictOrder(R, T)
  <2>1. \A x \in T : <<x, x>> \notin R
    BY <1>2, <1>3, <1>4
  <2>2. ASSUME NEW x \in T, NEW y \in T, x # y PROVE <<x, y>> \in R \/ <<y, x>> \in R
    <3>1. ranks[x] # ranks[y] /\ ranks[x] \in Nat /\ ranks[y] \in Nat
      BY <1>4, <2>2
    <3>2. size[x] \in Nat /\ size[y] \in Nat
      BY <1>2
    <3>3. QED
      BY <1>3, <3>1, <3>2
  <2>3. ASSUME NEW x \in T, NEW y \in T, NEW z \in T, <<x, y>> \in R, <<y, z>> \in R
        PROVE  <<x, z>> \in R
    <3>1. /\ ranks[x] \in Nat /\ ranks[y] \in Nat /\ ranks[z] \in Nat
          /\ size[x] \in Nat /\ size[y] \in Nat /\ size[z] \in Nat
      BY <1>2, <1>4
    <3>2. QED
      BY <1>3, <2>3, <3>1
  <2>4. QED
    BY <2>1, <2>2, <2>3 DEF StrictOrder
<1>6. ranked_tids_for_plan(masks, ranks) = Sorted(T, R)
  BY DEF ranked_tids_for_plan, T, R
<1>7. /\ Sorted(T, R) \in [1..Cardinality(T) -> T] /\ Len(Sorted(T, R)) = Cardinality(T)
      /\ \A x \in T : \E i \in 1..Cardinality(T) : Sorted(T, R)[i] = x
      /\ \A i, j \in 1..Cardinality(T) : Sorted(T, R)[i] = Sorted(T, R)[j] => i = j
  BY <1>1, <1>5, SortedFacts
<1>8. QED
  BY <1>1, <1>6, <1>7 DEF T

\* A target domain is an active one in which the mask of the thread allows a CPU.
LEMMA TargetFacts ==
    ASSUME NEW masks \in MaskValue, NEW domains \in Seq(EligibleDomains), Len(domains) \in Nat \ {0},
           NEW ranks, \A t \in Waiting(masks) : ranks[t] \in Nat
    PROVE  LET dom == TargetDomains(domains, masks, ranks)
           IN  /\ dom \in [Tids -> EligibleDomains \cup {NoDomain}]
               /\ \A t \in Tids : dom[t] # NoDomain =>
                    t \in Waiting(masks) /\ InDomain(masks[t], dom[t]) # {}
<1> DEFINE At(t, k) == domains[((ranks[t] + k) % Len(domains)) + 1]
           Fits(t) == {k \in 0..(Len(domains) - 1) : InDomain(masks[t], At(t, k)) # {}}
           dom == TargetDomains(domains, masks, ranks)
<1>1. dom = [t \in Tids |-> IF Fits(t) = {} THEN NoDomain ELSE At(t, Min(Fits(t)))]
  BY DEF TargetDomains
<1>2. ASSUME NEW t \in Tids, Fits(t) # {}
      PROVE  /\ t \in Waiting(masks) /\ At(t, Min(Fits(t))) \in EligibleDomains
             /\ InDomain(masks[t], At(t, Min(Fits(t)))) # {}
  <2>1. Fits(t) \in SUBSET Nat
    OBVIOUS
  <2>2. Min(Fits(t)) \in Fits(t)
    <3> HIDE DEF Fits
    <3>1. QED
      BY <1>2, <2>1, MinIn
  <2> DEFINE k == Min(Fits(t))
  <2>3. k \in Nat /\ InDomain(masks[t], At(t, k)) # {}
    <3>1. \A j \in Fits(t) : j \in Nat /\ InDomain(masks[t], At(t, j)) # {}
      <4> HIDE DEF At
      <4>1. QED
        OBVIOUS
    <3> HIDE DEF Fits, At
    <3>2. QED
      BY <2>2, <3>1
  <2> HIDE DEF k
  <2>4. masks[t] # {}
    <3> HIDE DEF At
    <3>1. \A e : InDomain({}, e) = {}
      BY DEF InDomain
    <3>2. QED
      BY <2>3, <3>1
  <2>5. t \in Waiting(masks)
    BY <2>4 DEF Waiting
  <2>6. ranks[t] + k \in Nat
    BY <2>3, <2>5
  <2>7. (ranks[t] + k) % Len(domains) \in 0..(Len(domains) - 1)
    BY <2>6, DivMod
  <2> DEFINE p == (ranks[t] + k) % Len(domains)
  <2>8. p + 1 \in 1..Len(domains)
    <3>1. p \in 0..(Len(domains) - 1)
      BY <2>7
    <3> HIDE DEF p
    <3>2. QED
      BY <3>1
  <2>9. At(t, k) \in EligibleDomains
    <3> HIDE DEF p
    <3>1. domains[p + 1] \in EligibleDomains
      BY <2>8
    <3>2. QED
      BY <3>1 DEF p
  <2> HIDE DEF At
  <2>10. QED
    BY <2>3, <2>5, <2>9 DEF k
<1> HIDE DEF Fits, At
<1>3. dom \in [Tids -> EligibleDomains \cup {NoDomain}]
  BY <1>1, <1>2
<1>4. ASSUME NEW t \in Tids, dom[t] # NoDomain
      PROVE  t \in Waiting(masks) /\ InDomain(masks[t], dom[t]) # {}
  <2>1. Fits(t) # {} /\ dom[t] = At(t, Min(Fits(t)))
    BY <1>1, <1>4
  <2>2. QED
    BY <1>2, <2>1
<1>5. QED
  BY <1>3, <1>4

\* A slot is one of the CPUs the mask allows, and a used one only if all these are.
LEMMA SlotFromFacts ==
    ASSUME NEW X \in SUBSET Cpus, NEW mask \in SUBSET Cpus, NEW cursor \in Nat, NEW used,
           X \cap mask # {}
    PROVE  LET c == SlotFrom(Ascending(X), cursor, mask, used)
           IN  c \in X \cap mask /\ (c \in used => X \cap mask \subseteq used)
<1> DEFINE slots == Ascending(X)
           n == Len(slots)
           At(k) == slots[((cursor + k) % n) + 1]
           fit == {k \in 0..(n - 1) : At(k) \in mask}
           fresh == {k \in fit : At(k) \notin used}
           pick == IF fresh # {} THEN fresh ELSE fit
<1>1. SlotFrom(Ascending(X), cursor, mask, used) = At(Min(pick))
  BY DEF SlotFrom
<1>2. IsFiniteSet(X) /\ X \in SUBSET Nat /\ Cardinality(X) \in Nat \ {0}
  <2>1. IsFiniteSet(X) /\ X \in SUBSET Nat /\ Cardinality(X) \in Nat
    BY Finite
  <2>2. QED
    BY <2>1, FS_EmptySet
<1>3. /\ slots \in [1..n -> X] /\ n \in Nat \ {0}
      /\ \A x \in X : \E i \in 1..n : slots[i] = x
  BY <1>2, AscendingFacts
<1> HIDE DEF slots, n
<1>4. ASSUME NEW k \in 0..(n - 1) PROVE At(k) \in X
  <2> DEFINE p == (cursor + k) % n
  <2>1. cursor + k \in Nat
    BY <1>3
  <2>2. p \in 0..(n - 1)
    BY <1>3, <2>1, DivMod
  <2> HIDE DEF p
  <2>3. p + 1 \in 1..n
    BY <1>3, <2>2
  <2>4. slots[p + 1] \in X
    BY <1>3, <2>3
  <2>5. QED
    BY <2>4 DEF p
<1>5. ASSUME NEW c \in X PROVE \E k \in 0..(n - 1) : At(k) = c
  <2>1. PICK i \in 1..n : slots[i] = c
    BY <1>3
  <2>2. i - 1 \in 0..(n - 1)
    BY <1>3
  <2>3. PICK k \in 0..(n - 1) : (cursor + k) % n = i - 1
    BY <1>3, <2>2, RoundAll
  <2>4. ((cursor + k) % n) + 1 = i
    BY <1>3, <2>3
  <2>5. At(k) = c
    BY <2>1, <2>4
  <2>6. QED
    BY <2>5
<1> HIDE DEF At
<1>6. fit # {}
  BY <1>5
<1>7. pick \in SUBSET fit /\ pick # {} /\ fit \in SUBSET Nat
  BY <1>3, <1>6
<1>8. Min(pick) \in pick
  <2> HIDE DEF pick, fit
  <2>1. QED
    BY <1>7, MinIn
<1>9. At(Min(pick)) \in X \cap mask
  BY <1>4, <1>7, <1>8
<1>10. ASSUME At(Min(pick)) \in used PROVE X \cap mask \subseteq used
  <2>1. fresh = {}
    BY <1>8, <1>10
  <2>2. QED
    BY <1>5, <2>1
<1>11. QED
  BY <1>1, <1>9, <1>10

\* Threads of a plan share a CPU only where the later one finds every CPU its mask
\* allows in the domain taken.
PlanShares(masks, ranks, cpu) ==
    LET tids == ranked_tids_for_plan(masks, ranks)
    IN  \A i, j \in 1..Len(tids) :
          LET c == cpu[tids[j]]
          IN  i < j /\ c # NoCpu /\ cpu[tids[i]] = c
                => InDomain(masks[tids[j]], DomainOf[c]) \subseteq {cpu[t] : t \in Tids}

\* What build_target_plan promises.
LEMMA PlanFacts ==
    ASSUME NEW masks \in MaskValue, NEW domains \in Seq(EligibleDomains), Len(domains) \in Nat \ {0},
           NEW ranks, RanksDiffer(masks, ranks)
    PROVE  LET plan == build_target_plan(domains, masks, ranks)
           IN  /\ plan.dom \in [Tids -> Domains \cup {NoDomain}]
               /\ plan.cpu \in [Tids -> Cpus \cup {NoCpu}]
               /\ PlanShares(masks, ranks, plan.cpu)
<1> DEFINE dom == TargetDomains(domains, masks, ranks)
           tids == ranked_tids_for_plan(masks, ranks)
           n == Len(tids)
           V == Cpus \cup {NoCpu}
           Cursor(i) == Cardinality({j \in 1..(i - 1) : dom[tids[j]] = dom[tids[i]]})
           X(i) == domain_slot_cpus(dom[tids[i]], masks)
           Give(i, used) == IF dom[tids[i]] = NoDomain THEN NoCpu
                            ELSE SlotFrom(Ascending(X(i)), Cursor(i), masks[tids[i]], used)
           Solves(f) == f = [i \in 1..n |-> Give(i, {f[j] : j \in 1..(i - 1)})]
           cpu == CHOOSE f : Solves(f)
           given == [t \in Tids |-> IF t \in Waiting(masks)
                                    THEN cpu[CHOOSE i \in 1..n : tids[i] = t] ELSE NoCpu]
           plan == build_target_plan(domains, masks, ranks)
<1>1. plan = [dom |-> dom, cpu |-> given]
  BY DEF build_target_plan
<1>2. /\ dom \in [Tids -> EligibleDomains \cup {NoDomain}]
      /\ \A t \in Tids : dom[t] # NoDomain => t \in Waiting(masks) /\ InDomain(masks[t], dom[t]) # {}
  BY TargetFacts DEF RanksDiffer
<1>3. /\ tids \in [1..n -> Waiting(masks)] /\ n \in Nat
      /\ \A t \in Waiting(masks) : \E i \in 1..n : tids[i] = t
      /\ \A i, j \in 1..n : tids[i] = tids[j] => i = j
  BY RankedFacts
<1> HIDE DEF dom, tids, n, plan
<1>4. \A i \in 1..n : tids[i] \in Waiting(masks) /\ tids[i] \in Tids
  BY <1>3 DEF Waiting
<1>5. \A i \in 1..n : Cursor(i) \in Nat
  <2> SUFFICES ASSUME NEW i \in 1..n PROVE Cursor(i) \in Nat
    OBVIOUS
  <2>1. IsFiniteSet(1..(i - 1))
    <3>1. i - 1 \in Int /\ 1 \in Int
      BY <1>3
    <3>2. QED
      BY <3>1, FS_Interval
  <2>2. QED
    BY <2>1, FS_Subset, FS_CardinalityType
<1> HIDE DEF Cursor
<1>6. ASSUME NEW i \in 1..n, NEW used
      PROVE  LET c == Give(i, used)
             IN  /\ c \in V
                 /\ c # NoCpu => /\ DomainOf[c] = dom[tids[i]]
                                 /\ c \in used => InDomain(masks[tids[i]], DomainOf[c]) \subseteq used
  <2> DEFINE d == dom[tids[i]]
             mask == masks[tids[i]]
  <2>1. CASE d = NoDomain
    BY <2>1
  <2>2. CASE d # NoDomain
    <3>1. X(i) \in SUBSET Cpus /\ mask \in SUBSET Cpus /\ InDomain(mask, d) \in SUBSET X(i)
      BY <1>4, SlotFacts DEF MaskValue
    <3>2. InDomain(mask, d) # {} /\ InDomain(mask, d) \in SUBSET mask
      BY <1>2, <1>4, <2>2 DEF InDomain
    <3>3. \A c \in X(i) : DomainOf[c] = d
      BY SlotFacts
    <3>4. Give(i, used) = SlotFrom(Ascending(X(i)), Cursor(i), mask, used)
      BY <2>2
    <3> HIDE DEF X, d, mask, Give
    <3>5. X(i) \cap mask # {}
      BY <3>1, <3>2
    <3>6. /\ Give(i, used) \in X(i) \cap mask
          /\ Give(i, used) \in used => X(i) \cap mask \subseteq used
      BY <1>5, <3>1, <3>4, <3>5, SlotFromFacts
    <3>7. Give(i, used) \in Cpus /\ DomainOf[Give(i, used)] = d
      BY <3>1, <3>3, <3>6
    <3>8. QED
      BY <3>1, <3>2, <3>6, <3>7 DEF d, mask
  <2>3. QED
    BY <2>1, <2>2
<1> HIDE DEF Give
<1>7. \E f : Solves(f)
  <2> DEFINE H == [i \in 1..n |-> [U \in SUBSET V |-> Give(i, U)]]
  <2>1. H \in [1..n -> [SUBSET V -> V]]
    BY <1>6
  <2>2. \A i \in 1..n, U \in SUBSET V : H[i][U] = Give(i, U)
    OBVIOUS
  <2> HIDE DEF H, V
  <2>3. PICK f \in [1..n -> V], before \in [1..n -> SUBSET V] : Follows(f, before, H, n)
    BY <1>3, <2>1, Recursion
  <2>4. ASSUME NEW i \in 1..n PROVE f[i] = Give(i, {f[j] : j \in 1..(i - 1)})
    <3>1. before[i] = {f[j] : j \in 1..(i - 1)}
      BY <2>3 DEF Follows
    <3>2. f[i] = Give(i, before[i])
      BY <2>2, <2>3 DEF Follows
    <3>3. QED
      BY <3>1, <3>2
  <2>5. f = [i \in 1..n |-> Give(i, {f[j] : j \in 1..(i - 1)})]
    BY <2>3, <2>4
  <2>6. QED
    BY <2>5
<1>8. Solves(cpu)
  BY <1>7
<1> HIDE DEF cpu
<1>9. \A i \in 1..n : cpu[i] = Give(i, {cpu[j] : j \in 1..(i - 1)})
  BY <1>8
<1>10. ASSUME NEW i \in 1..n PROVE cpu[i] \in V
  <2> DEFINE used == {cpu[j] : j \in 1..(i - 1)}
  <2>1. cpu[i] = Give(i, used)
    BY <1>9
  <2> HIDE DEF used, V
  <2>2. Give(i, used) \in V
    BY <1>6
  <2>3. QED
    BY <2>1, <2>2
<1>11. \A i \in 1..n : given[tids[i]] = cpu[i]
  <2> SUFFICES ASSUME NEW i \in 1..n PROVE given[tids[i]] = cpu[i]
    OBVIOUS
  <2>1. (CHOOSE k \in 1..n : tids[k] = tids[i]) = i
    BY <1>3
  <2>2. given[tids[i]] = cpu[CHOOSE k \in 1..n : tids[k] = tids[i]]
    BY <1>4
  <2>3. QED
    BY <2>1, <2>2
<1>12. given \in [Tids -> V]
  <2> SUFFICES ASSUME NEW t \in Waiting(masks) PROVE cpu[CHOOSE i \in 1..n : tids[i] = t] \in V
    BY DEF Waiting
  <2>1. (CHOOSE i \in 1..n : tids[i] = t) \in 1..n
    BY <1>3
  <2>2. QED
    BY <1>10, <2>1
<1> HIDE DEF given, V
<1>13. ASSUME NEW i \in 1..n, NEW j \in 1..n, i < j, given[tids[j]] # NoCpu,
              given[tids[i]] = given[tids[j]]
       PROVE  InDomain(masks[tids[j]], DomainOf[given[tids[j]]]) \subseteq {given[t] : t \in Tids}
  <2> DEFINE used == {cpu[k] : k \in 1..(j - 1)}
             c == given[tids[j]]
  <2>1. i \in 1..(j - 1) /\ \A k \in 1..(j - 1) : k \in 1..n
    BY <1>3, <1>13
  <2>2. c = Give(j, used) /\ c # NoCpu /\ c = cpu[i]
    BY <1>9, <1>11, <1>13
  <2>3. c \in used
    BY <2>1, <2>2
  <2>4. used \subseteq {given[t] : t \in Tids}
    BY <1>4, <1>11, <2>1
  <2> HIDE DEF used, c
  <2>5. InDomain(masks[tids[j]], DomainOf[c]) \subseteq used
    <3>1. LET e == Give(j, used)
          IN  e # NoCpu /\ e \in used => InDomain(masks[tids[j]], DomainOf[e]) \subseteq used
      BY <1>6, Zenon
    <3>2. QED
      BY <2>2, <2>3, <3>1
  <2>6. QED
    BY <2>4, <2>5 DEF c
<1>14. PlanShares(masks, ranks, given)
  BY <1>13 DEF PlanShares, tids, n
<1>15. dom \in [Tids -> Domains \cup {NoDomain}]
  BY <1>2, ArcasAssumption
<1>16. plan.dom = dom /\ plan.cpu = given
  BY <1>1
<1>17. QED
  BY <1>12, <1>14, <1>15, <1>16 DEF plan, V

-----------------------------------------------------------------------------
(* The invariant.                                                          *)

\* Ranks are given out once, in order.
RankOnce ==
    /\ \A t \in Tids : rank[t] # NoRank => rank[t] < nextRank
    /\ \A t, u \in Tids : rank[t] = rank[u] /\ rank[t] # NoRank => t = u

\* Some domain is always active, and nothing has been sent when a pass begins.
ArcasInv ==
    /\ TypeOK
    /\ RankOnce
    /\ active # <<>>
    /\ phase = "drain" => sent = {}

\* The number of domains that the waiting threads need.
LEMMA FloorNat ==
    ASSUME NEW masks \in MaskValue
    PROVE  min_domains_for_runnable_load(masks) \in Nat
<1> DEFINE enough == {S \in SUBSET EligibleDomains : Capacity(S, masks) >= Cardinality(Waiting(masks))}
           sizes == {Cardinality(S) : S \in enough}
<1>1. min_domains_for_runnable_load(masks) =
        IF enough = {} THEN Cardinality(EligibleDomains) ELSE Min(sizes)
  BY DEF min_domains_for_runnable_load
<1>2. sizes \in SUBSET Nat
  BY Finite
<1>3. CASE enough = {}
  BY <1>1, <1>3, Finite
<1>4. CASE enough # {}
  <2>1. sizes # {}
    BY <1>4
  <2> HIDE DEF sizes, enough
  <2>2. Min(sizes) \in Nat
    BY <1>2, <2>1, MinIn
  <2>3. QED
    BY <1>1, <1>4, <2>2
<1>5. QED
  BY <1>3, <1>4

\* New threads get the next ranks, in the order of their numbers, each its own.
LEMMA NewRanks ==
    ASSUME NEW new \in SUBSET Tids
    PROVE  LET place == [t \in new |-> Cardinality({u \in new : u < t})]
           IN  /\ \A t \in new : place[t] \in Nat /\ place[t] < Cardinality(new)
               /\ \A t, u \in new : place[t] = place[u] => t = u
<1> DEFINE Low(t) == {u \in new : u < t}
           place == [t \in new |-> Cardinality(Low(t))]
<1>1. IsFiniteSet(new) /\ Cardinality(new) \in Nat /\ new \in SUBSET Nat
  BY Finite
<1>2. ASSUME NEW t \in new
      PROVE  IsFiniteSet(Low(t)) /\ Cardinality(Low(t)) \in Nat /\ t \notin Low(t) /\ Low(t) \in SUBSET new
  <2>1. Low(t) \in SUBSET new /\ t \notin Low(t)
    BY <1>1
  <2>2. QED
    BY <1>1, <2>1, FS_Subset, FS_CardinalityType
<1>3. ASSUME NEW t \in new PROVE Cardinality(Low(t) \cup {t}) = Cardinality(Low(t)) + 1
  <2> HIDE DEF Low
  <2>1. QED
    BY <1>2, FS_AddElement
<1>4. ASSUME NEW t \in new PROVE Cardinality(Low(t)) < Cardinality(new)
  <2>1. Low(t) \cup {t} \in SUBSET new
    OBVIOUS
  <2> HIDE DEF Low
  <2>2. Cardinality(Low(t) \cup {t}) <= Cardinality(new)
    BY <1>1, <2>1, FS_Subset
  <2>3. QED
    BY <1>1, <1>2, <1>3, <2>2
<1>5. ASSUME NEW t \in new, NEW u \in new, t < u PROVE Cardinality(Low(t)) < Cardinality(Low(u))
  <2>1. Low(t) \cup {t} \in SUBSET Low(u)
    <3>1. \A v \in new : v < t => v < u
      BY <1>1, <1>5
    <3>2. QED
      BY <1>5, <3>1
  <2> HIDE DEF Low
  <2>2. Cardinality(Low(t) \cup {t}) <= Cardinality(Low(u))
    BY <1>2, <2>1, FS_Subset
  <2>3. Cardinality(Low(t)) \in Nat /\ Cardinality(Low(u)) \in Nat
    BY <1>2
  <2>4. QED
    BY <1>3, <2>2, <2>3
<1>6. \A t \in new : place[t] = Cardinality(Low(t)) /\ place[t] \in Nat /\ place[t] < Cardinality(new)
  BY <1>2, <1>4
<1>7. \A t, u \in new : t < u => place[t] < place[u]
  BY <1>5
<1> HIDE DEF Low, place
<1>8. ASSUME NEW t \in new, NEW u \in new, place[t] = place[u] PROVE t = u
  <2>1. t \in Nat /\ u \in Nat /\ place[t] \in Nat /\ place[u] \in Nat
    BY <1>1, <1>6
  <2>2. ~(t < u) /\ ~(u < t)
    BY <1>7, <1>8, <2>1
  <2>3. QED
    BY <2>1, <2>2
<1>9. QED
  BY <1>6, <1>8 DEF place, Low

\* Ranks stay distinct when a pass forgets some and gives out new ones.
LEMMA RanksFacts ==
    ASSUME ArcasInv, NEW masks \in MaskValue, maybe_rebalance(masks)
    PROVE  /\ rank' \in [Tids -> 0..MaxRank \cup {NoRank}] /\ nextRank' \in Nat
           /\ RankOnce' /\ RanksDiffer(masks, rank')
<1> DEFINE new == {t \in Waiting(masks) : rank[t] = NoRank}
           place == [t \in new |-> Cardinality({u \in new : u < t})]
           n == Cardinality(new)
<1>1. rank' = [t \in Tids |-> IF t \notin Waiting(masks) THEN NoRank
                              ELSE IF t \in new THEN nextRank + place[t] ELSE rank[t]]
  <2>1. \A t \in new : place[t] = Cardinality({u \in new : u < t})
    OBVIOUS
  <2>2. rank' = [t \in Tids |-> IF t \notin Waiting(masks) THEN NoRank
                                ELSE IF t \in new THEN nextRank + Cardinality({u \in new : u < t})
                                ELSE rank[t]]
    BY DEF maybe_rebalance
  <2> HIDE DEF new, place
  <2>3. QED
    BY <2>1, <2>2
<1>2. nextRank' = nextRank + n /\ nextRank' <= MaxRank
  BY DEF maybe_rebalance
<1>3. new \in SUBSET Tids /\ Waiting(masks) \in SUBSET Tids
      /\ \A t \in Waiting(masks) : t \notin new => rank[t] # NoRank
  BY DEF Waiting
<1>4. \A t \in new : place[t] \in Nat /\ place[t] < n
  BY <1>3, NewRanks
<1>5. \A t, u \in new : place[t] = place[u] => t = u
  BY <1>3, NewRanks
<1>6. n \in Nat /\ nextRank \in Nat /\ MaxRank \in Nat
  BY <1>3, Finite, ArcasAssumption DEF ArcasInv, TypeOK
<1>7. \A t \in Tids : rank[t] # NoRank => rank[t] \in Nat /\ rank[t] < nextRank
  BY DEF ArcasInv, TypeOK, RankOnce
<1>8. \A t, u \in Tids : rank[t] = rank[u] /\ rank[t] # NoRank => t = u
  BY DEF ArcasInv, RankOnce
<1> HIDE DEF new, place, n
<1>9. ASSUME NEW t \in Tids, rank'[t] # NoRank
      PROVE  rank'[t] \in Nat /\ rank'[t] < nextRank' /\ t \in Waiting(masks)
  <2>1. CASE t \in new
    <3>1. rank'[t] = nextRank + place[t] /\ t \in Waiting(masks)
      BY <1>1, <1>9, <2>1
    <3>2. QED
      BY <1>2, <1>4, <1>6, <2>1, <3>1
  <2>2. CASE t \notin new
    <3>1. rank'[t] = rank[t] /\ t \in Waiting(masks)
      BY <1>1, <1>9, <2>2
    <3>2. QED
      BY <1>2, <1>6, <1>7, <1>9, <3>1
  <2>3. QED
    BY <2>1, <2>2
<1>10. ASSUME NEW t \in Waiting(masks) PROVE rank'[t] # NoRank /\ t \in Tids
  <2>1. t \in Tids
    BY <1>3
  <2>2. CASE t \in new
    <3>1. rank'[t] = nextRank + place[t]
      BY <1>1, <2>1, <2>2
    <3>2. QED
      BY <1>4, <1>6, <2>1, <2>2, <3>1 DEF NoRank
  <2>3. CASE t \notin new
    BY <1>1, <1>3, <2>1, <2>3
  <2>4. QED
    BY <2>1, <2>2, <2>3
<1>11. ASSUME NEW t \in Tids, NEW u \in Tids, rank'[t] = rank'[u], rank'[t] # NoRank PROVE t = u
  <2>1. t \in Waiting(masks) /\ u \in Waiting(masks)
    BY <1>9, <1>11
  <2>2. CASE t \in new /\ u \in new
    <3>1. rank'[t] = nextRank + place[t] /\ rank'[u] = nextRank + place[u]
      BY <1>1, <2>1, <2>2
    <3>2. place[t] \in Nat /\ place[u] \in Nat
      BY <1>4, <2>2
    <3>3. nextRank + place[t] = nextRank + place[u]
      BY <1>11, <3>1
    <3>4. place[t] = place[u]
      BY <1>6, <3>2, <3>3
    <3>5. QED
      BY <1>5, <2>2, <3>4
  <2>3. CASE t \in new /\ u \notin new
    <3>1. rank'[t] = nextRank + place[t] /\ rank'[u] = rank[u]
      BY <1>1, <2>1, <2>3
    <3>2. place[t] \in Nat
      BY <1>4, <2>3
    <3>3. rank[u] \in Nat /\ rank[u] < nextRank
      BY <1>7, <1>11, <3>1
    <3>4. nextRank + place[t] = rank[u]
      BY <1>11, <3>1
    <3>5. QED
      BY <1>6, <3>2, <3>3, <3>4
  <2>4. CASE t \notin new /\ u \in new
    <3>1. rank'[u] = nextRank + place[u] /\ rank'[t] = rank[t]
      BY <1>1, <2>1, <2>4
    <3>2. place[u] \in Nat
      BY <1>4, <2>4
    <3>3. rank[t] \in Nat /\ rank[t] < nextRank
      BY <1>7, <1>11, <3>1
    <3>4. nextRank + place[u] = rank[t]
      BY <1>11, <3>1
    <3>5. QED
      BY <1>6, <3>2, <3>3, <3>4
  <2>5. CASE t \notin new /\ u \notin new
    BY <1>1, <1>8, <1>11, <2>1, <2>5
  <2>6. QED
    BY <2>2, <2>3, <2>4, <2>5
<1>12. nextRank' \in Nat
  BY <1>2, <1>6
<1>13. rank' \in [Tids -> 0..MaxRank \cup {NoRank}]
  <2>1. ASSUME NEW t \in Tids PROVE rank'[t] \in 0..MaxRank \cup {NoRank}
    <3>1. CASE rank'[t] = NoRank
      BY <3>1
    <3>2. CASE rank'[t] # NoRank
      <4>1. rank'[t] \in Nat /\ rank'[t] < nextRank'
        BY <1>9, <3>2
      <4>2. QED
        BY <1>2, <1>6, <1>12, <4>1
    <3>3. QED
      BY <3>1, <3>2
  <2>2. rank' = [t \in Tids |-> rank'[t]]
    BY <1>1
  <2>3. QED
    BY <2>1, <2>2
<1>14. RankOnce'
  BY <1>9, <1>11 DEF RankOnce
<1>15. RanksDiffer(masks, rank')
  BY <1>9, <1>10, <1>11 DEF RanksDiffer
<1>16. QED
  BY <1>12, <1>13, <1>14, <1>15

\* What a rebalance leaves behind.
LEMMA RebalanceFacts ==
    ASSUME ArcasInv, NEW masks \in MaskValue, maybe_rebalance(masks)
    PROVE  /\ spread' \in 1..Cardinality(EligibleDomains)
           /\ ready' \in BOOLEAN /\ refreshed' \in BOOLEAN
           /\ active' \in Seq(EligibleDomains) /\ active' # <<>>
           /\ targetDom' \in [Tids -> Domains \cup {NoDomain}]
           /\ targetCpu' \in [Tids -> Cpus \cup {NoCpu}]
           /\ refreshed' =>
                /\ \/ Capacity(ToSet(active'), masks) >= Cardinality(Waiting(masks))
                   \/ ToSet(active') = ToSet(Candidates(masks))
                   \/ Len(active') = effective_max_domains
                /\ PlanShares(masks, rank', targetCpu')
<1> DEFINE floor == min_domains_for_runnable_load(masks)
           required == clamp_spread_domains(Larger(Larger(spread, floor), Larger(MinDomains, 1)))
           Stepped(k) == clamp_spread_domains(Larger(k, floor))
           Wide(s) == s \in 1..Cardinality(EligibleDomains) /\ (s = effective_max_domains \/ s >= floor)
<1>1. floor \in Nat /\ Cardinality(EligibleDomains) \in Nat \ {0}
      /\ spread \in Nat /\ MinDomains \in Nat /\ Step \in Nat
  BY FloorNat, Finite, ArcasAssumption DEF ArcasInv, TypeOK
<1>2. \E remoteFill \in BOOLEAN :
        spread' = IF ~ready \/ Waiting(masks) = {} THEN required
                  ELSE IF remoteFill THEN Stepped(required + Step)
                  ELSE Stepped(Larger(required - Step, 0))
  BY DEF maybe_rebalance
<1> HIDE DEF floor
<1>3. ASSUME NEW k \in Nat PROVE Wide(Stepped(k))
  <2> DEFINE b == Larger(k, floor)
  <2>1. b \in Nat /\ b >= floor
    BY <1>1 DEF Larger
  <2> HIDE DEF b
  <2> DEFINE s == clamp_spread_domains(b)
  <2>2. s \in 1..Cardinality(EligibleDomains) /\ (s = effective_max_domains \/ s >= b)
    BY <2>1, ClampFacts
  <2> HIDE DEF s
  <2>3. s = effective_max_domains \/ s >= floor
    BY <1>1, <2>1, <2>2
  <2>4. QED
    BY <2>2, <2>3 DEF s, b
<1>4. Wide(required)
  <2> DEFINE b == Larger(Larger(spread, floor), Larger(MinDomains, 1))
  <2>1. b \in Nat /\ b >= floor
    BY <1>1 DEF Larger
  <2> HIDE DEF b
  <2> DEFINE s == clamp_spread_domains(b)
  <2>2. s \in 1..Cardinality(EligibleDomains) /\ (s = effective_max_domains \/ s >= b)
    BY <2>1, ClampFacts
  <2> HIDE DEF s
  <2>3. s = effective_max_domains \/ s >= floor
    BY <1>1, <2>1, <2>2
  <2>4. QED
    BY <2>2, <2>3 DEF s, b
<1>5. required \in Nat
  <2>1. required \in 1..Cardinality(EligibleDomains)
    BY <1>4
  <2> HIDE DEF required
  <2>2. QED
    BY <1>1, <2>1
<1> HIDE DEF required
<1>6. Wide(spread')
  <2>1. required + Step \in Nat /\ Larger(required - Step, 0) \in Nat
    BY <1>1, <1>5 DEF Larger
  <2>2. Wide(Stepped(required + Step)) /\ Wide(Stepped(Larger(required - Step, 0)))
    BY <1>3, <2>1
  <2> HIDE DEF Wide, Stepped
  <2>3. QED
    BY <1>2, <1>4, <2>2
<1> HIDE DEF Stepped
<1>7. spread' \in Nat \ {0} /\ (spread' = effective_max_domains \/ spread' >= floor)
  BY <1>1, <1>6
<1>8. ready' = FALSE /\ refreshed' \in BOOLEAN
  BY DEF maybe_rebalance
<1>9. CASE refreshed'
  <2>1. active' = select_active_domains(spread', masks) /\ Refresh(masks)
    BY <1>9 DEF maybe_rebalance
  <2> DEFINE plan == build_target_plan(active', masks, rank')
  <2>2. targetDom' = plan.dom /\ targetCpu' = plan.cpu
    BY <2>1 DEF Refresh
  <2>3. active' \in Seq(EligibleDomains) /\ Len(active') \in Nat \ {0}
    BY <1>7, <2>1, SelectFacts
  <2>4. active' # <<>>
    BY <2>3
  <2>5. RanksDiffer(masks, rank')
    BY RanksFacts
  <2>6. /\ plan.dom \in [Tids -> Domains \cup {NoDomain}]
        /\ plan.cpu \in [Tids -> Cpus \cup {NoCpu}]
        /\ PlanShares(masks, rank', plan.cpu)
    BY <2>3, <2>5, PlanFacts
  <2> HIDE DEF plan
  <2>7. \/ Capacity(ToSet(active'), masks) >= Cardinality(Waiting(masks))
        \/ ToSet(active') = ToSet(Candidates(masks))
        \/ Len(active') = effective_max_domains
    BY <1>7, <2>1, SelectionEnough DEF floor
  <2>8. QED
    BY <1>6, <1>8, <2>2, <2>3, <2>4, <2>6, <2>7
<1>10. CASE ~refreshed'
  <2>1. UNCHANGED targets
    BY <1>10 DEF maybe_rebalance
  <2>2. active' = active /\ targetDom' = targetDom /\ targetCpu' = targetCpu
    BY <2>1 DEF targets
  <2>3. QED
    BY <1>6, <1>8, <1>10, <2>2 DEF ArcasInv, TypeOK
<1>11. QED
  BY <1>8, <1>9, <1>10

\* The masks a pass works with.
LEMMA MasksOfPass ==
    ASSUME BeginPass
    PROVE  allowed' \in MaskValue
<1>1. PICK masks \in MaskViews : allowed' = collect_allowed_cpus_for_pending(masks)
  BY DEF BeginPass
<1>2. masks \in [Tids -> SUBSET Cpus]
  BY ArcasAssumption
<1>3. QED
  BY <1>1, <1>2 DEF collect_allowed_cpus_for_pending, MaskValue

\* A pass begins with consistent ranks, domains and targets.
LEMMA BeginPassInv ==
    ASSUME ArcasInv, BeginPass
    PROVE  ArcasInv' /\ EnoughCapacity' /\ SharingForced' /\ PlacedWithinTargets'
<1>1. allowed' \in MaskValue /\ maybe_rebalance(allowed')
  BY MasksOfPass DEF BeginPass
<1>2. /\ rank' \in [Tids -> 0..MaxRank \cup {NoRank}] /\ nextRank' \in Nat
      /\ RankOnce'
  BY <1>1, RanksFacts
<1>3. /\ spread' \in 1..Cardinality(EligibleDomains)
      /\ ready' \in BOOLEAN /\ refreshed' \in BOOLEAN
      /\ active' \in Seq(EligibleDomains) /\ active' # <<>>
      /\ targetDom' \in [Tids -> Domains \cup {NoDomain}]
      /\ targetCpu' \in [Tids -> Cpus \cup {NoCpu}]
      /\ refreshed' =>
           /\ \/ Capacity(ToSet(active'), allowed') >= Cardinality(Waiting(allowed'))
              \/ ToSet(active') = ToSet(Candidates(allowed'))
              \/ Len(active') = effective_max_domains
           /\ PlanShares(allowed', rank', targetCpu')
  BY <1>1, RebalanceFacts
<1>4. view' \in [Cpus -> CpuStateValue]
  BY ArcasAssumption DEF BeginPass
<1>5. jobs' \in [Cpus -> SUBSET Tids]
  <2> DEFINE Here(c) == {t \in Tids : (IF table[t] # NoCpu THEN table[t]
                          ELSE IF MessagesOf(t) # {} THEN pending[Min(MessagesOf(t))].cpu ELSE NoCpu) = c}
  <2>1. jobs' = [c \in Cpus |-> Here(c)]
    BY DEF BeginPass, build_planned_cpu_states
  <2>2. \A c \in Cpus : Here(c) \in SUBSET Tids
    OBVIOUS
  <2> HIDE DEF Here
  <2>3. QED
    BY <2>1, <2>2
<1>6. /\ phase' = "dispatch" /\ pending' = pending /\ table' = table /\ refused' = refused
      /\ sent' = sent /\ sent = {}
  BY DEF BeginPass, ArcasInv
<1>7. TypeOK'
  <2>1. /\ pending \in Seq(QueuedTask) /\ table \in [Tids -> Cpus \cup {NoCpu}] /\ refused \in BOOLEAN
    BY DEF ArcasInv, TypeOK
  <2>2. allowed' \in [Tids -> SUBSET Cpus]
    BY <1>1 DEF MaskValue
  <2>3. QED
    BY <1>2, <1>3, <1>4, <1>5, <1>6, <2>1, <2>2 DEF TypeOK
<1>8. ArcasInv'
  BY <1>2, <1>3, <1>6, <1>7 DEF ArcasInv
<1>9. EnoughCapacity'
  BY <1>3 DEF EnoughCapacity
<1>10. SharingForced'
  BY <1>3 DEF SharingForced, PlanShares
<1>11. PlacedWithinTargets'
  BY <1>6 DEF PlacedWithinTargets
<1>12. QED
  BY <1>8, <1>9, <1>10, <1>11

-----------------------------------------------------------------------------
(* The placement of one thread.                                            *)

\* A chain of or_else gives a CPU of one of its choices.
LEMMA OrElseIn ==
    ASSUME NEW choices, NEW c \in OrElse(choices)
    PROVE  c \in Cpus /\ c # NoCpu /\ \E i \in DOMAIN choices : c \in choices[i]
<1>1. c \in Cpus /\ \E i \in DOMAIN choices : c \in choices[i]
  BY DEF OrElse, Found
<1>2. c # NoCpu
  BY <1>1, TopologyAssumption DEF NoCpu
<1>3. QED
  BY <1>1, <1>2

\* The CPU to stay on and the CPU for a target domain are of the domain and the mask.
LEMMA ChoicesIn ==
    ASSUME NEW m, NEW d, NEW cpus, NEW preferred, NEW c
    PROVE  /\ c \in choose_cpu_in_domain(d, cpus, m.tid) => c \in InDomain(cpus, d)
           /\ c \in choose_stay_cpu(m, d, cpus) => c \in Cpus /\ c \in InDomain(cpus, d)
           /\ c \in choose_cpu_for_domain(m, d, preferred, cpus) => c \in Cpus /\ c \in InDomain(cpus, d)
<1> DEFINE available(e) == current_cpu_available_for_task(e, m.tid, InDomain(cpus, d))
           idle == should_rebalance_to_idle_sibling(m.cpu, m.tid, choose_idle_cpu_in_domain(d, cpus))
           own == {e \in current_cpu_in_domain(m.cpu, d, cpus) : available(e)}
           pref == {e \in preferred_cpu_in_domain(m.cpu, d, cpus, m.tid) : available(e)}
           any == choose_cpu_in_domain(d, cpus, m.tid)
           stay == choose_stay_cpu(m, d, cpus)
           want == choose_preferred_target_cpu(preferred, d, cpus, m.tid)
<1>1. any \in SUBSET InDomain(cpus, d)
  <2> DEFINE rk(x) == IF effectively_idle_cpu(x) THEN 0 ELSE 1
             taken(x) == IF TakenByOther(x, m.tid) THEN 1 ELSE 0
             A == Least(InDomain(cpus, d), rk)
             B == Least(A, taken)
  <2>1. any = Least(B, planned_jobs_len)
    BY DEF choose_cpu_in_domain
  <2>2. A \in SUBSET InDomain(cpus, d) /\ B \in SUBSET A /\ Least(B, planned_jobs_len) \in SUBSET B
    BY DEF Least
  <2> HIDE DEF A, B, any
  <2>3. QED
    BY <2>1, <2>2
<1>2. choose_idle_cpu_in_domain(d, cpus) \in SUBSET InDomain(cpus, d)
  BY DEF choose_idle_cpu_in_domain, Least
<1>3. idle \in SUBSET (InDomain(cpus, d) \cup {NoCpu})
  BY <1>2 DEF should_rebalance_to_idle_sibling
<1>4. own \in SUBSET InDomain(cpus, d) /\ pref \in SUBSET InDomain(cpus, d)
  <2> HIDE DEF available
  <2>1. QED
    BY DEF current_cpu_in_domain, preferred_cpu_in_domain
<1>5. want \in SUBSET InDomain(cpus, d)
  BY DEF choose_preferred_target_cpu, preferred_cpu_in_domain
<1>6. stay = OrElse(<<idle, own, pref, any>>)
  BY DEF choose_stay_cpu
<1> HIDE DEF idle, own, pref, any, want
<1>7. ASSUME c \in stay PROVE c \in Cpus /\ c \in InDomain(cpus, d)
  <2> DEFINE choices == <<idle, own, pref, any>>
  <2>1. c \in Cpus /\ c # NoCpu /\ \E i \in DOMAIN choices : c \in choices[i]
    <3> HIDE DEF choices
    <3>1. QED
      BY <1>6, <1>7, OrElseIn DEF choices
  <2>2. c \in idle \/ c \in own \/ c \in pref \/ c \in any
    BY <2>1
  <2>3. QED
    BY <1>1, <1>3, <1>4, <2>1, <2>2
<1>8. choose_cpu_for_domain(m, d, preferred, cpus) =
        OrElse(<<want, IF d = DomainOf[m.cpu] THEN stay ELSE any>>)
  BY DEF choose_cpu_for_domain, want, any
<1> HIDE DEF stay
<1>9. ASSUME c \in choose_cpu_for_domain(m, d, preferred, cpus)
      PROVE  c \in Cpus /\ c \in InDomain(cpus, d)
  <2> DEFINE choices == <<want, IF d = DomainOf[m.cpu] THEN stay ELSE any>>
  <2>1. c \in Cpus /\ c # NoCpu /\ \E i \in DOMAIN choices : c \in choices[i]
    <3> HIDE DEF choices
    <3>1. QED
      BY <1>8, <1>9, OrElseIn DEF choices
  <2>2. c \in want \/ c \in stay \/ c \in any
    BY <2>1
  <2>3. QED
    BY <1>1, <1>5, <1>7, <2>1, <2>2
<1>10. QED
  BY <1>1, <1>7, <1>9 DEF stay, any

\* What PlacedWithinTargets says of one decision.
Placed(o) ==
    /\ o.cpu \in allowed[o.tid]
    /\ o.reason # "no_candidate" => DomainOf[o.cpu] = o.dom /\ o.dom \in ToSet(active)
    /\ o.reason = "no_candidate" =>
         \A d \in ToSet(active) : InDomain(allowed_eligible_cpus(o.tid), d) = {}

\* With some domain active, the active ones are what the placement goes through.
LEMMA ActiveFacts ==
    ASSUME ArcasInv
    PROVE  /\ active_domain_list = active /\ ToSet(active) \in SUBSET EligibleDomains
           /\ \A d : IsActive(d) <=> d \in ToSet(active)
<1>1. active \in Seq(EligibleDomains) /\ active # <<>>
  BY DEF ArcasInv, TypeOK
<1>2. Len(active) \in Nat /\ Len(active) # 0 /\ active \in [1..Len(active) -> EligibleDomains]
  BY <1>1
<1>3. ToSet(active) \in SUBSET EligibleDomains /\ active[1] \in ToSet(active)
  BY <1>2 DEF ToSet
<1>4. active_domain_list = active
  BY <1>3 DEF active_domain_list
<1>5. QED
  BY <1>3, <1>4 DEF IsActive

\* Every decision on a thread whose mask is known is a legal one.
LEMMA DecisionPlaced ==
    ASSUME ArcasInv, NEW m \in QueuedTask, allowed[m.tid] # {},
           NEW o \in choose_placement_with_targets(m)
    PROVE  o \in Decision /\ o.tid = m.tid /\ Placed(o)
<1> DEFINE cpus == allowed_eligible_cpus(m.tid)
           order == order_candidate_domains(m)
           fits == {i \in DOMAIN order : IsActive(order[i]) /\ InDomain(cpus, order[i]) # {}}
           d == order[Min(fits)]
           preferred == IF d = targetDom[m.tid] THEN targetCpu[m.tid] ELSE NoCpu
<1>1. /\ active_domain_list = active /\ ToSet(active) \in SUBSET EligibleDomains
      /\ \A e : IsActive(e) <=> e \in ToSet(active)
  BY ActiveFacts
<1>2. m.tid \in Tids /\ m.cpu \in Cpus
  BY DEF QueuedTask
<1>3. allowed[m.tid] \in SUBSET Cpus
  BY <1>2 DEF ArcasInv, TypeOK
<1>4. cpus \in SUBSET allowed[m.tid] /\ cpus # {}
  BY DEF allowed_eligible_cpus
<1>5. choose_placement_with_targets(m) =
        IF fits = {} THEN NoCandidate(m, cpus)
        ELSE {Decided(m, d, c, IF d = DomainOf[m.cpu] THEN "stay" ELSE "move") :
                c \in choose_cpu_for_domain(m, d, preferred, cpus)}
  BY DEF choose_placement_with_targets
<1>6. Domains \subseteq Nat /\ DomainOf \in [Cpus -> Domains] /\ EligibleDomains \subseteq Domains
  BY TopologyAssumption, ArcasAssumption
<1> HIDE DEF cpus, preferred
<1>7. DOMAIN order \in SUBSET Nat /\ \A e \in ToSet(active) : \E i \in DOMAIN order : order[i] = e
  <2> DEFINE head == <<targetDom[m.tid], DomainOf[m.cpu]>>
             V == Domains \cup {NoDomain}
  <2>1. targetDom[m.tid] \in V /\ DomainOf[m.cpu] \in V /\ active \in Seq(EligibleDomains)
    BY <1>2, <1>6 DEF ArcasInv, TypeOK
  <2>2. EligibleDomains \in SUBSET V
    BY <1>6
  <2> HIDE DEF V
  <2>3. active \in Seq(V) /\ head \in Seq(V) /\ Len(head) = 2
    <3>1. active \in Seq(V)
      BY <2>2, <2>1
    <3>2. head \in Seq(V) /\ Len(head) = 2
      BY <2>1
    <3>3. QED
      BY <3>1, <3>2
  <2>4. order = head \o active
    BY <1>1 DEF order_candidate_domains
  <2> HIDE DEF head, order
  <2>5. head \in Seq(V) /\ active \in Seq(V)
    BY <2>3
  <2>6. /\ Len(head \o active) = Len(head) + Len(active)
        /\ DOMAIN (head \o active) = 1..(Len(head) + Len(active))
        /\ Len(active) \in Nat
        /\ \A i \in 1..Len(active) : (head \o active)[Len(head) + i] = active[i]
    <3> DEFINE a == head
               b == active
    <3>1. a \in Seq(V) /\ b \in Seq(V)
      BY <2>5
    <3> HIDE DEF a, b
    <3>2. /\ Len(a \o b) = Len(a) + Len(b)
          /\ DOMAIN (a \o b) = 1..(Len(a) + Len(b))
          /\ Len(b) \in Nat
          /\ \A i \in 1..Len(b) : (a \o b)[Len(a) + i] = b[i]
      BY <3>1, ConcatFacts
    <3>3. QED
      BY <3>2 DEF a, b
  <2>7. DOMAIN order = 1..(2 + Len(active)) /\ Len(active) \in Nat
    BY <2>3, <2>4, <2>6
  <2>8. \A i \in 1..Len(active) : order[2 + i] = active[i]
    BY <2>3, <2>4, <2>6
  <2>9. ASSUME NEW e \in ToSet(active) PROVE \E i \in DOMAIN order : order[i] = e
    <3>1. PICK i \in 1..Len(active) : active[i] = e
      BY <2>1 DEF ToSet
    <3>2. 2 + i \in DOMAIN order
      BY <2>7
    <3>3. QED
      BY <2>8, <3>1, <3>2
  <2>10. QED
    BY <2>7, <2>9
<1> HIDE DEF order
<1>8. CASE fits # {}
  <2>1. Min(fits) \in fits
    <3>1. fits \in SUBSET Nat
      BY <1>7
    <3> HIDE DEF fits
    <3>2. QED
      BY <1>8, <3>1, MinIn
  <2>2. d \in ToSet(active)
    BY <1>1, <2>1
  <2> HIDE DEF d, fits
  <2>3. PICK c \in choose_cpu_for_domain(m, d, preferred, cpus) :
          o = Decided(m, d, c, IF d = DomainOf[m.cpu] THEN "stay" ELSE "move")
    BY <1>5, <1>8
  <2>4. c \in Cpus /\ c \in InDomain(cpus, d)
    BY <2>3, ChoicesIn
  <2>5. c \in allowed[m.tid] /\ DomainOf[c] = d /\ d \in Domains
    BY <1>1, <1>4, <1>6, <2>2, <2>4 DEF InDomain
  <2>6. /\ o.tid = m.tid /\ o.from = m.cpu /\ o.dom = d /\ o.cpu = c
        /\ o.reason \in {"stay", "move"} /\ o \in Decision
    BY <1>2, <2>3, <2>4, <2>5 DEF Decided, Decision
  <2>7. o.reason # "no_candidate"
    BY <2>6
  <2>8. QED
    BY <2>2, <2>5, <2>6, <2>7 DEF Placed
<1>9. CASE fits = {}
  <2> DEFINE fallback == Min(cpus)
             e == IF IsActive(DomainOf[m.cpu]) THEN DomainOf[m.cpu] ELSE DomainOf[fallback]
             choices == <<choose_stay_cpu(m, e, cpus), {m.cpu} \cap cpus, {fallback}>>
  <2>1. fallback \in cpus
    BY <1>3, <1>4, Finite, MinIn
  <2>2. o \in {Decided(m, e, c, "no_candidate") : c \in OrElse(choices)}
    BY <1>5, <1>9 DEF NoCandidate
  <2>3. e \in Domains
    BY <1>2, <1>3, <1>4, <1>6, <2>1
  <2> HIDE DEF e, fallback
  <2>4. PICK c \in OrElse(choices) : o = Decided(m, e, c, "no_candidate")
    BY <2>2
  <2>5. c \in Cpus /\ \E i \in DOMAIN choices : c \in choices[i]
    <3> HIDE DEF choices
    <3>1. QED
      BY <2>4, OrElseIn
  <2>6. c \in choose_stay_cpu(m, e, cpus) \/ c \in {m.cpu} \cap cpus \/ c = fallback
    BY <2>5
  <2>7. c \in cpus
    BY <2>1, <2>6, ChoicesIn DEF InDomain
  <2>8. /\ o.tid = m.tid /\ o.from = m.cpu /\ o.dom = e /\ o.cpu = c
        /\ o.reason = "no_candidate" /\ o \in Decision
    BY <1>2, <2>3, <2>4, <2>5 DEF Decided, Decision
  <2>9. \A f \in ToSet(active) : InDomain(cpus, f) = {}
    BY <1>1, <1>7, <1>9
  <2>10. QED
    BY <1>4, <2>7, <2>8, <2>9 DEF Placed, cpus
<1>10. QED
  BY <1>8, <1>9

\* The messages a decision is made on are there, and their masks are known.
LEMMA SelectedFacts ==
    ASSUME ArcasInv, NEW x \in select_next_pending
    PROVE  /\ x[1] \in 1..Len(pending) /\ pending[x[1]] \in QueuedTask
           /\ x[2] \in Decision /\ Placed(x[2])
<1> DEFINE readable == {i \in 1..Len(pending) : allowed[pending[i].tid] # {}}
           choices == UNION {{i} \X choose_placement_with_targets(pending[i]) : i \in readable}
<1>1. x \in choices
  BY DEF select_next_pending
<1>2. PICK i \in readable : x \in {i} \X choose_placement_with_targets(pending[i])
  BY <1>1
<1>3. x[1] = i /\ x[2] \in choose_placement_with_targets(pending[i])
  BY <1>2
<1>4. i \in 1..Len(pending) /\ allowed[pending[i].tid] # {}
  OBVIOUS
<1> HIDE DEF readable
<1>5. pending[i] \in QueuedTask
  BY <1>4 DEF ArcasInv, TypeOK
<1>6. x[2] \in Decision /\ Placed(x[2])
  BY <1>3, <1>4, <1>5, DecisionPlaced
<1>7. QED
  BY <1>3, <1>4, <1>5, <1>6

\* A refused message goes back in front.
LEMMA RefuseSeq ==
    ASSUME ArcasInv, NEW i \in 1..Len(pending), Refuse(i)
    PROVE  /\ pending' \in Seq(QueuedTask) /\ refused' = TRUE /\ phase' = "complete"
           /\ UNCHANGED <<table, jobs, view, sent>>
<1>1. pending \in Seq(QueuedTask)
  BY DEF ArcasInv, TypeOK
<1>2. RemoveAt(pending, i) \in Seq(QueuedTask)
  BY <1>1, RemoveAtSeq
<1>3. <<pending[i]>> \in Seq(QueuedTask)
  <2>1. pending[i] \in QueuedTask
    BY <1>1
  <2>2. QED
    BY <2>1
<1>4. QED
  BY <1>2, <1>3 DEF Refuse

\* FirstOf gives a message of the kind, or 0 if there is none.
LEMMA FirstOfIndex ==
    ASSUME ArcasInv, NEW kind, FirstOf(kind) # 0
    PROVE  FirstOf(kind) \in 1..Len(pending)
<1> DEFINE mine == {i \in 1..Len(pending) : pending[i].kind = kind}
<1>1. mine \in SUBSET Nat
  BY DEF ArcasInv, TypeOK
<1>2. FirstOf(kind) = IF mine = {} THEN 0 ELSE Min(mine)
  BY DEF FirstOf
<1>3. mine # {}
  BY <1>2
<1>4. Min(mine) \in mine
  BY <1>1, <1>3, MinIn
<1>5. QED
  BY <1>2, <1>3, <1>4

\* Steps that leave the controller, the masks and the decisions alone.
Quiet == UNCHANGED <<controller, allowed, refreshed, sent>>

\* What is said of the plan depends on the controller and the masks only.
LEMMA PlanKept ==
    ASSUME UNCHANGED <<active, targetCpu, rank, allowed, refreshed>>, EnoughCapacity, SharingForced
    PROVE  EnoughCapacity' /\ SharingForced'
<1>1. EnoughCapacity'
  BY DEF EnoughCapacity
<1>2. refreshed => PlanShares(allowed, rank, targetCpu)
  BY DEF SharingForced, PlanShares
<1>3. refreshed' => PlanShares(allowed', rank', targetCpu')
  BY <1>2
<1>4. SharingForced'
  BY <1>3 DEF SharingForced, PlanShares
<1>5. QED
  BY <1>1, <1>4

\* They keep what is said of the plan and of the decisions.
LEMMA QuietKeeps ==
    ASSUME Quiet, EnoughCapacity, SharingForced, PlacedWithinTargets
    PROVE  EnoughCapacity' /\ SharingForced' /\ PlacedWithinTargets'
<1>1. /\ active' = active /\ targetCpu' = targetCpu /\ rank' = rank /\ allowed' = allowed
      /\ refreshed' = refreshed /\ sent' = sent
  BY DEF Quiet, controller, targets
<1>2. EnoughCapacity' /\ SharingForced'
  BY <1>1, PlanKept
<1>3. PlacedWithinTargets'
  BY <1>1 DEF PlacedWithinTargets, allowed_eligible_cpus
<1>4. QED
  BY <1>2, <1>3

\* They keep the invariant if the loop's own state stays well typed.
LEMMA QuietInv ==
    ASSUME ArcasInv, Quiet, UNCHANGED phase \/ phase' = "complete",
           pending' \in Seq(QueuedTask), table' \in [Tids -> Cpus \cup {NoCpu}],
           view' = view, jobs' = jobs, refused' \in BOOLEAN
    PROVE  ArcasInv'
<1>1. /\ active' = active /\ targetCpu' = targetCpu /\ rank' = rank /\ allowed' = allowed
      /\ refreshed' = refreshed /\ sent' = sent /\ spread' = spread /\ ready' = ready
      /\ targetDom' = targetDom /\ nextRank' = nextRank
  BY DEF Quiet, controller, targets
<1>2. TypeOK'
  BY <1>1 DEF ArcasInv, TypeOK
<1>3. RankOnce'
  BY <1>1 DEF ArcasInv, RankOnce
<1>4. QED
  BY <1>1, <1>2, <1>3 DEF ArcasInv

\* A decision that is sent keeps the invariant and is a legal one.
LEMMA DispatchSelectedInv ==
    ASSUME ArcasInv, EnoughCapacity, SharingForced, PlacedWithinTargets, DispatchSelected
    PROVE  ArcasInv' /\ EnoughCapacity' /\ SharingForced' /\ PlacedWithinTargets'
<1>1. PICK x \in select_next_pending :
        \/ Refuse(x[1])
        \/ /\ table' = [table EXCEPT ![x[2].tid] = x[2].cpu]
           /\ jobs' = [c \in Cpus |-> IF c = x[2].cpu THEN jobs[c] \cup {x[2].tid}
                                                      ELSE jobs[c] \ {x[2].tid}]
           /\ view' = [view EXCEPT ![x[2].cpu].idle = FALSE, ![x[2].cpu].tid = x[2].tid]
           /\ pending' = RemoveAt(pending, x[1])
           /\ sent' = sent \cup {x[2]}
           /\ UNCHANGED <<phase, refused>>
  BY DEF DispatchSelected
<1>2. UNCHANGED <<controller, allowed, refreshed>> /\ phase = "dispatch"
  BY DEF DispatchSelected, Selecting
<1>3. /\ x[1] \in 1..Len(pending) /\ pending[x[1]] \in QueuedTask
      /\ x[2] \in Decision /\ Placed(x[2])
  BY SelectedFacts
<1>4. CASE Refuse(x[1])
  <2>1. /\ pending' \in Seq(QueuedTask) /\ refused' = TRUE /\ phase' = "complete"
        /\ UNCHANGED <<table, jobs, view, sent>>
    BY <1>3, <1>4, RefuseSeq
  <2>2. Quiet
    BY <1>2, <2>1 DEF Quiet
  <2>3. table' \in [Tids -> Cpus \cup {NoCpu}]
    BY <2>1 DEF ArcasInv, TypeOK
  <2>4. QED
    BY <2>1, <2>2, <2>3, QuietInv, QuietKeeps
<1>5. CASE ~Refuse(x[1])
  <2> DEFINE o == x[2]
             t == o.tid
             k == o.cpu
  <2>1. /\ table' = [table EXCEPT ![t] = k]
        /\ jobs' = [c \in Cpus |-> IF c = k THEN jobs[c] \cup {t} ELSE jobs[c] \ {t}]
        /\ view' = [view EXCEPT ![k].idle = FALSE, ![k].tid = t]
        /\ pending' = RemoveAt(pending, x[1])
        /\ sent' = sent \cup {o} /\ phase' = phase /\ refused' = refused
    BY <1>1, <1>5
  <2>2. t \in Tids /\ k \in Cpus
    BY <1>3 DEF Decision
  <2>3. /\ active' = active /\ targetCpu' = targetCpu /\ rank' = rank /\ allowed' = allowed
        /\ refreshed' = refreshed /\ spread' = spread /\ ready' = ready
        /\ targetDom' = targetDom /\ nextRank' = nextRank
    BY <1>2 DEF controller, targets
  <2> HIDE DEF t, k
  <2>4. pending' \in Seq(QueuedTask)
    <3>1. pending \in Seq(QueuedTask)
      BY DEF ArcasInv, TypeOK
    <3>2. QED
      BY <1>3, <2>1, <3>1, RemoveAtSeq
  <2>5. table' \in [Tids -> Cpus \cup {NoCpu}] /\ jobs' \in [Cpus -> SUBSET Tids]
    BY <2>1, <2>2 DEF ArcasInv, TypeOK
  <2>6. view' \in [Cpus -> CpuStateValue]
    <3>1. view \in [Cpus -> CpuStateValue]
      BY DEF ArcasInv, TypeOK
    <3>2. view' = [view EXCEPT ![k] = [view[k] EXCEPT !.idle = FALSE, !.tid = t]]
      BY <2>1, <2>2, <3>1 DEF CpuStateValue
    <3>3. [view[k] EXCEPT !.idle = FALSE, !.tid = t] \in CpuStateValue
      BY <2>2, <3>1 DEF CpuStateValue
    <3>4. QED
      BY <3>1, <3>2, <3>3
  <2>7. sent' \subseteq Decision
    BY <1>3, <2>1 DEF ArcasInv, TypeOK
  <2>8. TypeOK'
    BY <2>1, <2>3, <2>4, <2>5, <2>6, <2>7 DEF ArcasInv, TypeOK
  <2>9. RankOnce'
    BY <2>3 DEF ArcasInv, RankOnce
  <2>10. ArcasInv'
    BY <1>2, <2>1, <2>3, <2>8, <2>9 DEF ArcasInv
  <2>11. EnoughCapacity' /\ SharingForced'
    BY <2>3, PlanKept
  <2>12. PlacedWithinTargets'
    BY <1>3, <2>1, <2>3 DEF PlacedWithinTargets, Placed, allowed_eligible_cpus
  <2>13. QED
    BY <2>10, <2>11, <2>12
<1>6. QED
  BY <1>4, <1>5

-----------------------------------------------------------------------------
(* The theorems.                                                           *)

\* The properties with the invariant they need.
ArcasSafe == ArcasInv /\ EnoughCapacity /\ SharingForced /\ PlacedWithinTargets

\* The first domains of the list are active at the start; nothing is planned or sent.
LEMMA SafeInit == Init => ArcasSafe
<1> SUFFICES ASSUME Init PROVE ArcasSafe
  OBVIOUS
<1>1. spread \in 1..Cardinality(EligibleDomains)
  <2>1. Larger(MinDomains, 1) \in Nat
    BY ArcasAssumption DEF Larger
  <2>2. QED
    BY <2>1, ClampFacts DEF Init
<1>2. active \in Seq(EligibleDomains) /\ active # <<>>
  <2>1. Cardinality(EligibleDomains) \in Nat /\ EligibleDomains \in SUBSET Nat
        /\ IsFiniteSet(EligibleDomains)
    BY Finite
  <2>2. eligible_domain_list \in [1..Cardinality(EligibleDomains) -> EligibleDomains]
    BY <2>1, AscendingFacts DEF eligible_domain_list
  <2>3. active = [i \in 1..spread |-> eligible_domain_list[i]]
    BY DEF Init
  <2>4. \A i \in 1..spread : i \in 1..Cardinality(EligibleDomains)
    BY <1>1, <2>1
  <2>5. active \in [1..spread -> EligibleDomains] /\ spread \in Nat /\ spread # 0
    BY <1>1, <2>1, <2>2, <2>3, <2>4
  <2>6. active \in Seq(EligibleDomains) /\ Len(active) = spread
    BY <2>5
  <2>7. QED
    BY <2>5, <2>6
<1>3. view \in [Cpus -> CpuStateValue]
  BY DEF Init, CpuStateValue
<1>4. TypeOK
  <2>1. pending \in Seq(QueuedTask)
    BY DEF Init
  <2>2. QED
    BY <1>1, <1>2, <1>3, <2>1 DEF Init, TypeOK
<1>5. RankOnce
  BY DEF Init, RankOnce
<1>6. EnoughCapacity /\ SharingForced /\ PlacedWithinTargets
  BY DEF Init, EnoughCapacity, SharingForced, PlacedWithinTargets
<1>7. QED
  BY <1>2, <1>4, <1>5, <1>6 DEF ArcasSafe, ArcasInv, Init

\* The end of a pass discards its masks and decisions.
LEMMA CompleteSafe ==
    ASSUME ArcasSafe, notify_complete
    PROVE  ArcasSafe'
<1>1. /\ phase' \in {"ended", "drain"} /\ allowed' = [t \in Tids |-> {}]
      /\ view' = [c \in Cpus |-> [idle |-> FALSE, hot |-> FALSE, tid |-> NoTid]]
      /\ jobs' = [c \in Cpus |-> {}]
      /\ refreshed' = FALSE /\ refused' = FALSE /\ sent' = {}
      /\ UNCHANGED <<pending, table, controller>>
  BY DEF notify_complete
<1>2. /\ active' = active /\ targetCpu' = targetCpu /\ rank' = rank
      /\ spread' = spread /\ ready' = ready /\ targetDom' = targetDom /\ nextRank' = nextRank
      /\ pending' = pending /\ table' = table
  BY <1>1 DEF controller, targets
<1>3. view' \in [Cpus -> CpuStateValue]
  BY <1>1 DEF CpuStateValue
<1>4. TypeOK'
  BY <1>1, <1>2, <1>3 DEF ArcasSafe, ArcasInv, TypeOK
<1>5. RankOnce'
  BY <1>2 DEF ArcasSafe, ArcasInv, RankOnce
<1>6. ArcasInv'
  BY <1>1, <1>2, <1>4, <1>5 DEF ArcasSafe, ArcasInv
<1>7. EnoughCapacity' /\ SharingForced' /\ PlacedWithinTargets'
  BY <1>1 DEF EnoughCapacity, SharingForced, PlacedWithinTargets
<1>8. QED
  BY <1>6, <1>7 DEF ArcasSafe

\* Every step keeps the properties.
LEMMA SafeStep == ArcasSafe /\ [Next]_vars => ArcasSafe'
<1> SUFFICES ASSUME ArcasSafe, [Next]_vars PROVE ArcasSafe'
  OBVIOUS
<1>0. ArcasInv /\ EnoughCapacity /\ SharingForced /\ PlacedWithinTargets
  BY DEF ArcasSafe
<1>1. /\ pending \in Seq(QueuedTask) /\ table \in [Tids -> Cpus \cup {NoCpu}] /\ refused \in BOOLEAN
  BY <1>0 DEF ArcasInv, TypeOK
<1>2. ASSUME Quiet, UNCHANGED phase \/ phase' = "complete",
             pending' \in Seq(QueuedTask), table' \in [Tids -> Cpus \cup {NoCpu}],
             view' = view, jobs' = jobs, refused' \in BOOLEAN
      PROVE  ArcasSafe'
  BY <1>0, <1>2, QuietInv, QuietKeeps DEF ArcasSafe
<1>3. ASSUME NEW m \in Messages, dequeue_task(m) PROVE ArcasSafe'
  <2>1. m \in QueuedTask
    BY ArcasAssumption
  <2>2. pending' \in Seq(QueuedTask)
    BY <1>1, <1>3, <2>1 DEF dequeue_task
  <2>3. /\ UNCHANGED <<phase, table, controller, allowed, view, jobs, refreshed, refused, sent>>
    BY <1>3 DEF dequeue_task
  <2>4. Quiet
    BY <2>3 DEF Quiet
  <2>5. QED
    BY <1>1, <1>2, <2>2, <2>3, <2>4
<1>4. ASSUME Elapse PROVE ArcasSafe'
  <2>1. /\ ready' = TRUE
        /\ UNCHANGED <<phase, pending, table, spread, targets, rank, nextRank, allowed, view, jobs,
                       refreshed, refused, sent>>
    BY <1>4 DEF Elapse
  <2>2. active' = active /\ targetCpu' = targetCpu /\ targetDom' = targetDom
    BY <2>1 DEF targets
  <2>3. TypeOK'
    BY <1>0, <2>1, <2>2 DEF ArcasInv, TypeOK
  <2>4. RankOnce'
    BY <1>0, <2>1 DEF ArcasInv, RankOnce
  <2>5. ArcasInv'
    BY <1>0, <2>1, <2>2, <2>3, <2>4 DEF ArcasInv
  <2>6. EnoughCapacity' /\ SharingForced'
    BY <1>0, <2>1, <2>2, PlanKept
  <2>7. PlacedWithinTargets'
    BY <1>0, <2>1, <2>2 DEF PlacedWithinTargets, allowed_eligible_cpus
  <2>8. QED
    BY <2>5, <2>6, <2>7 DEF ArcasSafe
<1>5. ASSUME NEW t \in Tids, prune_dead_threads(t) PROVE ArcasSafe'
  <2>1. /\ table' = [table EXCEPT ![t] = NoCpu]
        /\ UNCHANGED <<phase, pending, controller, allowed, view, jobs, refreshed, refused, sent>>
    BY <1>5 DEF prune_dead_threads
  <2>2. Quiet /\ table' \in [Tids -> Cpus \cup {NoCpu}]
    BY <1>1, <2>1 DEF Quiet
  <2>3. QED
    BY <1>1, <1>2, <2>1, <2>2
<1>6. ASSUME BeginPass PROVE ArcasSafe'
  BY <1>0, <1>6, BeginPassInv DEF ArcasSafe
<1>7. ASSUME NEW kind \in {"usersched", "helper"}, DispatchFirst(kind) PROVE ArcasSafe'
  <2>1. FirstOf(kind) \in 1..Len(pending)
    BY <1>0, <1>7, FirstOfIndex DEF DispatchFirst
  <2>2. UNCHANGED <<controller, allowed, refreshed>>
    BY <1>7 DEF DispatchFirst
  <2>3. CASE Refuse(FirstOf(kind))
    <3>1. /\ pending' \in Seq(QueuedTask) /\ refused' = TRUE /\ phase' = "complete"
          /\ UNCHANGED <<table, jobs, view, sent>>
      BY <1>0, <2>1, <2>3, RefuseSeq
    <3>2. Quiet
      BY <2>2, <3>1 DEF Quiet
    <3>3. QED
      BY <1>1, <1>2, <3>1, <3>2
  <2>4. CASE ~Refuse(FirstOf(kind))
    <3>1. /\ pending' = RemoveAt(pending, FirstOf(kind))
          /\ UNCHANGED <<phase, table, jobs, view, refused, sent>>
      BY <1>7, <2>4 DEF DispatchFirst
    <3>2. pending' \in Seq(QueuedTask)
      BY <1>1, <2>1, <3>1, RemoveAtSeq
    <3>3. Quiet
      BY <2>2, <3>1 DEF Quiet
    <3>4. QED
      BY <1>1, <1>2, <3>1, <3>2, <3>3
  <2>5. QED
    BY <2>3, <2>4
<1>8. ASSUME DispatchSelected PROVE ArcasSafe'
  BY <1>0, <1>8, DispatchSelectedInv DEF ArcasSafe
<1>9. ASSUME DropUnreadable PROVE ArcasSafe'
  <2>1. /\ pending # <<>> /\ pending' = Tail(pending)
        /\ UNCHANGED <<phase, table, controller, allowed, view, jobs, refreshed, refused, sent>>
    BY <1>9 DEF DropUnreadable
  <2>2. Quiet /\ pending' \in Seq(QueuedTask)
    BY <1>1, <2>1 DEF Quiet
  <2>3. QED
    BY <1>1, <1>2, <2>1, <2>2
<1>10. ASSUME EndDispatch PROVE ArcasSafe'
  <2>1. /\ phase' = "complete"
        /\ UNCHANGED <<pending, table, controller, allowed, view, jobs, refreshed, refused, sent>>
    BY <1>10 DEF EndDispatch
  <2>2. Quiet
    BY <2>1 DEF Quiet
  <2>3. QED
    BY <1>1, <1>2, <2>1, <2>2
<1>11. ASSUME notify_complete PROVE ArcasSafe'
  BY <1>11, CompleteSafe
<1>12. ASSUME UNCHANGED vars PROVE ArcasSafe'
  <2>1. UNCHANGED <<phase, pending, table, controller, allowed, view, jobs, refreshed, refused, sent>>
    BY <1>12 DEF vars
  <2>2. Quiet
    BY <2>1 DEF Quiet
  <2>3. QED
    BY <1>1, <1>2, <2>1, <2>2
<1>13. QED
  BY <1>3, <1>4, <1>5, <1>6, <1>7, <1>8, <1>9, <1>10, <1>11, <1>12 DEF Next

\* The properties hold in every reachable state.
LEMMA SafeInvariance == Spec => []ArcasSafe
BY SafeInit, SafeStep, PTL DEF Spec

\* The loop of the ARCAS build and its controller keep to their types: the spread lies
\* between one and the number of eligible domains, active domains are eligible ones,
\* and a target is a CPU or none.
THEOREM ArcasTypeCorrect == Spec => []TypeOK
<1>1. ArcasSafe => TypeOK
  BY DEF ArcasSafe, ArcasInv
<1>2. QED
  BY <1>1, SafeInvariance, PTL

\* Two threads get the same target CPU only if, for the one later in the plan, every CPU
\* of that domain that its mask allows was given out (build_target_plan).
THEOREM SharingForcedCorrect == Spec => []SharingForced
<1>1. ArcasSafe => SharingForced
  BY DEF ArcasSafe
<1>2. QED
  BY <1>1, SafeInvariance, PTL

\* Whenever the active domains are chosen anew they have a CPU for each waiting
\* thread, or all usable domains or as many as permitted are active
\* (min_domains_for_runnable_load with select_active_domains).
THEOREM EnoughCapacityCorrect == Spec => []EnoughCapacity
<1>1. ArcasSafe => EnoughCapacity
  BY DEF ArcasSafe
<1>2. QED
  BY <1>1, SafeInvariance, PTL

\* Every thread that choose_placement_with_targets places runs where its mask allows
\* and within the active domains, unless none of these has a CPU for it.
THEOREM PlacedWithinTargetsCorrect == Spec => []PlacedWithinTargets
<1>1. ArcasSafe => PlacedWithinTargets
  BY DEF ArcasSafe
<1>2. QED
  BY <1>1, SafeInvariance, PTL
=============================================================================
