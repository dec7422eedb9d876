------------------------------ MODULE Counting ------------------------------
(***************************************************************************)
(* Sums of bounded numbers, as cardinalities. Cells(A, n, f) has f[a]      *)
(* cells for each a of A, as long as that is at most n, so its cardinality *)
(* is the sum of f over A. The lemmas say how it moves when f does; proofs *)
(* use them where the models add up lookups or cents, and need no induction*)
(* over the set. The last two find a least number and a largest one.       *)
(***************************************************************************)
EXTENDS Totals, Integers, FiniteSetTheorems, WellFoundedInduction, TLAPS

Cells(A, n, f) == {u \in A \X (1..n) : u[2] <= f[u[1]]}
Tally(A, n, f) == Cardinality(Cells(A, n, f))

(* There are finitely many, at most n for each member. *)
LEMMA TallyBounded ==
  ASSUME NEW A, IsFiniteSet(A), NEW n \in Nat, NEW f
  PROVE  /\ IsFiniteSet(Cells(A, n, f))
         /\ Tally(A, n, f) \in Nat
         /\ Tally(A, n, f) <= Cardinality(A) * n
<1>1. IsFiniteSet(1..n) /\ Cardinality(1..n) = n
  <2>1. IsFiniteSet(1..n) /\ Cardinality(1..n) = IF 1 > n THEN 0 ELSE n - 1 + 1
    BY FS_Interval
  <2>2. QED
    BY <2>1
<1>2. IsFiniteSet(A \X (1..n)) /\ Cardinality(A \X (1..n)) = Cardinality(A) * n
  BY <1>1, FS_Product
<1>3. Cells(A, n, f) \in SUBSET (A \X (1..n))
  BY DEF Cells
<1>4. IsFiniteSet(Cells(A, n, f)) /\ Cardinality(Cells(A, n, f)) <= Cardinality(A \X (1..n))
  BY <1>2, <1>3, FS_Subset
<1>5. QED
  BY <1>2, <1>4, FS_CardinalityType DEF Tally

(* Nothing grows, and neither does the sum. *)
LEMMA TallyMonotone ==
  ASSUME NEW A, IsFiniteSet(A), NEW n \in Nat, NEW f, NEW g,
         \A a \in A : f[a] \in Int /\ g[a] \in Int /\ f[a] <= g[a]
  PROVE  Tally(A, n, f) <= Tally(A, n, g)
<1>1. Cells(A, n, f) \in SUBSET Cells(A, n, g)
  <2>1. ASSUME NEW a \in A, NEW i \in 1..n, i <= f[a]
        PROVE  i <= g[a]
    BY <2>1
  <2>2. QED
    BY <2>1 DEF Cells
<1>2. IsFiniteSet(Cells(A, n, g))
  BY TallyBounded
<1>3. QED
  BY <1>1, <1>2, FS_Subset DEF Tally

(* Only members of S count, and none of them for more than it does there. *)
LEMMA TallyWithin ==
  ASSUME NEW A, NEW S, IsFiniteSet(S), NEW n \in Nat, NEW f, NEW g,
         \A a \in A : f[a] \in Nat /\ (f[a] # 0 => a \in S /\ g[a] \in Nat /\ f[a] <= g[a])
  PROVE  Tally(A, n, f) <= Tally(S, n, g)
<1>1. Cells(A, n, f) \in SUBSET Cells(S, n, g)
  <2>1. ASSUME NEW a \in A, NEW i \in 1..n, i <= f[a]
        PROVE  a \in S /\ i <= g[a]
    BY <2>1
  <2>2. QED
    BY <2>1 DEF Cells
<1>2. IsFiniteSet(Cells(S, n, g))
  BY TallyBounded
<1>3. QED
  BY <1>1, <1>2, FS_Subset DEF Tally

(* Multiples keep the order, and a sum of them its parts. *)
LEMMA Scaled ==
  ASSUME NEW p \in Nat, NEW a \in Nat, NEW b \in Nat, NEW k \in Nat, a <= b + k
  PROVE  p * a <= p * b + p * k
<1>1. PICK d \in Nat : b + k = a + d
  BY b + k - a \in Nat
<1>2. p * (b + k) = p * b + p * k /\ p * (a + d) = p * a + p * d
  OBVIOUS
<1>3. p * a \in Nat /\ p * b \in Nat /\ p * k \in Nat /\ p * d \in Nat
  OBVIOUS
<1>4. QED
  BY <1>1, <1>2, <1>3

(* The k cells of a that follow the first i. *)
Span(a, i, k) == {<<a, j>> : j \in (i+1)..(i+k)}

(* A stretch of k more cells has k of them. *)
LEMMA Stretch ==
  ASSUME NEW a, NEW i \in Nat, NEW k \in Nat
  PROVE  IsFiniteSet(Span(a, i, k)) /\ Cardinality(Span(a, i, k)) = k
<1> DEFINE I == (i+1)..(i+k)
           T == Span(a, i, k)
           h == [j \in I |-> <<a, j>>]
<1>1. IsFiniteSet(I) /\ Cardinality(I) = k
  <2>1. i + 1 \in Int /\ i + k \in Int
    OBVIOUS
  <2>2. IsFiniteSet(I) /\ Cardinality(I) = IF i+1 > i+k THEN 0 ELSE (i+k) - (i+1) + 1
    BY <2>1, FS_Interval
  <2>3. QED
    BY <2>2
<1>2. h \in Bijection(I, T)
  BY DEF Bijection, Injection, Surjection, IsInjective, Span
<1>3. ExistsBijection(I, T)
  BY <1>2 DEF ExistsBijection
<1>4. QED
  BY <1>1, <1>3, FS_Bijection

(* One member grows by at most k, and so does the sum. *)
LEMMA TallyGrowsAtMost ==
  ASSUME NEW A, IsFiniteSet(A), NEW n \in Nat, NEW f, NEW g, NEW a \in A, NEW k \in Nat,
         \A x \in A : f[x] \in Nat /\ g[x] \in Nat,
         \A x \in A : x # a => g[x] <= f[x],
         g[a] <= f[a] + k
  PROVE  Tally(A, n, g) <= Tally(A, n, f) + k
<1> DEFINE i == f[a]
           T == Span(a, i, k)
<1>1. i \in Nat
  OBVIOUS
<1>2. IsFiniteSet(T) /\ Cardinality(T) = k
  BY <1>1, Stretch
<1>3. IsFiniteSet(Cells(A, n, f)) /\ IsFiniteSet(Cells(A, n, g))
      /\ Tally(A, n, f) \in Nat /\ Tally(A, n, g) \in Nat
  BY TallyBounded
<1>4. Cells(A, n, g) \in SUBSET (Cells(A, n, f) \cup T)
  <2>1. ASSUME NEW x \in A, NEW j \in 1..n, j <= g[x], ~(j <= f[x])
        PROVE  x = a /\ j \in (i+1)..(i+k)
    <3>1. x = a
      BY <2>1
    <3>2. QED
      BY <1>1, <2>1, <3>1
  <2>2. QED
    BY <2>1 DEF Cells, Span
<1>5. IsFiniteSet(Cells(A, n, f) \cap T) /\ Cardinality(Cells(A, n, f) \cap T) \in Nat
  BY <1>2, FS_Intersection, FS_CardinalityType
<1>6. /\ IsFiniteSet(Cells(A, n, f) \cup T)
      /\ Cardinality(Cells(A, n, f) \cup T)
           = Cardinality(Cells(A, n, f)) + Cardinality(T) - Cardinality(Cells(A, n, f) \cap T)
  BY <1>2, <1>3, FS_Union
<1>7. Cardinality(Cells(A, n, g)) <= Cardinality(Cells(A, n, f) \cup T)
  BY <1>4, <1>6, FS_Subset
<1>8. QED
  BY <1>2, <1>3, <1>5, <1>6, <1>7 DEF Tally

(* One member grows by at least k and stays countable: so does the sum. *)
LEMMA TallyGrowsAtLeast ==
  ASSUME NEW A, IsFiniteSet(A), NEW n \in Nat, NEW f, NEW g, NEW a \in A, NEW k \in Nat,
         \A x \in A : f[x] \in Nat /\ g[x] \in Nat /\ f[x] <= g[x],
         f[a] + k <= g[a], g[a] <= n
  PROVE  Tally(A, n, f) + k <= Tally(A, n, g)
<1> DEFINE i == f[a]
           T == Span(a, i, k)
<1>1. i \in Nat
  OBVIOUS
<1>2. IsFiniteSet(T) /\ Cardinality(T) = k
  BY <1>1, Stretch
<1>3. IsFiniteSet(Cells(A, n, f)) /\ IsFiniteSet(Cells(A, n, g))
      /\ Tally(A, n, f) \in Nat /\ Tally(A, n, g) \in Nat
  BY TallyBounded
<1>4. Cells(A, n, f) \cup T \in SUBSET Cells(A, n, g)
  <2>1. ASSUME NEW x \in A, NEW j \in 1..n, j <= f[x]
        PROVE  j <= g[x]
    BY <2>1
  <2>2. ASSUME NEW j \in (i+1)..(i+k)
        PROVE  j \in 1..n /\ j <= g[a]
    BY <1>1
  <2>3. QED
    BY <2>1, <2>2 DEF Cells, Span
<1>5. Cells(A, n, f) \cap T = {}
  BY <1>1 DEF Cells, Span
<1>6. Cardinality(Cells(A, n, f) \cap T) = 0
  BY <1>5, FS_EmptySet
<1>7. Cardinality(Cells(A, n, f) \cup T)
        = Cardinality(Cells(A, n, f)) + Cardinality(T) - Cardinality(Cells(A, n, f) \cap T)
  BY <1>2, <1>3, FS_Union
<1>8. Cardinality(Cells(A, n, f) \cup T) <= Cardinality(Cells(A, n, g))
  BY <1>3, <1>4, FS_Subset
<1>9. QED
  BY <1>2, <1>3, <1>6, <1>7, <1>8 DEF Tally

(* One more member, its own number more. *)
LEMMA TallyAdds ==
  ASSUME NEW A, IsFiniteSet(A), NEW n \in Nat, NEW f, NEW a, a \notin A,
         f[a] \in Nat, f[a] <= n
  PROVE  Tally(A, n, f) \in Nat /\ Tally(A \cup {a}, n, f) = Tally(A, n, f) + f[a]
<1> DEFINE Own == Span(a, 0, f[a])
<1>1. IsFiniteSet(Cells(A, n, f)) /\ Tally(A, n, f) \in Nat
  BY TallyBounded
<1>2. IsFiniteSet(Own) /\ Cardinality(Own) = f[a]
  BY Stretch
<1>3. Cells(A \cup {a}, n, f) = Cells(A, n, f) \cup Own
  <2>1. \A j : j \in (0+1)..(0+f[a]) <=> j \in 1..n /\ j <= f[a]
    OBVIOUS
  <2>2. ASSUME NEW u \in Cells(A \cup {a}, n, f)
        PROVE  u \in Cells(A, n, f) \cup Own
    <3>1. PICK q \in A \cup {a}, j \in 1..n : u = <<q, j>> /\ j <= f[q]
      BY DEF Cells
    <3>2. QED
      BY <2>1, <3>1 DEF Cells, Span
  <2>3. ASSUME NEW u \in Own
        PROVE  u \in Cells(A \cup {a}, n, f)
    BY <2>1 DEF Cells, Span
  <2>4. Cells(A, n, f) \subseteq Cells(A \cup {a}, n, f)
    BY DEF Cells
  <2>5. QED
    BY <2>2, <2>3, <2>4
<1>4. Cells(A, n, f) \cap Own = {}
  BY DEF Cells, Span
<1> HIDE DEF Own
<1>5. Cardinality(Cells(A, n, f) \cap Own) = 0
  BY <1>4, FS_EmptySet
<1>6. Cardinality(Cells(A, n, f) \cup Own)
        = Cardinality(Cells(A, n, f)) + Cardinality(Own) - Cardinality(Cells(A, n, f) \cap Own)
  BY <1>1, <1>2, FS_Union
<1>7. Tally(A \cup {a}, n, f) = Cardinality(Cells(A, n, f) \cup Own)
  BY <1>3 DEF Tally
<1>8. Cardinality(Cells(A, n, f)) \in Nat /\ Tally(A, n, f) = Cardinality(Cells(A, n, f))
  BY <1>1 DEF Tally
<1>9. QED
  BY <1>2, <1>5, <1>6, <1>7, <1>8

-----------------------------------------------------------------------------
(* Every set of naturals has a least one. *)
LEMMA LeastNatural ==
  ASSUME NEW T, T \subseteq Nat, T # {}
  PROVE  \E m \in T : \A n \in T : m <= n
<1>1. PICK x \in T : \A y \in T : ~(<<y, x>> \in OpToRel(<, Nat))
  BY NatLessThanWellFounded, WFMin
<1>2. ASSUME NEW n \in T
      PROVE  x <= n
  <2>1. ~(<<n, x>> \in OpToRel(<, Nat))
    BY <1>1
  <2>2. x \in Nat /\ n \in Nat
    OBVIOUS
  <2>3. ~(n < x)
    <3>1. SUFFICES ASSUME n < x
                   PROVE  FALSE
      OBVIOUS
    <3>2. <<n, x>> \in OpToRel(<, Nat)
      BY <2>2, <3>1, Zenon DEF OpToRel
    <3>3. QED
      BY <2>1, <3>2
  <2>4. QED
    BY <2>2, <2>3
<1>3. QED
  BY <1>2

(* A finite set has a member at which a function into the naturals is largest. *)
LEMMA LargestAtMember ==
  ASSUME NEW S, IsFiniteSet(S), S # {}, NEW f \in [S -> Nat]
  PROVE  \E a \in S : \A b \in S : f[b] <= f[a]
<1> DEFINE Above(a) == {b \in S : f[a] < f[b]}
           Sizes == {Cardinality(Above(a)) : a \in S}
<1>1. ASSUME NEW a \in S
      PROVE  IsFiniteSet(Above(a)) /\ Cardinality(Above(a)) \in Nat
  <2>1. Above(a) \in SUBSET S
    OBVIOUS
  <2>2. IsFiniteSet(Above(a))
    BY <2>1, FS_Subset
  <2>3. QED
    BY <2>2, FS_CardinalityType
<1>2. Sizes \subseteq Nat /\ Sizes # {}
  BY <1>1
<1>3. PICK m \in Sizes : \A n \in Sizes : m <= n
  <2> HIDE DEF Sizes
  <2> QED
    BY <1>2, LeastNatural
<1>4. PICK a \in S : m = Cardinality(Above(a))
  BY <1>3
<1>5. ASSUME NEW b \in S, ~(f[b] <= f[a])
      PROVE  FALSE
  <2>1. f[a] < f[b]
    BY <1>5
  <2>2. Above(b) \in SUBSET Above(a) /\ b \in Above(a) /\ b \notin Above(b)
    BY <2>1
  <2>3. Cardinality(Above(b)) <= Cardinality(Above(a)) /\ Cardinality(Above(a)) # Cardinality(Above(b))
    <3> HIDE DEF Above
    <3>1. IsFiniteSet(Above(a))
      BY <1>1
    <3>2. QED
      BY <2>2, <3>1, FS_Subset
  <2>4. Cardinality(Above(a)) <= Cardinality(Above(b))
    BY <1>3, <1>4
  <2>5. Cardinality(Above(a)) \in Nat /\ Cardinality(Above(b)) \in Nat
    BY <1>1
  <2>6. QED
    BY <2>3, <2>4, <2>5
<1>6. QED
  BY <1>5

-----------------------------------------------------------------------------
(* Sums over finite sets *)

Over(S, f) == Total([x \in S |-> f[x]])

(* Finitely many numbers have a bound in common ... *)
LEMMA OneBound ==
  ASSUME NEW S, IsFiniteSet(S), NEW f, \A x \in S : f[x] \in Nat
  PROVE  \E n \in Nat : \A x \in S : f[x] <= n
<1>1. CASE S = {}
  BY <1>1
<1>2. CASE S # {}
  <2> DEFINE g == [x \in S |-> f[x]]
  <2>1. g \in [S -> Nat]
    OBVIOUS
  <2>2. PICK a \in S : \A b \in S : g[b] <= g[a]
    <3> HIDE DEF g
    <3> QED
      BY <1>2, <2>1, LargestAtMember
  <2>3. f[a] \in Nat /\ \A b \in S : f[b] <= f[a]
    BY <2>2
  <2>4. QED
    BY <2>3
<1>3. QED
  BY <1>1, <1>2

(* ... up to which their sum is a tally. *)
LEMMA OverIsTally ==
  ASSUME NEW S, NEW n \in Nat, NEW f, \A x \in S : f[x] \in Nat /\ f[x] <= n
  PROVE  Over(S, f) = Tally(S, n, f)
<1> DEFINE g == [x \in S |-> f[x]]
           U == UNION {{x} \X (1..g[x]) : x \in DOMAIN g}
<1>1. ASSUME NEW u \in U
      PROVE  u \in Cells(S, n, f)
  <2>1. PICK x \in S : u \in {x} \X (1..f[x])
    OBVIOUS
  <2>2. PICK j \in 1..f[x] : u = <<x, j>>
    BY <2>1
  <2>3. f[x] \in Nat /\ f[x] <= n
    OBVIOUS
  <2>4. j \in 1..n /\ j <= f[x]
    BY <2>2, <2>3
  <2>5. QED
    BY <2>2, <2>4 DEF Cells
<1>2. ASSUME NEW u \in Cells(S, n, f)
      PROVE  u \in U
  <2>1. PICK x \in S, j \in 1..n : u = <<x, j>> /\ j <= f[x]
    BY DEF Cells
  <2>2. f[x] \in Nat
    OBVIOUS
  <2>3. j \in 1..f[x]
    BY <2>1, <2>2
  <2>4. QED
    BY <2>1, <2>3
<1>3. U = Cells(S, n, f)
  BY <1>1, <1>2
<1>4. QED
  BY <1>3 DEF Over, Total, Tally

(* A sum is a natural number, nothing at all for no members. *)
LEMMA OverType ==
  ASSUME NEW S, IsFiniteSet(S), NEW f, \A x \in S : f[x] \in Nat
  PROVE  Over(S, f) \in Nat
<1>1. PICK n \in Nat : \A x \in S : f[x] <= n
  BY OneBound
<1>2. Over(S, f) = Tally(S, n, f)
  BY <1>1, OverIsTally
<1>3. QED
  BY <1>2, TallyBounded

LEMMA OverEmpty ==
  ASSUME NEW f
  PROVE  Over({}, f) = 0
<1>1. UNION {{x} \X (1..[y \in {} |-> f[y]][x]) : x \in {}} = {}
  OBVIOUS
<1>2. QED
  BY <1>1, FS_EmptySet DEF Over, Total

(* One more member, its own number more. *)
LEMMA OverAdds ==
  ASSUME NEW S, IsFiniteSet(S), NEW f, NEW a, a \notin S,
         \A x \in S \cup {a} : f[x] \in Nat
  PROVE  Over(S \cup {a}, f) = Over(S, f) + f[a]
<1>1. IsFiniteSet(S \cup {a})
  BY FS_AddElement
<1>2. PICK n \in Nat : \A x \in S \cup {a} : f[x] <= n
  BY <1>1, OneBound
<1>3. Over(S \cup {a}, f) = Tally(S \cup {a}, n, f)
  BY <1>2, OverIsTally
<1>4. Over(S, f) = Tally(S, n, f)
  BY <1>2, OverIsTally
<1>5. f[a] \in Nat /\ f[a] <= n
  BY <1>2
<1>6. Tally(S \cup {a}, n, f) = Tally(S, n, f) + f[a]
  BY <1>2, <1>5, TallyAdds
<1>7. QED
  BY <1>3, <1>4, <1>6

(* Some of the members, at most the whole sum. *)
LEMMA OverWithin ==
  ASSUME NEW S, IsFiniteSet(S), NEW A \in SUBSET S, NEW f, \A x \in S : f[x] \in Nat
  PROVE  Over(A, f) <= Over(S, f)
<1>1. PICK n \in Nat : \A x \in S : f[x] <= n
  BY OneBound
<1>2. Over(A, f) = Tally(A, n, f) /\ Over(S, f) = Tally(S, n, f)
  BY <1>1, OverIsTally
<1>3. Tally(A, n, f) <= Tally(S, n, f)
  BY <1>1, TallyWithin
<1>4. QED
  BY <1>2, <1>3

(* A part of a bounded sum keeps the bound. *)
LEMMA OverCapped ==
  ASSUME NEW S, IsFiniteSet(S), NEW c \in Nat, NEW f, \A x \in S : f[x] \in Nat /\ f[x] <= c
  PROVE  Over(S, f) <= Cardinality(S) * c
BY OverIsTally, TallyBounded

(* The same number for every member. *)
LEMMA OverConstant ==
  ASSUME NEW S, IsFiniteSet(S), NEW c \in Nat, NEW f, \A x \in S : f[x] = c
  PROVE  Over(S, f) = Cardinality(S) * c
<1>1. Over(S, f) = Tally(S, c, f)
  BY OverIsTally
<1>2. Cells(S, c, f) = S \X (1..c)
  BY DEF Cells
<1>3. IsFiniteSet(1..c) /\ Cardinality(1..c) = c
  <2>1. IsFiniteSet(1..c) /\ Cardinality(1..c) = IF 1 > c THEN 0 ELSE c - 1 + 1
    BY FS_Interval
  <2>2. QED
    BY <2>1
<1>4. Cardinality(S \X (1..c)) = Cardinality(S) * c
  BY <1>3, FS_Product
<1>5. QED
  BY <1>1, <1>2, <1>4 DEF Tally

(* What one member loses the sum loses. *)
LEMMA OverTakes ==
  ASSUME NEW S, IsFiniteSet(S), NEW f, NEW a, \A x \in S : f[x] \in Nat
  PROVE  /\ Over(S \ {a}, f) \in Nat
         /\ Over(S, f) = Over(S \ {a}, f) + (IF a \in S THEN f[a] ELSE 0)
<1>1. IsFiniteSet(S \ {a})
  BY FS_RemoveElement
<1>2. Over(S \ {a}, f) \in Nat
  BY <1>1, OverType
<1>3. CASE a \in S
  <2>1. S = (S \ {a}) \cup {a}
    BY <1>3
  <2>2. Over((S \ {a}) \cup {a}, f) = Over(S \ {a}, f) + f[a]
    <3> DEFINE A == S \ {a}
    <3>1. IsFiniteSet(A) /\ a \notin A /\ \A x \in A \cup {a} : f[x] \in Nat
      BY <1>1, <1>3
    <3> HIDE DEF A
    <3>2. Over(A \cup {a}, f) = Over(A, f) + f[a]
      BY <3>1, OverAdds
    <3>3. QED
      BY <3>2 DEF A
  <2>3. QED
    BY <1>2, <1>3, <2>1, <2>2
<1>4. CASE a \notin S
  <2>1. S \ {a} = S
    BY <1>4
  <2>2. QED
    BY <1>2, <1>4, <2>1
<1>5. QED
  BY <1>3, <1>4

(* One number rises, and the total with it. *)
LEMMA TotalRises ==
  ASSUME NEW S, IsFiniteSet(S), NEW f \in [S -> Nat], NEW g \in [S -> Nat], NEW a \in S, NEW n \in Nat,
         g[a] = f[a] + n, \A x \in S : x # a => g[x] = f[x]
  PROVE  /\ Total(f) \in Nat
         /\ Total(g) = Total(f) + n
<1> DEFINE R == S \ {a}
<1>1. f = [x \in S |-> f[x]] /\ g = [x \in S |-> g[x]]
  OBVIOUS
<1>2. Total(f) = Over(S, f) /\ Total(g) = Over(S, g)
  BY <1>1 DEF Over
<1>3. [x \in R |-> f[x]] = [x \in R |-> g[x]]
  OBVIOUS
<1>4. Over(R, g) = Over(R, f)
  BY <1>3 DEF Over
<1>5. \A x \in S : f[x] \in Nat /\ g[x] \in Nat
  OBVIOUS
<1>6. f[a] \in Nat
  OBVIOUS
<1> HIDE DEF R
<1>7. Over(R, f) \in Nat /\ Over(S, f) = Over(R, f) + f[a]
  BY <1>5, OverTakes DEF R
<1>8. Over(S, g) = Over(R, g) + g[a]
  BY <1>5, OverTakes DEF R
<1>9. QED
  BY <1>2, <1>4, <1>6, <1>7, <1>8

(* Nothing at all adds up to nothing. *)
LEMMA TotalNothing ==
  ASSUME NEW S
  PROVE  Total([x \in S |-> 0]) = 0
<1> DEFINE f == [x \in S |-> 0]
<1>1. \A x \in S : 1..f[x] = {}
  <2>1. 1..0 = {}
    OBVIOUS
  <2>2. \A x \in S : f[x] = 0
    OBVIOUS
  <2>3. QED
    BY <2>1, <2>2
<1>2. DOMAIN f = S
  OBVIOUS
<1> HIDE DEF f
<1>3. UNION {{x} \X (1..f[x]) : x \in DOMAIN f} = {}
  BY <1>1, <1>2
<1>4. QED
  BY <1>3, FS_EmptySet DEF Total, f
=============================================================================
