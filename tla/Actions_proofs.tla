-------------------------- MODULE Actions_proofs --------------------------
(***************************************************************************)
(* Proofs about Actions and Scoring for any list of actions, any           *)
(* expressions, and any number of deals.                                   *)
(***************************************************************************)
EXTENDS Actions, FiniteSetTheorems, WellFoundedInduction, TLAPS

-----------------------------------------------------------------------------
(* Induction over the natural numbers and the sums of the reports. *)

\* The order of the natural numbers, as a relation.
NatLess == {p \in Nat \X Nat : p[1] < p[2]}

\* Induction over the natural numbers, about a set: the least number outside it
\* would have a predecessor inside.
LEMMA Induction ==
  ASSUME NEW S, 0 \in S, \A n \in Nat : n \in S => n + 1 \in S
  PROVE  Nat \subseteq S
<1> DEFINE T == Nat \ S
<1> SUFFICES ASSUME T # {} PROVE FALSE
  OBVIOUS
<1>1. PICK x \in T : \A y \in T : <<y, x>> \notin NatLess
  <2>1. T \subseteq Nat
    OBVIOUS
  <2>2. IsWellFoundedOn(NatLess, Nat)
    BY NatLessThanWellFounded DEF OpToRel, NatLess
  <2> HIDE DEF T
  <2>. QED BY <2>2, WFMin, <2>1
<1>2. x # 0 /\ x - 1 \in Nat
  BY <1>1
<1>3. x - 1 \in T
  BY <1>1, <1>2
<1>4. <<x - 1, x>> \in NatLess
  BY <1>2, <1>1 DEF NatLess
<1>. QED BY <1>1, <1>3, <1>4

\* A set of natural numbers has a least one.
LEMMA LeastExists ==
  ASSUME NEW S, S \subseteq Nat, S # {}
  PROVE  \E x \in S : \A y \in S : x <= y
<1>1. PICK x \in S : \A y \in S : <<y, x>> \notin NatLess
  <2>2. IsWellFoundedOn(NatLess, Nat)
    BY NatLessThanWellFounded DEF OpToRel, NatLess
  <2>. QED BY <2>2, WFMin
<1>2. ASSUME NEW y \in S PROVE x <= y
  <2>1. <<y, x>> \notin NatLess
    BY <1>1
  <2>2. ~(y < x)
    BY <2>1 DEF NatLess
  <2>3. x \in Nat /\ y \in Nat
    OBVIOUS
  <2>. QED BY <2>2, <2>3
<1>. QED BY <1>2

\* g is the function of partial sums SumTo() takes its value from.
IsSum(g, f, i, m) == g = [k \in i - 1 .. m |-> IF k < i THEN 0 ELSE g[k - 1] + f[k]]

\* There is such a function for any number of terms.
LEMMA SumExists ==
  ASSUME NEW f, NEW i \in Int
  PROVE  \A n \in Nat : \E g : IsSum(g, f, i, i - 1 + n)
<1> DEFINE S == {n \in Nat : \E g : IsSum(g, f, i, i - 1 + n)}
<1>1. 0 \in S
  <2>1. IsSum([k \in {i - 1} |-> 0], f, i, i - 1 + 0)
    BY DEF IsSum
  <2>. QED BY <2>1
<1>2. ASSUME NEW n \in Nat, n \in S PROVE n + 1 \in S
  <2>1. PICK g : IsSum(g, f, i, i - 1 + n)
    BY <1>2
  <2> DEFINE h == [k \in i - 1 .. i + n |->
                      IF k = i + n THEN g[i + n - 1] + f[i + n] ELSE g[k]]
  <2>2. IsSum(h, f, i, i + n)
    BY <2>1 DEF IsSum
  <2>3. i - 1 + (n + 1) = i + n
    OBVIOUS
  <2>. QED BY <2>2, <2>3
<1>. QED
  <2>. HIDE DEF S
  <2>1. Nat \subseteq S BY <1>1, <1>2, Induction
  <2>2. QED BY <2>1 DEF S

\* SumTo() takes its value from one.
LEMMA SumUnfold ==
  ASSUME NEW f, NEW i \in Int, NEW j \in Int, j >= i - 1
  PROVE  \E g : IsSum(g, f, i, j) /\ SumTo(f, i, j) = g[j]
<1> DEFINE s == CHOOSE g : IsSum(g, f, i, j)
<1>1. \E g : IsSum(g, f, i, j)
  <2>1. j - (i - 1) \in Nat /\ i - 1 + (j - (i - 1)) = j
    OBVIOUS
  <2>. QED BY SumExists, <2>1
<1>2. IsSum(s, f, i, j)
  BY <1>1
<1>3. SumTo(f, i, j) = s[j]
  BY DEF SumTo, IsSum
<1>. QED BY <1>2, <1>3

\* Two functions that satisfy the equation agree where both are defined.
LEMMA SumUnique ==
  ASSUME NEW f, NEW f2, NEW i \in Int, NEW g, NEW g2, NEW m \in Int, NEW m2 \in Int,
         IsSum(g, f, i, m), IsSum(g2, f2, i, m2), m <= m2,
         \A k \in i .. m : f[k] = f2[k]
  PROVE  \A k \in i - 1 .. m : g[k] = g2[k]
<1> DEFINE S == {n \in Nat : i - 1 + n <= m => g[i - 1 + n] = g2[i - 1 + n]}
<1>1. 0 \in S
  BY DEF IsSum
<1>2. ASSUME NEW n \in Nat, n \in S PROVE n + 1 \in S
  <2> DEFINE k == i + n
  <2>1. i - 1 + (n + 1) = k /\ k - 1 = i - 1 + n /\ k >= i /\ k \in Int
    OBVIOUS
  <2>2. SUFFICES ASSUME k <= m PROVE g[k] = g2[k]
    BY <2>1
  <2>3. g[k - 1] = g2[k - 1]
    BY <1>2, <2>1, <2>2
  <2>4. g[k] = g[k - 1] + f[k] /\ g2[k] = g2[k - 1] + f2[k]
    BY <2>1, <2>2 DEF IsSum
  <2>5. f[k] = f2[k]
    BY <2>1, <2>2
  <2>. HIDE DEF k
  <2>6. g[k - 1] + f[k] = g2[k - 1] + f2[k]
    BY <2>3, <2>5, Zenon
  <2>. QED BY <2>4, <2>6, Zenon
<1>3. Nat \subseteq S
  <2>. HIDE DEF S
  <2>. QED BY <1>1, <1>2, Induction
<1>4. ASSUME NEW k \in i - 1 .. m PROVE g[k] = g2[k]
  <2> DEFINE n == k - (i - 1)
  <2>1. n \in Nat /\ i - 1 + n = k /\ k <= m
    OBVIOUS
  <2>2. n \in S
    BY <1>3, <2>1
  <2>. QED BY <2>1, <2>2
<1>. QED BY <1>4

\* No terms add up to nothing.
LEMMA SumEmpty ==
  ASSUME NEW f, NEW i \in Int
  PROVE  SumTo(f, i, i - 1) = 0
<1>1. PICK g : IsSum(g, f, i, i - 1) /\ SumTo(f, i, i - 1) = g[i - 1]
  BY SumUnfold
<1>. QED BY <1>1 DEF IsSum

\* One more term is added to the sum.
LEMMA SumNext ==
  ASSUME NEW f, NEW i \in Int, NEW j \in Int, j >= i
  PROVE  SumTo(f, i, j) = SumTo(f, i, j - 1) + f[j]
<1>1. PICK g : IsSum(g, f, i, j) /\ SumTo(f, i, j) = g[j]
  BY SumUnfold
<1>2. PICK g2 : IsSum(g2, f, i, j - 1) /\ SumTo(f, i, j - 1) = g2[j - 1]
  BY SumUnfold
<1>3. g2[j - 1] = g[j - 1]
  <2>1. \A k \in i - 1 .. j - 1 : g2[k] = g[k]
    BY <1>1, <1>2, SumUnique
  <2>. QED BY <2>1
<1>. QED BY <1>1, <1>2, <1>3 DEF IsSum

\* Equal terms, equal sums.
LEMMA SumSame ==
  ASSUME NEW f, NEW f2, NEW i \in Int, NEW j \in Int, j >= i - 1,
         \A k \in i .. j : f[k] = f2[k]
  PROVE  SumTo(f, i, j) = SumTo(f2, i, j)
<1>1. PICK g : IsSum(g, f, i, j) /\ SumTo(f, i, j) = g[j]
  BY SumUnfold
<1>2. PICK g2 : IsSum(g2, f2, i, j) /\ SumTo(f2, i, j) = g2[j]
  BY SumUnfold
<1>3. \A k \in i - 1 .. j : g[k] = g2[k]
  BY <1>1, <1>2, SumUnique
<1>. QED BY <1>1, <1>2, <1>3

\* The sum of integers is one.
LEMMA SumInt ==
  ASSUME NEW f, NEW i \in Int, NEW j \in Int, j >= i - 1,
         \A k \in i .. j : f[k] \in Int
  PROVE  SumTo(f, i, j) \in Int
<1> DEFINE S == {n \in Nat : i - 1 + n <= j => SumTo(f, i, i - 1 + n) \in Int}
<1>1. 0 \in S
  BY SumEmpty
<1>2. ASSUME NEW n \in Nat, n \in S PROVE n + 1 \in S
  <2> DEFINE k == i + n
  <2>1. i - 1 + (n + 1) = k /\ k - 1 = i - 1 + n /\ k >= i /\ k \in Int
    OBVIOUS
  <2>2. SUFFICES ASSUME k <= j PROVE SumTo(f, i, k) \in Int
    BY <2>1
  <2>3. SumTo(f, i, k - 1) \in Int
    BY <1>2, <2>1, <2>2
  <2>4. f[k] \in Int
    BY <2>1, <2>2
  <2>. HIDE DEF k
  <2>5. SumTo(f, i, k) = SumTo(f, i, k - 1) + f[k]
    BY <2>1, SumNext
  <2>. QED BY <2>3, <2>4, <2>5
<1>3. Nat \subseteq S
  <2>. HIDE DEF S
  <2>. QED BY <1>1, <1>2, Induction
<1> DEFINE n == j - (i - 1)
<1>4. n \in Nat /\ i - 1 + n = j
  OBVIOUS
<1>5. n \in S
  BY <1>3, <1>4
<1>. QED BY <1>4, <1>5

-----------------------------------------------------------------------------
(* How many of the first deals are of a kind, and what such numbers add up to. *)

\* How many of the first m deals of h are in D.
Met(h, m, D) == Cardinality({n \in 1 .. m : h[n] \in D})

\* That is a natural number.
LEMMA MetNat ==
  ASSUME NEW h, NEW m \in Nat, NEW D
  PROVE  /\ IsFiniteSet({n \in 1 .. m : h[n] \in D})
         /\ Met(h, m, D) \in Nat
<1>1. IsFiniteSet(1 .. m)
  BY FS_Interval
<1>2. {n \in 1 .. m : h[n] \in D} \subseteq 1 .. m
  OBVIOUS
<1>3. IsFiniteSet({n \in 1 .. m : h[n] \in D})
  BY <1>1, <1>2, FS_Subset
<1>. QED BY <1>3, FS_CardinalityType DEF Met

\* Of no deals, none are in D.
LEMMA MetZero ==
  ASSUME NEW h, NEW D
  PROVE  Met(h, 0, D) = 0
<1>1. {n \in 1 .. 0 : h[n] \in D} = {}
  OBVIOUS
<1>. QED BY <1>1, FS_EmptySet DEF Met

\* The next deal is counted when it is in D.
LEMMA MetNext ==
  ASSUME NEW h, NEW m \in Nat, NEW D
  PROVE  Met(h, m + 1, D) = Met(h, m, D) + (IF h[m + 1] \in D THEN 1 ELSE 0)
<1> DEFINE S == {n \in 1 .. m : h[n] \in D}
           T == {n \in 1 .. m + 1 : h[n] \in D}
<1>1. IsFiniteSet(S) /\ Cardinality(S) \in Nat
  BY MetNat DEF Met
<1>2. CASE h[m + 1] \in D
  <2>1. T = S \cup {m + 1} /\ m + 1 \notin S
    BY <1>2
  <2> HIDE DEF S, T
  <2>2. Cardinality(T) = Cardinality(S) + 1
    BY <1>1, <2>1, FS_AddElement
  <2>. QED BY <1>2, <2>2 DEF Met, S, T
<1>3. CASE h[m + 1] \notin D
  <2>1. T = S
    BY <1>3
  <2>2. Met(h, m + 1, D) = Met(h, m, D)
    BY <2>1 DEF Met
  <2>3. Met(h, m, D) \in Nat
    BY MetNat
  <2>. HIDE DEF S, T
  <2>. QED BY <1>3, <2>2, <2>3
<1>. QED BY <1>2, <1>3

\* Only the first m deals matter.
LEMMA MetSame ==
  ASSUME NEW h, NEW h2, NEW m \in Nat, NEW D,
         \A n \in 1 .. m : h2[n] = h[n]
  PROVE  Met(h2, m, D) = Met(h, m, D)
<1>1. {n \in 1 .. m : h2[n] \in D} = {n \in 1 .. m : h[n] \in D}
  OBVIOUS
<1>. QED BY <1>1 DEF Met

\* Deals of two kinds that exclude each other are counted apart.
LEMMA MetUnion ==
  ASSUME NEW h, NEW m \in Nat, NEW D, NEW E, D \cap E = {}
  PROVE  Met(h, m, D \cup E) = Met(h, m, D) + Met(h, m, E)
<1> DEFINE S == {n \in 1 .. m : h[n] \in D}
           T == {n \in 1 .. m : h[n] \in E}
<1>1. IsFiniteSet(S) /\ IsFiniteSet(T)
  BY MetNat
<1>2. S \cap T = {} /\ {n \in 1 .. m : h[n] \in D \cup E} = S \cup T
  OBVIOUS
<1>4. Cardinality(S) \in Nat /\ Cardinality(T) \in Nat
  BY MetNat DEF Met
<1> HIDE DEF S, T
<1>3. Cardinality(S \cup T) = Cardinality(S) + Cardinality(T)
        - Cardinality(S \cap T)
  BY <1>1, FS_Union
<1>5. Cardinality(S \cap T) = 0
  BY <1>2, FS_EmptySet
<1>6. Cardinality(S \cup T) = Cardinality(S) + Cardinality(T)
  BY <1>3, <1>4, <1>5
<1>. QED BY <1>2, <1>6 DEF Met, S, T

\* When all are in D, all are counted.
LEMMA MetAll ==
  ASSUME NEW h, NEW m \in Nat, NEW D, \A n \in 1 .. m : h[n] \in D
  PROVE  Met(h, m, D) = m
<1>1. {n \in 1 .. m : h[n] \in D} = 1 .. m
  OBVIOUS
<1>2. Cardinality(1 .. m) = m
  BY FS_Interval
<1>. QED BY <1>1, <1>2 DEF Met

\* The deals of Q that P puts in k, and those it puts in i to j.
In1(Q, P, k) == {d \in Q : P[d] = k}
InTo(Q, P, i, j) == {d \in Q : P[d] \in i .. j}

\* The numbers of deals in the parts i to j add up to the number in any of them.
LEMMA SumOfParts ==
  ASSUME NEW h, NEW m \in Nat, NEW Q, NEW P, NEW i \in Int, NEW j \in Int, j >= i - 1,
         NEW f, \A k \in i .. j : f[k] = Met(h, m, In1(Q, P, k)),
         \A d \in Q : P[d] \in Int
  PROVE  SumTo(f, i, j) = Met(h, m, InTo(Q, P, i, j))
<1> DEFINE R(x) == x <= j => SumTo(f, i, x) = Met(h, m, {d \in Q : P[d] \in i .. x})
           S == {n \in Nat : R(i - 1 + n)}
<1>1. 0 \in S
  <2>1. {d \in Q : P[d] \in i .. i - 1 + 0} = {}
    OBVIOUS
  <2>2. Met(h, m, {}) = 0
    <3>1. {n \in 1 .. m : h[n] \in {}} = {}
      OBVIOUS
    <3>. QED BY <3>1, FS_EmptySet DEF Met
  <2>3. SumTo(f, i, i - 1 + 0) = 0
    BY SumEmpty
  <2>. QED BY <2>1, <2>2, <2>3
<1>2. ASSUME NEW n \in Nat, n \in S PROVE n + 1 \in S
  <2> DEFINE k == i + n
  <2>1. i - 1 + (n + 1) = k /\ k - 1 = i - 1 + n /\ k >= i /\ k \in Int
    OBVIOUS
  <2> DEFINE D == {d \in Q : P[d] \in i .. k - 1}
             E == {d \in Q : P[d] = k}
  <2>8. R(i - 1 + (n + 1)) <=> R(k)
    BY <2>1, Zenon
  <2>2. SUFFICES ASSUME k <= j
                 PROVE  SumTo(f, i, k) = Met(h, m, {d \in Q : P[d] \in i .. k})
    <3> HIDE DEF k
    <3>. QED BY <2>8
  <2>3. SumTo(f, i, k - 1) = Met(h, m, D)
    BY <1>2, <2>1, <2>2
  <2>4. f[k] = Met(h, m, E)
    BY <2>1, <2>2 DEF In1
  <2>6. D \cap E = {} /\ D \cup E = {d \in Q : P[d] \in i .. k}
    BY <2>1
  <2>. HIDE DEF k, D, E
  <2>5. SumTo(f, i, k) = SumTo(f, i, k - 1) + f[k]
    BY <2>1, SumNext
  <2>7. Met(h, m, D \cup E) = Met(h, m, D) + Met(h, m, E)
    BY <2>6, MetUnion
  <2>. QED BY <2>3, <2>4, <2>5, <2>6, <2>7
<1>3. Nat \subseteq S
  <2>. HIDE DEF S
  <2>. QED BY <1>1, <1>2, Induction
<1> DEFINE n == j - (i - 1)
<1>4. n \in Nat /\ i - 1 + n = j
  OBVIOUS
<1>5. n \in S
  BY <1>3, <1>4
<1>. QED BY <1>4, <1>5 DEF InTo

\* A term that grows by x makes the sum grow by x.
LEMMA SumBump ==
  ASSUME NEW f, NEW f2, NEW i \in Int, NEW j \in Int, NEW p, NEW x \in Int, p \in i .. j,
         \A k \in i .. j : f[k] \in Int, f2[p] = f[p] + x,
         \A k \in i .. j : k # p => f2[k] = f[k]
  PROVE  SumTo(f2, i, j) = SumTo(f, i, j) + x
<1> DEFINE S == {n \in Nat : i - 1 + n <= j =>
                   SumTo(f2, i, i - 1 + n) = SumTo(f, i, i - 1 + n)
                                             + (IF p <= i - 1 + n THEN x ELSE 0)}
<1>1. 0 \in S
  <2>1. SumTo(f, i, i - 1) = 0 /\ SumTo(f2, i, i - 1) = 0
    BY SumEmpty
  <2>. QED BY <2>1
<1>2. ASSUME NEW n \in Nat, n \in S PROVE n + 1 \in S
  <2> DEFINE k == i + n
  <2>1. i - 1 + (n + 1) = k /\ k - 1 = i - 1 + n /\ k >= i /\ k \in Int
    OBVIOUS
  <2>2. SUFFICES ASSUME k <= j
                 PROVE  SumTo(f2, i, k) = SumTo(f, i, k) + (IF p <= k THEN x ELSE 0)
    BY <2>1
  <2>3. SumTo(f2, i, k - 1) = SumTo(f, i, k - 1) + (IF p <= k - 1 THEN x ELSE 0)
    BY <1>2, <2>1, <2>2
  <2>4. f[k] \in Int /\ f2[k] = f[k] + (IF k = p THEN x ELSE 0)
    BY <2>1, <2>2
  <2>6. SumTo(f, i, k - 1) \in Int
    BY <2>1, <2>2, SumInt
  <2>. HIDE DEF k
  <2>5. SumTo(f, i, k) = SumTo(f, i, k - 1) + f[k]
        /\ SumTo(f2, i, k) = SumTo(f2, i, k - 1) + f2[k]
    BY <2>1, SumNext
  <2>. HIDE DEF S
  <2>. QED BY <2>1, <2>3, <2>4, <2>5, <2>6
<1>3. Nat \subseteq S
  <2>. HIDE DEF S
  <2>. QED BY <1>1, <1>2, Induction
<1> DEFINE n == j - (i - 1)
<1>4. n \in Nat /\ i - 1 + n = j
  OBVIOUS
<1>5. n \in S
  BY <1>3, <1>4
<1>. QED BY <1>4, <1>5

\* A sum of natural numbers is positive when one of them is.
LEMMA SumPositive ==
  ASSUME NEW f, NEW i \in Int, NEW j \in Int, j >= i - 1,
         \A k \in i .. j : f[k] \in Nat
  PROVE  SumTo(f, i, j) > 0 <=> \E k \in i .. j : f[k] > 0
<1> DEFINE S == {n \in Nat : i - 1 + n <= j =>
                   /\ SumTo(f, i, i - 1 + n) \in Nat
                   /\ SumTo(f, i, i - 1 + n) > 0
                      <=> \E k \in i .. i - 1 + n : f[k] > 0}
<1>1. 0 \in S
  <2>1. SumTo(f, i, i - 1) = 0
    BY SumEmpty
  <2>. QED BY <2>1
<1>2. ASSUME NEW n \in Nat, n \in S PROVE n + 1 \in S
  <2> DEFINE k == i + n
  <2>1. i - 1 + (n + 1) = k /\ k - 1 = i - 1 + n /\ k >= i /\ k \in Int
    OBVIOUS
  <2>2. SUFFICES ASSUME k <= j
                 PROVE  /\ SumTo(f, i, k) \in Nat
                        /\ SumTo(f, i, k) > 0 <=> \E l \in i .. k : f[l] > 0
    BY <2>1
  <2>3. /\ SumTo(f, i, k - 1) \in Nat
        /\ SumTo(f, i, k - 1) > 0 <=> \E l \in i .. k - 1 : f[l] > 0
    BY <1>2, <2>1, <2>2
  <2>4. f[k] \in Nat
    BY <2>1, <2>2
  <2>7. (\E l \in i .. k : f[l] > 0) <=> f[k] > 0 \/ \E l \in i .. k - 1 : f[l] > 0
    <3>1. i .. k = (i .. k - 1) \cup {k}
      BY <2>1
    <3>. QED BY <3>1
  <2>. HIDE DEF k
  <2>5. SumTo(f, i, k) = SumTo(f, i, k - 1) + f[k]
    BY <2>1, SumNext
  <2>. HIDE DEF S
  <2>8. SumTo(f, i, k) \in Nat /\ (SumTo(f, i, k) > 0 <=> SumTo(f, i, k - 1) > 0 \/ f[k] > 0)
    BY <2>3, <2>4, <2>5
  <2>. QED BY <2>3, <2>7, <2>8
<1>3. Nat \subseteq S
  <2>. HIDE DEF S
  <2>. QED BY <1>1, <1>2, Induction
<1> DEFINE n == j - (i - 1)
<1>4. n \in Nat /\ i - 1 + n = j
  OBVIOUS
<1>5. n \in S
  BY <1>3, <1>4
<1>. QED BY <1>4, <1>5

\* f counts, for each part, the deals in it times its weight; g weighs the deals.
PartsWeighed(f, h, N, Q, P, w, i, j) ==
    \A k \in i .. j : f[k] = Met(h, N, In1(Q, P, k)) * w[k]
DealsWeighed(g, h, N, P, w) == \A n \in 1 .. N : g[n] = w[P[h[n]]]

\* To sum over the parts, each counted as often as it occurs, is to sum over the
\* deals: how the total score is formed from the counters of tricks.
LEMMA SumWeighted ==
  ASSUME NEW h, NEW N \in Nat, NEW Q, NEW P, NEW i \in Int, NEW j \in Int, j >= i - 1,
         NEW w, \A k \in i .. j : w[k] \in Int,
         \A d \in Q : P[d] \in i .. j,
         \A n \in 1 .. N : h[n] \in Q,
         NEW f, PartsWeighed(f, h, N, Q, P, w, i, j),
         NEW g, DealsWeighed(g, h, N, P, w)
  PROVE  SumTo(f, i, j) = SumTo(g, 1, N)
<1> DEFINE D(k) == In1(Q, P, k)
           F(m) == [k \in i .. j |-> Met(h, m, D(k)) * w[k]]
           S == {m \in Nat : m <= N => SumTo(F(m), i, j) = SumTo(g, 1, m)}
<1>0. ASSUME NEW m \in Nat, NEW k \in i .. j
      PROVE  F(m)[k] = Met(h, m, D(k)) * w[k] /\ F(m)[k] \in Int
  <2>1. Met(h, m, D(k)) \in Nat
    BY MetNat
  <2>. QED BY <2>1
<1>1. 0 \in S
  <2>1. SumTo(g, 1, 0) = 0
    BY SumEmpty
  <2> DEFINE z == [k \in i .. j |-> 0]
             T == {n \in Nat : i - 1 + n <= j => SumTo(z, i, i - 1 + n) = 0}
  <2>2. 0 \in T
    BY SumEmpty
  <2>3. ASSUME NEW n \in Nat, n \in T PROVE n + 1 \in T
    <3>1. i - 1 + (n + 1) = i + n /\ i + n - 1 = i - 1 + n /\ i + n >= i /\ i + n \in Int
      OBVIOUS
    <3>2. SUFFICES ASSUME i + n <= j PROVE SumTo(z, i, i + n) = 0
      BY <3>1
    <3>3. SumTo(z, i, i + n - 1) = 0
      BY <2>3, <3>1, <3>2
    <3>4. z[i + n] = 0
      BY <3>1, <3>2
    <3> HIDE DEF z
    <3>5. SumTo(z, i, i + n) = SumTo(z, i, i + n - 1) + z[i + n]
      BY <3>1, SumNext
    <3>. QED BY <3>3, <3>4, <3>5
  <2>4. Nat \subseteq T
    <3>. HIDE DEF T
    <3>. QED BY <2>2, <2>3, Induction
  <2>5. SumTo(z, i, j) = 0
    <3> DEFINE n == j - (i - 1)
    <3>1. n \in Nat /\ i - 1 + n = j
      OBVIOUS
    <3>2. n \in T
      BY <2>4, <3>1
    <3>. QED BY <3>1, <3>2
  <2>6. \A k \in i .. j : F(0)[k] = z[k]
    <3>1. ASSUME NEW k \in i .. j PROVE F(0)[k] = 0
      <4>1. Met(h, 0, D(k)) = 0
        BY MetZero
      <4>2. F(0)[k] = 0 * w[k] /\ w[k] \in Int
        BY <4>1
      <4>. QED BY <4>2
    <3> HIDE DEF F
    <3>. QED BY <3>1
  <2>7. SumTo(F(0), i, j) = SumTo(z, i, j)
    <3> HIDE DEF F, z
    <3>. QED BY <2>6, SumSame
  <2>. QED BY <2>1, <2>5, <2>7
<1>2. ASSUME NEW m \in Nat, m \in S PROVE m + 1 \in S
  <2>1. SUFFICES ASSUME m + 1 <= N
                 PROVE  SumTo(F(m + 1), i, j) = SumTo(g, 1, m + 1)
    <3> HIDE DEF F
    <3>. QED OBVIOUS
  <2>2. SumTo(F(m), i, j) = SumTo(g, 1, m)
    BY <1>2, <2>1
  <2> DEFINE p == P[h[m + 1]]
             x == w[p]
  <2>3. m + 1 \in 1 .. N /\ h[m + 1] \in Q /\ p \in i .. j /\ x \in Int /\ g[m + 1] = x
    BY <2>1 DEF DealsWeighed
  <2>4. ASSUME NEW k \in i .. j
        PROVE  F(m)[k] \in Int /\ F(m + 1)[k] = F(m)[k] + (IF k = p THEN x ELSE 0)
    <3>1. h[m + 1] \in D(k) <=> k = p
      BY <2>3 DEF In1
    <3>2. Met(h, m + 1, D(k)) = Met(h, m, D(k)) + (IF k = p THEN 1 ELSE 0)
      <4> HIDE DEF D, p
      <4>1. Met(h, m + 1, D(k)) = Met(h, m, D(k)) + (IF h[m + 1] \in D(k) THEN 1 ELSE 0)
        BY MetNext
      <4>. QED BY <4>1, <3>1
    <3>3. Met(h, m, D(k)) \in Nat /\ w[k] \in Int
      BY MetNat
    <3>4. F(m)[k] = Met(h, m, D(k)) * w[k] /\ F(m + 1)[k] = Met(h, m + 1, D(k)) * w[k]
      OBVIOUS
    <3>5. F(m)[k] \in Int
      BY <3>3, <3>4
    <3>6. CASE k = p
      <4>1. x = w[k]
        BY <3>6
      <4> HIDE DEF F, D, p, x
      <4>2. Met(h, m + 1, D(k)) = Met(h, m, D(k)) + 1
        BY <3>2, <3>6
      <4>3. F(m + 1)[k] = (Met(h, m, D(k)) + 1) * w[k]
        BY <3>4, <4>2
      <4>4. (Met(h, m, D(k)) + 1) * w[k] = Met(h, m, D(k)) * w[k] + w[k]
        <5> DEFINE c == Met(h, m, D(k))
                   v == w[k]
        <5>1. c \in Int /\ v \in Int
          BY <3>3
        <5> HIDE DEF c, v
        <5>2. (c + 1) * v = c * v + v
          BY <5>1
        <5>. QED BY <5>2 DEF c, v
      <4>. QED BY <3>4, <3>5, <3>6, <4>1, <4>3, <4>4
    <3>7. CASE k # p
      <4> HIDE DEF F, D, p, x
      <4>1. Met(h, m + 1, D(k)) = Met(h, m, D(k))
        BY <3>2, <3>3, <3>7
      <4>. QED BY <3>4, <3>5, <3>7, <4>1
    <3>. QED BY <3>6, <3>7
  <2> HIDE DEF F, p, x
  <2>5. SumTo(F(m + 1), i, j) = SumTo(F(m), i, j) + x
    <3> DEFINE f1 == F(m)
               f2 == F(m + 1)
    <3>1. \A k \in i .. j : f1[k] \in Int /\ f2[k] = f1[k] + (IF k = p THEN x ELSE 0)
      BY <2>4
    <3>3. p \in i .. j /\ x \in Int
      BY <2>3
    <3> HIDE DEF f1, f2
    <3>4. /\ \A k \in i .. j : f1[k] \in Int
          /\ f2[p] = f1[p] + x
          /\ \A k \in i .. j : k # p => f2[k] = f1[k]
      BY <3>1, <3>3
    <3>2. SumTo(f2, i, j) = SumTo(f1, i, j) + x
      BY <3>3, <3>4, SumBump
    <3>. QED BY <3>2 DEF f1, f2
  <2>6. SumTo(g, 1, m + 1) = SumTo(g, 1, m) + g[m + 1]
    <3> DEFINE l == m + 1
    <3>1. l \in Int /\ l >= 1 /\ l - 1 = m
      OBVIOUS
    <3> HIDE DEF l
    <3>2. SumTo(g, 1, l) = SumTo(g, 1, l - 1) + g[l]
      BY <3>1, SumNext
    <3>3. SumTo(g, 1, l) = SumTo(g, 1, m) + g[l]
      BY <3>1, <3>2
    <3>. QED BY <3>3 DEF l
  <2>. QED BY <2>2, <2>3, <2>5, <2>6
<1>3. Nat \subseteq S
  <2>. HIDE DEF S
  <2>. QED BY <1>1, <1>2, Induction
<1>4. SumTo(F(N), i, j) = SumTo(g, 1, N)
  <2>1. N \in S
    BY <1>3
  <2>2. N <= N
    OBVIOUS
  <2> HIDE DEF F
  <2>. QED BY <2>1, <2>2
<1>5. \A k \in i .. j : F(N)[k] = f[k]
  BY DEF PartsWeighed
<1>6. SumTo(F(N), i, j) = SumTo(f, i, j)
  <2> HIDE DEF F
  <2>. QED BY <1>5, SumSame
<1>. QED BY <1>4, <1>6

\* The squared distances of a sample from b, every value taken a times, from the
\* sums of the values and of their squares.
LEMMA SumOfSquares ==
  ASSUME NEW N \in Nat, NEW x, \A k \in 1 .. N : x[k] \in Int,
         NEW a \in Int, NEW b \in Int,
         NEW sq, \A k \in 1 .. N : sq[k] = x[k] * x[k],
         NEW dist, \A k \in 1 .. N : dist[k] = (a * x[k] - b) * (a * x[k] - b)
  PROVE  SumTo(dist, 1, N)
            = a * a * SumTo(sq, 1, N) - 2 * a * b * SumTo(x, 1, N) + N * (b * b)
<1> DEFINE E(m) == a * a * SumTo(sq, 1, m) - 2 * a * b * SumTo(x, 1, m) + m * (b * b)
           S == {m \in Nat : m <= N => SumTo(dist, 1, m) = E(m)}
<1>1. 0 \in S
  <2>1. SumTo(sq, 1, 0) = 0 /\ SumTo(x, 1, 0) = 0 /\ SumTo(dist, 1, 0) = 0
    BY SumEmpty
  <2>. QED BY <2>1
<1>2. ASSUME NEW m \in Nat, m \in S PROVE m + 1 \in S
  <2>1. SUFFICES ASSUME m + 1 <= N PROVE SumTo(dist, 1, m + 1) = E(m + 1)
    OBVIOUS
  <2>2. SumTo(dist, 1, m) = E(m)
    BY <1>2, <2>1
  <2> DEFINE k == m + 1
  <2>3. /\ SumTo(sq, 1, k) = SumTo(sq, 1, m) + sq[k]
        /\ SumTo(x, 1, k) = SumTo(x, 1, m) + x[k]
        /\ SumTo(dist, 1, k) = SumTo(dist, 1, m) + dist[k]
    <3>1. k \in Int /\ k >= 1 /\ k - 1 = m
      OBVIOUS
    <3> HIDE DEF k
    <3>2. /\ SumTo(sq, 1, k) = SumTo(sq, 1, k - 1) + sq[k]
          /\ SumTo(x, 1, k) = SumTo(x, 1, k - 1) + x[k]
          /\ SumTo(dist, 1, k) = SumTo(dist, 1, k - 1) + dist[k]
      BY <3>1, SumNext
    <3>. QED BY <3>1, <3>2
  <2>4. k \in 1 .. N
    BY <2>1
  <2>5. sq[k] = x[k] * x[k] /\ dist[k] = (a * x[k] - b) * (a * x[k] - b) /\ x[k] \in Int
    BY <2>4
  <2>6. SumTo(sq, 1, m) \in Int /\ SumTo(x, 1, m) \in Int
    <3>1. \A l \in 1 .. m : x[l] \in Int /\ sq[l] = x[l] * x[l]
      BY <2>1
    <3>2. \A l \in 1 .. m : sq[l] \in Int
      BY <3>1
    <3>. QED BY <3>1, <3>2, SumInt
  <2> DEFINE q == SumTo(sq, 1, m)
             s == SumTo(x, 1, m)
             v == x[k]
  <2>7. E(k) = a * a * (q + v * v) - 2 * a * b * (s + v) + (m + 1) * (b * b)
    BY <2>3, <2>5
  <2>8. SumTo(dist, 1, k) = (a * a * q - 2 * a * b * s + m * (b * b))
                             + (a * v - b) * (a * v - b)
    BY <2>2, <2>3, <2>5
  <2>9. q \in Int /\ s \in Int /\ v \in Int
    BY <2>5, <2>6
  <2> HIDE DEF q, s, v, E, k
  <2>10. (a * a * q - 2 * a * b * s + m * (b * b)) + (a * v - b) * (a * v - b)
           = a * a * (q + v * v) - 2 * a * b * (s + v) + (m + 1) * (b * b)
    BY <2>9
  <2>11. SumTo(dist, 1, k) = E(k)
    BY <2>7, <2>8, <2>10
  <2>. QED BY <2>11 DEF k
<1>3. Nat \subseteq S
  <2>. HIDE DEF S
  <2>. QED BY <1>1, <1>2, Induction
<1>. QED BY <1>3

-----------------------------------------------------------------------------
(* Types, and what a step may change. *)

\* The actions there are, and those that count.
Types == {"print", "printcompact", "printoneline", "printes", "printall", "printside",
          "printpbn", "export", "csvrpt", "printrpt", "average", "frequency",
          "frequency2d", "bktfreq", "bktfreq2d", "evalcontract"}

Counting == {"average", "frequency", "frequency2d", "bktfreq", "bktfreq2d", "evalcontract"}

\* The places of the list, and its length.
K == DOMAIN ActionList
L == Len(ActionList)

\* The list is a sequence of actions the parser builds.
LEMMA ListFacts ==
  /\ L \in Nat /\ K = 1 .. L
  /\ \A k \in K : ActionList[k].type \in Types
<1>1. L \in Nat /\ K = 1 .. L
  BY ListAssumption DEF L, K
<1>2. ASSUME NEW k \in K PROVE ActionList[k].type \in Types
  <2>1. ActionOK(ActionList[k])
    BY ListAssumption DEF K
  <2>. QED BY <2>1 DEF ActionOK, Types
<1>. QED BY <1>1, <1>2

\* A sequence with one more element.
LEMMA Longer ==
  ASSUME NEW s, s \in Seq(Range(s)), NEW x
  PROVE  /\ Append(s, x) \in Seq(Range(Append(s, x)))
         /\ DOMAIN Append(s, x) = DOMAIN s \cup {Len(s) + 1}
         /\ \A n \in DOMAIN s : Append(s, x)[n] = s[n]
         /\ Append(s, x)[Len(s) + 1] = x
<1> DEFINE S == Range(s) \cup {x}
           t == Append(s, x)
<1>1. s \in Seq(S) /\ x \in S
  OBVIOUS
<1>2. t \in Seq(S) /\ Len(t) = Len(s) + 1 /\ (\A n \in 1 .. Len(s) : t[n] = s[n])
      /\ t[Len(s) + 1] = x
  BY <1>1
<1>3. DOMAIN s = 1 .. Len(s) /\ Len(s) \in Nat
  OBVIOUS
<1> HIDE DEF t, S
<1>4. DOMAIN t = 1 .. Len(s) + 1
  BY <1>2, <1>3
<1>5. \A n \in 1 .. Len(t) : t[n] \in Range(t)
  BY <1>2, <1>4 DEF Range
<1>6. t \in Seq(Range(t))
  <2>1. t = [n \in 1 .. Len(t) |-> t[n]]
    BY <1>2
  <2>2. Len(t) \in Nat
    BY <1>2
  <2>. QED BY <1>5, <2>1, <2>2
<1>. QED BY <1>2, <1>3, <1>4, <1>6 DEF t

\* The type invariant: while actions are done the current deal is the last one of
\* those produced.
TypeOK ==
  /\ pc \in {"deal", "act", "cleanup", "done"}
  /\ nprod \in Nat /\ item \in Nat
  /\ curdeal \in Deal
  /\ hist \in Seq(Deal) /\ Len(hist) = nprod
  /\ out \in Seq(Range(out))
  /\ DOMAIN acu = K /\ DOMAIN report = K
  /\ pc \in {"act", "cleanup"} => item \in 1 .. L + 1
  /\ pc = "act" => nprod > 0 /\ curdeal = hist[nprod]

\* What one action of the list may change while deals are produced.
ActStep ==
  /\ Acting(Types)
  /\ A.type \notin Counting => acu' = acu
  /\ A.type # "print" => deallist' = deallist
  /\ A.type = "print" => SaveDeal
  /\ \A k \in K : k # item => acu'[k] = acu[k]
  /\ DOMAIN acu' = DOMAIN acu
  /\ out' = out \/ \E x : Show(x)

\* What one action of the list may change when the reports are shown.
ReportStep ==
  /\ Does("cleanup", Types)
  /\ \E x : report' = [report EXCEPT ![item] = x]
  /\ A.type = "print" => ShowPrint
  /\ item' = item + 1
  /\ UNCHANGED <<pc, nprod, curdeal, acu, deallist, out, hist>>

\* Every action of the list does only that while deals are produced.
LEMMA ActSteps ==
  ASSUME DOMAIN acu = K, Act, ~ActionsDone
  PROVE  ActStep
<1>1. CASE PrintCompact
  BY <1>1 DEF PrintCompact, ActStep, Acting, Does, Types, Counting
<1>2. CASE PrintES
  BY <1>2 DEF PrintES, ActStep, Acting, Does, Types, Counting
<1>3. CASE PrintBoard
  BY <1>3 DEF PrintBoard, ActStep, Acting, Does, Types, Counting
<1>4. CASE PrintPBN
  BY <1>4 DEF PrintPBN, ActStep, Acting, Does, Types, Counting
<1>5. CASE Export
  BY <1>5 DEF Export, ActStep, Acting, Does, Types, Counting
<1>6. CASE CsvRpt
  BY <1>6 DEF CsvRpt, ActStep, Acting, Does, Types, Counting
<1>7. CASE SaveDeal
  <2>1. Acting({"print"}) /\ UNCHANGED <<acu, out>>
    BY <1>7 DEF SaveDeal
  <2>. QED BY <1>7, <2>1 DEF ActStep, Acting, Does, Types, Counting
<1>8. CASE Average
  BY <1>8 DEF Average, Count, ActStep, Acting, Does, Types, Counting
<1>9. CASE Frequency
  BY <1>9 DEF Frequency, Count, ActStep, Acting, Does, Types, Counting
<1>10. CASE Frequency2D
  BY <1>10 DEF Frequency2D, Count, ActStep, Acting, Does, Types, Counting
<1>11. CASE Bktfreq
  BY <1>11 DEF Bktfreq, Count, ActStep, Acting, Does, Types, Counting
<1>12. CASE Bktfreq2D
  BY <1>12 DEF Bktfreq2D, Count, ActStep, Acting, Does, Types, Counting
<1>13. CASE EvalContract
  BY <1>13 DEF EvalContract, Count, ActStep, Acting, Does, Types, Counting
<1>. QED BY <1>1, <1>2, <1>3, <1>4, <1>5, <1>6, <1>7, <1>8, <1>9, <1>10, <1>11, <1>12, <1>13 DEF Act

\* And every action does only that at the end of the run.
LEMMA ReportSteps ==
  ASSUME Cleanup, ~CleanupDone
  PROVE  ReportStep
<1>1. CASE ShowNothing
  BY <1>1 DEF ShowNothing, Reporting, ReportStep, Does, Types
<1>2. CASE ShowPrint
  BY <1>2 DEF ShowPrint, Reporting, ReportStep, Does, Types
<1>3. CASE ShowAverage
  BY <1>3 DEF ShowAverage, Reporting, ReportStep, Does, Types
<1>4. CASE ShowFrequency
  BY <1>4 DEF ShowFrequency, Reporting, ReportStep, Does, Types
<1>5. CASE ShowFrequency2D
  BY <1>5 DEF ShowFrequency2D, Reporting, ReportStep, Does, Types
<1>6. CASE ShowBktfreq
  BY <1>6 DEF ShowBktfreq, Reporting, ReportStep, Does, Types
<1>7. CASE ShowBktfreq2D
  BY <1>7 DEF ShowBktfreq2D, Reporting, ReportStep, Does, Types
<1>8. CASE ShowContract
  BY <1>8 DEF ShowContract, Reporting, ReportStep, Does, Types
<1>. QED BY <1>1, <1>2, <1>3, <1>4, <1>5, <1>6, <1>7, <1>8 DEF Cleanup

\* A line printed now.
Shown(x) == [item |-> item, prod |-> nprod, line |-> x]

\* The type invariant holds at the start.
LEMMA TypeInit == Init => TypeOK
<1> SUFFICES ASSUME Init PROVE TypeOK
  OBVIOUS
<1>1. << >> \in Seq(Range(<< >>)) /\ << >> \in Seq(Deal) /\ Len(<< >>) = 0
  OBVIOUS
<1>. QED BY <1>1 DEF Init, TypeOK, K

\* Every step preserves it.
LEMMA TypeNext ==
  ASSUME TypeOK, [Next]_vars
  PROVE  TypeOK'
<1>1. CASE Produce
  <2>1. hist' \in Seq(Deal) /\ Len(hist') = nprod' /\ hist'[nprod'] = curdeal'
    BY <1>1 DEF TypeOK, Produce
  <2>2. item' \in 1 .. L + 1
    BY <1>1, ListFacts DEF Produce
  <2>. QED BY <1>1, <2>1, <2>2 DEF TypeOK, Produce
<1>2. CASE EndOfRun
  <2>2. item' \in 1 .. L + 1
    BY <1>2, ListFacts DEF EndOfRun
  <2>. QED BY <1>2, <2>2 DEF TypeOK, EndOfRun
<1>3. CASE ActionsDone
  BY <1>3 DEF TypeOK, ActionsDone
<1>4. CASE CleanupDone
  BY <1>4 DEF TypeOK, CleanupDone
<1>5. CASE Act /\ ~ActionsDone
  <2>1. ActStep
    BY <1>5, ActSteps DEF TypeOK
  <2>2. /\ pc = "act" /\ item \in K /\ item' = item + 1
        /\ UNCHANGED <<pc, nprod, curdeal, report, hist>>
    BY <2>1 DEF ActStep, Acting, Does, K
  <2>3. out' \in Seq(Range(out'))
    <3>1. out \in Seq(Range(out))
      BY DEF TypeOK
    <3>2. CASE out' = out
      <4>1. out' = out
        BY <3>2
      <4>. QED BY <3>1, <4>1
    <3>3. CASE out' # out
      <4>1. PICK x : Show(x)
        BY <2>1, <3>3 DEF ActStep
      <4>2. out' = Append(out, Shown(x))
        BY <4>1 DEF Show, Shown
      <4>3. Append(out, Shown(x)) \in Seq(Range(Append(out, Shown(x))))
        BY <3>1, Longer
      <4>. QED BY <4>2, <4>3
    <3>. QED BY <3>2, <3>3
  <2>4. item' \in 1 .. L + 1
    BY <2>2, ListFacts
  <2>5. DOMAIN acu' = DOMAIN acu
    BY <2>1 DEF ActStep
  <2>. QED BY <2>2, <2>3, <2>4, <2>5 DEF TypeOK
<1>6. CASE Cleanup /\ ~CleanupDone
  <2>1. ReportStep
    BY <1>6, ReportSteps
  <2>2. /\ pc = "cleanup" /\ item \in K /\ item' = item + 1
        /\ UNCHANGED <<pc, nprod, curdeal, acu, deallist, out, hist>>
    BY <2>1 DEF ReportStep, Does, K
  <2>3. DOMAIN report' = DOMAIN report
    BY <2>1 DEF ReportStep
  <2>4. item' \in 1 .. L + 1
    BY <2>2, ListFacts
  <2>. QED BY <2>2, <2>3, <2>4 DEF TypeOK
<1>7. CASE UNCHANGED vars
  BY <1>7 DEF TypeOK, vars
<1>. QED BY <1>1, <1>2, <1>3, <1>4, <1>5, <1>6, <1>7 DEF Next

-----------------------------------------------------------------------------
\* PbnDealer() and PbnVul() are those of the board at the table: the remainders
\* the code takes pick the right one of four dealers and sixteen vulnerabilities.
LEMMA BoardFacts ==
  ASSUME NEW b \in Int
  PROVE  /\ (b - (((b - 1) % 4) + 1)) % 4 = 0
         /\ board_vul[((b - 1) % 16) + 1] \in 0 .. 3
         /\ \E c \in Standard[board_vul[((b - 1) % 16) + 1] + 1] : (b - c) % 16 = 0
<1> DEFINE r == (b - 1) % 16
           c == r + 1
<1>1. (b - (((b - 1) % 4) + 1)) % 4 = 0
  OBVIOUS
<1>2. r \in 0 .. 15 /\ (b - c) % 16 = 0
  OBVIOUS
<1>3. board_vul[c] \in 0 .. 3 /\ c \in Standard[board_vul[c] + 1]
  <2> HIDE DEF r
  <2>. QED BY <1>2 DEF board_vul, Standard
<1>. QED BY <1>1, <1>2, <1>3

\* A line is right when it is printed.
LEMMA LineShown ==
  ASSUME TypeOK, Act, ~ActionsDone
  PROVE  out' = out \/ \E x : out' = Append(out, Shown(x)) /\ LineRight(Shown(x))
<1>0. pc = "act" => curdeal = hist[nprod]
  BY DEF TypeOK
<1>1. CASE PrintCompact
  <2> DEFINE x == [hands |-> <<0, 1, 2, 3>>, deal |-> curdeal,
             values |-> IF A.expr \in Expr THEN <<Value(A.expr)>> ELSE << >>]
  <2>1. out' = Append(out, Shown(x)) /\ pc = "act"
    BY <1>1 DEF PrintCompact, Show, Shown, Acting, Does
  <2>2. LineRight(Shown(x))
    BY <1>0, <2>1 DEF LineRight, Shown
  <2>. QED BY <2>1, <2>2
<1>2. CASE PrintES
  <2> DEFINE x == [values |-> [n \in DOMAIN A.exprs |-> Value(A.exprs[n])]]
  <2>1. out' = Append(out, Shown(x))
    BY <1>2 DEF PrintES, Show, Shown
  <2>2. LineRight(Shown(x))
    BY DEF LineRight, Shown
  <2>. QED BY <2>1, <2>2
<1>3. CASE PrintBoard
  <2> DEFINE x == [board |-> nprod + boardoffset, deal |-> curdeal,
             hands |-> IF A.type = "printall" THEN <<0, 1, 2, 3>>
                       ELSE IF A.side = SIDE_NS THEN <<2, 0>> ELSE <<3, 1>>]
  <2>1. out' = Append(out, Shown(x)) /\ pc = "act"
    BY <1>3 DEF PrintBoard, Show, Shown, Acting, Does
  <2>2. nprod + boardoffset = boardoffset + nprod
    BY ActionsAssumption DEF TypeOK
  <2>3. LineRight(Shown(x))
    BY <1>0, <2>1, <2>2 DEF LineRight, Shown
  <2>. QED BY <2>1, <2>3
<1>4. CASE PrintPBN
  <2> DEFINE b == nprod + boardoffset
             x == [board |-> b, deal |-> curdeal, hands |-> <<0, 1, 2, 3>>,
                   dealer |-> PbnDealer(b), vul |-> PbnVul(b)]
  <2>1. (out' = out \/ out' = Append(out, Shown(x))) /\ pc = "act"
    BY <1>4 DEF PrintPBN, Show, Shown, Acting, Does
  <2>2. b = boardoffset + nprod /\ b \in Int
    BY <2>1, ActionsAssumption DEF TypeOK
  <2>3. /\ Shown(x).line = x /\ Shown(x).prod = nprod
        /\ DOMAIN x = {"board", "deal", "hands", "dealer", "vul"}
        /\ x.deal = curdeal /\ x.board = b /\ x.dealer = PbnDealer(b)
        /\ x.vul = PbnVul(b)
    BY DEF Shown
  <2>4. /\ maxdealer \in Seat \cup {-1} /\ maxvuln \in Seat \cup {-1}
    BY ActionsAssumption
  <2> HIDE DEF x, b
  <2>5. x.dealer = maxdealer \/ maxdealer = -1
    BY <2>3, <2>4 DEF PbnDealer
  <2>6. x.vul = maxvuln \/ maxvuln = -1
    BY <2>3, <2>4 DEF PbnVul
  <2>7. maxdealer = -1 => (b - (x.dealer + 1)) % 4 = 0
    <3>1. -1 \notin Seat
      BY DEF Seat
    <3>2. maxdealer = -1 => x.dealer = (b - 1) % 4
      BY <2>3, <3>1 DEF PbnDealer
    <3>. QED BY <3>2, <2>2, BoardFacts
  <2>8. maxvuln = -1 => \E c \in Standard[x.vul + 1] : (b - c) % 16 = 0
    <3>1. -1 \notin Seat
      BY DEF Seat
    <3>2. maxvuln = -1 => x.vul = board_vul[((b - 1) % 16) + 1]
      BY <2>3, <3>1 DEF PbnVul
    <3>. QED BY <3>2, <2>2, BoardFacts
  <2>9. LineRight(Shown(x))
    BY <1>0, <2>1, <2>2, <2>3, <2>5, <2>6, <2>7, <2>8 DEF LineRight
  <2>. QED BY <2>1, <2>9
<1>5. CASE Export
  <2> DEFINE x == [hands |-> SetToSortSeq(A.seats, <), deal |-> curdeal]
  <2>1. out' = Append(out, Shown(x)) /\ pc = "act"
    BY <1>5 DEF Export, Show, Shown, Acting, Does
  <2>2. LineRight(Shown(x))
    BY <1>0, <2>1 DEF LineRight, Shown
  <2>. QED BY <2>1, <2>2
<1>6. CASE CsvRpt
  <2> DEFINE x == [terms |-> [n \in DOMAIN A.terms |-> CsvTerm(A.terms[n])]]
  <2>1. out' = Append(out, Shown(x)) /\ pc = "act" /\ item \in K
        /\ A.type \in {"csvrpt", "printrpt"}
    BY <1>6 DEF CsvRpt, Show, Shown, Acting, Does, K
  <2>2. \A n \in DOMAIN A.terms : TermOK(A.terms[n])
    <3>1. ActionOK(A)
      BY <2>1, ListAssumption DEF K, A
    <3>. QED BY <3>1, <2>1 DEF ActionOK
  <2>3. ASSUME NEW t, TermOK(t), t.kind = "par"
        PROVE  /\ CsvTerm(t).par = hist[nprod]
               /\ CsvTerm(t).vul = (IF t.parvul = 16 THEN par_vuln ELSE unmask(t.parvul))
    <3>1. CsvTerm(t) = [par |-> curdeal,
                        vul |-> IF unmask(t.parvul) \in Seat THEN unmask(t.parvul)
                                ELSE par_vuln]
      BY <2>3 DEF CsvTerm
    <3>2. t.parvul \in {1, 2, 4, 8, 16}
      BY <2>3 DEF TermOK
    <3>3. unmask(t.parvul) \in Seat <=> t.parvul # 16
      BY <3>2 DEF unmask, Seat
    <3>. QED BY <1>0, <2>1, <3>1, <3>3
  <2>4. LineRight(Shown(x))
    <3>1. /\ DOMAIN x = {"terms"} /\ x.terms = [n \in DOMAIN A.terms |-> CsvTerm(A.terms[n])]
          /\ Shown(x).line = x /\ Shown(x).prod = nprod /\ ActionList[Shown(x).item] = A
      BY DEF Shown, A
    <3> HIDE DEF x
    <3>2. \A n \in DOMAIN x.terms : A.terms[n].kind = "par" =>
                       /\ x.terms[n].par = hist[nprod]
                       /\ x.terms[n].vul = (IF A.terms[n].parvul = 16 THEN par_vuln
                                                ELSE unmask(A.terms[n].parvul))
      BY <2>2, <2>3, <3>1
    <3>. QED BY <3>1, <3>2 DEF LineRight
  <2>. QED BY <2>1, <2>4
<1>7. CASE ~(PrintCompact \/ PrintES \/ PrintBoard \/ PrintPBN \/ Export \/ CsvRpt)
  <2>1. SaveDeal \/ Average \/ Frequency \/ Frequency2D \/ Bktfreq \/ Bktfreq2D \/ EvalContract
    BY <1>7 DEF Act
  <2>2. out' = out
    BY <2>1 DEF SaveDeal, Average, Frequency, Frequency2D, Bktfreq, Bktfreq2D, EvalContract, Count
  <2>. QED BY <2>2
<1>. QED BY <1>1, <1>2, <1>3, <1>4, <1>5, <1>6, <1>7

-----------------------------------------------------------------------------
(* The boards: what is printed during the run and on the pages at the end. *)

\* Every line printed is right for the deal and the board it was printed for.
Lines == \A n \in DOMAIN out : out[n].prod \in 1 .. nprod /\ LineRight(out[n])

\* How many deals action k has been run for.
Seen(k) == IF pc = "act" /\ item <= k THEN nprod - 1 ELSE nprod

\* The print actions.
Prints == {k \in K : ActionList[k].type = "print"}

\* A print action has saved every deal it has been run for in its place.
Saved == \A k \in Prints : \A n \in 1 .. Seen(k) : deallist[n] = hist[n]

\* The pages list the deals produced under their numbers.
PageRight(k) ==
        /\ DOMAIN report[k] = ActionList[k].seats
        /\ \A s \in ActionList[k].seats :
               report[k][s] = [n \in 1 .. nprod |->
                   [board |-> boardoffset + n, seat |-> s, deal |-> hist[n]]]

\* Action k has been reported.
Reported(k) == pc = "done" \/ (pc = "cleanup" /\ k < item)

\* The pages that have been printed are right.
Printed == \A k \in Prints : Reported(k) => PageRight(k)

\* The inductive invariant about boards.
BoardInv == TypeOK /\ Lines /\ Saved /\ Printed

\* A line that is right stays right when deals are added.
LEMMA LineStays ==
  ASSUME NEW o, LineRight(o), hist'[o.prod] = hist[o.prod]
  PROVE  LineRight(o)'
BY DEF LineRight

\* The deals produced stay what they are.
LEMMA HistGrows ==
  ASSUME TypeOK, [Next]_vars
  PROVE  /\ \A n \in 1 .. nprod : hist'[n] = hist[n]
         /\ nprod' \in Nat /\ nprod <= nprod'
<1>1. CASE Produce
  BY <1>1 DEF Produce, TypeOK
<1>2. CASE EndOfRun \/ ActionsDone \/ CleanupDone \/ UNCHANGED vars
  BY <1>2 DEF EndOfRun, ActionsDone, CleanupDone, vars, TypeOK
<1>3. CASE Act /\ ~ActionsDone
  BY <1>3, ActSteps DEF ActStep, Acting, TypeOK
<1>4. CASE Cleanup /\ ~CleanupDone
  BY <1>4, ReportSteps DEF ReportStep, TypeOK
<1>. QED BY <1>1, <1>2, <1>3, <1>4 DEF Next

\* Every step preserves that the lines are right.
LEMMA LinesNext ==
  ASSUME TypeOK, Lines, [Next]_vars
  PROVE  Lines'
<1>0. ASSUME NEW n \in DOMAIN out, NEW o, o = out[n]
      PROVE  o.prod \in 1 .. nprod' /\ LineRight(o)'
  <2>1. o.prod \in 1 .. nprod /\ LineRight(o)
    BY <1>0 DEF Lines
  <2>2. nprod \in Nat
    BY DEF TypeOK
  <2>3. hist'[o.prod] = hist[o.prod]
    BY <2>1, HistGrows
  <2>4. LineRight(o)'
    BY <2>1, <2>3, LineStays
  <2>. QED BY <2>1, <2>2, <2>4, HistGrows
<1>1. CASE out' = out
  <2>1. ASSUME NEW n \in DOMAIN out', NEW o, o = out'[n]
        PROVE  o.prod \in 1 .. nprod' /\ LineRight(o)'
    <3>1. o = out[n] /\ n \in DOMAIN out
      BY <1>1, <2>1
    <3>. QED BY <1>0, <3>1
  <2>2. ASSUME NEW n \in DOMAIN out' PROVE out'[n].prod \in 1 .. nprod' /\ LineRight(out[n])'
    <3>1. PICK o : o = out'[n]
      OBVIOUS
    <3>2. o.prod \in 1 .. nprod' /\ LineRight(o)'
      BY <2>1, <3>1
    <3>. QED BY <3>1, <3>2
  <2>. QED BY <2>2 DEF Lines
<1>2. CASE Act /\ ~ActionsDone /\ out' # out
  <2>1. PICK x : out' = Append(out, Shown(x)) /\ LineRight(Shown(x))
    BY <1>2, LineShown
  <2>2. out \in Seq(Range(out))
    BY DEF TypeOK
  <2>3. hist' = hist /\ nprod' = nprod /\ pc = "act"
    BY <1>2, ActSteps DEF ActStep, Acting, Does, TypeOK
  <2>4. nprod \in 1 .. nprod
    BY <2>3 DEF TypeOK
  <2>5. PICK y : y = Shown(x)
    OBVIOUS
  <2>6. y.prod \in 1 .. nprod'
    BY <2>3, <2>4, <2>5 DEF Shown
  <2>7. LineRight(y)'
    <3>1. LineRight(y)
      BY <2>1, <2>5
    <3>. QED BY <3>1, <2>3, LineStays
  <2>8. ASSUME NEW n \in DOMAIN out', NEW o, o = out'[n]
        PROVE  o.prod \in 1 .. nprod' /\ LineRight(o)'
    <3>1. out' = Append(out, y)
      BY <2>1, <2>5
    <3>2. CASE n \in DOMAIN out
      <4>1. o = out[n]
        BY <2>2, <2>8, <3>1, <3>2, Longer
      <4>. QED BY <1>0, <3>2, <4>1
    <3>3. CASE n \notin DOMAIN out
      <4>1. o = y
        BY <2>2, <2>8, <3>1, <3>3, Longer
      <4>. QED BY <2>6, <2>7, <4>1
    <3>. QED BY <3>2, <3>3
  <2>9. ASSUME NEW n \in DOMAIN out' PROVE out'[n].prod \in 1 .. nprod' /\ LineRight(out[n])'
    <3>1. PICK o : o = out'[n]
      OBVIOUS
    <3>2. o.prod \in 1 .. nprod' /\ LineRight(o)'
      BY <2>8, <3>1
    <3>. QED BY <3>1, <3>2
  <2>. QED BY <2>9 DEF Lines
<1>3. CASE ~(Act /\ ~ActionsDone)
  <2>1. out' = out
    <3>1. CASE Produce \/ EndOfRun \/ ActionsDone \/ CleanupDone \/ UNCHANGED vars
      BY <3>1 DEF Produce, EndOfRun, ActionsDone, CleanupDone, vars
    <3>2. CASE Cleanup /\ ~CleanupDone
      BY <3>2, ReportSteps DEF ReportStep
    <3>. QED BY <1>3, <3>1, <3>2 DEF Next
  <2>. QED BY <1>1, <2>1
<1>. QED BY <1>1, <1>2, <1>3

\* How far an action is, by the phase of the run.
LEMMA SeenFacts ==
  ASSUME TypeOK, NEW k \in K
  PROVE  /\ Seen(k) \in Nat /\ Seen(k) <= nprod
         /\ pc # "act" => Seen(k) = nprod
         /\ pc = "act" /\ item = k => Seen(k) = nprod - 1
BY ListFacts DEF TypeOK, Seen

\* An action is run for one more deal when it is its turn, and only then.
LEMMA SeenNext ==
  ASSUME TypeOK, Next, NEW k \in K
  PROVE  Seen(k)' = IF pc = "act" /\ item = k THEN nprod ELSE Seen(k)
<1>0. k \in 1 .. L /\ L \in Nat /\ nprod \in Nat /\ item \in Nat
  BY ListFacts DEF TypeOK
<1>1. CASE Produce
  BY <1>0, <1>1 DEF Produce, Seen
<1>2. CASE EndOfRun
  BY <1>2 DEF EndOfRun, Seen
<1>3. CASE ActionsDone
  BY <1>0, <1>3 DEF ActionsDone, Seen, L
<1>4. CASE CleanupDone
  BY <1>4 DEF CleanupDone, Seen
<1>5. CASE Act /\ ~ActionsDone
  <2>1. pc = "act" /\ pc' = pc /\ item' = item + 1 /\ nprod' = nprod
    BY <1>5, ActSteps DEF ActStep, Acting, Does, TypeOK
  <2>. QED BY <1>0, <2>1 DEF Seen
<1>6. CASE Cleanup /\ ~CleanupDone
  <2>1. pc = "cleanup" /\ pc' = pc /\ nprod' = nprod
    BY <1>6, ReportSteps DEF ReportStep, Does
  <2>. QED BY <2>1 DEF Seen
<1>. QED BY <1>1, <1>2, <1>3, <1>4, <1>5, <1>6 DEF Next

\* Every step preserves that the deals are saved: a second print of a list saves
\* them again, in the same places.
LEMMA SavedNext ==
  ASSUME TypeOK, Saved, [Next]_vars
  PROVE  Saved'
<1>0. CASE UNCHANGED vars
  BY <1>0 DEF vars, Saved, Seen
<1>1. CASE Next
  <2>1. SUFFICES ASSUME NEW k \in Prints, NEW n \in 1 .. Seen(k)'
                 PROVE  deallist'[n] = hist'[n]
    BY DEF Saved
  <2>2. k \in K /\ ActionList[k].type = "print"
    BY DEF Prints
  <2>3. Seen(k)' = IF pc = "act" /\ item = k THEN nprod ELSE Seen(k)
    BY <1>1, <2>2, SeenNext
  <2>4. Seen(k) \in Nat /\ Seen(k) <= nprod /\ (pc = "act" /\ item = k => Seen(k) = nprod - 1)
        /\ nprod \in Nat
    BY <2>2, SeenFacts DEF TypeOK
  <2>5. \A l \in 1 .. Seen(k) : deallist[l] = hist[l] /\ hist'[l] = hist[l]
    <3>1. \A l \in 1 .. Seen(k) : l \in 1 .. nprod
      BY <2>4
    <3>. QED BY <3>1, HistGrows DEF Saved
  <2>6. CASE Act /\ ~ActionsDone /\ A.type = "print"
    <3>1. SaveDeal /\ pc = "act" /\ hist' = hist /\ item \in K
      BY <2>6, ActSteps DEF ActStep, Acting, Does, TypeOK, K
    <3>2. curdeal = hist[nprod]
      BY <3>1 DEF TypeOK
    <3>3. deallist' = [l \in 1 .. nprod |-> IF l < nprod THEN deallist[l] ELSE curdeal]
      BY <3>1 DEF SaveDeal
    <3>4. n \in 1 .. nprod /\ (n < nprod => n \in 1 .. Seen(item))
      <4>1. Seen(item) = nprod - 1
        BY <3>1, SeenFacts
      <4>. QED BY <2>3, <2>4, <4>1
    <3>5. item \in Prints
      BY <3>1, <2>6 DEF Prints, A
    <3>6. n < nprod => deallist[n] = hist[n]
      BY <3>4, <3>5 DEF Saved
    <3>. QED BY <3>1, <3>2, <3>3, <3>4, <3>6, <2>4
  <2>7. CASE ~(Act /\ ~ActionsDone /\ A.type = "print")
    <3>1. deallist' = deallist
      <4>1. CASE Produce \/ EndOfRun \/ ActionsDone \/ CleanupDone
        BY <4>1 DEF Produce, EndOfRun, ActionsDone, CleanupDone
      <4>2. CASE Cleanup /\ ~CleanupDone
        BY <4>2, ReportSteps DEF ReportStep
      <4>3. CASE Act /\ ~ActionsDone
        BY <4>3, <2>7, ActSteps DEF ActStep, TypeOK
      <4>. QED BY <1>1, <4>1, <4>2, <4>3 DEF Next
    <3>2. ~(pc = "act" /\ item = k)
      <4>1. SUFFICES ASSUME pc = "act", item = k PROVE FALSE
        OBVIOUS
      <4>2. A.type = "print"
        BY <4>1, <2>2 DEF A
      <4>3. ~Act \/ ActionsDone
        BY <4>2, <2>7
      <4>4. ActionsDone
        <5>1. ~Produce /\ ~EndOfRun
          BY <4>1 DEF Produce, EndOfRun
        <5>2. CASE Cleanup
          <6>1. ~CleanupDone
            BY <4>1 DEF CleanupDone
          <6>. QED BY <5>2, <6>1, ReportSteps, <4>1 DEF ReportStep, Does
        <5>. QED BY <1>1, <4>3, <5>1, <5>2 DEF Next
      <4>. QED BY <4>1, <4>4, <2>2, ListFacts DEF ActionsDone, L
    <3>. QED BY <2>3, <2>5, <3>1, <3>2
  <2>. QED BY <2>6, <2>7
<1>. QED BY <1>0, <1>1

\* Every step preserves that the pages are right: the n-th board is in the group
\* of four printhands() is called for with the first board of that group.
LEMMA PrintedNext ==
  ASSUME TypeOK, Saved, Printed, [Next]_vars
  PROVE  Printed'
<1>1. CASE UNCHANGED vars
  BY <1>1 DEF vars, Printed, Reported, PageRight
<1>2. CASE Produce \/ EndOfRun \/ ActionsDone \/ (Act /\ ~ActionsDone)
  <2>1. pc' \in {"act", "deal"} \/ (pc' = "cleanup" /\ item' = 1)
    <3>1. CASE Act /\ ~ActionsDone
      BY <3>1, ActSteps DEF ActStep, Acting, Does, TypeOK
    <3>. QED BY <1>2, <3>1 DEF Produce, EndOfRun, ActionsDone
  <2>2. \A k \in K : ~Reported(k)'
    BY <2>1, ListFacts DEF Reported
  <2>. QED BY <2>2 DEF Printed, Prints
<1>3. CASE CleanupDone
  <2>1. \A k \in K : Reported(k)
    BY <1>3, ListFacts DEF CleanupDone, Reported, L
  <2>2. UNCHANGED <<report, nprod, hist>>
    BY <1>3 DEF CleanupDone
  <2>. QED BY <2>1, <2>2 DEF Printed, Prints, PageRight
<1>4. CASE Cleanup /\ ~CleanupDone
  <2>1. ReportStep
    BY <1>4, ReportSteps
  <2>2. /\ pc = "cleanup" /\ item \in K /\ item' = item + 1 /\ item \in Nat
        /\ UNCHANGED <<pc, nprod, deallist, hist>>
    BY <2>1 DEF ReportStep, Does, K, TypeOK
  <2>3. PICK x : report' = [report EXCEPT ![item] = x]
    BY <2>1 DEF ReportStep
  <2>4. DOMAIN report = K
    BY DEF TypeOK
  <2>5. SUFFICES ASSUME NEW k \in Prints, Reported(k)' PROVE PageRight(k)'
    BY DEF Printed
  <2>6. k \in K /\ k \in Nat /\ ActionList[k].type = "print" /\ k < item + 1
    BY <2>2, <2>5, ListFacts DEF Prints, Reported
  <2>7. CASE k # item
    <3>1. Reported(k)
      BY <2>2, <2>6, <2>7 DEF Reported
    <3>2. report'[k] = report[k]
      BY <2>3, <2>4, <2>6, <2>7
    <3>. QED BY <2>2, <3>1, <3>2 DEF Printed, PageRight
  <2>8. CASE k = item
    <3>1. ShowPrint
      BY <2>1, <2>6, <2>8 DEF ReportStep, A
    <3>2. report' = [report EXCEPT ![item] = [seat \in A.seats |-> Page(seat)]]
      BY <3>1 DEF ShowPrint, Reporting
    <3>3. report'[k] = [seat \in A.seats |-> Page(seat)]
      BY <3>2, <2>4, <2>6, <2>8
    <3>4. A.seats = ActionList[k].seats
      BY <2>8 DEF A
    <3>5. ASSUME NEW s, NEW n \in 1 .. nprod
          PROVE  Page(s)[n] = [board |-> boardoffset + n, seat |-> s, deal |-> hist[n]]
      <4> DEFINE first == 4 * ((n - 1) \div 4)
                 size  == Smaller(4, nprod - first)
      <4>1. nprod \in Nat /\ boardoffset \in Int
        BY ActionsAssumption DEF TypeOK
      <4>2. first \in Nat /\ first < n /\ n <= first + 4 /\ n - first \in 1 .. 4
        BY <4>1
      <4>3. n - first \in 1 .. size
        BY <4>1, <4>2 DEF Smaller
      <4>4. Page(s)[n] = printhands(first, s, size)[n - first]
        BY DEF Page
      <4> HIDE DEF first, size
      <4>5. printhands(first, s, size)[n - first]
              = [board |-> first + boardoffset + (n - first), seat |-> s,
                 deal |-> deallist[first + (n - first)]]
        BY <4>3 DEF printhands
      <4>6. first + boardoffset + (n - first) = boardoffset + n /\ first + (n - first) = n
        BY <4>1, <4>2
      <4>7. deallist[n] = hist[n]
        <5>1. Seen(k) = nprod
          BY <2>2, <2>6, SeenFacts
        <5>. QED BY <5>1 DEF Saved
      <4>. QED BY <4>4, <4>5, <4>6, <4>7
    <3>6. \A s : Page(s) = [n \in 1 .. nprod |-> Page(s)[n]]
      BY DEF Page
    <3>7. \A s : Page(s) = [n \in 1 .. nprod |-> [board |-> boardoffset + n, seat |-> s,
                                                  deal |-> hist[n]]]
      BY <3>5, <3>6
    <3>8. /\ DOMAIN report'[k] = ActionList[k].seats
          /\ \A s \in ActionList[k].seats : report'[k][s] = Page(s)
      BY <3>3, <3>4
    <3>9. \A s \in ActionList[k].seats :
             report'[k][s] = [n \in 1 .. nprod |-> [board |-> boardoffset + n, seat |-> s,
                                                    deal |-> hist[n]]]
      BY <3>7, <3>8
    <3>10. nprod' = nprod /\ hist' = hist
      BY <2>2
    <3>. QED BY <3>8, <3>9, <3>10, Zenon DEF PageRight
  <2>. QED BY <2>7, <2>8
<1>. QED BY <1>1, <1>2, <1>3, <1>4 DEF Next

\* The invariant about boards holds in every behaviour, for every list of actions
\* and every number of deals (action(), cleanup_action() and print()).
THEOREM BoardInvariance == Spec => []BoardInv
<1>1. Init => BoardInv
  <2>1. Init => TypeOK
    BY TypeInit
  <2>2. Init => Lines
    BY DEF Init, Lines
  <2>3. Init => Saved
    <3> SUFFICES ASSUME Init PROVE Saved
      OBVIOUS
    <3>1. \A k \in K : Seen(k) = 0
      BY DEF Init, Seen
    <3>. QED BY <3>1 DEF Saved, Prints
  <2>4. Init => Printed
    BY DEF Init, Printed, Reported
  <2>. QED BY <2>1, <2>2, <2>3, <2>4 DEF BoardInv
<1>2. BoardInv /\ [Next]_vars => BoardInv'
  BY TypeNext, LinesNext, SavedNext, PrintedNext DEF BoardInv
<1>. QED BY <1>1, <1>2, PTL DEF Spec

\* A board has one number: the pages of print, the lines of the run and the dealer
\* and vulnerability of a PBN board all follow from the place of the deal in the
\* run, wherever the run was stopped.
THEOREM OneNumber == Spec => []BoardsAgree
<1>1. BoardInv => BoardsAgree
  <2> SUFFICES ASSUME BoardInv PROVE BoardsAgree
    OBVIOUS
  <2>1. Pages
    <3>1. SUFFICES ASSUME NEW k \in Ended({"print"})
                   PROVE  PageRight(k)
      BY DEF Pages, PageRight
    <3>2. k \in Prints /\ Reported(k)
      BY <3>1 DEF Ended, Prints, Reported, K
    <3>. QED BY <3>2 DEF BoardInv, Printed
  <2>2. \A n \in DOMAIN out : LineRight(out[n])
    BY DEF BoardInv, Lines
  <2>. QED BY <2>1, <2>2 DEF BoardsAgree
<1>. QED BY <1>1, BoardInvariance, PTL

-----------------------------------------------------------------------------
(* The counters: what each of them holds of the deals produced. *)

\* The actions whose counters are one array of cells.
Tables == {"frequency2d", "bktfreq", "bktfreq2d", "evalcontract"}

\* Who plays an evalcontract, and the tricks made.
Declarer(a) == IF a.side = SIDE_NS THEN 2 ELSE 3
Tricks(a, d) == Trix[d][Declarer(a)][strain(a)]

\* The cell of a table a deal is counted in.
CellOf(a, d) ==
    CASE a.type = "frequency2d" -> Cell2D(a, Val[a.expr][d], Val[a.expr2][d])
      [] a.type = "bktfreq" -> upd_bkt1D(Val[a.expr][d], a.bkt)
      [] a.type = "bktfreq2d" ->
            find_bkt_id(Val[a.expr][d], a.bktd) * Num(a.bkta)
                + find_bkt_id(Val[a.expr2][d], a.bkta)
      [] a.type = "evalcontract" -> Tricks(a, d)

\* The deals of a cell; those below, above and at a place of a frequency.
In(a, i) == {d \in Deal : CellOf(a, d) = i}

Less(a) == {d \in Deal : Val[a.expr][d] < a.low}
More(a) == {d \in Deal : Val[a.expr][d] > a.high}
At(a, i) == {d \in Deal : Val[a.expr][d] = a.low + i}

\* The values of an average, and their squares.
Values(a, h, m) == [n \in 1 .. m |-> Val[a.expr][h[n]]]
Squares(a, h, m) == [n \in 1 .. m |-> Val[a.expr][h[n]] * Val[a.expr][h[n]]]

\* What the counters of action a hold after the first m deals of h.
FreqCells(a, h, m) ==
    [uflow |-> Met(h, m, Less(a)), oflow |-> Met(h, m, More(a)),
     freqs |-> [i \in 0 .. (a.high - a.low + 1) - 1 |-> Met(h, m, At(a, i))]]

AvgCells(a, h, m) ==
    [count |-> m, sum |-> SumTo(Values(a, h, m), 1, m),
     sqsum |-> SumTo(Squares(a, h, m), 1, m)]

Cells(a, h, m) == [i \in DOMAIN Empty(a) |-> Met(h, m, In(a, i))]

Counted(a, h, m) ==
    CASE a.type = "average" -> AvgCells(a, h, m)
      [] a.type = "frequency" -> FreqCells(a, h, m)
      [] a.type \in Tables -> Cells(a, h, m)
      [] OTHER -> << >>

\* The counters of every action are those of the deals it has been run for.
Counts == \A k \in K : acu[k] = Counted(ActionList[k], hist, Seen(k))

\* setup_action() leaves the counters of no deals.
LEMMA CountedNone ==
  ASSUME NEW a, a.type \in Types, NEW h
  PROVE  Counted(a, h, 0) = Empty(a)
<1>1. CASE a.type = "average"
  <2>1. SumTo(Values(a, h, 0), 1, 0) = 0 /\ SumTo(Squares(a, h, 0), 1, 0) = 0
    <3>1. \A f : SumTo(f, 1, 1 - 1) = 0
      BY SumEmpty
    <3>. QED BY <3>1
  <2>. QED BY <1>1, <2>1 DEF Counted, AvgCells, Empty, Tables
<1>2. CASE a.type = "frequency"
  <2>1. Met(h, 0, Less(a)) = 0 /\ Met(h, 0, More(a)) = 0 /\ \A i : Met(h, 0, At(a, i)) = 0
    BY MetZero
  <2>2. Empty(a) = [uflow |-> 0, oflow |-> 0, freqs |-> Zeros(a.high - a.low + 1)]
    BY <1>2 DEF Empty
  <2>3. Counted(a, h, 0) = FreqCells(a, h, 0)
    BY <1>2 DEF Counted, Tables
  <2>4. FreqCells(a, h, 0) = [uflow |-> 0, oflow |-> 0, freqs |-> Zeros(a.high - a.low + 1)]
    <3>1. [i \in 0 .. (a.high - a.low + 1) - 1 |-> Met(h, 0, At(a, i))] = Zeros(a.high - a.low + 1)
      <4> DEFINE n == a.high - a.low + 1
      <4> HIDE DEF n
      <4>1. [i \in 0 .. n - 1 |-> Met(h, 0, At(a, i))] = Zeros(n)
        BY <2>1 DEF Zeros
      <4>. QED BY <4>1, Zenon DEF n
    <3>. QED BY <2>1, <3>1 DEF FreqCells
  <2>. QED BY <2>2, <2>3, <2>4
<1>3. CASE a.type \in Tables
  <2>1. Counted(a, h, 0) = Cells(a, h, 0)
    BY <1>3 DEF Counted, Tables
  <2>2. \A i : Met(h, 0, In(a, i)) = 0
    BY MetZero
  <2>3. Cells(a, h, 0) = [i \in DOMAIN Empty(a) |-> 0]
    BY <2>2 DEF Cells
  <2>4. \E n : Empty(a) = Zeros(n)
    BY <1>3 DEF Tables, Empty
  <2>5. Empty(a) = [i \in DOMAIN Empty(a) |-> 0]
    BY <2>4 DEF Zeros
  <2>. QED BY <2>1, <2>3, <2>5
<1>4. CASE a.type \notin Counting
  BY <1>4 DEF Counting, Counted, Empty, Tables, Types
<1>. QED BY <1>1, <1>2, <1>3, <1>4 DEF Tables, Counting

\* The counters depend on the first m deals only.
LEMMA CountedSame ==
  ASSUME NEW a, NEW h, NEW h2, NEW m \in Nat, \A n \in 1 .. m : h2[n] = h[n]
  PROVE  Counted(a, h2, m) = Counted(a, h, m)
<1>1. Values(a, h2, m) = Values(a, h, m) /\ Squares(a, h2, m) = Squares(a, h, m)
  BY DEF Values, Squares
<1>2. \A D : Met(h2, m, D) = Met(h, m, D)
  BY MetSame
<1>3. FreqCells(a, h2, m) = FreqCells(a, h, m)
  BY <1>2 DEF FreqCells
<1>4. AvgCells(a, h2, m) = AvgCells(a, h, m)
  BY <1>1 DEF AvgCells
<1>5. Cells(a, h2, m) = Cells(a, h, m)
  BY <1>2 DEF Cells
<1>. QED BY <1>3, <1>4, <1>5 DEF Counted

\* Adding one to the cell of the next deal counts that deal.
LEMMA TableNext ==
  ASSUME NEW a, a.type \in Tables, NEW h, NEW m \in Nat, h[m + 1] \in Deal
  PROVE  Bump(Counted(a, h, m), CellOf(a, h[m + 1])) = Counted(a, h, m + 1)
<1> DEFINE c == CellOf(a, h[m + 1])
<1>1. Counted(a, h, m) = Cells(a, h, m) /\ Counted(a, h, m + 1) = Cells(a, h, m + 1)
  BY DEF Counted, Tables
<1>2. ASSUME NEW i PROVE Met(h, m + 1, In(a, i)) = Met(h, m, In(a, i)) + (IF i = c THEN 1 ELSE 0)
  <2>1. h[m + 1] \in In(a, i) <=> i = c
    BY DEF In
  <2>. QED BY <2>1, MetNext
<1>3. \A i : Met(h, m, In(a, i)) \in Nat
  BY MetNat
<1> HIDE DEF c
<1>4. Bump(Cells(a, h, m), c) = Cells(a, h, m + 1)
  BY <1>2, <1>3 DEF Bump, Cells
<1>. QED BY <1>1, <1>4 DEF c

\* A frequency counts the next deal below, above or in its table.
LEMMA FreqNext ==
  ASSUME NEW a, a.low \in Int, a.high \in Int, a.low <= a.high, a.type = "frequency",
         NEW h, NEW m \in Nat, NEW v \in Int,
         h[m + 1] \in Deal, v = Val[a.expr][h[m + 1]], NEW c, c = Counted(a, h, m)
  PROVE  (CASE v < a.low  -> [c EXCEPT !.uflow = @ + 1]
            [] v > a.high -> [c EXCEPT !.oflow = @ + 1]
            [] OTHER      -> [c EXCEPT !.freqs = Bump(@, v - a.low)])
         = Counted(a, h, m + 1)
<1>1. c = FreqCells(a, h, m) /\ Counted(a, h, m + 1) = FreqCells(a, h, m + 1)
  BY DEF Counted, Tables
<1>2. Met(h, m + 1, Less(a)) = Met(h, m, Less(a)) + (IF v < a.low THEN 1 ELSE 0)
  <2>1. h[m + 1] \in Less(a) <=> v < a.low
    BY DEF Less
  <2>. QED BY <2>1, MetNext
<1>3. Met(h, m + 1, More(a)) = Met(h, m, More(a)) + (IF v > a.high THEN 1 ELSE 0)
  <2>1. h[m + 1] \in More(a) <=> v > a.high
    BY DEF More
  <2>. QED BY <2>1, MetNext
<1>4. ASSUME NEW i \in Int
      PROVE  Met(h, m + 1, At(a, i)) = Met(h, m, At(a, i)) + (IF i = v - a.low THEN 1 ELSE 0)
  <2>1. h[m + 1] \in At(a, i) <=> i = v - a.low
    BY DEF At
  <2>. QED BY <2>1, MetNext
<1>5. \A D : Met(h, m, D) \in Nat
  BY MetNat
<1> DEFINE I == 0 .. (a.high - a.low + 1) - 1
           f == [i \in I |-> Met(h, m, At(a, i))]
           f2 == [i \in I |-> Met(h, m + 1, At(a, i))]
           u == Met(h, m, Less(a))
           u2 == Met(h, m + 1, Less(a))
           o == Met(h, m, More(a))
           o2 == Met(h, m + 1, More(a))
<1>6. c = [uflow |-> u, oflow |-> o, freqs |-> f]
  BY <1>1 DEF FreqCells
<1>7. Counted(a, h, m + 1) = [uflow |-> u2, oflow |-> o2, freqs |-> f2]
  BY <1>1 DEF FreqCells
<1>8. u \in Nat /\ o \in Nat
  BY <1>5
<1>9. CASE v < a.low
  <2>1. u2 = u + 1 /\ o2 = o
    BY <1>2, <1>3, <1>8, <1>9
  <2>2. f2 = f
    BY <1>4, <1>5, <1>9
  <2> HIDE DEF f, f2, u, u2, o, o2
  <2>. QED BY <1>6, <1>7, <1>9, <2>1, <2>2
<1>10. CASE v > a.high
  <2>1. u2 = u /\ o2 = o + 1
    BY <1>2, <1>3, <1>8, <1>10
  <2>2. f2 = f
    BY <1>4, <1>5, <1>10
  <2>3. ~(v < a.low)
    BY <1>10
  <2> HIDE DEF f, f2, u, u2, o, o2
  <2>. QED BY <1>6, <1>7, <1>10, <2>1, <2>2, <2>3
<1>11. CASE ~(v < a.low) /\ ~(v > a.high)
  <2>1. u2 = u /\ o2 = o
    BY <1>2, <1>3, <1>8, <1>11
  <2>2. f2 = Bump(f, v - a.low)
    <3>1. \A i \in I : f2[i] = f[i] + (IF i = v - a.low THEN 1 ELSE 0)
      BY <1>4
    <3>2. v - a.low \in I
      BY <1>11
    <3>3. \A i \in I : f[i] \in Nat
      BY <1>5
    <3>4. \A i \in I : f2[i] = Bump(f, v - a.low)[i]
      <4> HIDE DEF f2, I
      <4>. QED BY <3>1, <3>2, <3>3 DEF Bump
    <3>5. Bump(f, v - a.low) = [i \in I |-> Bump(f, v - a.low)[i]]
      BY DEF Bump
    <3> HIDE DEF I
    <3>. QED BY <3>4, <3>5
  <2> HIDE DEF f, f2, u, u2, o, o2
  <2>. QED BY <1>6, <1>7, <1>11, <2>1, <2>2
<1>. QED BY <1>9, <1>10, <1>11

\* An average adds the next deal's value and its square.
LEMMA AvgNext ==
  ASSUME NEW a, a.type = "average", NEW h, NEW m \in Nat, NEW v \in Int,
         v = Val[a.expr][h[m + 1]], NEW c, c = Counted(a, h, m)
  PROVE  [count |-> c.count + 1, sum |-> c.sum + v, sqsum |-> c.sqsum + v * v]
         = Counted(a, h, m + 1)
<1> DEFINE x == Values(a, h, m)
           x2 == Values(a, h, m + 1)
           q == Squares(a, h, m)
           q2 == Squares(a, h, m + 1)
<1>1. /\ \A n \in 1 .. m : x2[n] = x[n] /\ q2[n] = q[n]
      /\ x2[m + 1] = v /\ q2[m + 1] = v * v
  BY DEF Values, Squares
<1>2. c = [count |-> m, sum |-> SumTo(x, 1, m), sqsum |-> SumTo(q, 1, m)]
  BY DEF Counted, AvgCells, Tables
<1>3. Counted(a, h, m + 1)
        = [count |-> m + 1, sum |-> SumTo(x2, 1, m + 1), sqsum |-> SumTo(q2, 1, m + 1)]
  BY DEF Counted, AvgCells, Tables
<1> HIDE DEF x, x2, q, q2
<1>4. SumTo(x2, 1, m) = SumTo(x, 1, m) /\ SumTo(q2, 1, m) = SumTo(q, 1, m)
  <2>1. m >= 1 - 1
    OBVIOUS
  <2>2. \A n \in 1 .. m : x2[n] = x[n]
    BY <1>1
  <2>3. \A n \in 1 .. m : q2[n] = q[n]
    BY <1>1
  <2>4. SumTo(x2, 1, m) = SumTo(x, 1, m)
    BY <2>1, <2>2, SumSame
  <2>5. SumTo(q2, 1, m) = SumTo(q, 1, m)
    BY <2>1, <2>3, SumSame
  <2>. QED BY <2>4, <2>5
<1>5. SumTo(x2, 1, m + 1) = SumTo(x2, 1, m) + v /\ SumTo(q2, 1, m + 1) = SumTo(q2, 1, m) + v * v
  <2> DEFINE l == m + 1
  <2>1. l \in Int /\ l >= 1 /\ l - 1 = m
    OBVIOUS
  <2> HIDE DEF l
  <2>2. /\ SumTo(x2, 1, l) = SumTo(x2, 1, l - 1) + x2[l]
        /\ SumTo(q2, 1, l) = SumTo(q2, 1, l - 1) + q2[l]
    BY <2>1, SumNext
  <2>3. SumTo(x2, 1, l) = SumTo(x2, 1, m) + x2[l] /\ SumTo(q2, 1, l) = SumTo(q2, 1, m) + q2[l]
    BY <2>1, <2>2
  <2>. QED BY <1>1, <2>3 DEF l
<1>. QED BY <1>2, <1>3, <1>4, <1>5

\* What the parser leaves in an action that counts.
LEMMA ListAction ==
  ASSUME NEW k \in K
  PROVE  /\ ActionList[k].type = "average" => ActionList[k].expr \in Expr
         /\ ActionList[k].type = "frequency" =>
               /\ ActionList[k].expr \in Expr
               /\ ActionList[k].low \in Int /\ ActionList[k].high \in Int
               /\ ActionList[k].low <= ActionList[k].high
         /\ ActionList[k].type = "frequency2d" =>
               /\ ActionList[k].expr \in Expr /\ ActionList[k].expr2 \in Expr
               /\ ActionList[k].low \in Int /\ ActionList[k].high \in Int
               /\ ActionList[k].low2 \in Int /\ ActionList[k].high2 \in Int
               /\ ActionList[k].low <= ActionList[k].high
               /\ ActionList[k].low2 <= ActionList[k].high2
         /\ ActionList[k].type = "bktfreq" =>
               ActionList[k].expr \in Expr /\ BktOK(ActionList[k].bkt)
         /\ ActionList[k].type = "bktfreq2d" =>
               /\ ActionList[k].expr \in Expr /\ ActionList[k].expr2 \in Expr
               /\ BktOK(ActionList[k].bktd) /\ BktOK(ActionList[k].bkta)
<1> DEFINE a == ActionList[k]
<1>1. ActionOK(a)
  BY ListAssumption DEF K
<1> HIDE DEF a
<1>2. a.type = "average" => a.expr \in Expr
  BY <1>1 DEF ActionOK
<1>3. a.type = "frequency" => a.expr \in Expr /\ a.low \in Int /\ a.high \in Int /\ a.low <= a.high
  BY <1>1 DEF ActionOK
<1>4. a.type = "frequency2d" =>
               /\ a.expr \in Expr /\ a.expr2 \in Expr
               /\ a.low \in Int /\ a.high \in Int /\ a.low2 \in Int /\ a.high2 \in Int
               /\ a.low <= a.high /\ a.low2 <= a.high2
  BY <1>1 DEF ActionOK
<1>5. a.type = "bktfreq" => a.expr \in Expr /\ BktOK(a.bkt)
  BY <1>1 DEF ActionOK
<1>6. a.type = "bktfreq2d" => a.expr \in Expr /\ a.expr2 \in Expr /\ BktOK(a.bktd) /\ BktOK(a.bkta)
  BY <1>1 DEF ActionOK
<1>. QED BY <1>2, <1>3, <1>4, <1>5, <1>6 DEF a

\* The counter of the action that is done.
LEMMA CountedAct ==
  ASSUME TypeOK, Act, ~ActionsDone,
         acu[item] = Counted(A, hist, nprod - 1)
  PROVE  acu'[item] = Counted(A, hist, nprod)
<1> DEFINE m == nprod - 1
<1>1. ActStep /\ pc = "act" /\ item \in K /\ DOMAIN acu = K
  BY ActSteps DEF ActStep, Acting, Does, TypeOK, K
<1>2. m \in Nat /\ nprod = m + 1 /\ curdeal \in Deal /\ hist[m + 1] = curdeal
  BY <1>1 DEF TypeOK
<1>3. \A e \in Expr : Value(e) \in Int /\ Value(e) = Val[e][hist[m + 1]]
  BY <1>2, ActionsAssumption DEF Value
<1>4. A.type \in Types
  BY <1>1, ListFacts DEF A, K
<1>5. CASE Average
  <2>1. A.type = "average" /\ A.expr \in Expr
    BY <1>1, <1>5, ListAction DEF Average, Acting, Does, A
  <2> DEFINE v == Value(A.expr)
             c == acu[item]
             new == [count |-> c.count + 1, sum |-> c.sum + v, sqsum |-> c.sqsum + v * v]
  <2>2. acu' = [acu EXCEPT ![item] = new]
    BY <1>5 DEF Average, Count
  <2>3. v \in Int /\ v = Val[A.expr][hist[m + 1]]
    BY <1>3, <2>1
  <2>4. c = Counted(A, hist, m)
    OBVIOUS
  <2>5. acu'[item] = new
    BY <1>1, <2>2
  <2> HIDE DEF v, c, m
  <2>6. new = Counted(A, hist, m + 1)
    BY <1>2, <2>1, <2>3, <2>4, AvgNext
  <2>. QED BY <1>2, <2>5, <2>6
<1>6. CASE Frequency
  <2>1. A.type = "frequency" /\ A.expr \in Expr /\ A.low \in Int /\ A.high \in Int
        /\ A.low <= A.high
    BY <1>1, <1>6, ListAction DEF Frequency, Acting, Does, A
  <2> DEFINE v == Value(A.expr)
             c == acu[item]
             new == CASE v < A.low  -> [c EXCEPT !.uflow = @ + 1]
                   [] v > A.high -> [c EXCEPT !.oflow = @ + 1]
                   [] OTHER      -> [c EXCEPT !.freqs = Bump(@, v - A.low)]
  <2>2. acu' = [acu EXCEPT ![item] = new]
    BY <1>6 DEF Frequency, Count
  <2>3. v \in Int /\ v = Val[A.expr][hist[m + 1]]
    BY <1>3, <2>1
  <2>4. c = Counted(A, hist, m)
    OBVIOUS
  <2>7. hist[m + 1] \in Deal
    BY <1>2
  <2>5. acu'[item] = new
    BY <1>1, <2>2
  <2> HIDE DEF v, c, m
  <2>6. new = Counted(A, hist, m + 1)
    BY <1>2, <2>1, <2>3, <2>4, <2>7, FreqNext
  <2>. QED BY <1>2, <2>5, <2>6
<1>7. CASE Frequency2D \/ Bktfreq \/ Bktfreq2D \/ EvalContract
  <2>1. A.type \in Tables /\ acu' = [acu EXCEPT ![item] = Bump(@, CellOf(A, curdeal))]
    <3>1. CASE Frequency2D
      BY <3>1 DEF Frequency2D, Count, Acting, Does, Tables, CellOf, Value
    <3>2. CASE Bktfreq
      BY <3>2 DEF Bktfreq, Count, Acting, Does, Tables, CellOf, Value
    <3>3. CASE Bktfreq2D
      BY <3>3 DEF Bktfreq2D, Count, Acting, Does, Tables, CellOf, Value
    <3>4. CASE EvalContract
      <4>1. A.type = "evalcontract"
            /\ acu' = [acu EXCEPT ![item] = Bump(acu[item], Trix[curdeal][Declarer(A)][strain(A)])]
        BY <3>4 DEF EvalContract, Count, Acting, Does, Declarer
      <4>2. CellOf(A, curdeal) = Trix[curdeal][Declarer(A)][strain(A)]
        BY <4>1 DEF CellOf, Tricks
      <4>. QED BY <4>1, <4>2 DEF Tables
    <3>. QED BY <1>7, <3>1, <3>2, <3>3, <3>4
  <2>2. acu'[item] = Bump(Counted(A, hist, m), CellOf(A, hist[m + 1]))
    BY <1>1, <1>2, <2>1
  <2>3. hist[m + 1] \in Deal
    BY <1>2
  <2> HIDE DEF m
  <2>4. acu'[item] = Counted(A, hist, m + 1)
    BY <1>2, <2>1, <2>2, <2>3, TableNext
  <2>. QED BY <1>2, <2>4
<1>8. CASE ~(Average \/ Frequency \/ Frequency2D \/ Bktfreq \/ Bktfreq2D \/ EvalContract)
  <2>1. A.type \notin Counting /\ acu' = acu
    <3>1. CASE PrintCompact
      BY <3>1 DEF PrintCompact, Acting, Does, Counting
    <3>2. CASE PrintES
      BY <3>2 DEF PrintES, Acting, Does, Counting
    <3>3. CASE PrintBoard
      BY <3>3 DEF PrintBoard, Acting, Does, Counting
    <3>4. CASE PrintPBN
      BY <3>4 DEF PrintPBN, Acting, Does, Counting
    <3>5. CASE Export
      BY <3>5 DEF Export, Acting, Does, Counting
    <3>6. CASE CsvRpt
      BY <3>6 DEF CsvRpt, Acting, Does, Counting
    <3>7. CASE SaveDeal
      BY <3>7 DEF SaveDeal, Acting, Does, Counting
    <3>. QED BY <1>8, <3>1, <3>2, <3>3, <3>4, <3>5, <3>6, <3>7 DEF Act
  <2>2. \A l : Counted(A, hist, l) = << >>
    BY <2>1 DEF Counted, Counting, Tables
  <2>. QED BY <2>1, <2>2
<1>. QED BY <1>5, <1>6, <1>7, <1>8

\* Every step preserves that the counters are right.
LEMMA CountsNext ==
  ASSUME TypeOK, Counts, [Next]_vars
  PROVE  Counts'
<1>0. CASE UNCHANGED vars
  BY <1>0 DEF vars, Counts, Seen
<1>1. CASE Next
  <2>1. SUFFICES ASSUME NEW k \in K PROVE acu'[k] = Counted(ActionList[k], hist', Seen(k)')
    BY DEF Counts
  <2> DEFINE a == ActionList[k]
  <2>2. Seen(k)' = IF pc = "act" /\ item = k THEN nprod ELSE Seen(k)
    BY <1>1, SeenNext
  <2>3. acu[k] = Counted(a, hist, Seen(k)) /\ Seen(k) \in Nat /\ Seen(k) <= nprod /\ nprod \in Nat
    BY SeenFacts DEF Counts, TypeOK
  <2>4. Counted(a, hist', Seen(k)) = Counted(a, hist, Seen(k))
    <3>1. \A n \in 1 .. Seen(k) : hist'[n] = hist[n]
      <4>1. \A n \in 1 .. Seen(k) : n \in 1 .. nprod
        BY <2>3
      <4>. QED BY <4>1, HistGrows
    <3>. QED BY <2>3, <3>1, CountedSame
  <2>5. CASE Act /\ ~ActionsDone
    <3>1. ActStep
      BY <2>5, ActSteps DEF TypeOK
    <3>2. pc = "act" /\ hist' = hist
      BY <3>1 DEF ActStep, Acting, Does
    <3>3. CASE k = item
      <4>1. Seen(k) = nprod - 1 /\ Seen(k)' = nprod /\ a = A
        BY <3>2, <3>3, <2>2, SeenFacts DEF A
      <4>2. acu[item] = Counted(A, hist, nprod - 1)
        BY <2>3, <3>3, <4>1
      <4>3. acu'[item] = Counted(A, hist, nprod)
        BY <2>5, <4>2, CountedAct
      <4>. QED BY <3>2, <3>3, <4>1, <4>3
    <3>4. CASE k # item
      <4>1. acu'[k] = acu[k]
        BY <3>1, <3>4 DEF ActStep
      <4>2. Seen(k)' = Seen(k)
        BY <2>2, <3>4
      <4>. QED BY <2>3, <3>2, <4>1, <4>2
    <3>. QED BY <3>3, <3>4
  <2>6. CASE ~(Act /\ ~ActionsDone)
    <3>1. acu' = acu
      <4>1. CASE Produce \/ EndOfRun \/ ActionsDone \/ CleanupDone
        BY <4>1 DEF Produce, EndOfRun, ActionsDone, CleanupDone
      <4>2. CASE Cleanup /\ ~CleanupDone
        BY <4>2, ReportSteps DEF ReportStep
      <4>. QED BY <1>1, <2>6, <4>1, <4>2 DEF Next
    <3>2. ~(pc = "act" /\ item = k)
      <4>1. SUFFICES ASSUME pc = "act", item = k PROVE FALSE
        OBVIOUS
      <4>4. ActionsDone
        <5>1. ~Produce /\ ~EndOfRun
          BY <4>1 DEF Produce, EndOfRun
        <5>2. CASE Cleanup
          <6>1. ~CleanupDone
            BY <4>1 DEF CleanupDone
          <6>. QED BY <5>2, <6>1, ReportSteps, <4>1 DEF ReportStep, Does
        <5>. QED BY <1>1, <2>6, <5>1, <5>2 DEF Next
      <4>. QED BY <4>1, <4>4, ListFacts DEF ActionsDone, L
    <3>. QED BY <2>2, <2>3, <2>4, <3>1, <3>2
  <2>. QED BY <2>5, <2>6
<1>. QED BY <1>0, <1>1

\* They are at the start.
LEMMA CountsInit == Init => Counts
<1> SUFFICES ASSUME Init, NEW k \in K PROVE acu[k] = Counted(ActionList[k], hist, Seen(k))
  BY DEF Counts
<1>1. Seen(k) = 0
  BY DEF Init, Seen
<1>2. acu[k] = Empty(ActionList[k])
  BY DEF Init, K
<1>3. Counted(ActionList[k], hist, 0) = Empty(ActionList[k])
  BY ListFacts, CountedNone
<1>. QED BY <1>1, <1>2, <1>3

-----------------------------------------------------------------------------
(* What is shown at the end is made of those counters. *)

\* What the reports of the five kinds of statistics show of counters c.
AvgReport(c) ==
    LET n == IF c.count > 1 THEN c.count - 1 ELSE 1
    IN  [mean |-> <<c.sum, c.count>>,
         var  |-> <<c.sqsum * c.count - c.sum * c.sum, c.count * n>>,
         size |-> c.count]

FreqReport(a, c) ==
    LET rows == a.high - a.low + 1
    IN  OneWay(c.uflow, [i \in 1 .. rows |-> a.low + i - 1],
               [i \in 1 .. rows |-> c.freqs[i - 1]], c.oflow)

BktReport(a, c) ==
    LET oflow == Num(a.bkt) - 1
    IN  OneWay(c[0], bkt_names(a.bkt), [i \in 1 .. oflow - 1 |-> c[i]], c[oflow])

Freq2DReport(a, c) ==
    TwoWay(c, [i \in 1 .. a.high - a.low + 1 |-> i + a.low - 1],
              [j \in 1 .. a.high2 - a.low2 + 1 |-> j + a.low2 - 1])

Bkt2DReport(a, c) == TwoWay(c, bkt_names(a.bktd), bkt_names(a.bkta))

\* r is what the code prints for action a when its counters hold c.
ShownFor(a, c, r) ==
    CASE a.type = "average" -> r = AvgReport(c)
      [] a.type = "frequency" -> r = FreqReport(a, c)
      [] a.type = "bktfreq" -> r = BktReport(a, c)
      [] a.type = "frequency2d" -> r = Freq2DReport(a, c)
      [] a.type = "bktfreq2d" -> r = Bkt2DReport(a, c)
      [] a.type = "evalcontract" ->
            \E slams \in IF level(a) < 6 THEN {c[12] + c[13]} ELSE Garbage :
                r = Figures(a, c, slams)
      [] OTHER -> TRUE

\* What has been reported was made of the counters of all deals.
Reports == \A k \in K : Reported(k) =>
              ShownFor(ActionList[k], Counted(ActionList[k], hist, nprod), report[k])

\* An action shows its report when it is its turn.
LEMMA ReportShown ==
  ASSUME TypeOK, Cleanup, ~CleanupDone
  PROVE  ShownFor(A, acu[item], report'[item])
<1>0. item \in DOMAIN report /\ item \in K
  BY ReportSteps DEF ReportStep, Does, TypeOK, K
<1>1. CASE ShowNothing
  <2>1. A.type \in {"printall", "printcompact", "printpbn", "printside",
               "printoneline", "printes", "export", "csvrpt", "printrpt"}
    BY <1>1 DEF ShowNothing, Reporting, Does
  <2>. QED BY <2>1 DEF ShownFor
<1>2. CASE ShowPrint
  <2>1. A.type = "print"
    BY <1>2 DEF ShowPrint, Reporting, Does
  <2>. QED BY <2>1 DEF ShownFor
<1>3. CASE ShowAverage
  <2>1. A.type = "average"
    BY <1>3 DEF ShowAverage, Reporting, Does
  <2>2. report' = [report EXCEPT ![item] = AvgReport(acu[item])]
    BY <1>3 DEF ShowAverage, Reporting, AvgReport
  <2>. QED BY <1>0, <2>1, <2>2 DEF ShownFor
<1>4. CASE ShowFrequency
  <2>1. A.type = "frequency"
    BY <1>4 DEF ShowFrequency, Reporting, Does
  <2>2. report' = [report EXCEPT ![item] = FreqReport(A, acu[item])]
    BY <1>4 DEF ShowFrequency, Reporting, FreqReport
  <2>. QED BY <1>0, <2>1, <2>2 DEF ShownFor
<1>5. CASE ShowFrequency2D
  <2>1. A.type = "frequency2d"
    BY <1>5 DEF ShowFrequency2D, Reporting, Does
  <2>2. report' = [report EXCEPT ![item] = Freq2DReport(A, acu[item])]
    BY <1>5 DEF ShowFrequency2D, Reporting, Freq2DReport
  <2>. QED BY <1>0, <2>1, <2>2 DEF ShownFor
<1>6. CASE ShowBktfreq
  <2>1. A.type = "bktfreq"
    BY <1>6 DEF ShowBktfreq, Reporting, Does
  <2>2. report' = [report EXCEPT ![item] = BktReport(A, acu[item])]
    BY <1>6 DEF ShowBktfreq, Reporting, BktReport
  <2>. QED BY <1>0, <2>1, <2>2 DEF ShownFor
<1>7. CASE ShowBktfreq2D
  <2>1. A.type = "bktfreq2d"
    BY <1>7 DEF ShowBktfreq2D, Reporting, Does
  <2>2. report' = [report EXCEPT ![item] = Bkt2DReport(A, acu[item])]
    BY <1>7 DEF ShowBktfreq2D, Reporting, Bkt2DReport
  <2>. QED BY <1>0, <2>1, <2>2 DEF ShownFor
<1>8. CASE ShowContract
  <2>1. A.type = "evalcontract"
    BY <1>8 DEF ShowContract, Does
  <2> DEFINE S == IF level(A) < 6 THEN {acu[item][12] + acu[item][13]} ELSE Garbage
  <2>2. PICK slams \in S : report' = [report EXCEPT ![item] = Figures(A, acu[item], slams)]
    BY <1>8 DEF ShowContract, Reporting
  <2>3. report'[item] = Figures(A, acu[item], slams)
    BY <1>0, <2>2
  <2>4. \E s \in S : report'[item] = Figures(A, acu[item], s)
    BY <2>3
  <2>. QED BY <2>1, <2>4 DEF ShownFor
<1>. QED BY <1>1, <1>2, <1>3, <1>4, <1>5, <1>6, <1>7, <1>8 DEF Cleanup

\* Every step preserves that: nothing is counted once the reports have begun.
LEMMA ReportsNext ==
  ASSUME TypeOK, Counts, Reports, [Next]_vars
  PROVE  Reports'
<1>1. CASE UNCHANGED vars
  BY <1>1 DEF vars, Reports, Reported
<1>2. CASE Produce \/ EndOfRun \/ ActionsDone \/ (Act /\ ~ActionsDone)
  <2>1. pc' \in {"act", "deal"} \/ (pc' = "cleanup" /\ item' = 1)
    <3>1. CASE Act /\ ~ActionsDone
      BY <3>1, ActSteps DEF ActStep, Acting, Does, TypeOK
    <3>. QED BY <1>2, <3>1 DEF Produce, EndOfRun, ActionsDone
  <2>2. \A k \in K : ~Reported(k)'
    BY <2>1, ListFacts DEF Reported
  <2>. QED BY <2>2 DEF Reports
<1>3. CASE CleanupDone
  <2>1. \A k \in K : Reported(k)
    BY <1>3, ListFacts DEF CleanupDone, Reported, L
  <2>2. UNCHANGED <<report, nprod, hist>>
    BY <1>3 DEF CleanupDone
  <2>. QED BY <2>1, <2>2 DEF Reports
<1>4. CASE Cleanup /\ ~CleanupDone
  <2>1. ReportStep
    BY <1>4, ReportSteps
  <2>2. /\ pc = "cleanup" /\ item \in K /\ item' = item + 1 /\ item \in Nat
        /\ UNCHANGED <<pc, nprod, hist>>
    BY <2>1 DEF ReportStep, Does, K, TypeOK
  <2>3. PICK x : report' = [report EXCEPT ![item] = x]
    BY <2>1 DEF ReportStep
  <2>4. DOMAIN report = K
    BY DEF TypeOK
  <2>5. SUFFICES ASSUME NEW k \in K, Reported(k)'
                 PROVE  ShownFor(ActionList[k], Counted(ActionList[k], hist', nprod'), report'[k])
    BY DEF Reports
  <2>6. k \in Nat /\ k < item + 1
    BY <2>2, <2>5, ListFacts DEF Reported
  <2>7. CASE k # item
    <3>1. Reported(k)
      BY <2>2, <2>6, <2>7 DEF Reported
    <3>2. report'[k] = report[k]
      BY <2>3, <2>4, <2>7
    <3>. QED BY <2>2, <3>1, <3>2 DEF Reports
  <2>8. CASE k = item
    <3>1. acu[item] = Counted(A, hist, nprod)
      BY <2>2, <2>8, SeenFacts DEF Counts, A
    <3>2. ShownFor(A, acu[item], report'[item])
      BY <1>4, ReportShown
    <3>. QED BY <2>2, <2>8, <3>1, <3>2 DEF A
  <2>. QED BY <2>7, <2>8
<1>. QED BY <1>1, <1>2, <1>3, <1>4 DEF Next

\* The inductive invariant about statistics.
StatInv == TypeOK /\ Counts /\ Reports

\* The invariant about statistics holds in every behaviour: each action's counters
\* are those of the deals it was run for, and its report is made of the counters
\* of all deals (action(), cleanup_action(), upd_bkt1D(), upd_bkt2D()).
THEOREM StatInvariance == Spec => []StatInv
<1>1. Init => StatInv
  <2>1. Init => Reports
    BY DEF Init, Reports, Reported
  <2>. QED BY <2>1, TypeInit, CountsInit DEF StatInv
<1>2. StatInv /\ [Next]_vars => StatInv'
  BY TypeNext, CountsNext, ReportsNext DEF StatInv
<1>. QED BY <1>1, <1>2, PTL DEF Spec

-----------------------------------------------------------------------------
(* The intervals of a table. *)

\* To multiply by a positive number keeps the order.
LEMMA TimesUp ==
  ASSUME NEW p \in Int, NEW q \in Int, NEW s \in Int, s > 0, p <= q
  PROVE  p * s <= q * s
<1>1. (q - p) * s >= 0
  OBVIOUS
<1>2. (q - p) * s = q * s - p * s
  OBVIOUS
<1>3. p * s \in Int /\ q * s \in Int
  OBVIOUS
<1>. QED BY <1>1, <1>2, <1>3

\* What integer division returns.
LEMMA Quotient ==
  ASSUME NEW x \in Int, NEW s \in Int, s > 0
  PROVE  /\ x \div s \in Int
         /\ (x \div s) * s <= x
         /\ x < (x \div s) * s + s
<1>1. x \div s \in Int /\ x % s \in 0 .. s - 1 /\ x = s * (x \div s) + (x % s)
  OBVIOUS
<1> DEFINE q == x \div s
           r == x % s
<1>2. q \in Int /\ r \in Int /\ 0 <= r /\ r < s /\ x = s * q + r
  BY <1>1
<1> HIDE DEF q, r
<1>3. q * s = s * q
  BY <1>2
<1>4. q * s <= x /\ x < q * s + s
  BY <1>2, <1>3
<1>. QED BY <1>2, <1>4 DEF q

\* No other number would do.
LEMMA QuotientUnique ==
  ASSUME NEW x \in Int, NEW s \in Int, s > 0, NEW p \in Int, NEW q \in Int,
         p * s <= x, x < p * s + s, q * s <= x, x < q * s + s
  PROVE  p = q
<1>1. ASSUME NEW a \in Int, NEW b \in Int, a < b, b * s <= x, x < a * s + s PROVE FALSE
  <2>1. (a + 1) * s <= b * s
    BY <1>1, TimesUp
  <2>2. (a + 1) * s = a * s + s
    OBVIOUS
  <2>3. a * s \in Int /\ b * s \in Int
    OBVIOUS
  <2>. QED BY <1>1, <2>1, <2>2, <2>3
<1>2. ~(p < q) /\ ~(q < p)
  BY <1>1
<1>. QED BY <1>2

\* Which interval of a table a value is in: 0 for less, n + 1 for more.
Pos(v, low, n, sz) ==
    IF v < low THEN 0
    ELSE IF v >= low + n * sz THEN n + 1 ELSE 1 + (v - low) \div sz

\* v is in the i-th of the intervals of size sz from low on.
Inside(v, low, sz, i) == low + (i - 1) * sz <= v /\ v < low + (i - 1) * sz + sz

\* Pos() finds that interval, and says when there is none.
LEMMA PosFacts ==
  ASSUME NEW v \in Int, NEW low \in Int, NEW n \in Int, NEW sz \in Int, n >= 1, sz > 0
  PROVE  /\ Pos(v, low, n, sz) \in 0 .. n + 1
         /\ Pos(v, low, n, sz) = 0 <=> v < low
         /\ Pos(v, low, n, sz) = n + 1 <=> v >= low + n * sz
         /\ \A i \in 1 .. n : Pos(v, low, n, sz) = i <=> Inside(v, low, sz, i)
<1> DEFINE x == v - low
           q == x \div sz
           ns == n * sz
           P == Pos(v, low, n, sz)
<1>1. x \in Int /\ q \in Int /\ q * sz <= x /\ x < q * sz + sz
  BY Quotient
<1>2. ns \in Int /\ ns > 0
  <2>1. 1 * sz <= n * sz
    BY TimesUp
  <2>. QED BY <2>1
<1>3. ASSUME NEW i \in 1 .. n
      PROVE  /\ (i - 1) * sz \in Int /\ 0 <= (i - 1) * sz /\ (i - 1) * sz + sz <= ns
  <2>1. 0 * sz <= (i - 1) * sz
    BY TimesUp
  <2>2. i * sz <= n * sz
    BY TimesUp
  <2>3. (i - 1) * sz + sz = i * sz
    OBVIOUS
  <2>4. (i - 1) * sz \in Int /\ i * sz \in Int
    OBVIOUS
  <2>. QED BY <2>1, <2>2, <2>3, <2>4
<1>4. CASE v < low
  <2>1. P = 0
    BY <1>4 DEF Pos
  <2>2. ~(v >= low + n * sz)
    BY <1>4, <1>2
  <2>3. \A i \in 1 .. n : ~(low + (i - 1) * sz <= v)
    BY <1>3, <1>4
  <2>. QED BY <1>4, <2>1, <2>2, <2>3 DEF Inside
<1>5. CASE v >= low + n * sz
  <2>0. ~(v < low)
    BY <1>5, <1>2
  <2>1. P = n + 1
    BY <1>5, <2>0 DEF Pos
  <2>3. \A i \in 1 .. n : ~(v < low + (i - 1) * sz + sz)
    BY <1>3, <1>5, <1>2
  <2>. QED BY <1>5, <2>0, <2>1, <2>3 DEF Inside
<1>6. CASE ~(v < low) /\ ~(v >= low + n * sz)
  <2>1. P = 1 + q
    BY <1>6 DEF Pos
  <2>2. 0 <= x /\ x < ns
    BY <1>6, <1>2
  <2>3. q >= 0
    <3>1. SUFFICES ASSUME q <= -1 PROVE FALSE
      BY <1>1
    <3>2. (q + 1) * sz <= 0 * sz
      BY <3>1, <1>1, TimesUp
    <3>3. (q + 1) * sz = q * sz + sz
      BY <1>1
    <3>. QED BY <1>1, <2>2, <3>2, <3>3
  <2>4. q < n
    <3>1. SUFFICES ASSUME n <= q PROVE FALSE
      BY <1>1
    <3>2. n * sz <= q * sz
      BY <3>1, <1>1, TimesUp
    <3>. QED BY <1>1, <2>2, <3>2
  <2>5. ASSUME NEW i \in 1 .. n
        PROVE  P = i <=> Inside(v, low, sz, i)
    <3> DEFINE p == i - 1
               pp == p * sz
    <3>1. p \in Int /\ pp \in Int
      OBVIOUS
    <3>2. (low + pp <= v /\ v < low + pp + sz) <=> (pp <= x /\ x < pp + sz)
      BY <3>1
    <3>3. (pp <= x /\ x < pp + sz) => p = q
      BY <1>1, <3>1, QuotientUnique
    <3>4. p = q => pp <= x /\ x < pp + sz
      BY <1>1
    <3>5. p = q <=> P = i
      BY <2>1, <1>1
    <3>. QED BY <3>2, <3>3, <3>4, <3>5 DEF Inside
  <2>. QED BY <1>6, <2>1, <2>3, <2>4, <2>5, <1>1
<1>. QED BY <1>4, <1>5, <1>6

\* names are those of n intervals of size sz from low on.
Rows(names, low, n, sz) ==
    /\ Len(names) = n /\ DOMAIN names = 1 .. n
    /\ \A i \in 1 .. n : names[i] = low + (i - 1) * sz

\* So it agrees with what the names of the rows say.
LEMMA WithinPos ==
  ASSUME NEW names, NEW v \in Int, NEW low \in Int, NEW n \in Int, NEW sz \in Int,
         n >= 1, sz > 0, Rows(names, low, n, sz)
  PROVE  \A i \in 0 .. n + 1 : Within(v, names, sz, i) <=> Pos(v, low, n, sz) = i
<1>1. names[1] = low + (1 - 1) * sz /\ names[n] = low + (n - 1) * sz /\ Len(names) = n
  BY DEF Rows
<1>2. names[1] = low
  <2>1. (1 - 1) * sz = 0
    OBVIOUS
  <2>. QED BY <1>1, <2>1
<1>3. names[n] + sz = low + n * sz
  <2>1. (n - 1) * sz + sz = n * sz /\ (n - 1) * sz \in Int
    OBVIOUS
  <2> DEFINE nn == (n - 1) * sz
             mm == n * sz
  <2>2. nn + sz = mm /\ nn \in Int /\ mm \in Int /\ names[n] = low + nn
    BY <2>1, <1>1
  <2> HIDE DEF nn, mm
  <2>3. names[n] + sz = low + mm
    BY <2>2
  <2>. QED BY <2>3 DEF mm
<1>4. CASE TRUE
  <2> SUFFICES ASSUME NEW i \in 0 .. n + 1
               PROVE  Within(v, names, sz, i) <=> Pos(v, low, n, sz) = i
    OBVIOUS
  <2> DEFINE P == Pos(v, low, n, sz)
  <2>5. P = 0 <=> v < low
    BY PosFacts
  <2>6. P = n + 1 <=> v >= low + n * sz
    BY PosFacts
  <2>7. i \in 1 .. n => (P = i <=> Inside(v, low, sz, i))
    BY PosFacts
  <2> HIDE DEF P
  <2>1. CASE i = 0
    <3>1. Within(v, names, sz, i) <=> v < names[1]
      BY <2>1 DEF Within
    <3>. QED BY <2>1, <3>1, <1>2, <2>5 DEF P
  <2>2. CASE i = n + 1
    <3>1. Within(v, names, sz, i) <=> v >= names[n] + sz
      BY <2>2, <1>1 DEF Within
    <3>. QED BY <2>2, <3>1, <1>3, <2>6 DEF P
  <2>3. CASE i \in 1 .. n
    <3>1. Within(v, names, sz, i) <=> names[i] <= v /\ v < names[i] + sz
      BY <2>3, <1>1 DEF Within
    <3>2. names[i] = low + (i - 1) * sz
      BY <2>3 DEF Rows
    <3>. QED BY <2>3, <3>1, <3>2, <2>7 DEF P, Inside
  <2>4. i = 0 \/ i = n + 1 \/ i \in 1 .. n
    OBVIOUS
  <2>. QED BY <2>1, <2>2, <2>3, <2>4
<1>. QED BY <1>4

-----------------------------------------------------------------------------
(* One-way tables. *)

\* The deals whose value is in interval i of the table.
AtPos(V, low, n, sz, i) == {d \in Deal : Pos(V[d], low, n, sz) = i}

\* Times() is Met() of all deals produced.
LEMMA TimesMet ==
  ASSUME TypeOK, NEW D
  PROVE  Times(D) = Met(hist, nprod, D)
<1>1. DOMAIN hist = 1 .. nprod
  BY DEF TypeOK
<1>. QED BY <1>1 DEF Times, Met

\* The deals produced are deals.
LEMMA HistDeals ==
  ASSUME TypeOK
  PROVE  \A n \in 1 .. nprod : hist[n] \in Deal
BY DEF TypeOK

\* The names of the rows follow each other from low past high.
LEMMA RowsNamed ==
  ASSUME NEW names, NEW low \in Int, NEW high \in Int, NEW n \in Int, NEW sz \in Int,
         n >= 1, sz > 0, Rows(names, low, n, sz),
         (n - 1) * sz <= high - low, high - low < (n - 1) * sz + sz
  PROVE  Names(names, low, high, sz)
<1> DEFINE nn == (n - 1) * sz
<1>0. nn \in Int /\ nn <= high - low /\ high - low < nn + sz
  OBVIOUS
<1>1. names[1] = low
  <2>1. names[1] = low + (1 - 1) * sz
    BY DEF Rows
  <2>2. (1 - 1) * sz = 0
    OBVIOUS
  <2>. QED BY <2>1, <2>2
<1>2. names[n] = low + nn /\ Len(names) = n
  BY DEF Rows
<1>3. \A i \in 2 .. n : names[i] = names[i - 1] + sz
  <2> SUFFICES ASSUME NEW i \in 2 .. n PROVE names[i] = names[i - 1] + sz
    OBVIOUS
  <2>1. names[i] = low + (i - 1) * sz /\ names[i - 1] = low + (i - 1 - 1) * sz
    BY DEF Rows
  <2> DEFINE p == (i - 1 - 1) * sz
             q == (i - 1) * sz
  <2>2. q = p + sz /\ p \in Int
    OBVIOUS
  <2>3. names[i] = low + q /\ names[i - 1] = low + p
    BY <2>1
  <2> HIDE DEF p, q
  <2>. QED BY <2>2, <2>3
<1> HIDE DEF nn
<1>4. names[n] <= high /\ high < names[n] + sz
  BY <1>0, <1>2
<1>. QED BY <1>1, <1>2, <1>3, <1>4 DEF Names

\* A one-way table whose counters count by interval is right, its total included.
LEMMA OneWayCorrect ==
  ASSUME TypeOK, NEW e \in Expr, NEW low \in Int, NEW high \in Int, NEW n \in Int,
         NEW sz \in Int, NEW names, NEW counts, NEW under, NEW over,
         n >= 1, sz > 0, Rows(names, low, n, sz),
         (n - 1) * sz <= high - low, high - low < (n - 1) * sz + sz,
         under = Met(hist, nprod, AtPos(Val[e], low, n, sz, 0)),
         over = Met(hist, nprod, AtPos(Val[e], low, n, sz, n + 1)),
         \A i \in 1 .. n : counts[i] = Met(hist, nprod, AtPos(Val[e], low, n, sz, i))
  PROVE  OneWayRight(OneWay(under, names, counts, over), e, low, high, sz)
<1> DEFINE t == OneWay(under, names, counts, over)
           M(D) == Met(hist, nprod, D)
           P == [d \in Deal |-> Pos(Val[e][d], low, n, sz)]
           B(i) == AtPos(Val[e], low, n, sz, i)
           Mid == {d \in Deal : P[d] \in 1 .. n}
<1>0. Len(names) = n /\ DOMAIN names = 1 .. n
  BY DEF Rows
<1>1. /\ t.low = under /\ t.high = over /\ t.names = names /\ t.counts = counts
      /\ t.total = under + SumTo(counts, 1, n) + over
  BY <1>0 DEF OneWay
<1>2. \A d \in Deal : Val[e][d] \in Int
  BY ActionsAssumption
<1>3. ASSUME NEW i \in 0 .. n + 1
      PROVE  {d \in Deal : Within(Val[e][d], names, sz, i)} = B(i)
  <2>1. \A d \in Deal : Within(Val[e][d], names, sz, i) <=> Pos(Val[e][d], low, n, sz) = i
    <3> SUFFICES ASSUME NEW d \in Deal
                 PROVE  Within(Val[e][d], names, sz, i) <=> Pos(Val[e][d], low, n, sz) = i
      OBVIOUS
    <3> DEFINE v == Val[e][d]
    <3>1. v \in Int
      BY <1>2
    <3> HIDE DEF v
    <3>2. \A k \in 0 .. n + 1 : Within(v, names, sz, k) <=> Pos(v, low, n, sz) = k
      BY <3>1, WithinPos
    <3>3. Within(v, names, sz, i) <=> Pos(v, low, n, sz) = i
      BY <3>2
    <3>. QED BY <3>3 DEF v
  <2>. QED BY <2>1 DEF AtPos
<1>4. \A i \in 0 .. n + 1 :
         Times({d \in Deal : Within(Val[e][d], names, sz, i)}) = M(B(i))
  BY <1>3, TimesMet
<1>5. Names(names, low, high, sz)
  BY RowsNamed
<1>6. nprod \in Nat
  BY DEF TypeOK
<1>7. t.total = nprod
  <2>1. \A d \in Deal : P[d] \in 0 .. n + 1
    <3> SUFFICES ASSUME NEW d \in Deal PROVE Pos(Val[e][d], low, n, sz) \in 0 .. n + 1
      OBVIOUS
    <3>. QED BY <1>2, PosFacts
  <2>2. \A i : B(i) = {d \in Deal : P[d] = i}
    BY DEF AtPos
  <2>3. \A d \in Deal : P[d] \in Int
    BY <2>1
  <2>4. \A i \in 1 .. n : counts[i] = Met(hist, nprod, In1(Deal, P, i))
    BY <2>2 DEF In1
  <2>5. SumTo(counts, 1, n) = Met(hist, nprod, Mid)
    <3>1. n >= 1 - 1
      OBVIOUS
    <3>2. Mid = InTo(Deal, P, 1, n)
      BY DEF InTo
    <3> HIDE DEF P, Mid
    <3>. QED BY <1>6, <2>3, <2>4, <3>1, <3>2, SumOfParts
  <2>6. Deal = (B(0) \cup Mid) \cup B(n + 1) /\ B(0) \cap Mid = {}
        /\ (B(0) \cup Mid) \cap B(n + 1) = {}
    <3> HIDE DEF P
    <3>. QED BY <2>1, <2>2
  <2>7. M(Deal) = M(B(0) \cup Mid) + M(B(n + 1)) /\ M(B(0) \cup Mid) = M(B(0)) + M(Mid)
    <3> HIDE DEF B, Mid
    <3>. QED BY <2>6, <1>6, MetUnion
  <2>8. M(Deal) = nprod
    BY <1>6, HistDeals, MetAll
  <2>. QED BY <1>1, <2>5, <2>7, <2>8
<1> HIDE DEF t
<1>8. /\ t.low = M(B(0)) /\ t.high = M(B(n + 1))
      /\ \A i \in 1 .. n : t.counts[i] = M(B(i))
  BY <1>1
<1>9. /\ t.low = Times({d \in Deal : Within(Val[e][d], t.names, sz, 0)})
      /\ t.high = Times({d \in Deal : Within(Val[e][d], t.names, sz, Len(t.names) + 1)})
      /\ \A i \in DOMAIN t.names :
            t.counts[i] = Times({d \in Deal : Within(Val[e][d], t.names, sz, i)})
  <2> HIDE DEF B, M
  <2>1. t.names = names /\ 0 \in 0 .. n + 1 /\ n + 1 \in 0 .. n + 1
    BY <1>1
  <2>2. \A i \in 1 .. n : i \in 0 .. n + 1
    OBVIOUS
  <2>. QED BY <1>0, <1>4, <1>8, <2>1, <2>2
<1>10. Names(t.names, low, high, sz)
  BY <1>1, <1>5
<1>11. OneWayRight(t, e, low, high, sz)
  BY <1>7, <1>9, <1>10 DEF OneWayRight
<1>. QED BY <1>11 DEF t

-----------------------------------------------------------------------------
(* Two-way tables. *)

\* The deals in row i and column j.
Cell(P, P2, i, j) == {d \in Deal : P[d] = i /\ P2[d] = j}

\* The interval of every deal.
Posed(e, low, n, sz) == [d \in Deal |-> Pos(Val[e][d], low, n, sz)]

\* It agrees with the names of rows or columns.
LEMMA PosedWithin ==
  ASSUME NEW e \in Expr, NEW low \in Int, NEW n \in Int, NEW sz \in Int, NEW names,
         n >= 1, sz > 0, Rows(names, low, n, sz)
  PROVE  /\ \A d \in Deal : Posed(e, low, n, sz)[d] \in 0 .. n + 1
         /\ \A d \in Deal : \A i \in 0 .. n + 1 :
               Within(Val[e][d], names, sz, i) <=> Posed(e, low, n, sz)[d] = i
<1>1. \A d \in Deal : Val[e][d] \in Int
  BY ActionsAssumption
<1>2. \A d \in Deal : Posed(e, low, n, sz)[d] = Pos(Val[e][d], low, n, sz)
  BY DEF Posed
<1>3. ASSUME NEW d \in Deal
      PROVE  /\ Pos(Val[e][d], low, n, sz) \in 0 .. n + 1
             /\ \A i \in 0 .. n + 1 :
                   Within(Val[e][d], names, sz, i) <=> Pos(Val[e][d], low, n, sz) = i
  <2> DEFINE v == Val[e][d]
  <2>1. v \in Int
    BY <1>1
  <2> HIDE DEF v
  <2>2. \A k \in 0 .. n + 1 : Within(v, names, sz, k) <=> Pos(v, low, n, sz) = k
    BY <2>1, WithinPos
  <2>3. Pos(v, low, n, sz) \in 0 .. n + 1
    BY <2>1, PosFacts
  <2>. QED BY <2>2, <2>3 DEF v
<1>. QED BY <1>2, <1>3

\* A two-way table whose cells count by pairs of intervals is right, and so are
\* its sums by row, by column and over all.
LEMMA TwoWayCorrect ==
  ASSUME TypeOK, NEW e \in Expr, NEW e2 \in Expr,
         NEW low \in Int, NEW n \in Int, NEW sz \in Int, NEW down,
         NEW low2 \in Int, NEW n2 \in Int, NEW sz2 \in Int, NEW across, NEW c,
         n >= 1, sz > 0, Rows(down, low, n, sz),
         n2 >= 1, sz2 > 0, Rows(across, low2, n2, sz2),
         \A i \in 0 .. n + 1 : \A j \in 0 .. n2 + 1 :
            c[(n2 + 1 + 1) * i + j]
              = Met(hist, nprod, Cell(Posed(e, low, n, sz), Posed(e2, low2, n2, sz2), i, j))
  PROVE  TwoWayRight(TwoWay(c, down, across), e, sz, e2, sz2)
<1> DEFINE t == TwoWay(c, down, across)
           P == Posed(e, low, n, sz)
           P2 == Posed(e2, low2, n2, sz2)
           M(D) == Met(hist, nprod, D)
           rows == n + 1
           cols == n2 + 1
           cell(i, j) == c[(cols + 1) * i + j]
           sumrow == [i \in 0 .. rows |-> SumTo([j \in 0 .. cols |-> cell(i, j)], 0, cols)]
           sumcol == [j \in 0 .. cols |-> SumTo([i \in 0 .. rows |-> cell(i, j)], 0, rows)]
           cells == [i \in 0 .. rows |-> [j \in 0 .. cols |-> cell(i, j)]]
<1>0. Len(down) + 1 = rows /\ Len(across) + 1 = cols
  BY DEF Rows
<1>1. t = [down |-> down, across |-> across, cells |-> cells, sumrow |-> sumrow,
           sumcol |-> sumcol, sumtot |-> SumTo(sumrow, 0, rows)]
  BY <1>0 DEF TwoWay
<1>2. \A i \in 0 .. rows : \A j \in 0 .. cols : cell(i, j) = M(Cell(P, P2, i, j))
  OBVIOUS
<1>3. /\ \A d \in Deal : P[d] \in 0 .. rows
      /\ \A d \in Deal : \A i \in 0 .. rows : Within(Val[e][d], down, sz, i) <=> P[d] = i
  BY PosedWithin
<1>4. /\ \A d \in Deal : P2[d] \in 0 .. cols
      /\ \A d \in Deal : \A j \in 0 .. cols : Within(Val[e2][d], across, sz2, j) <=> P2[d] = j
  BY PosedWithin
<1>5. nprod \in Nat /\ rows \in Int /\ cols \in Int /\ rows >= 0 - 1 /\ cols >= 0 - 1
  BY DEF TypeOK
<1>6. \A D : Times(D) = M(D)
  BY TimesMet
<1>10. ASSUME NEW i \in 0 .. rows
       PROVE  sumrow[i] = M({d \in Deal : P[d] = i})
  <2> DEFINE Q == {d \in Deal : P[d] = i}
             f == [j \in 0 .. cols |-> cell(i, j)]
  <2>1. \A j \in 0 .. cols : f[j] = M(In1(Q, P2, j))
    <3> SUFFICES ASSUME NEW j \in 0 .. cols PROVE f[j] = M(In1(Q, P2, j))
      OBVIOUS
    <3>1. In1(Q, P2, j) = Cell(P, P2, i, j)
      BY DEF Cell, In1
    <3>2. f[j] = cell(i, j)
      OBVIOUS
    <3>. QED BY <1>2, <3>1, <3>2
  <2>2. /\ \A d \in Q : P2[d] \in Int
        /\ \A d \in Q : P2[d] \in 0 .. cols
    BY <1>4
  <2>7. \A j \in 0 .. cols : f[j] = Met(hist, nprod, In1(Q, P2, j))
    BY <2>1
  <2>3. InTo(Q, P2, 0, cols) = Q
    BY <2>2 DEF InTo
  <2>4. sumrow[i] = SumTo(f, 0, cols)
    OBVIOUS
  <2> HIDE DEF f, Q, P, P2, sumrow, rows, cols
  <2>5. SumTo(f, 0, cols) = M(InTo(Q, P2, 0, cols))
    BY <1>5, <2>7, <2>2, SumOfParts
  <2>6. sumrow[i] = M(Q)
    BY <2>3, <2>4, <2>5
  <2>. QED BY <2>6 DEF Q
<1>11. ASSUME NEW j \in 0 .. cols
       PROVE  sumcol[j] = M({d \in Deal : P2[d] = j})
  <2> DEFINE Q == {d \in Deal : P2[d] = j}
             f == [i \in 0 .. rows |-> cell(i, j)]
  <2>1. \A i \in 0 .. rows : f[i] = M(In1(Q, P, i))
    <3> SUFFICES ASSUME NEW i \in 0 .. rows PROVE f[i] = M(In1(Q, P, i))
      OBVIOUS
    <3>1. In1(Q, P, i) = Cell(P, P2, i, j)
      BY DEF Cell, In1
    <3>2. f[i] = cell(i, j)
      OBVIOUS
    <3>. QED BY <1>2, <3>1, <3>2
  <2>2. /\ \A d \in Q : P[d] \in Int
        /\ \A d \in Q : P[d] \in 0 .. rows
    BY <1>3
  <2>7. \A i \in 0 .. rows : f[i] = Met(hist, nprod, In1(Q, P, i))
    BY <2>1
  <2>3. InTo(Q, P, 0, rows) = Q
    BY <2>2 DEF InTo
  <2>4. sumcol[j] = SumTo(f, 0, rows)
    OBVIOUS
  <2> HIDE DEF f, Q, P, P2, sumcol, rows, cols
  <2>5. SumTo(f, 0, rows) = M(InTo(Q, P, 0, rows))
    BY <1>5, <2>7, <2>2, SumOfParts
  <2>6. sumcol[j] = M(Q)
    BY <2>3, <2>4, <2>5
  <2>. QED BY <2>6 DEF Q
<1>12. SumTo(sumrow, 0, rows) = nprod
  <2>1. \A d \in Deal : P[d] \in Int
    BY <1>3
  <2>2. InTo(Deal, P, 0, rows) = Deal
    BY <1>3 DEF InTo
  <2>3. M(Deal) = nprod
    BY <1>5, HistDeals, MetAll
  <2>7. \A i \in 0 .. rows : sumrow[i] = Met(hist, nprod, In1(Deal, P, i))
    BY <1>10 DEF In1
  <2> HIDE DEF sumrow, P, rows
  <2>4. SumTo(sumrow, 0, rows) = M(InTo(Deal, P, 0, rows))
    BY <1>5, <2>7, <2>1, SumOfParts
  <2>. QED BY <2>2, <2>3, <2>4
<1>20. /\ t.cells = cells /\ t.sumrow = sumrow /\ t.sumcol = sumcol
       /\ t.down = down /\ t.across = across /\ t.sumtot = nprod
  BY <1>1, <1>12
<1>21. /\ DOMAIN cells = 0 .. rows /\ DOMAIN sumrow = 0 .. rows /\ DOMAIN sumcol = 0 .. cols
       /\ \A i \in 0 .. rows : DOMAIN cells[i] = 0 .. cols
       /\ \A i \in 0 .. rows : \A j \in 0 .. cols : cells[i][j] = M(Cell(P, P2, i, j))
  BY <1>2
<1> HIDE DEF t, cells, sumrow, sumcol, P, P2, rows, cols, M
<1>22. \A i \in 0 .. rows : \A j \in 0 .. cols :
           cells[i][j] = Times({d \in Deal : /\ Within(Val[e][d], down, sz, i)
                                             /\ Within(Val[e2][d], across, sz2, j)})
  <2> SUFFICES ASSUME NEW i \in 0 .. rows, NEW j \in 0 .. cols
               PROVE  cells[i][j] = Times({d \in Deal : /\ Within(Val[e][d], down, sz, i)
                                             /\ Within(Val[e2][d], across, sz2, j)})
    OBVIOUS
  <2>1. {d \in Deal : Within(Val[e][d], down, sz, i) /\ Within(Val[e2][d], across, sz2, j)}
          = Cell(P, P2, i, j)
    BY <1>3, <1>4 DEF Cell
  <2>. QED BY <1>6, <1>21, <2>1
<1>23. \A i \in 0 .. rows :
          sumrow[i] = Times({d \in Deal : Within(Val[e][d], down, sz, i)})
  <2> SUFFICES ASSUME NEW i \in 0 .. rows
               PROVE  sumrow[i] = Times({d \in Deal : Within(Val[e][d], down, sz, i)})
    OBVIOUS
  <2>1. {d \in Deal : Within(Val[e][d], down, sz, i)} = {d \in Deal : P[d] = i}
    BY <1>3
  <2>. QED BY <1>6, <1>10, <2>1
<1>24. \A j \in 0 .. cols :
          sumcol[j] = Times({d \in Deal : Within(Val[e2][d], across, sz2, j)})
  <2> SUFFICES ASSUME NEW j \in 0 .. cols
               PROVE  sumcol[j] = Times({d \in Deal : Within(Val[e2][d], across, sz2, j)})
    OBVIOUS
  <2>1. {d \in Deal : Within(Val[e2][d], across, sz2, j)} = {d \in Deal : P2[d] = j}
    BY <1>4
  <2>. QED BY <1>6, <1>11, <2>1
<1>25. TwoWayRight(t, e, sz, e2, sz2)
  <2>1. \A i \in DOMAIN t.cells : \A j \in DOMAIN t.cells[i] :
           t.cells[i][j] = Times({d \in Deal : /\ Within(Val[e][d], t.down, sz, i)
                                               /\ Within(Val[e2][d], t.across, sz2, j)})
    <3>0. t.cells = cells /\ t.down = down /\ t.across = across
      BY <1>20
    <3> SUFFICES ASSUME NEW i \in DOMAIN t.cells
                 PROVE  \A j \in DOMAIN t.cells[i] :
                    t.cells[i][j] = Times({d \in Deal :
                                              /\ Within(Val[e][d], t.down, sz, i)
                                              /\ Within(Val[e2][d], t.across, sz2, j)})
      OBVIOUS
    <3>1. i \in 0 .. rows /\ DOMAIN t.cells[i] = 0 .. cols
      BY <3>0, <1>21
    <3> SUFFICES ASSUME NEW j \in 0 .. cols
                 PROVE  t.cells[i][j] = Times({d \in Deal :
                                              /\ Within(Val[e][d], t.down, sz, i)
                                              /\ Within(Val[e2][d], t.across, sz2, j)})
      BY <3>1
    <3>2. cells[i][j] = Times({d \in Deal : /\ Within(Val[e][d], down, sz, i)
                                            /\ Within(Val[e2][d], across, sz2, j)})
      BY <3>1, <1>22
    <3>. QED BY <3>0, <3>2
  <2>2. \A i \in DOMAIN t.sumrow :
           t.sumrow[i] = Times({d \in Deal : Within(Val[e][d], t.down, sz, i)})
    BY <1>20, <1>21, <1>23
  <2>3. \A j \in DOMAIN t.sumcol :
           t.sumcol[j] = Times({d \in Deal : Within(Val[e2][d], t.across, sz2, j)})
    BY <1>20, <1>21, <1>24
  <2>. QED BY <1>20, <2>1, <2>2, <2>3 DEF TwoWayRight
<1>. QED BY <1>25 DEF t

-----------------------------------------------------------------------------
(* The code's ways to find the interval of a value. *)

\* frequency2d finds the interval.
LEMMA LineIsPos ==
  ASSUME NEW v \in Int, NEW low \in Int, NEW high \in Int, low <= high
  PROVE  Line(v, low, high) = Pos(v, low, high - low + 1, 1)
<1> DEFINE q == (v - low) \div 1
           n == high - low + 1
<1>1. q = v - low
  <2> DEFINE x == v - low
  <2>1. x \in Int /\ x \div 1 \in Int /\ (x \div 1) * 1 <= x /\ x < (x \div 1) * 1 + 1
    BY Quotient
  <2>. QED BY <2>1
<1>2. n * 1 = n
  OBVIOUS
<1> HIDE DEF q
<1>. QED BY <1>1, <1>2 DEF Line, Pos, q

\* The rows of a frequency are intervals of size one.
LEMMA UnitRows ==
  ASSUME NEW low \in Int, NEW high \in Int, low <= high, NEW names,
         names = [i \in 1 .. high - low + 1 |-> low + i - 1]
  PROVE  LET n == high - low + 1
         IN  /\ n \in Int /\ n >= 1 /\ Rows(names, low, n, 1)
             /\ (n - 1) * 1 <= high - low /\ high - low < (n - 1) * 1 + 1
<1> DEFINE n == high - low + 1
<1>1. n \in Nat /\ n >= 1 /\ (n - 1) * 1 = n - 1
  OBVIOUS
<1>2. Len(names) = n /\ DOMAIN names = 1 .. n
  BY <1>1
<1>3. \A i \in 1 .. n : names[i] = low + (i - 1) * 1
  BY <1>1
<1>. QED BY <1>1, <1>2, <1>3 DEF Rows

\* The buckets are intervals of the size asked for.
LEMMA BktFacts ==
  ASSUME NEW b, BktOK(b)
  PROVE  LET n == Num(b) - 2
         IN  /\ b.Lo \in Int /\ b.Hi \in Int /\ b.Sz \in Int /\ b.Sz > 0
             /\ n \in Int /\ n >= 1 /\ Rows(bkt_names(b), b.Lo, n, b.Sz)
             /\ (n - 1) * b.Sz <= b.Hi - b.Lo /\ b.Hi - b.Lo < (n - 1) * b.Sz + b.Sz
<1> DEFINE x == b.Hi - b.Lo
           q == x \div b.Sz
           n == Num(b) - 2
<1>1. b.Lo \in Int /\ b.Hi \in Int /\ b.Sz \in Int /\ b.Sz > 0 /\ b.Lo <= b.Hi
  BY DEF BktOK
<1>2. x \in Int /\ x >= 0
  BY <1>1
<1>3. q \in Int /\ q * b.Sz <= x /\ x < q * b.Sz + b.Sz
  BY <1>1, <1>2, Quotient
<1>4. q >= 0
  <2>1. SUFFICES ASSUME q <= -1 PROVE FALSE
    BY <1>3
  <2>2. (q + 1) * b.Sz <= 0 * b.Sz
    BY <2>1, <1>1, <1>3, TimesUp
  <2>3. (q + 1) * b.Sz = q * b.Sz + b.Sz
    BY <1>1, <1>3
  <2>4. 0 * b.Sz = 0
    BY <1>1
  <2> DEFINE qs == q * b.Sz
             q1 == (q + 1) * b.Sz
             z  == 0 * b.Sz
             sz == b.Sz
  <2>5. qs \in Int /\ sz \in Int /\ x < qs + sz /\ q1 = qs + sz /\ q1 <= z /\ z = 0
    BY <1>1, <1>3, <2>2, <2>3, <2>4
  <2> HIDE DEF qs, q1, z, sz, x
  <2>. QED BY <1>2, <2>5
<1>5. n = q + 1
  BY <1>3 DEF Num
<1>6. n \in Nat /\ n >= 1 /\ n - 1 = q
  BY <1>3, <1>4, <1>5
<1>7. bkt_names(b) = [i \in 1 .. n |-> b.Lo + (i - 1) * b.Sz]
  BY DEF bkt_names
<1> HIDE DEF n
<1>8. Rows(bkt_names(b), b.Lo, n, b.Sz)
  BY <1>6, <1>7 DEF Rows
<1>9. (n - 1) * b.Sz <= x /\ x < (n - 1) * b.Sz + b.Sz
  BY <1>3, <1>6
<1>. QED BY <1>1, <1>6, <1>8, <1>9 DEF n

\* upd_bkt1D() and find_bkt_id() find the bucket, though they test for the top one
\* at different values.
LEMMA BktIsPos ==
  ASSUME NEW b, BktOK(b), NEW v \in Int
  PROVE  /\ upd_bkt1D(v, b) = Pos(v, b.Lo, Num(b) - 2, b.Sz)
         /\ find_bkt_id(v, b) = Pos(v, b.Lo, Num(b) - 2, b.Sz)
<1> DEFINE n == Num(b) - 2
           lo == b.Lo
           sz == b.Sz
<1>1. lo \in Int /\ sz \in Int /\ sz > 0 /\ n \in Int /\ n >= 1
  BY BktFacts
<1>2. Num(b) \in Int
  BY <1>1, BktFacts DEF Num, BktOK
<1>3. Num(b) - 1 = n + 1
  BY <1>2
<1>4. n * sz > 0 /\ (n + 1) * sz = n * sz + sz /\ n * sz \in Int
  <2>1. 1 * sz <= n * sz
    BY <1>1, TimesUp
  <2>. QED BY <1>1, <2>1
<1>5. upd_bkt1D(v, b) = CASE v < lo -> 0
                          [] v >= lo + n * sz -> n + 1
                          [] OTHER -> 1 + (v - lo) \div sz
  BY <1>3 DEF upd_bkt1D
<1>6. find_bkt_id(v, b) = CASE v < lo -> 0
                            [] v >= lo + (n + 1) * sz -> n + 1
                            [] OTHER -> 1 + (v - lo) \div sz
  BY <1>3 DEF find_bkt_id
<1>7. v >= lo + n * sz /\ ~(v >= lo + (n + 1) * sz) => 1 + (v - lo) \div sz = n + 1
  <2> SUFFICES ASSUME v >= lo + n * sz, ~(v >= lo + (n + 1) * sz)
               PROVE  1 + (v - lo) \div sz = n + 1
    OBVIOUS
  <2> DEFINE x == v - lo
             q == x \div sz
  <2>1. x \in Int /\ q \in Int /\ q * sz <= x /\ x < q * sz + sz
    BY <1>1, Quotient
  <2>2. n * sz <= x /\ x < n * sz + sz
    BY <1>1, <1>4
  <2> HIDE DEF x, q, n
  <2>3. q = n
    BY <1>1, <2>1, <2>2, QuotientUnique
  <2>4. 1 + q = n + 1
    BY <2>3, <1>1
  <2>. QED BY <2>4 DEF q, x
<1> HIDE DEF n, lo, sz
<1>8. upd_bkt1D(v, b) = Pos(v, lo, n, sz)
  <2> DEFINE ns == n * sz
             r == 1 + (v - lo) \div sz
  <2>1. ~(v < lo /\ v >= lo + ns)
    BY <1>1, <1>4
  <2>2. upd_bkt1D(v, b) = CASE v < lo -> 0 [] v >= lo + ns -> n + 1 [] OTHER -> r
    BY <1>5
  <2>3. Pos(v, lo, n, sz) = IF v < lo THEN 0 ELSE IF v >= lo + ns THEN n + 1 ELSE r
    BY DEF Pos
  <2> HIDE DEF ns, r
  <2>. QED BY <2>1, <2>2, <2>3
<1>9. find_bkt_id(v, b) = Pos(v, lo, n, sz)
  <2> DEFINE ns == n * sz
             ms == (n + 1) * sz
             r == 1 + (v - lo) \div sz
  <2>1. ns > 0 /\ ms = ns + sz /\ ns \in Int /\ sz \in Int /\ sz > 0 /\ lo \in Int
    BY <1>1, <1>4
  <2>2. find_bkt_id(v, b) = CASE v < lo -> 0 [] v >= lo + ms -> n + 1 [] OTHER -> r
    BY <1>6
  <2>3. Pos(v, lo, n, sz) = IF v < lo THEN 0 ELSE IF v >= lo + ns THEN n + 1 ELSE r
    BY DEF Pos
  <2>4. v >= lo + ns /\ ~(v >= lo + ms) => r = n + 1
    BY <1>7
  <2> HIDE DEF ns, ms, r
  <2>. QED BY <2>1, <2>2, <2>3, <2>4
<1>. QED BY <1>8, <1>9 DEF n, lo, sz

\* A flattened index is that of one row and one column.
LEMMA IndexFacts ==
  ASSUME NEW W \in Int, NEW R \in Int, W > 0, NEW i \in Int, NEW j \in Int,
         0 <= i, i < R, 0 <= j, j < W
  PROVE  /\ W * i + j \in 0 .. R * W - 1
         /\ \A k \in Int : \A l \in 0 .. W - 1 : W * k + l = W * i + j <=> (k = i /\ l = j)
<1>1. 0 * W <= i * W /\ (i + 1) * W <= R * W
  BY TimesUp
<1>2. 0 * W = 0 /\ (i + 1) * W = i * W + W /\ W * i = i * W /\ i * W \in Int /\ R * W \in Int
  OBVIOUS
<1>3. W * i + j \in 0 .. R * W - 1
  <2> DEFINE iw == i * W
             rw == R * W
  <2>1. iw \in Int /\ rw \in Int /\ 0 <= iw /\ iw + W <= rw /\ W * i = iw
    BY <1>1, <1>2
  <2> HIDE DEF iw, rw
  <2>2. iw + j \in 0 .. rw - 1
    BY <2>1
  <2>. QED BY <2>1, <2>2 DEF rw
<1>4. ASSUME NEW k \in Int, NEW l \in 0 .. W - 1, W * k + l = W * i + j
      PROVE  k = i /\ l = j
  <2> DEFINE x == W * i + j
  <2>1. W * k = k * W /\ k * W \in Int
    OBVIOUS
  <2>2. x \in Int /\ i * W <= x /\ x < i * W + W /\ k * W <= x /\ x < k * W + W
    BY <1>2, <1>4, <2>1
  <2> HIDE DEF x
  <2>3. k = i
    BY <2>2, QuotientUnique
  <2>. QED BY <1>2, <1>4, <2>3
<1>. QED BY <1>3, <1>4

-----------------------------------------------------------------------------
(* The tables of frequency and bktfreq. *)

\* At the end of the run every action has reported.
LEMMA EndedReport ==
  ASSUME StatInv, NEW types, NEW k \in Ended(types)
  PROVE  /\ k \in K /\ ActionList[k].type \in types
         /\ ShownFor(ActionList[k], Counted(ActionList[k], hist, nprod), report[k])
<1>1. k \in K /\ pc = "done" /\ ActionList[k].type \in types
  BY DEF Ended, K
<1>2. Reported(k)
  BY <1>1 DEF Reported
<1>. QED BY <1>1, <1>2 DEF StatInv, Reports

\* The three ways of a frequency are the intervals of its table.
LEMMA FreqPos ==
  ASSUME NEW v \in Int, NEW low \in Int, NEW high \in Int, low <= high
  PROVE  LET n == high - low + 1
         IN  /\ Pos(v, low, n, 1) = 0 <=> v < low
             /\ Pos(v, low, n, 1) = n + 1 <=> v > high
             /\ \A i \in 1 .. n : Pos(v, low, n, 1) = i <=> v = low + (i - 1)
<1> DEFINE n == high - low + 1
<1>1. n \in Int /\ n >= 1 /\ n * 1 = n /\ low + n = high + 1
  OBVIOUS
<1>2. v >= low + n <=> v > high
  BY <1>1
<1> HIDE DEF n
<1> DEFINE one == 1
<1>7. one \in Int /\ one > 0
  OBVIOUS
<1> HIDE DEF one
<1>3. /\ Pos(v, low, n, one) = 0 <=> v < low
      /\ Pos(v, low, n, one) = n + 1 <=> v >= low + n * one
      /\ \A i \in 1 .. n : Pos(v, low, n, one) = i <=> Inside(v, low, one, i)
  BY <1>1, <1>7, PosFacts
<1>6. \A i \in 1 .. n : Inside(v, low, 1, i) <=> v = low + (i - 1)
  BY <1>1 DEF Inside
<1>. QED BY <1>1, <1>2, <1>3, <1>6 DEF n, one

\* The table of a frequency is right.
LEMMA FrequencyRight ==
  ASSUME StatInv, NEW k \in Ended({"frequency"})
  PROVE  OneWayRight(report[k], ActionList[k].expr, ActionList[k].low, ActionList[k].high, 1)
<1> DEFINE a == ActionList[k]
           e == a.expr
           n == a.high - a.low + 1
           c == FreqCells(a, hist, nprod)
           names == [i \in 1 .. n |-> a.low + i - 1]
           counts == [i \in 1 .. n |-> c.freqs[i - 1]]
<1>1. k \in K /\ a.type = "frequency" /\ ShownFor(a, Counted(a, hist, nprod), report[k])
  BY EndedReport
<1>2. e \in Expr /\ a.low \in Int /\ a.high \in Int /\ a.low <= a.high
  BY <1>1, ListAction
<1>3. Counted(a, hist, nprod) = c
  BY <1>1 DEF Counted, Tables
<1>4. report[k] = FreqReport(a, c)
  BY <1>1, <1>3 DEF ShownFor
<1>5. report[k] = OneWay(c.uflow, names, counts, c.oflow)
  BY <1>4 DEF FreqReport
<1>6. \A d \in Deal : Val[e][d] \in Int
  BY <1>2, ActionsAssumption
<1> HIDE DEF a
<1>7. n \in Int /\ n >= 1 /\ Rows(names, a.low, n, 1)
      /\ (n - 1) * 1 <= a.high - a.low /\ a.high - a.low < (n - 1) * 1 + 1
  BY <1>2, UnitRows
<1>8. \A d \in Deal : /\ Pos(Val[e][d], a.low, n, 1) = 0 <=> Val[e][d] < a.low
                      /\ Pos(Val[e][d], a.low, n, 1) = n + 1 <=> Val[e][d] > a.high
                      /\ \A i \in 1 .. n : Pos(Val[e][d], a.low, n, 1) = i
                                             <=> Val[e][d] = a.low + (i - 1)
  BY <1>2, <1>6, FreqPos
<1>9. c.uflow = Met(hist, nprod, AtPos(Val[e], a.low, n, 1, 0))
  <2>1. Less(a) = AtPos(Val[e], a.low, n, 1, 0)
    <3> HIDE DEF n
    <3>. QED BY <1>8 DEF Less, AtPos
  <2>. QED BY <2>1 DEF FreqCells
<1>10. c.oflow = Met(hist, nprod, AtPos(Val[e], a.low, n, 1, n + 1))
  <2>1. More(a) = AtPos(Val[e], a.low, n, 1, n + 1)
    <3> HIDE DEF n
    <3>. QED BY <1>8 DEF More, AtPos
  <2>. QED BY <2>1 DEF FreqCells
<1>11. \A i \in 1 .. n : counts[i] = Met(hist, nprod, AtPos(Val[e], a.low, n, 1, i))
  <2> SUFFICES ASSUME NEW i \in 1 .. n
               PROVE  counts[i] = Met(hist, nprod, AtPos(Val[e], a.low, n, 1, i))
    OBVIOUS
  <2>1. At(a, i - 1) = AtPos(Val[e], a.low, n, 1, i)
    <3> HIDE DEF n
    <3>. QED BY <1>8 DEF At, AtPos
  <2>2. i - 1 \in 0 .. n - 1
    BY <1>7
  <2>3. c.freqs = [j \in 0 .. n - 1 |-> Met(hist, nprod, At(a, j))]
    BY DEF FreqCells
  <2>4. c.freqs[i - 1] = Met(hist, nprod, At(a, i - 1))
    <3> HIDE DEF n, c
    <3>. QED BY <2>2, <2>3
  <2>. QED BY <2>1, <2>4
<1> DEFINE low == a.low
           high == a.high
           under == c.uflow
           over == c.oflow
<1> HIDE DEF n, c, names, counts, e, low, high, under, over
<1>12. OneWayRight(OneWay(under, names, counts, over), e, low, high, 1)
  <2>1. TypeOK
    BY DEF StatInv
  <2>2. low \in Int /\ high \in Int /\ n \in Int /\ 1 \in Int /\ n >= 1 /\ 1 > 0 /\ e \in Expr
    BY <1>2, <1>7 DEF low, high
  <2>3. Rows(names, low, n, 1) /\ (n - 1) * 1 <= high - low /\ high - low < (n - 1) * 1 + 1
    BY <1>7 DEF low, high
  <2>4. /\ under = Met(hist, nprod, AtPos(Val[e], low, n, 1, 0))
        /\ over = Met(hist, nprod, AtPos(Val[e], low, n, 1, n + 1))
        /\ \A i \in 1 .. n : counts[i] = Met(hist, nprod, AtPos(Val[e], low, n, 1, i))
    BY <1>9, <1>10, <1>11 DEF low, under, over
  <2>. QED BY <2>1, <2>2, <2>3, <2>4, OneWayCorrect
<1>. QED BY <1>5, <1>12 DEF low, high, under, over, e, a

\* The table of a bktfreq is right.
LEMMA BktfreqRight ==
  ASSUME StatInv, NEW k \in Ended({"bktfreq"})
  PROVE  OneWayRight(report[k], ActionList[k].expr, ActionList[k].bkt.Lo,
                     ActionList[k].bkt.Hi, ActionList[k].bkt.Sz)
<1> DEFINE a == ActionList[k]
           b == a.bkt
           e == a.expr
           n == Num(b) - 2
           c == Cells(a, hist, nprod)
           names == bkt_names(b)
           oflow == Num(b) - 1
           counts == [i \in 1 .. oflow - 1 |-> c[i]]
           low == b.Lo
           high == b.Hi
           sz == b.Sz
           under == c[0]
           over == c[oflow]
<1>1. k \in K /\ a.type = "bktfreq" /\ ShownFor(a, Counted(a, hist, nprod), report[k])
  BY EndedReport
<1>2. e \in Expr /\ BktOK(b)
  BY <1>1, ListAction
<1>3. Counted(a, hist, nprod) = c
  BY <1>1 DEF Counted, Tables
<1>4. report[k] = BktReport(a, c)
  BY <1>1, <1>3 DEF ShownFor
<1>5. report[k] = OneWay(under, names, counts, over)
  BY <1>4 DEF BktReport
<1>6. \A d \in Deal : Val[e][d] \in Int
  BY <1>2, ActionsAssumption
<1>7. /\ low \in Int /\ high \in Int /\ sz \in Int /\ sz > 0 /\ n \in Int /\ n >= 1
      /\ Rows(names, low, n, sz)
      /\ (n - 1) * sz <= high - low /\ high - low < (n - 1) * sz + sz
  BY <1>2, BktFacts
<1>8. Num(b) \in Int
  BY <1>2 DEF Num, BktOK
<1>9. Num(b) = n + 2 /\ oflow = n + 1 /\ oflow - 1 = n
  BY <1>8
<1>10. DOMAIN Empty(a) = 0 .. n + 1
  <2>1. Empty(a) = Zeros(Num(b))
    BY <1>1 DEF Empty
  <2> HIDE DEF n, b
  <2>2. Num(b) - 1 = n + 1
    BY <1>7, <1>9
  <2>. QED BY <2>1, <2>2 DEF Zeros
<1>11. \A i : In(a, i) = AtPos(Val[e], low, n, sz, i)
  <2>1. \A d \in Deal : CellOf(a, d) = Pos(Val[e][d], low, n, sz)
    <3>1. \A d \in Deal : CellOf(a, d) = upd_bkt1D(Val[e][d], b)
      BY <1>1 DEF CellOf
    <3>. QED BY <3>1, <1>2, <1>6, BktIsPos
  <2> HIDE DEF a, e, low, n, sz
  <2>. QED BY <2>1 DEF In, AtPos
<1>12. \A i \in 0 .. n + 1 : c[i] = Met(hist, nprod, AtPos(Val[e], low, n, sz, i))
  <2> HIDE DEF a, e, low, n, sz
  <2>. QED BY <1>10, <1>11 DEF Cells
<1>13. counts = [i \in 1 .. n |-> c[i]] /\ over = c[n + 1]
  BY <1>9
<1> HIDE DEF n, c, names, counts, e, low, high, under, over, sz, b, oflow
<1>14. OneWayRight(OneWay(under, names, counts, over), e, low, high, sz)
  <2>1. TypeOK
    BY DEF StatInv
  <2>2. low \in Int /\ high \in Int /\ n \in Int /\ sz \in Int /\ n >= 1 /\ sz > 0 /\ e \in Expr
    BY <1>2, <1>7
  <2>3. Rows(names, low, n, sz) /\ (n - 1) * sz <= high - low /\ high - low < (n - 1) * sz + sz
    BY <1>7
  <2>4. 0 \in 0 .. n + 1 /\ n + 1 \in 0 .. n + 1 /\ \A i \in 1 .. n : i \in 0 .. n + 1
    BY <1>7
  <2>5. /\ under = Met(hist, nprod, AtPos(Val[e], low, n, sz, 0))
        /\ over = Met(hist, nprod, AtPos(Val[e], low, n, sz, n + 1))
        /\ \A i \in 1 .. n : counts[i] = Met(hist, nprod, AtPos(Val[e], low, n, sz, i))
    BY <1>12, <1>13, <2>4 DEF under
  <2>. QED BY <2>1, <2>2, <2>3, <2>5, OneWayCorrect
<1>. QED BY <1>5, <1>14 DEF low, high, sz, under, over, e, b, a

-----------------------------------------------------------------------------
(* The tables of frequency2d and bktfreq2d. *)

\* The row or column of a deal in a frequency2d.
LEMMA LinePosed ==
  ASSUME NEW e \in Expr, NEW low \in Int, NEW high \in Int, low <= high, NEW d \in Deal
  PROVE  Line(Val[e][d], low, high) = Posed(e, low, high - low + 1, 1)[d]
<1>1. Val[e][d] \in Int
  BY ActionsAssumption
<1>2. Line(Val[e][d], low, high) = Pos(Val[e][d], low, high - low + 1, 1)
  BY <1>1, LineIsPos
<1>. QED BY <1>2 DEF Posed

\* The row or column of a deal in a bktfreq2d.
LEMMA BktPosed ==
  ASSUME NEW e \in Expr, NEW b, BktOK(b), NEW d \in Deal
  PROVE  find_bkt_id(Val[e][d], b) = Posed(e, b.Lo, Num(b) - 2, b.Sz)[d]
<1>1. Val[e][d] \in Int
  BY ActionsAssumption
<1>2. find_bkt_id(Val[e][d], b) = Pos(Val[e][d], b.Lo, Num(b) - 2, b.Sz)
  BY <1>1, BktIsPos
<1>. QED BY <1>2 DEF Posed

\* The rows of a frequency2d.
LEMMA UnitRowsOf ==
  ASSUME NEW low \in Int, NEW high \in Int, low <= high,
         NEW n, n = high - low + 1, NEW one, one = 1, NEW names,
         names = [i \in 1 .. high - low + 1 |-> low + i - 1]
  PROVE  Rows(names, low, n, one)
<1>1. Rows(names, low, high - low + 1, 1)
  BY UnitRows
<1>. QED BY <1>1

\* The table of a has R rows of W columns, one after the other.
Flat(a, R, W, P, P2) ==
    /\ DOMAIN Empty(a) = 0 .. R * W - 1
    /\ \A d \in Deal : P[d] \in 0 .. R - 1
    /\ \A d \in Deal : P2[d] \in 0 .. W - 1
    /\ \A d \in Deal : CellOf(a, d) = W * P[d] + P2[d]

\* A flattened table has the cells of its rows and columns.
LEMMA FlatCells ==
  ASSUME NEW a, NEW R \in Int, NEW W \in Int, W > 0, R > 0, NEW P, NEW P2,
         Flat(a, R, W, P, P2)
  PROVE  \A i \in 0 .. R - 1 : \A j \in 0 .. W - 1 :
            Cells(a, hist, nprod)[W * i + j] = Met(hist, nprod, Cell(P, P2, i, j))
<1> SUFFICES ASSUME NEW i \in 0 .. R - 1, NEW j \in 0 .. W - 1
             PROVE  Cells(a, hist, nprod)[W * i + j] = Met(hist, nprod, Cell(P, P2, i, j))
  OBVIOUS
<1> DEFINE x == W * i + j
<1>0. /\ DOMAIN Empty(a) = 0 .. R * W - 1
      /\ \A d \in Deal : P[d] \in 0 .. R - 1
      /\ \A d \in Deal : P2[d] \in 0 .. W - 1
      /\ \A d \in Deal : CellOf(a, d) = W * P[d] + P2[d]
  BY DEF Flat
<1>1. i \in Int /\ j \in Int /\ 0 <= i /\ i < R /\ 0 <= j /\ j < W
  OBVIOUS
<1>2. /\ x \in 0 .. R * W - 1
      /\ \A p \in Int : \A l \in 0 .. W - 1 : W * p + l = x <=> (p = i /\ l = j)
  BY <1>1, IndexFacts
<1>3. \A d \in Deal : CellOf(a, d) = x <=> (P[d] = i /\ P2[d] = j)
  <2> SUFFICES ASSUME NEW d \in Deal PROVE CellOf(a, d) = x <=> (P[d] = i /\ P2[d] = j)
    OBVIOUS
  <2> DEFINE p == P[d]
             l == P2[d]
  <2>1. p \in Int /\ l \in 0 .. W - 1 /\ CellOf(a, d) = W * p + l
    BY <1>0
  <2> HIDE DEF p, l, x
  <2>2. W * p + l = x <=> (p = i /\ l = j)
    BY <1>2, <2>1
  <2>. QED BY <2>1, <2>2 DEF p, l
<1> HIDE DEF x
<1>4. In(a, x) = Cell(P, P2, i, j)
  BY <1>3 DEF In, Cell
<1>5. Cells(a, hist, nprod)[x] = Met(hist, nprod, In(a, x))
  BY <1>0, <1>2 DEF Cells
<1>. QED BY <1>4, <1>5 DEF x

\* The table of a frequency2d is right.
LEMMA Frequency2DRight ==
  ASSUME StatInv, NEW k \in Ended({"frequency2d"})
  PROVE  TwoWayRight(report[k], ActionList[k].expr, 1, ActionList[k].expr2, 1)
<1> DEFINE a == ActionList[k]
           e == a.expr
           e2 == a.expr2
           low == a.low
           high == a.high
           low2 == a.low2
           high2 == a.high2
           n == a.high - a.low + 1
           n2 == a.high2 - a.low2 + 1
           c == Cells(a, hist, nprod)
           down == [i \in 1 .. a.high - a.low + 1 |-> i + a.low - 1]
           across == [j \in 1 .. a.high2 - a.low2 + 1 |-> j + a.low2 - 1]
           one == 1
           R == n + 2
           W == n2 + 2
           P == Posed(e, low, n, one)
           P2 == Posed(e2, low2, n2, one)
<1>1. k \in K /\ a.type = "frequency2d" /\ ShownFor(a, Counted(a, hist, nprod), report[k])
  BY EndedReport
<1>2. e \in Expr /\ low \in Int /\ high \in Int /\ low <= high
      /\ e2 \in Expr /\ low2 \in Int /\ high2 \in Int /\ low2 <= high2
  BY <1>1, ListAction
<1>3. Counted(a, hist, nprod) = c
  BY <1>1 DEF Counted, Tables
<1>4. report[k] = Freq2DReport(a, c)
  BY <1>1, <1>3 DEF ShownFor
<1>5. report[k] = TwoWay(c, down, across)
  BY <1>4 DEF Freq2DReport
<1>6. down = [i \in 1 .. high - low + 1 |-> low + i - 1]
      /\ across = [i \in 1 .. high2 - low2 + 1 |-> low2 + i - 1]
  <2> HIDE DEF a
  <2>1. \A i \in 1 .. high - low + 1 : i + low - 1 = low + i - 1
    BY <1>2
  <2>2. \A i \in 1 .. high2 - low2 + 1 : i + low2 - 1 = low2 + i - 1
    BY <1>2
  <2>. QED BY <2>1, <2>2
<1>7. n \in Int /\ n >= 1 /\ R \in Int /\ W \in Int /\ n2 \in Int /\ n2 >= 1
      /\ R > 0 /\ W > 0 /\ R - 1 = n + 1 /\ W - 1 = n2 + 1 /\ one \in Int /\ one > 0
      /\ (n2 + 1 + 1) = W
  <2> HIDE DEF a
  <2>. QED BY <1>2
<1>8. DOMAIN Empty(a) = 0 .. R * W - 1
  <2>1. Empty(a) = Zeros((a.high - a.low + 3) * (a.high2 - a.low2 + 3))
    BY <1>1 DEF Empty
  <2>2. a.high - a.low + 3 = R /\ a.high2 - a.low2 + 3 = W
    <3> HIDE DEF a
    <3>. QED BY <1>2
  <2>3. Empty(a) = Zeros(R * W)
    <3> HIDE DEF R, W, a
    <3>. QED BY <2>1, <2>2
  <2> HIDE DEF R, W
  <2>. QED BY <2>3 DEF Zeros
<1> HIDE DEF a, e, e2
<1>9. Rows(down, low, n, one) /\ Rows(across, low2, n2, one)
  <2>1. Rows(down, low, n, one)
    <3>1. n = high - low + 1 /\ one = 1
      OBVIOUS
    <3> HIDE DEF low, high, down, n, one
    <3>. QED BY <1>2, <1>6, <3>1, UnitRowsOf
  <2>2. Rows(across, low2, n2, one)
    <3>1. n2 = high2 - low2 + 1 /\ one = 1
      OBVIOUS
    <3> HIDE DEF low2, high2, across, n2, one
    <3>. QED BY <1>2, <1>6, <3>1, UnitRowsOf
  <2>. QED BY <2>1, <2>2
<1>10. \A d \in Deal : /\ P[d] = Line(Val[e][d], low, high)
                       /\ P2[d] = Line(Val[e2][d], low2, high2)
  <2>1. \A d \in Deal : Line(Val[e][d], low, high) = Posed(e, low, high - low + 1, 1)[d]
    BY <1>2, LinePosed
  <2>2. \A d \in Deal : Line(Val[e2][d], low2, high2) = Posed(e2, low2, high2 - low2 + 1, 1)[d]
    BY <1>2, LinePosed
  <2>. QED BY <2>1, <2>2
<1>11. \A d \in Deal : CellOf(a, d) = W * P[d] + P2[d]
  <2>1. a.high2 - a.low2 + 3 = W
    BY <1>2
  <2>2. \A d \in Deal : CellOf(a, d) = (a.high2 - a.low2 + 3) * Line(Val[e][d], low, high)
                                        + Line(Val[e2][d], low2, high2)
    BY <1>1 DEF CellOf, Cell2D, e, e2
  <2> HIDE DEF P, P2, W, low, high, low2, high2
  <2>. QED BY <1>10, <2>1, <2>2
<1> HIDE DEF low, high, low2, high2, n, n2, down, across, one, c
<1>12. /\ \A d \in Deal : P[d] \in 0 .. R - 1
       /\ \A d \in Deal : P2[d] \in 0 .. W - 1
  <2>1. \A d \in Deal : P[d] \in 0 .. n + 1
    BY <1>2, <1>7, <1>9, PosedWithin
  <2>2. \A d \in Deal : P2[d] \in 0 .. n2 + 1
    BY <1>2, <1>7, <1>9, PosedWithin
  <2> HIDE DEF P, P2, R, W
  <2>. QED BY <1>7, <2>1, <2>2
<1>13. \A i \in 0 .. R - 1 : \A j \in 0 .. W - 1 :
          c[W * i + j] = Met(hist, nprod, Cell(P, P2, i, j))
  <2>0. R \in Int /\ W \in Int /\ R > 0 /\ W > 0
    BY <1>7
  <2> HIDE DEF P, P2, R, W
  <2>1. \A i \in 0 .. R - 1 : \A j \in 0 .. W - 1 :
          Cells(a, hist, nprod)[W * i + j] = Met(hist, nprod, Cell(P, P2, i, j))
    <3>1. Flat(a, R, W, P, P2)
      BY <1>8, <1>11, <1>12 DEF Flat
    <3>. QED BY <2>0, <3>1, FlatCells
  <2>. QED BY <2>1 DEF c
<1>14. \A i \in 0 .. n + 1 : \A j \in 0 .. n2 + 1 :
          c[(n2 + 1 + 1) * i + j] = Met(hist, nprod, Cell(P, P2, i, j))
  <2> HIDE DEF P, P2, R, W
  <2>. QED BY <1>7, <1>13
<1>15. TwoWayRight(TwoWay(c, down, across), e, one, e2, one)
  <2>1. TypeOK
    BY DEF StatInv
  <2>. QED BY <1>2, <1>7, <1>9, <1>14, <2>1, TwoWayCorrect
<1>. QED BY <1>5, <1>15 DEF one, e, e2, a

\* The table of a bktfreq2d is right.
LEMMA Bktfreq2DRight ==
  ASSUME StatInv, NEW k \in Ended({"bktfreq2d"})
  PROVE  TwoWayRight(report[k], ActionList[k].expr, ActionList[k].bktd.Sz,
                     ActionList[k].expr2, ActionList[k].bkta.Sz)
<1> DEFINE a == ActionList[k]
           e == a.expr
           e2 == a.expr2
           b == a.bktd
           b2 == a.bkta
           low == b.Lo
           sz == b.Sz
           low2 == b2.Lo
           sz2 == b2.Sz
           n == Num(b) - 2
           n2 == Num(b2) - 2
           c == Cells(a, hist, nprod)
           down == bkt_names(b)
           across == bkt_names(b2)
           R == n + 2
           W == n2 + 2
           P == Posed(e, low, n, sz)
           P2 == Posed(e2, low2, n2, sz2)
<1>1. k \in K /\ a.type = "bktfreq2d" /\ ShownFor(a, Counted(a, hist, nprod), report[k])
  BY EndedReport
<1>2. e \in Expr /\ e2 \in Expr /\ BktOK(b) /\ BktOK(b2)
  BY <1>1, ListAction
<1>3. Counted(a, hist, nprod) = c
  BY <1>1 DEF Counted, Tables
<1>4. report[k] = Bkt2DReport(a, c)
  BY <1>1, <1>3 DEF ShownFor
<1>5. report[k] = TwoWay(c, down, across)
  BY <1>4 DEF Bkt2DReport
<1>6. \A x \in {b, b2} : Num(x) \in Int
  <2>1. \A x \in {b, b2} : BktOK(x)
    BY <1>2
  <2> HIDE DEF b, b2
  <2>. QED BY <2>1 DEF Num, BktOK
<1>7. /\ low \in Int /\ sz \in Int /\ sz > 0 /\ n \in Int /\ n >= 1 /\ Rows(down, low, n, sz)
  BY <1>2, BktFacts
<1>8. /\ low2 \in Int /\ sz2 \in Int /\ sz2 > 0 /\ n2 \in Int /\ n2 >= 1
      /\ Rows(across, low2, n2, sz2)
  BY <1>2, BktFacts
<1>9. R = Num(b) /\ W = Num(b2)
  BY <1>6
<1>10. /\ R \in Int /\ W \in Int /\ R > 0 /\ W > 0 /\ R - 1 = n + 1 /\ W - 1 = n2 + 1
       /\ (n2 + 1 + 1) = W
  <2> HIDE DEF n, n2
  <2>. QED BY <1>7, <1>8
<1>11. DOMAIN Empty(a) = 0 .. R * W - 1
  <2>1. Empty(a) = Zeros(Num(b) * Num(b2))
    BY <1>1 DEF Empty
  <2> HIDE DEF R, W, b, b2
  <2>. QED BY <1>9, <2>1 DEF Zeros
<1>12. \A d \in Deal : /\ P[d] = find_bkt_id(Val[e][d], b)
                       /\ P2[d] = find_bkt_id(Val[e2][d], b2)
  <2> HIDE DEF a, e, e2, b, b2
  <2>1. \A d \in Deal : find_bkt_id(Val[e][d], b) = Posed(e, b.Lo, Num(b) - 2, b.Sz)[d]
    BY <1>2, BktPosed
  <2>2. \A d \in Deal : find_bkt_id(Val[e2][d], b2) = Posed(e2, b2.Lo, Num(b2) - 2, b2.Sz)[d]
    BY <1>2, BktPosed
  <2>. QED BY <2>1, <2>2
<1> HIDE DEF low, n, sz, low2, n2, sz2
<1>13. \A d \in Deal : /\ P[d] \in 0 .. n + 1
                       /\ P2[d] \in 0 .. n2 + 1
  <2> HIDE DEF a, e, e2, down, across
  <2>1. \A d \in Deal : P[d] \in 0 .. n + 1
    BY <1>2, <1>7, PosedWithin
  <2>2. \A d \in Deal : P2[d] \in 0 .. n2 + 1
    BY <1>2, <1>8, PosedWithin
  <2>. QED BY <2>1, <2>2
<1>14. \A d \in Deal : CellOf(a, d) = W * P[d] + P2[d]
  <2>1. \A d \in Deal : CellOf(a, d) = find_bkt_id(Val[e][d], b) * Num(b2)
                                        + find_bkt_id(Val[e2][d], b2)
    BY <1>1 DEF CellOf
  <2> HIDE DEF a, e, e2, b, b2, P, P2, W, R
  <2> SUFFICES ASSUME NEW d \in Deal PROVE CellOf(a, d) = W * P[d] + P2[d]
    OBVIOUS
  <2> DEFINE p == P[d]
             q == P2[d]
  <2>2. CellOf(a, d) = p * W + q /\ p \in Int /\ q \in Int
    BY <1>7, <1>8, <1>9, <1>12, <1>13, <2>1
  <2> HIDE DEF p, q
  <2>3. p * W = W * p
    BY <1>10, <2>2
  <2>. QED BY <2>2, <2>3 DEF p, q
<1> HIDE DEF down, across, a, b, b2, e, e2, P, P2, R, W, c
<1>15. /\ \A d \in Deal : P[d] \in 0 .. R - 1
       /\ \A d \in Deal : P2[d] \in 0 .. W - 1
  BY <1>10, <1>13
<1>16. \A i \in 0 .. R - 1 : \A j \in 0 .. W - 1 :
          c[W * i + j] = Met(hist, nprod, Cell(P, P2, i, j))
  <2>1. Flat(a, R, W, P, P2)
    BY <1>11, <1>14, <1>15 DEF Flat
  <2>2. R \in Int /\ W \in Int /\ R > 0 /\ W > 0
    BY <1>10
  <2>. QED BY <2>1, <2>2, FlatCells DEF c
<1>17. \A i \in 0 .. n + 1 : \A j \in 0 .. n2 + 1 :
          c[(n2 + 1 + 1) * i + j]
            = Met(hist, nprod, Cell(Posed(e, low, n, sz), Posed(e2, low2, n2, sz2), i, j))
  <2>1. \A i \in 0 .. n + 1 : \A j \in 0 .. n2 + 1 :
          c[(n2 + 1 + 1) * i + j] = Met(hist, nprod, Cell(P, P2, i, j))
    BY <1>10, <1>16
  <2>. QED BY <2>1 DEF P, P2
<1>18. TwoWayRight(TwoWay(c, down, across), e, sz, e2, sz2)
  <2>1. TypeOK
    BY DEF StatInv
  <2>. QED BY <1>2, <1>7, <1>8, <1>17, <2>1, TwoWayCorrect
<1>. QED BY <1>5, <1>18 DEF sz, sz2, b, b2, e, e2, a

-----------------------------------------------------------------------------
(* The average. *)

\* The variance the code forms from the two sums, times the same denominators.
LEMMA SampleArithmetic ==
  ASSUME NEW N \in Int, NEW S \in Int, NEW Q \in Int
  PROVE  (Q * N - S * S) * N * N * (N - 1)
           = (N * N * Q - 2 * N * S * S + N * (S * S)) * (N * (N - 1))
<1> DEFINE ss == S * S
           qn == Q * N
           nn == N * (N - 1)
           v == qn - ss
<1>1. ss \in Int /\ qn \in Int /\ nn \in Int /\ v \in Int
  OBVIOUS
<1>2. N * N * Q = N * qn /\ 2 * N * S * S = 2 * (N * ss)
  OBVIOUS
<1>3. (v * N) * N * (N - 1) = (v * N) * nn
  BY <1>1
<1>4. v * N = N * qn - N * ss
  BY <1>1
<1>5. N * ss \in Int /\ N * qn \in Int
  BY <1>1
<1>6. N * N * Q - 2 * N * S * S + N * (S * S) = v * N
  <2> DEFINE p == N * ss
             q == N * qn
             l1 == N * N * Q
             l2 == 2 * N * S * S
             r == v * N
  <2>1. l1 = q /\ l2 = 2 * p /\ p \in Int /\ q \in Int /\ r = q - p
    BY <1>2, <1>4, <1>5
  <2> HIDE DEF p, q, l1, l2, r
  <2>2. l1 - l2 + p = r
    BY <2>1
  <2>. QED BY <2>2 DEF p, l1, l2, r, ss
<1> HIDE DEF v, nn
<1>. QED BY <1>3, <1>6 DEF v, nn, qn, ss

\* dist are the squares of how far the values are from b, each taken a times.
Distances(dist, x, N, a, b) ==
    /\ \A n \in 1 .. N : x[n] \in Int
    /\ \A n \in 1 .. N : dist[n] = (a * x[n] - b) * (a * x[n] - b)

\* SumOfSquares, with its hypotheses named.
LEMMA SumOfDistances ==
  ASSUME NEW N \in Nat, NEW x, NEW a \in Int, NEW b \in Int, NEW sq, NEW dist,
         Distances(dist, x, N, a, b), Distances(sq, x, N, 1, 0)
  PROVE  SumTo(dist, 1, N)
            = a * a * SumTo(sq, 1, N) - 2 * a * b * SumTo(x, 1, N) + N * (b * b)
<1>1. \A n \in 1 .. N : x[n] \in Int
  BY DEF Distances
<1>2. \A n \in 1 .. N : dist[n] = (a * x[n] - b) * (a * x[n] - b)
  BY DEF Distances
<1>3. \A n \in 1 .. N : sq[n] = (1 * x[n] - 0) * (1 * x[n] - 0)
  BY DEF Distances
<1>4. \A n \in 1 .. N : sq[n] = x[n] * x[n]
  BY <1>1, <1>3
<1>. QED BY <1>1, <1>2, <1>4, SumOfSquares

\* Mean, variance and size of an average are those of the sample.
LEMMA AverageRight ==
  ASSUME StatInv, NEW k \in Ended({"average"})
  PROVE  LET x    == [n \in DOMAIN hist |-> Val[ActionList[k].expr][hist[n]]]
             N    == Len(hist)
             S    == SumTo(x, 1, N)
             dist == [n \in DOMAIN x |-> (N * x[n] - S) * (N * x[n] - S)]
             var  == report[k].var
         IN  /\ report[k].mean = <<S, N>> /\ report[k].size = N
             /\ N = 1 => var[1] = 0
             /\ N > 1 => var[1] * N * N * (N - 1) = SumTo(dist, 1, N) * var[2]
<1> DEFINE a == ActionList[k]
           e == a.expr
           x == [n \in DOMAIN hist |-> Val[e][hist[n]]]
           N == Len(hist)
           sq == Squares(a, hist, N)
           S == SumTo(x, 1, N)
           Q == SumTo(sq, 1, N)
           dist == [n \in DOMAIN x |-> (N * x[n] - S) * (N * x[n] - S)]
           D == SumTo(dist, 1, N)
           m == IF N > 1 THEN N - 1 ELSE 1
           Claim == /\ report[k].mean = <<S, N>> /\ report[k].size = N
                    /\ N = 1 => report[k].var[1] = 0
                    /\ N > 1 => report[k].var[1] * N * N * (N - 1) = D * report[k].var[2]
<1>1. k \in K /\ a.type = "average" /\ ShownFor(a, Counted(a, hist, nprod), report[k])
  BY EndedReport
<1>2. e \in Expr
  BY <1>1, ListAction
<1>3. N \in Nat /\ nprod = N /\ DOMAIN hist = 1 .. N /\ \A n \in 1 .. N : hist[n] \in Deal
  BY DEF StatInv, TypeOK
<1>4. x = Values(a, hist, N)
  BY <1>3 DEF Values
<1>5. Counted(a, hist, nprod) = [count |-> N, sum |-> S, sqsum |-> Q]
  BY <1>1, <1>3, <1>4 DEF Counted, AvgCells, Tables
<1>6. /\ report[k].mean = <<S, N>> /\ report[k].size = N
      /\ report[k].var = <<Q * N - S * S, N * m>>
  <2>1. report[k] = AvgReport([count |-> N, sum |-> S, sqsum |-> Q])
    BY <1>1, <1>5 DEF ShownFor
  <2> HIDE DEF S, Q, N
  <2>. QED BY <2>1 DEF AvgReport
<1>7. \A n \in 1 .. N : x[n] \in Int
  BY <1>2, <1>3, ActionsAssumption
<1>8. \A n \in 1 .. N : sq[n] = x[n] * x[n]
  BY <1>3 DEF Squares
<1>9. \A n \in 1 .. N : dist[n] = (N * x[n] - S) * (N * x[n] - S)
  BY <1>3
<1>16. SUFFICES Claim
  OBVIOUS
<1> HIDE DEF x, sq, N, dist, S, Q, D
<1>10. S \in Int
  BY <1>3, <1>7, SumInt DEF S
<1>11. Q \in Int
  <2>1. \A n \in 1 .. N : sq[n] \in Int
    BY <1>7, <1>8
  <2>. QED BY <1>3, <2>1, SumInt DEF Q
<1>12. D = N * N * Q - 2 * N * S * S + N * (S * S)
  <2>1. SumTo(dist, 1, N) = N * N * SumTo(sq, 1, N) - 2 * N * S * SumTo(x, 1, N) + N * (S * S)
    <3>1. Distances(dist, x, N, N, S)
      BY <1>7, <1>9 DEF Distances
    <3>2. Distances(sq, x, N, 1, 0)
      BY <1>7, <1>8 DEF Distances
    <3>. QED BY <1>3, <1>10, <3>1, <3>2, SumOfDistances
  <2>2. D = SumTo(dist, 1, N) /\ Q = SumTo(sq, 1, N) /\ S = SumTo(x, 1, N)
    BY DEF D, Q, S
  <2>. QED BY <2>1, <2>2
<1>13. CASE N = 1
  <2>1. S = x[1] /\ Q = sq[1]
    <3>1. /\ SumTo(x, 1, 1) = SumTo(x, 1, 1 - 1) + x[1]
          /\ SumTo(sq, 1, 1) = SumTo(sq, 1, 1 - 1) + sq[1]
      BY SumNext
    <3>2. SumTo(x, 1, 1 - 1) = 0 /\ SumTo(sq, 1, 1 - 1) = 0
      BY SumEmpty
    <3>3. x[1] \in Int /\ sq[1] \in Int
      BY <1>7, <1>8, <1>13
    <3>. QED BY <1>13, <3>1, <3>2, <3>3 DEF S, Q
  <2>2. sq[1] = x[1] * x[1]
    BY <1>8, <1>13
  <2>3. Q * N - S * S = 0
    BY <1>10, <1>11, <1>13, <2>1, <2>2
  <2>. QED BY <1>6, <1>13, <2>3
<1>14. CASE N > 1
  <2>1. m = N - 1
    BY <1>14
  <2>2. (Q * N - S * S) * N * N * (N - 1) = D * (N * m)
    BY <1>3, <1>10, <1>11, <1>12, <2>1, SampleArithmetic
  <2>3. report[k].var[1] * N * N * (N - 1) = D * report[k].var[2]
    BY <1>6, <2>2
  <2>. QED BY <1>6, <1>14, <2>3
<1>15. CASE N = 0
  BY <1>6, <1>15
<1>. QED BY <1>3, <1>13, <1>14, <1>15

\* Every row, cell and sum of the tables printed at the end counts the deals whose
\* values lie where its names say, and averages are those of the sample, for any
\* bounds in order, any expressions and any number of deals.
THEOREM Statistics == Spec => []StatsOfTheDeals
<1>1. StatInv => StatsOfTheDeals
  <2> SUFFICES ASSUME StatInv PROVE StatsOfTheDeals
    OBVIOUS
  <2>1. TablesOneWay
    BY FrequencyRight, BktfreqRight DEF TablesOneWay
  <2>2. TablesTwoWay
    BY Frequency2DRight, Bktfreq2DRight DEF TablesTwoWay
  <2>3. Averages
    BY AverageRight DEF Averages
  <2>. QED BY <2>1, <2>2, <2>3 DEF StatsOfTheDeals
<1>. QED BY <1>1, StatInvariance, PTL

-----------------------------------------------------------------------------
(* The score of a contract is what the laws give for it. *)

\* A contract with its vulnerability and the tricks made.
Node(v, x, s, l, t) == [level |-> l, strain |-> s, dbl |-> x, vul |-> v, tricks |-> t]

\* The points of the tricks bid, before they are doubled.
Undoubled(s, l) ==
    20 * l + (IF s >= SUIT_HEART THEN 10 * l ELSE 0) + (IF s = SUIT_NT THEN 10 ELSE 0)

\* The laws' points of the tricks bid, by how they are doubled.
LEMMA BidIs ==
  ASSUME NEW n, n.level \in Level, n.strain \in Strain
  PROVE  /\ Undoubled(n.strain, n.level) \in Nat
         /\ n.dbl = 0 => Bid(n) = Undoubled(n.strain, n.level)
         /\ n.dbl = 1 => Bid(n) = 2 * Undoubled(n.strain, n.level)
         /\ n.dbl = 2 => Bid(n) = 4 * Undoubled(n.strain, n.level)
<1> DEFINE u == Undoubled(n.strain, n.level)
<1>1. u \in Nat
  BY DEF Undoubled, Level, Strain, SUIT_NT, SUIT_HEART
<1>2. Bid(n) = u * 2^n.dbl
  BY DEF Bid, Undoubled
<1> HIDE DEF u
<1>3. 2^0 = 1 /\ 2^1 = 2 /\ 2^2 = 4
  OBVIOUS
<1>4. n.dbl = 0 => Bid(n) = u
  BY <1>1, <1>2, <1>3
<1>5. n.dbl = 1 => Bid(n) = 2 * u
  BY <1>1, <1>2, <1>3
<1>6. n.dbl = 2 => Bid(n) = 4 * u
  BY <1>1, <1>2, <1>3
<1>. QED BY <1>1, <1>4, <1>5, <1>6 DEF u

\* What k undertricks cost, in one formula for each kind of contract.
Lost(n, k) ==
    IF k = 0 THEN 0
    ELSE IF n.dbl = 0 THEN (IF n.vul = 1 THEN 100 * k ELSE 50 * k)
    ELSE IF n.vul = 1 THEN (300 * k - 100) * n.dbl
    ELSE IF k <= 3 THEN (200 * k - 100) * n.dbl ELSE (300 * k - 400) * n.dbl

\* One more undertrick costs its penalty more.
LEMMA LostNext ==
  ASSUME NEW n, n.vul \in Vul, n.dbl \in Dbl, NEW k \in Nat, k > 0
  PROVE  Lost(n, k) = Lost(n, k - 1) + Penalty(n, k)
<1>1. CASE n.dbl = 0
  BY <1>1 DEF Lost, Penalty, Vul, Dbl
<1>2. CASE n.dbl = 1
  <2>1. CASE n.vul = 1
    BY <1>2, <2>1 DEF Lost, Penalty
  <2>2. CASE n.vul = 0
    BY <1>2, <2>2 DEF Lost, Penalty
  <2>. QED BY <2>1, <2>2 DEF Vul
<1>3. CASE n.dbl = 2
  <2>1. CASE n.vul = 1
    BY <1>3, <2>1 DEF Lost, Penalty
  <2>2. CASE n.vul = 0
    BY <1>3, <2>2 DEF Lost, Penalty
  <2>. QED BY <2>1, <2>2 DEF Vul
<1>. QED BY <1>1, <1>2, <1>3 DEF Dbl

\* So the penalties of u undertricks add up to it.
LEMMA DownIs ==
  ASSUME NEW n, n.vul \in Vul, n.dbl \in Dbl, NEW u \in 0 .. 13, u = 6 + n.level - n.tricks
  PROVE  Down(n) = Lost(n, u)
<1> DEFINE IsIt(sum) == sum = [k \in 0 .. 13 |-> IF k = 0 THEN 0 ELSE sum[k - 1] + Penalty(n, k)]
           sum == CHOOSE s : IsIt(s)
           g == [k \in 0 .. 13 |-> Lost(n, k)]
<1>1. Down(n) = sum[u]
  BY DEF Down
<1>2. IsIt(g)
  <2>1. \A k \in 0 .. 13 : g[k] = IF k = 0 THEN 0 ELSE g[k - 1] + Penalty(n, k)
    <3> SUFFICES ASSUME NEW k \in 0 .. 13
                 PROVE  g[k] = IF k = 0 THEN 0 ELSE g[k - 1] + Penalty(n, k)
      OBVIOUS
    <3>1. CASE k = 0
      BY <3>1 DEF Lost
    <3>2. CASE k # 0
      <4>1. k \in Nat /\ k > 0 /\ k - 1 \in 0 .. 13
        BY <3>2
      <4>2. Lost(n, k) = Lost(n, k - 1) + Penalty(n, k)
        BY <4>1, LostNext
      <4>3. g[k] = Lost(n, k) /\ g[k - 1] = Lost(n, k - 1)
        BY <4>1
      <4>. QED BY <3>2, <4>2, <4>3
    <3>. QED BY <3>1, <3>2
  <2>. QED BY <2>1
<1>3. IsIt(sum)
  <2> HIDE DEF IsIt
  <2>. QED BY <1>2
<1> DEFINE S == {k \in Nat : k <= 13 => sum[k] = Lost(n, k)}
<1>4. \A k \in 0 .. 13 : sum[k] = IF k = 0 THEN 0 ELSE sum[k - 1] + Penalty(n, k)
  <2> HIDE DEF sum
  <2>. QED BY <1>3
<1> HIDE DEF sum
<1>5. 0 \in S
  BY <1>4 DEF Lost
<1>6. ASSUME NEW k \in Nat, k \in S PROVE k + 1 \in S
  <2>1. SUFFICES ASSUME k + 1 <= 13 PROVE sum[k + 1] = Lost(n, k + 1)
    OBVIOUS
  <2>2. k + 1 \in 0 .. 13 /\ k + 1 # 0 /\ k + 1 - 1 = k /\ k <= 13
    BY <2>1
  <2>3. sum[k + 1] = sum[k] + Penalty(n, k + 1)
    BY <1>4, <2>2
  <2>4. Lost(n, k + 1) = Lost(n, k + 1 - 1) + Penalty(n, k + 1)
    BY LostNext
  <2>5. sum[k] = Lost(n, k)
    BY <1>6, <2>2
  <2>. QED BY <2>2, <2>3, <2>4, <2>5
<1>7. u \in S
  <2> HIDE DEF S
  <2>. QED BY <1>5, <1>6, Induction
<1>. QED BY <1>1, <1>7

\* A level is game in a strain when its tricks are worth a hundred points.
LEMMA GameIs ==
  ASSUME NEW s \in Strain, NEW l \in Level
  PROVE  /\ IsGame(s, l) <=> Undoubled(s, l) >= 100
         /\ IsGame(s, l) <=> l >= game_lvl(s)
         /\ Undoubled(s, l) = trickscore(s, 6 + l)
BY DEF IsGame, Undoubled, game_lvl, trickscore, PerTrick, Strain, Level, SUIT_NT, SUIT_HEART,
       SUIT_SPADE, SUIT_DIAMOND

\* calc_score() is Law 77 for every contract, vulnerability and number of tricks.
LEMMA ScoreIsLaw ==
  ASSUME NEW v \in Vul, NEW x \in Dbl, NEW s \in Strain, NEW l \in Level, NEW t \in Taken
  PROVE  calc_score(v, x, s, l, t) = Law77(Node(v, x, s, l, t))
<1> DEFINE n == Node(v, x, s, l, t)
           u == Undoubled(s, l)
<1>1. n.level = l /\ n.strain = s /\ n.dbl = x /\ n.vul = v /\ n.tricks = t
  BY DEF Node
<1>2. l \in 1 .. 7 /\ t \in 0 .. 13 /\ v \in {0, 1} /\ x \in 0 .. 2
  BY DEF Level, Taken, Vul, Dbl
<1> HIDE DEF n
<1>3. CASE t < 6 + l
  <2> DEFINE k == 6 + l - t
  <2>1. k \in 0 .. 13 /\ k > 0
    BY <1>2, <1>3
  <2>2. Law77(n) = -Down(n)
    BY <1>1, <1>2, <1>3 DEF Law77, Over
  <2>3. Down(n) = Lost(n, k)
    BY <1>1, <2>1, DownIs
  <2>4. Lost(n, k) = IF x = 0 THEN (IF v = 1 THEN 100 * k ELSE 50 * k)
                     ELSE IF v = 1 THEN (300 * k - 100) * x
                     ELSE IF k <= 3 THEN (200 * k - 100) * x ELSE (300 * k - 400) * x
    BY <1>1, <2>1 DEF Lost
  <2>5. calc_score(v, x, s, l, t) = IF x = 0 THEN -50 * (1 + v) * k ELSE undertricks(k, v, x)
    BY <1>2, <1>3 DEF calc_score, undbled_score
  <2>6. calc_score(v, x, s, l, t) = -Lost(n, k)
    <3> HIDE DEF k
    <3>1. CASE x = 0
      BY <1>2, <2>1, <2>4, <2>5, <3>1
    <3>2. CASE x = 1
      BY <1>2, <2>1, <2>4, <2>5, <3>2 DEF undertricks
    <3>3. CASE x = 2
      BY <1>2, <2>1, <2>4, <2>5, <3>3 DEF undertricks
    <3>. QED BY <1>2, <3>1, <3>2, <3>3
  <2>. QED BY <2>2, <2>3, <2>6 DEF n
<1>4. CASE ~(t < 6 + l)
  <2> DEFINE o == t - 6 - l
  <2>1. o \in Nat /\ Over(n) = o
    BY <1>1, <1>2, <1>4 DEF Over
  <2>2. Law77(n) = Bid(n) + OverPoints(n) + Bonus(n)
    BY <2>1 DEF Law77
  <2>3. /\ u \in Nat
        /\ x = 0 => Bid(n) = u
        /\ x = 1 => Bid(n) = 2 * u
        /\ x = 2 => Bid(n) = 4 * u
    BY <1>1, BidIs
  <2>4. OverPoints(n) = IF x = 0 THEN o * PerTrick(s)
                        ELSE o * x * (IF v = 1 THEN 200 ELSE 100)
    BY <1>1, <2>1 DEF OverPoints, PerTrick
  <2> DEFINE slam == SlamBonus(v, l)
  <2>5. Bonus(n) = (IF Bid(n) < 100 THEN 50 ELSE IF v = 1 THEN 500 ELSE 300) + slam + 50 * x
    <3>1. slam = CASE l < 6 -> 0
                   [] l = 6 -> (IF v = 1 THEN 750 ELSE 500)
                   [] l = 7 -> (IF v = 1 THEN 1500 ELSE 1000)
      BY <1>2 DEF SlamBonus
    <3>. QED BY <1>1, <3>1 DEF Bonus
  <2>6. slam \in Nat
    BY <1>2 DEF SlamBonus
  <2>7. trickscore(s, 6 + l) = u /\ (IsGame(s, l) <=> u >= 100)
    BY GameIs
  <2>8. trickscore(s, t) = u + o * PerTrick(s)
    BY <1>2, <2>7 DEF trickscore, PerTrick
  <2>9. PerTrick(s) \in {20, 30}
    BY DEF PerTrick
  <2> HIDE DEF slam, u, o
  <2>10. CASE x = 0
    <3>1. calc_score(v, x, s, l, t)
            = trickscore(s, t) + 50 + (IF IsGame(s, l) THEN 250 + 200 * v ELSE 0) + slam
      BY <1>4, <2>10 DEF calc_score, undbled_score, slam
    <3> DEFINE p == o * PerTrick(s)
    <3>2. p \in Nat
      BY <2>1, <2>9
    <3> HIDE DEF p
    <3>3. trickscore(s, t) = u + p /\ OverPoints(n) = p
      BY <2>4, <2>8, <2>10 DEF p
    <3>. QED BY <1>2, <2>2, <2>3, <2>5, <2>6, <2>7, <2>10, <3>1, <3>2, <3>3 DEF n
  <2>11. CASE x = 1 \/ x = 2
    <3> DEFINE b == Bid(n)
    <3>1. b = u * (IF x = 1 THEN 2 ELSE 4) /\ b \in Nat
      BY <2>3, <2>11
    <3>2. calc_score(v, x, s, l, t)
            = (b + (IF b >= 100 THEN 300 + v * 200 ELSE 50) + 50 * x + slam)
              + o * 100 * (1 + v) * x
      <4>1. dbled_making(x, v, s, 6 + l)
              = b + (IF b >= 100 THEN 300 + v * 200 ELSE 50) + 50 * x + slam
        <5>1. (6 + l) - 6 = l
          BY <1>2
        <5> DEFINE t0 == trickscore(s, 6 + l) * (IF x = 1 THEN 2 ELSE 4)
        <5>2. t0 = b
          BY <2>7, <3>1
        <5>3. dbled_making(x, v, s, 6 + l)
                = t0 + (IF t0 >= 100 THEN 300 + v * 200 ELSE 50) + 50 * x
                     + SlamBonus(v, (6 + l) - 6)
          BY DEF dbled_making
        <5> HIDE DEF b, t0
        <5>. QED BY <5>1, <5>2, <5>3 DEF slam
      <4>2. Overtricks(t - (6 + l), v, x) = o * 100 * (1 + v) * x
        BY <1>2 DEF Overtricks, o
      <4>3. calc_score(v, x, s, l, t) = dbled_making(x, v, s, 6 + l) + Overtricks(t - (6 + l), v, x)
        BY <1>2, <1>4, <2>11 DEF calc_score
      <4>. QED BY <4>1, <4>2, <4>3
    <3>3. OverPoints(n) = o * 100 * (1 + v) * x /\ o * 100 * (1 + v) * x \in Nat
      BY <1>2, <2>1, <2>4, <2>11
    <3> DEFINE p == o * 100 * (1 + v) * x
    <3> HIDE DEF b, p
    <3>4. Law77(n) = b + p + ((IF b < 100 THEN 50 ELSE IF v = 1 THEN 500 ELSE 300) + slam + 50 * x)
      BY <2>2, <2>5, <3>3 DEF b, p
    <3>5. calc_score(v, x, s, l, t)
            = (b + (IF b >= 100 THEN 300 + v * 200 ELSE 50) + 50 * x + slam) + p
      BY <3>2 DEF p
    <3>6. p \in Nat
      BY <3>3 DEF p
    <3>. QED BY <1>2, <2>6, <3>1, <3>4, <3>5, <3>6 DEF n
  <2>. QED BY <1>2, <2>10, <2>11
<1>. QED BY <1>3, <1>4

\* It is positive when the contract is made, and negative when it is not.
LEMMA ScoreSign ==
  ASSUME NEW v \in Vul, NEW x \in Dbl, NEW s \in Strain, NEW l \in Level, NEW t \in Taken
  PROVE  /\ calc_score(v, x, s, l, t) \in Int
         /\ calc_score(v, x, s, l, t) > 0 <=> t >= 6 + l
         /\ calc_score(v, x, s, l, t) < 0 <=> t < 6 + l
<1>1. l \in 1 .. 7 /\ t \in 0 .. 13 /\ v \in {0, 1} /\ x \in 0 .. 2
  BY DEF Level, Taken, Vul, Dbl
<1>2. CASE t < 6 + l
  <2> DEFINE k == 6 + l - t
  <2>1. k \in 1 .. 13
    BY <1>1, <1>2
  <2>2. calc_score(v, x, s, l, t) = IF x = 0 THEN -50 * (1 + v) * k ELSE undertricks(k, v, x)
    BY <1>1, <1>2 DEF calc_score, undbled_score
  <2> HIDE DEF k
  <2>3. calc_score(v, x, s, l, t) \in Int /\ calc_score(v, x, s, l, t) < 0
    <3>1. CASE x = 0
      BY <1>1, <2>1, <2>2, <3>1
    <3>2. CASE x = 1
      BY <1>1, <2>1, <2>2, <3>2 DEF undertricks
    <3>3. CASE x = 2
      BY <1>1, <2>1, <2>2, <3>3 DEF undertricks
    <3>. QED BY <1>1, <3>1, <3>2, <3>3
  <2>. QED BY <1>1, <1>2, <2>3
<1>3. CASE ~(t < 6 + l)
  <2> DEFINE o == t - (6 + l)
             slam == SlamBonus(v, l)
  <2>1. o \in Nat /\ slam \in Nat
    BY <1>1, <1>3 DEF SlamBonus
  <2>2. /\ trickscore(s, t) \in Nat /\ trickscore(s, 6 + l) \in Nat
    BY <1>1, <1>3 DEF trickscore, PerTrick
  <2>3. CASE x = 0
    <3>1. calc_score(v, x, s, l, t)
            = trickscore(s, t) + 50 + (IF IsGame(s, l) THEN 250 + 200 * v ELSE 0) + slam
      BY <1>3, <2>3 DEF calc_score, undbled_score
    <3> HIDE DEF slam, o
    <3>. QED BY <1>1, <1>3, <2>1, <2>2, <3>1
  <2>4. CASE x = 1 \/ x = 2
    <3> DEFINE t0 == trickscore(s, 6 + l) * (IF x = 1 THEN 2 ELSE 4)
               p == o * 100 * (1 + v) * x
    <3>1. dbled_making(x, v, s, 6 + l)
            = t0 + (IF t0 >= 100 THEN 300 + v * 200 ELSE 50) + 50 * x + SlamBonus(v, (6 + l) - 6)
      BY DEF dbled_making
    <3>2. (6 + l) - 6 = l
      BY <1>1
    <3>3. t0 \in Nat
      BY <2>2
    <3>4. p \in Nat
      BY <1>1, <2>1, <2>4
    <3>5. calc_score(v, x, s, l, t) = dbled_making(x, v, s, 6 + l) + Overtricks(t - (6 + l), v, x)
      BY <1>1, <1>3, <2>4 DEF calc_score
    <3>6. Overtricks(t - (6 + l), v, x) = p
      BY DEF Overtricks
    <3> HIDE DEF t0, p, slam, o
    <3>7. dbled_making(x, v, s, 6 + l)
            = t0 + (IF t0 >= 100 THEN 300 + v * 200 ELSE 50) + 50 * x + slam
      BY <3>1, <3>2 DEF slam
    <3>. QED BY <1>1, <1>3, <2>1, <2>4, <3>3, <3>4, <3>5, <3>6, <3>7
  <2>. QED BY <1>1, <2>3, <2>4
<1>. QED BY <1>2, <1>3

\* A difference of more than ten points costs IMPs.
LEMMA ImpsPositive ==
  ASSUME NEW diff \in Int, diff > 10
  PROVE  imps(diff) \in Nat /\ imps(diff) > 0
<1> DEFINE fits == {i \in 0 .. 23 : IMP_tbl[i + 1] >= AbsVal(diff)}
           i == IF fits = {} THEN 24 ELSE CHOOSE k \in fits : \A l \in fits : k <= l
<1>1. imps(diff) = i
  BY DEF imps
<1>2. AbsVal(diff) = diff
  BY DEF AbsVal
<1>3. 0 \notin fits
  <2>1. IMP_tbl[1] = 10
    BY DEF IMP_tbl
  <2>. QED BY <1>2, <2>1
<1>4. fits \subseteq Nat
  OBVIOUS
<1> HIDE DEF fits
<1>5. CASE fits = {}
  BY <1>1, <1>5
<1>6. CASE fits # {}
  <2>1. \E k \in fits : \A l \in fits : k <= l
    BY <1>4, <1>6, LeastExists
  <2>2. i \in fits
    BY <1>6, <2>1
  <2> HIDE DEF i
  <2>. QED BY <1>1, <1>3, <1>4, <2>2
<1>. QED BY <1>5, <1>6

\* Bidding the game, or the slam, that makes gains more than ten points.
LEMMA BiddingMore ==
  ASSUME NEW v \in Vul, NEW s \in Strain, NEW l \in Level, NEW m \in Level, NEW t \in Taken,
         t >= 6 + m, l < m, m = game_lvl(s) \/ (m = 6 /\ l < 6) \/ (m = 7 /\ l < 6)
  PROVE  undbled_score(v, s, m, t) - undbled_score(v, s, l, t) > 10
<1>1. l \in 1 .. 7 /\ m \in 1 .. 7 /\ t \in 0 .. 13 /\ v \in {0, 1}
  BY DEF Level, Taken, Vul
<1> DEFINE ts == trickscore(s, t)
           G(k) == IF IsGame(s, k) THEN 250 + 200 * v ELSE 0
<1>2. ts \in Int
  BY <1>1 DEF trickscore, PerTrick
<1>3. /\ undbled_score(v, s, m, t) = ts + 50 + G(m) + SlamBonus(v, m)
      /\ undbled_score(v, s, l, t) = ts + 50 + G(l) + SlamBonus(v, l)
  BY <1>1 DEF undbled_score
<1>4. game_lvl(s) \in 3 .. 5
  BY DEF game_lvl
<1>5. (IsGame(s, m) <=> m >= game_lvl(s)) /\ (IsGame(s, l) <=> l >= game_lvl(s))
  BY GameIs
<1>6. l < 6 /\ SlamBonus(v, l) = 0
  BY <1>1, <1>4 DEF SlamBonus
<1>7. G(m) = 250 + 200 * v
  BY <1>1, <1>4, <1>5
<1>8. G(l) = 0 \/ G(l) = 250 + 200 * v
  OBVIOUS
<1> DEFINE gm == G(m)
           gl == G(l)
           sm == SlamBonus(v, m)
<1>9. CASE m = game_lvl(s)
  <2>1. gl = 0
    BY <1>1, <1>4, <1>5, <1>9
  <2>2. sm = 0
    BY <1>4, <1>9 DEF SlamBonus
  <2> HIDE DEF ts, gm, gl, sm
  <2>. QED BY <1>1, <1>2, <1>3, <1>6, <1>7, <2>1, <2>2 DEF gm, gl, sm
<1>10. CASE m = 6 \/ m = 7
  <2>1. sm \in Nat /\ sm >= 500
    BY <1>1, <1>10 DEF SlamBonus
  <2> HIDE DEF ts, gm, gl, sm
  <2>. QED BY <1>1, <1>2, <1>3, <1>6, <1>7, <1>8, <2>1 DEF gm, gl, sm
<1>. QED BY <1>9, <1>10

-----------------------------------------------------------------------------
(* The sums of evalcontract. *)

\* The lexer's number of a contract is taken apart as it was put together.
LEMMA CodedContract ==
  ASSUME NEW c, NEW l \in Level, NEW s \in Strain, NEW x \in Dbl, c = make_contract(l, s, x)
  PROVE  c \div 40 = x /\ c % 40 = l * 5 + s /\ c % 5 = s /\ (c % 40) % 5 = s /\ (c % 40) \div 5 = l
<1> DEFINE r == l * 5 + s
<1>1. r \in 5 .. 39 /\ c = r + 40 * x /\ x \in Int
  BY DEF make_contract, Level, Strain, SUIT_NT, Dbl
<1>2. c \div 40 = x /\ c % 40 = r
  <2> HIDE DEF r
  <2>. QED BY <1>1
<1>3. l \in Int /\ s \in 0 .. 4
  BY DEF Level, Strain, SUIT_NT
<1>4. r % 5 = s /\ r \div 5 = l
  BY <1>3
<1>5. c = (l + 8 * x) * 5 + s
  BY <1>1, <1>3
<1>6. c % 5 = s
  <2> DEFINE q == l + 8 * x
  <2>1. q \in Int /\ c = q * 5 + s
    BY <1>1, <1>3, <1>5
  <2> HIDE DEF q
  <2>. QED BY <1>3, <2>1
<1>. QED BY <1>2, <1>4, <1>6

\* What evalcontract() reads from an action is a contract.
LEMMA ContractOf ==
  ASSUME NEW k \in K, ActionList[k].type = "evalcontract"
  PROVE  LET a == ActionList[k]
         IN  /\ level(a) \in Level /\ strain(a) \in Strain /\ dbl(a) \in Dbl
             /\ a.vul \in Vul /\ Declarer(a) \in Seat
             /\ \A t : score(a.vul, a.coded, t)
                         = calc_score(a.vul, dbl(a), strain(a), level(a), t)
<1> DEFINE a == ActionList[k]
<1>1. ActionOK(a)
  BY ListAssumption DEF K
<1> HIDE DEF a
<1>2. a.type = "evalcontract"
  BY DEF a
<1>3. /\ a.side \in {0, 1} /\ a.vul \in Vul
      /\ \E l \in Level, s \in Strain, x \in Dbl : a.coded = make_contract(l, s, x)
  BY <1>1, <1>2 DEF ActionOK
<1>4. PICK l \in Level, s \in Strain, x \in Dbl : a.coded = make_contract(l, s, x)
  BY <1>3
<1> DEFINE c == a.coded
<1>5. c \div 40 = x /\ c % 5 = s /\ (c % 40) % 5 = s /\ (c % 40) \div 5 = l
  BY <1>4, CodedContract
<1>6. dbl(a) = x /\ strain(a) = s /\ level(a) = l
  BY <1>5 DEF dbl, strain, level
<1>7. \A t : score(a.vul, c, t) = calc_score(a.vul, x, s, l, t)
  BY <1>5 DEF score
<1>8. Declarer(a) \in Seat
  BY <1>3 DEF Declarer, Seat, SIDE_NS
<1>. QED BY <1>3, <1>6, <1>7, <1>8 DEF a

\* The sum showevalcontract() forms of the counters c over T, weighted.
Weighted(c, T, w) == SumTo([t \in Taken |-> IF t \in T THEN c[t] * w[t] ELSE 0], 0, 13)

\* c counts deals by P.
ByTricks(c, P) ==
    /\ \A d \in Deal : P[d] \in Taken
    /\ \A t \in Taken : c[t] = Met(hist, nprod, In1(Deal, P, t))

\* A sum of counters is the number of deals that make such tricks.
LEMMA WeightedOnes ==
  ASSUME TypeOK, NEW c, NEW P, ByTricks(c, P), NEW T, T \subseteq Taken,
         NEW w, \A t \in T : w[t] = 1
  PROVE  Weighted(c, T, w) = Met(hist, nprod, {d \in Deal : P[d] \in T})
<1> DEFINE Q == {d \in Deal : P[d] \in T}
           f == [t \in Taken |-> IF t \in T THEN c[t] * w[t] ELSE 0]
<1>1. nprod \in Nat
  BY DEF TypeOK
<1>2. \A d \in Deal : P[d] \in Taken
  BY DEF ByTricks
<1>3. \A t \in 0 .. 13 : f[t] = Met(hist, nprod, In1(Q, P, t))
  <2> SUFFICES ASSUME NEW t \in 0 .. 13 PROVE f[t] = Met(hist, nprod, In1(Q, P, t))
    OBVIOUS
  <2>1. CASE t \in T
    <3>1. In1(Q, P, t) = In1(Deal, P, t)
      BY <2>1 DEF In1
    <3>2. c[t] = Met(hist, nprod, In1(Deal, P, t))
      BY DEF ByTricks, Taken
    <3>3. c[t] \in Nat
      BY <1>1, <3>2, MetNat
    <3>4. f[t] = c[t] * w[t] /\ w[t] = 1
      BY <2>1
    <3> HIDE DEF f
    <3>. QED BY <3>1, <3>2, <3>3, <3>4
  <2>2. CASE t \notin T
    <3>1. In1(Q, P, t) = {}
      BY <2>2 DEF In1
    <3>2. Met(hist, nprod, {}) = 0
      <4>1. {n \in 1 .. nprod : hist[n] \in {}} = {}
        OBVIOUS
      <4>. QED BY <4>1, FS_EmptySet DEF Met
    <3>3. f[t] = 0
      BY <2>2 DEF Taken
    <3>. QED BY <3>1, <3>2, <3>3
  <2>. QED BY <2>1, <2>2
<1>4. InTo(Q, P, 0, 13) = Q
  BY <1>2 DEF InTo, Taken
<1>5. \A d \in Q : P[d] \in Int
  BY <1>2 DEF Taken
<1> HIDE DEF f, Q
<1>6. SumTo(f, 0, 13) = Met(hist, nprod, InTo(Q, P, 0, 13))
  BY <1>1, <1>3, <1>5, SumOfParts
<1>. QED BY <1>4, <1>6 DEF Weighted, f, Q

\* Weighted, it is positive when there is such a deal.
LEMMA WeightedPositive ==
  ASSUME TypeOK, NEW c, NEW P, ByTricks(c, P), NEW T, T \subseteq Taken,
         NEW w, \A t \in T : w[t] \in Nat /\ w[t] > 0
  PROVE  Weighted(c, T, w) > 0 <=> \E t \in T : c[t] > 0
<1> DEFINE f == [t \in Taken |-> IF t \in T THEN c[t] * w[t] ELSE 0]
<1>1. \A t \in Taken : c[t] \in Nat
  <2>1. nprod \in Nat
    BY DEF TypeOK
  <2>. QED BY <2>1, MetNat DEF ByTricks
<1>2. \A t \in 0 .. 13 : f[t] \in Nat /\ (f[t] > 0 <=> (t \in T /\ c[t] > 0))
  <2> SUFFICES ASSUME NEW t \in 0 .. 13
               PROVE  f[t] \in Nat /\ (f[t] > 0 <=> (t \in T /\ c[t] > 0))
    OBVIOUS
  <2>1. CASE t \in T
    <3> DEFINE x == c[t]
               y == w[t]
    <3>1. x \in Nat /\ y \in Nat /\ y > 0 /\ f[t] = x * y
      BY <1>1, <2>1
    <3> HIDE DEF x, y, f
    <3>2. x * y \in Nat /\ (x * y > 0 <=> x > 0)
      BY <3>1
    <3>. QED BY <2>1, <3>1, <3>2 DEF x
  <2>2. CASE t \notin T
    BY <2>2 DEF Taken
  <2>. QED BY <2>1, <2>2
<1> HIDE DEF f
<1>3. SumTo(f, 0, 13) > 0 <=> \E t \in 0 .. 13 : f[t] > 0
  BY <1>2, SumPositive
<1>4. SumTo(f, 0, 13) > 0 <=> \E t \in T : c[t] > 0
  BY <1>2, <1>3 DEF Taken
<1>. QED BY <1>4 DEF Weighted, f

\* Weighted over all tricks, it is the sum over the deals.
LEMMA WeightedSum ==
  ASSUME TypeOK, NEW c, NEW P, ByTricks(c, P), NEW w, \A t \in Taken : w[t] \in Int,
         NEW g, \A n \in 1 .. nprod : g[n] = w[P[hist[n]]]
  PROVE  Weighted(c, Taken, w) = SumTo(g, 1, nprod)
<1> DEFINE f == [t \in Taken |-> IF t \in Taken THEN c[t] * w[t] ELSE 0]
<1>1. nprod \in Nat
  BY DEF TypeOK
<1>2. \A d \in Deal : P[d] \in 0 .. 13
  BY DEF ByTricks, Taken
<1>3. \A n \in 1 .. nprod : hist[n] \in Deal
  BY HistDeals
<1>4. \A t \in 0 .. 13 : f[t] = Met(hist, nprod, In1(Deal, P, t)) * w[t]
  BY DEF ByTricks, Taken
<1>5. \A t \in 0 .. 13 : w[t] \in Int
  BY DEF Taken
<1> HIDE DEF f
<1>6. SumTo(f, 0, 13) = SumTo(g, 1, nprod)
  <2>1. PartsWeighed(f, hist, nprod, Deal, P, w, 0, 13)
    BY <1>4 DEF PartsWeighed
  <2>2. DealsWeighed(g, hist, nprod, P, w)
    BY DEF DealsWeighed
  <2>. QED BY <1>1, <1>2, <1>3, <1>5, <2>1, <2>2, SumWeighted
<1>. QED BY <1>6 DEF Weighted, f

\* The games missed are those that make while less is bid, and each costs IMPs.
LEMMA GamesMissed ==
  ASSUME NEW a, level(a) \in Level, strain(a) \in Strain, a.vul \in Vul
  PROVE  /\ MissedGames(a) \subseteq Taken
         /\ Undoubled(strain(a), level(a)) >= 100 => MissedGames(a) = {}
         /\ ~(Undoubled(strain(a), level(a)) >= 100) =>
               \A t \in Taken : t \in MissedGames(a) <=>
                  t > 6 /\ Undoubled(strain(a), t - 6) >= 100
         /\ \A t \in MissedGames(a) :
               ImpsLost(a, game_lvl(strain(a)), t) \in Nat
               /\ ImpsLost(a, game_lvl(strain(a)), t) > 0
<1> DEFINE l == level(a)
           s == strain(a)
           g == game_lvl(s)
<1>1. g \in 3 .. 5 /\ g \in Level
  BY DEF game_lvl, Level
<1>2. l \in 1 .. 7 /\ (Undoubled(s, l) >= 100 <=> l >= g)
  BY GameIs DEF Level
<1>3. \A t \in Taken : t > 6 => (Undoubled(s, t - 6) >= 100 <=> t - 6 >= g)
  <2> SUFFICES ASSUME NEW t \in Taken, t > 6
               PROVE  Undoubled(s, t - 6) >= 100 <=> t - 6 >= g
    OBVIOUS
  <2>1. t - 6 \in Level
    BY DEF Taken, Level
  <2>. QED BY <2>1, GameIs
<1>4. MissedGames(a) = IF l < g THEN g + 6 .. 13 ELSE {}
  BY DEF MissedGames
<1> HIDE DEF g, l
<1>5. MissedGames(a) \subseteq Taken
  BY <1>1, <1>4 DEF Taken
<1>6. l >= g => MissedGames(a) = {}
  BY <1>1, <1>2, <1>4
<1>7. l < g => \A t \in Taken : t \in MissedGames(a) <=> t > 6 /\ t - 6 >= g
  BY <1>1, <1>4 DEF Taken
<1>8. ASSUME NEW t \in MissedGames(a)
      PROVE  ImpsLost(a, g, t) \in Nat /\ ImpsLost(a, g, t) > 0
  <2>1. t \in Taken /\ t >= 6 + g /\ l < g /\ l \in Level
    BY <1>1, <1>4, <1>5, <1>8 DEF l
  <2> DEFINE diff == undbled_score(a.vul, s, g, t) - undbled_score(a.vul, s, l, t)
  <2>2. diff > 10
    BY <1>1, <2>1, BiddingMore DEF g
  <2>3. diff \in Int
    <3>1. \A m \in Level : undbled_score(a.vul, s, m, t) \in Int
      <4> SUFFICES ASSUME NEW m \in Level PROVE undbled_score(a.vul, s, m, t) \in Int
        OBVIOUS
      <4>1. 0 \in Dbl
        BY DEF Dbl
      <4>2. calc_score(a.vul, 0, s, m, t) \in Int
        BY <2>1, <4>1, ScoreSign
      <4>. QED BY <4>2 DEF calc_score
    <3>. QED BY <1>1, <2>1, <3>1
  <2>4. ImpsLost(a, g, t) = imps(diff)
    BY DEF ImpsLost, l
  <2> HIDE DEF diff
  <2>. QED BY <2>2, <2>3, <2>4, ImpsPositive
<1>9. Undoubled(s, l) >= 100 => MissedGames(a) = {}
  BY <1>2, <1>6
<1>10. ASSUME ~(Undoubled(s, l) >= 100)
       PROVE  \A t \in Taken : t \in MissedGames(a) <=> t > 6 /\ Undoubled(s, t - 6) >= 100
  <2>1. l < g
    BY <1>1, <1>2, <1>10
  <2>. QED BY <1>3, <1>7, <2>1
<1>. QED BY <1>5, <1>8, <1>9, <1>10 DEF g, l

\* Every slam missed costs IMPs.
LEMMA SlamsMissed ==
  ASSUME NEW a, level(a) \in Level, level(a) < 6, strain(a) \in Strain, a.vul \in Vul,
         NEW t \in {12, 13}
  PROVE  ImpsLost(a, t - 6, t) \in Nat /\ ImpsLost(a, t - 6, t) > 0
<1> DEFINE l == level(a)
           s == strain(a)
           m == t - 6
<1>1. m \in {6, 7} /\ m \in Level /\ t \in Taken /\ t >= 6 + m /\ l < m
  BY DEF Level, Taken
<1> DEFINE diff == undbled_score(a.vul, s, m, t) - undbled_score(a.vul, s, l, t)
<1>2. diff > 10
  <2> HIDE DEF m
  <2>. QED BY <1>1, BiddingMore
<1>3. diff \in Int
  <2>1. \A k \in Level : undbled_score(a.vul, s, k, t) \in Int
    <3> SUFFICES ASSUME NEW k \in Level PROVE undbled_score(a.vul, s, k, t) \in Int
      OBVIOUS
    <3>1. 0 \in Dbl
      BY DEF Dbl
    <3>2. calc_score(a.vul, 0, s, k, t) \in Int
      BY <1>1, <3>1, ScoreSign
    <3>. QED BY <3>2 DEF calc_score
  <2>2. undbled_score(a.vul, s, m, t) \in Int
    BY <1>1, <2>1
  <2>3. undbled_score(a.vul, s, l, t) \in Int
    BY <2>1
  <2>. QED BY <2>2, <2>3
<1>4. ImpsLost(a, m, t) = imps(diff)
  BY DEF ImpsLost
<1> HIDE DEF diff
<1>. QED BY <1>2, <1>3, <1>4, ImpsPositive

\* The score of t tricks.
ScoreOf(a, t) == calc_score(a.vul, dbl(a), strain(a), level(a), t)

\* What showevalcontract() forms, in those words.
FiguresAre(a, c, slams) ==
    [score_tot     |-> Weighted(c, Taken, [t \in Taken |-> ScoreOf(a, t)]),
     success_cnt   |-> Weighted(c, {t \in Taken : ScoreOf(a, t) > 0}, [t \in Taken |-> 1]),
     fail_cnt      |-> Weighted(c, {t \in Taken : ScoreOf(a, t) < 0}, [t \in Taken |-> 1]),
     missed_games  |-> Weighted(c, MissedGames(a), [t \in Taken |-> 1]),
     missed_G_imps |-> Weighted(c, MissedGames(a),
                          [t \in Taken |-> ImpsLost(a, game_lvl(strain(a)), t)]),
     missed_slams  |-> slams,
     missed_S_imps |-> IF level(a) < 6
                       THEN Weighted(c, {12, 13}, [t \in Taken |-> ImpsLost(a, t - 6, t)])
                       ELSE 0]

\* It does so whether the contract is doubled or not.
LEMMA FiguresWeighted ==
  ASSUME NEW a, NEW c, NEW slams,
         \A t : score(a.vul, a.coded, t) = calc_score(a.vul, dbl(a), strain(a), level(a), t)
  PROVE  Figures(a, c, slams) = FiguresAre(a, c, slams)
<1> DEFINE Of(t) == IF dbl(a) = 0
                    THEN undbled_score(a.vul, strain(a), level(a), t)
                    ELSE score(a.vul, a.coded, t)
<1>1. \A t : Of(t) = ScoreOf(a, t)
  <2> SUFFICES ASSUME NEW t PROVE Of(t) = ScoreOf(a, t)
    OBVIOUS
  <2>1. CASE dbl(a) = 0
    BY <2>1 DEF ScoreOf, calc_score
  <2>2. CASE dbl(a) # 0
    BY <2>2 DEF ScoreOf
  <2>. QED BY <2>1, <2>2
<1>2. Figures(a, c, slams) =
        [score_tot     |-> Weighted(c, Taken, [t \in Taken |-> Of(t)]),
         success_cnt   |-> Weighted(c, {t \in Taken : Of(t) > 0}, [t \in Taken |-> 1]),
         fail_cnt      |-> Weighted(c, {t \in Taken : Of(t) < 0}, [t \in Taken |-> 1]),
         missed_games  |-> Weighted(c, MissedGames(a), [t \in Taken |-> 1]),
         missed_G_imps |-> Weighted(c, MissedGames(a),
                              [t \in Taken |-> ImpsLost(a, game_lvl(strain(a)), t)]),
         missed_slams  |-> slams,
         missed_S_imps |-> IF level(a) < 6
                           THEN Weighted(c, {12, 13}, [t \in Taken |-> ImpsLost(a, t - 6, t)])
                           ELSE 0]
  BY DEF Figures, Weighted
<1> HIDE DEF Of
<1>3. /\ [t \in Taken |-> Of(t)] = [t \in Taken |-> ScoreOf(a, t)]
      /\ {t \in Taken : Of(t) > 0} = {t \in Taken : ScoreOf(a, t) > 0}
      /\ {t \in Taken : Of(t) < 0} = {t \in Taken : ScoreOf(a, t) < 0}
  BY <1>1
<1>. QED BY <1>2, <1>3 DEF FiguresAre

\* The counters of an evalcontract count deals by the tricks made.
LEMMA TrickCounters ==
  ASSUME StatInv, NEW k \in Ended({"evalcontract"})
  PROVE  LET a == ActionList[k]
             c == Cells(a, hist, nprod)
         IN  /\ ByTricks(c, [d \in Deal |-> Tricks(a, d)])
             /\ \E slams \in IF level(a) < 6 THEN {c[12] + c[13]} ELSE Garbage :
                   report[k] = FiguresAre(a, c, slams)
<1> DEFINE a == ActionList[k]
           c == Cells(a, hist, nprod)
           P == [d \in Deal |-> Tricks(a, d)]
<1>1. k \in K /\ a.type = "evalcontract" /\ ShownFor(a, Counted(a, hist, nprod), report[k])
  BY EndedReport
<1>2. Counted(a, hist, nprod) = c
  BY <1>1 DEF Counted, Tables
<1>3. /\ strain(a) \in Strain /\ Declarer(a) \in Seat
      /\ \A t : score(a.vul, a.coded, t) = calc_score(a.vul, dbl(a), strain(a), level(a), t)
  BY <1>1, ContractOf
<1> DEFINE S == IF level(a) < 6 THEN {c[12] + c[13]} ELSE Garbage
<1>4. \E slams \in S : report[k] = Figures(a, c, slams)
  <2> HIDE DEF c, a
  <2>. QED BY <1>1, <1>2 DEF ShownFor
<1>5. \E slams \in S : report[k] = FiguresAre(a, c, slams)
  <2>1. \A slams : Figures(a, c, slams) = FiguresAre(a, c, slams)
    <3> HIDE DEF c, a
    <3>. QED BY <1>3, FiguresWeighted
  <2> HIDE DEF S, c
  <2>. QED BY <1>4, <2>1
<1>6. ByTricks(c, P)
  <2>1. \A d \in Deal : P[d] \in Taken
    BY <1>3, ActionsAssumption DEF Tricks
  <2>2. DOMAIN Empty(a) = 0 .. 13
    <3>1. Empty(a) = Zeros(14)
      BY <1>1 DEF Empty
    <3>. QED BY <3>1 DEF Zeros
  <2>3. \A t \in Taken : In(a, t) = In1(Deal, P, t)
    BY <1>1 DEF In, In1, CellOf
  <2>4. \A t \in Taken : c[t] = Met(hist, nprod, In(a, t))
    <3> HIDE DEF a
    <3>. QED BY <2>2 DEF Cells, Taken
  <2> HIDE DEF c, P
  <2>5. \A t \in Taken : c[t] = Met(hist, nprod, In1(Deal, P, t))
    BY <2>3, <2>4
  <2>. QED BY <2>1, <2>5 DEF ByTricks
<1>. QED BY <1>5, <1>6

\* The deals made and failed, and the total, of deals with P's tricks.
MadeRight(a, P, r) ==
    /\ r.success_cnt = Met(hist, nprod, {d \in Deal : P[d] >= 6 + level(a)})
    /\ r.success_cnt + r.fail_cnt = nprod
    /\ \A g : (\A n \in 1 .. nprod : g[n] = ScoreOf(a, P[hist[n]])) =>
          r.score_tot = SumTo(g, 1, nprod)

\* Every deal is made or fails, and the total is the sum of the scores.
LEMMA MadeAndFailed ==
  ASSUME TypeOK, NEW a, level(a) \in Level, strain(a) \in Strain, dbl(a) \in Dbl, a.vul \in Vul,
         NEW c, NEW P, ByTricks(c, P), NEW slams, NEW r, r = FiguresAre(a, c, slams)
  PROVE  MadeRight(a, P, r)
<1> DEFINE Won == {t \in Taken : ScoreOf(a, t) > 0}
           Gone == {t \in Taken : ScoreOf(a, t) < 0}
           one == [t \in Taken |-> 1]
           W == {d \in Deal : P[d] \in Won}
           G == {d \in Deal : P[d] \in Gone}
<1>0. \A d \in Deal : P[d] \in Taken
  BY DEF ByTricks
<1>00. nprod \in Nat /\ \A n \in 1 .. nprod : hist[n] \in Deal
  BY HistDeals DEF TypeOK
<1>1. \A t \in Taken : /\ ScoreOf(a, t) \in Int
                       /\ ScoreOf(a, t) > 0 <=> t >= 6 + level(a)
                       /\ ScoreOf(a, t) < 0 <=> t < 6 + level(a)
  BY ScoreSign DEF ScoreOf
<1>2. /\ Won \subseteq Taken /\ \A t \in Won : one[t] = 1
      /\ Gone \subseteq Taken /\ \A t \in Gone : one[t] = 1
  OBVIOUS
<1>3. r.success_cnt = Weighted(c, Won, one) /\ r.fail_cnt = Weighted(c, Gone, one)
      /\ r.score_tot = Weighted(c, Taken, [t \in Taken |-> ScoreOf(a, t)])
  BY DEF FiguresAre
<1> HIDE DEF Won, Gone, one
<1>4. Weighted(c, Won, one) = Met(hist, nprod, W)
  BY <1>2, WeightedOnes
<1>5. Weighted(c, Gone, one) = Met(hist, nprod, G)
  BY <1>2, WeightedOnes
<1>6. W = {d \in Deal : P[d] >= 6 + level(a)}
  BY <1>0, <1>1 DEF Won
<1>7. Met(hist, nprod, W) + Met(hist, nprod, G) = nprod
  <2>1. W \cup G = Deal /\ W \cap G = {}
    <3>1. \A d \in Deal : ~(d \in W /\ d \in G) /\ (d \in W \/ d \in G)
      <4> SUFFICES ASSUME NEW d \in Deal PROVE ~(d \in W /\ d \in G) /\ (d \in W \/ d \in G)
        OBVIOUS
      <4> DEFINE t == P[d]
      <4>1. t \in Taken
        BY <1>0
      <4>2. (d \in W <=> t >= 6 + level(a)) /\ (d \in G <=> t < 6 + level(a))
        BY <1>1, <4>1 DEF Won, Gone
      <4> HIDE DEF t, W, G
      <4>. QED BY <4>1, <4>2 DEF Taken, Level
    <3>. QED BY <3>1
  <2> HIDE DEF W, G
  <2>2. Met(hist, nprod, W \cup G) = Met(hist, nprod, W) + Met(hist, nprod, G)
    BY <1>00, <2>1, MetUnion
  <2>3. Met(hist, nprod, Deal) = nprod
    BY <1>00, MetAll
  <2>. QED BY <2>1, <2>2, <2>3
<1>8. ASSUME NEW g, \A n \in 1 .. nprod : g[n] = ScoreOf(a, P[hist[n]])
      PROVE  r.score_tot = SumTo(g, 1, nprod)
  <2> DEFINE w == [t \in Taken |-> ScoreOf(a, t)]
  <2>1. \A t \in Taken : w[t] \in Int
    BY <1>1
  <2>2. \A n \in 1 .. nprod : g[n] = w[P[hist[n]]]
    BY <1>0, <1>00, <1>8
  <2>3. r.score_tot = Weighted(c, Taken, w)
    BY <1>3
  <2> HIDE DEF w
  <2>4. Weighted(c, Taken, w) = SumTo(g, 1, nprod)
    BY <2>1, <2>2, WeightedSum
  <2>. QED BY <2>3, <2>4
<1> HIDE DEF W, G
<1>9. r.success_cnt = Met(hist, nprod, {d \in Deal : P[d] >= 6 + level(a)})
  BY <1>3, <1>4, <1>6
<1>10. r.success_cnt + r.fail_cnt = nprod
  BY <1>3, <1>4, <1>5, <1>7
<1>. QED BY <1>8, <1>9, <1>10 DEF MadeRight

\* The games and slams missed on deals with P's tricks.
MissedRight(a, P, r) ==
    /\ r.missed_games =
           IF Undoubled(strain(a), level(a)) >= 100 THEN 0
           ELSE Met(hist, nprod,
                    {d \in Deal : P[d] > 6 /\ Undoubled(strain(a), P[d] - 6) >= 100})
    /\ level(a) < 6 => r.missed_slams = Met(hist, nprod, {d \in Deal : P[d] >= 12})
    /\ r.missed_games > 0 <=> r.missed_G_imps > 0
    /\ level(a) < 6 => (r.missed_slams > 0 <=> r.missed_S_imps > 0)

\* The games and slams missed are the deals that make them.
LEMMA Missed ==
  ASSUME TypeOK, NEW a, level(a) \in Level, strain(a) \in Strain, dbl(a) \in Dbl, a.vul \in Vul,
         NEW c, NEW P, ByTricks(c, P), NEW slams, NEW r, r = FiguresAre(a, c, slams),
         level(a) < 6 => slams = c[12] + c[13]
  PROVE  MissedRight(a, P, r)
<1> DEFINE M == MissedGames(a)
           one == [t \in Taken |-> 1]
           gw == [t \in Taken |-> ImpsLost(a, game_lvl(strain(a)), t)]
           sw == [t \in Taken |-> ImpsLost(a, t - 6, t)]
<1>0. \A d \in Deal : P[d] \in Taken
  BY DEF ByTricks
<1>00. nprod \in Nat /\ \A n \in 1 .. nprod : hist[n] \in Deal
  BY HistDeals DEF TypeOK
<1>1. /\ r.missed_games = Weighted(c, M, one) /\ r.missed_G_imps = Weighted(c, M, gw)
      /\ r.missed_slams = slams
      /\ level(a) < 6 => r.missed_S_imps = Weighted(c, {12, 13}, sw)
  BY DEF FiguresAre
<1>2. /\ M \subseteq Taken
      /\ Undoubled(strain(a), level(a)) >= 100 => M = {}
      /\ ~(Undoubled(strain(a), level(a)) >= 100) =>
            \A t \in Taken : t \in M <=> t > 6 /\ Undoubled(strain(a), t - 6) >= 100
      /\ \A t \in M : gw[t] \in Nat /\ gw[t] > 0 /\ one[t] = 1
  BY GamesMissed
<1>3. level(a) < 6 => \A t \in {12, 13} : sw[t] \in Nat /\ sw[t] > 0
  BY SlamsMissed DEF Taken
<1> HIDE DEF M, gw, sw
<1>4. Weighted(c, M, one) = Met(hist, nprod, {d \in Deal : P[d] \in M})
  BY <1>2, WeightedOnes
<1>5. Weighted(c, M, one) > 0 <=> \E t \in M : c[t] > 0
  <2>1. \A t \in M : one[t] \in Nat /\ one[t] > 0
    BY <1>2
  <2> HIDE DEF one
  <2>. QED BY <1>2, <2>1, WeightedPositive
<1>6. Weighted(c, M, gw) > 0 <=> \E t \in M : c[t] > 0
  BY <1>2, WeightedPositive
<1>7. level(a) < 6 => (Weighted(c, {12, 13}, sw) > 0 <=> \E t \in {12, 13} : c[t] > 0)
  <2>1. {12, 13} \subseteq Taken
    BY DEF Taken
  <2>. QED BY <1>3, <2>1, WeightedPositive
<1>8. c[12] \in Nat /\ c[13] \in Nat
      /\ c[12] = Met(hist, nprod, In1(Deal, P, 12)) /\ c[13] = Met(hist, nprod, In1(Deal, P, 13))
  <2>1. 12 \in Taken /\ 13 \in Taken
    BY DEF Taken
  <2>2. c[12] = Met(hist, nprod, In1(Deal, P, 12)) /\ c[13] = Met(hist, nprod, In1(Deal, P, 13))
    BY <2>1 DEF ByTricks
  <2>. QED BY <1>00, <2>2, MetNat
<1>9. level(a) < 6 => slams = Met(hist, nprod, {d \in Deal : P[d] >= 12})
  <2>1. In1(Deal, P, 12) \cup In1(Deal, P, 13) = {d \in Deal : P[d] >= 12}
    BY <1>0 DEF In1, Taken
  <2>2. In1(Deal, P, 12) \cap In1(Deal, P, 13) = {}
    BY DEF In1
  <2>3. Met(hist, nprod, In1(Deal, P, 12) \cup In1(Deal, P, 13))
          = Met(hist, nprod, In1(Deal, P, 12)) + Met(hist, nprod, In1(Deal, P, 13))
    BY <1>00, <2>2, MetUnion
  <2>. QED BY <1>8, <2>1, <2>3
<1>10. level(a) < 6 => (slams > 0 <=> \E t \in {12, 13} : c[t] > 0)
  BY <1>8
<1>11. {d \in Deal : P[d] \in M}
         = IF Undoubled(strain(a), level(a)) >= 100 THEN {}
           ELSE {d \in Deal : P[d] > 6 /\ Undoubled(strain(a), P[d] - 6) >= 100}
  BY <1>0, <1>2
<1>12. Met(hist, nprod, {}) = 0
  <2>1. {n \in 1 .. nprod : hist[n] \in {}} = {}
    OBVIOUS
  <2>. QED BY <2>1, FS_EmptySet DEF Met
<1>13. r.missed_games = Met(hist, nprod, {d \in Deal : P[d] \in M})
  BY <1>1, <1>4
<1>14. r.missed_games =
               IF Undoubled(strain(a), level(a)) >= 100 THEN 0
               ELSE Met(hist, nprod,
                        {d \in Deal : P[d] > 6 /\ Undoubled(strain(a), P[d] - 6) >= 100})
  BY <1>11, <1>12, <1>13
<1>15. r.missed_games > 0 <=> r.missed_G_imps > 0
  BY <1>1, <1>5, <1>6
<1>16. level(a) < 6 => (r.missed_slams > 0 <=> r.missed_S_imps > 0)
  BY <1>1, <1>7, <1>10
<1>. QED BY <1>1, <1>9, <1>14, <1>15, <1>16 DEF MissedRight

\* The report of an evalcontract accounts for every deal.
LEMMA ContractRight ==
  ASSUME StatInv, NEW k \in Ended({"evalcontract"})
  PROVE  LET a == ActionList[k]
             r == report[k]
             declarer == IF a.side = SIDE_NS THEN 2 ELSE 3
             Made(d) == Trix[d][declarer][strain(a)]
             node(t) == [level |-> level(a), strain |-> strain(a),
                         dbl |-> dbl(a), vul |-> a.vul, tricks |-> t]
             IsGameAt(t) == Bid([node(t) EXCEPT !.level = t - 6, !.dbl = 0]) >= 100
             Bids100 == Bid([node(0) EXCEPT !.dbl = 0]) >= 100
         IN  /\ r.success_cnt = Times({d \in Deal : Made(d) >= 6 + level(a)})
             /\ r.success_cnt + r.fail_cnt = nprod
             /\ r.score_tot = SumTo([n \in DOMAIN hist |->
                                       Law77(node(Made(hist[n])))], 1, nprod)
             /\ r.missed_games =
                    IF Bids100 THEN 0
                    ELSE Times({d \in Deal : Made(d) > 6 /\ IsGameAt(Made(d))})
             /\ level(a) < 6 => r.missed_slams = Times({d \in Deal : Made(d) >= 12})
             /\ r.missed_games > 0 <=> r.missed_G_imps > 0
             /\ level(a) < 6 => (r.missed_slams > 0 <=> r.missed_S_imps > 0)
<1> DEFINE a == ActionList[k]
           r == report[k]
           c == Cells(a, hist, nprod)
           P == [d \in Deal |-> Tricks(a, d)]
           declarer == IF a.side = SIDE_NS THEN 2 ELSE 3
           Made(d) == Trix[d][declarer][strain(a)]
           node(t) == [level |-> level(a), strain |-> strain(a),
                       dbl |-> dbl(a), vul |-> a.vul, tricks |-> t]
           IsGameAt(t) == Bid([node(t) EXCEPT !.level = t - 6, !.dbl = 0]) >= 100
           Bids100 == Bid([node(0) EXCEPT !.dbl = 0]) >= 100
           g == [n \in DOMAIN hist |-> Law77(node(Made(hist[n])))]
<1>1. k \in K /\ a.type = "evalcontract"
  BY EndedReport
<1>2. level(a) \in Level /\ strain(a) \in Strain /\ dbl(a) \in Dbl /\ a.vul \in Vul
  BY <1>1, ContractOf
<1>3. TypeOK
  BY DEF StatInv
<1>4. ByTricks(c, P) /\ \E slams \in IF level(a) < 6 THEN {c[12] + c[13]} ELSE Garbage :
                           r = FiguresAre(a, c, slams)
  BY TrickCounters
<1>5. PICK slams \in IF level(a) < 6 THEN {c[12] + c[13]} ELSE Garbage :
                           r = FiguresAre(a, c, slams)
  BY <1>4
<1>6. \A d \in Deal : P[d] = Made(d) /\ Made(d) \in Taken
  <2>1. \A d \in Deal : P[d] = Made(d)
    BY DEF Tricks, Declarer
  <2>2. \A d \in Deal : P[d] \in Taken
    BY <1>4 DEF ByTricks
  <2>. QED BY <2>1, <2>2
<1>7. DOMAIN hist = 1 .. nprod /\ \A n \in 1 .. nprod : hist[n] \in Deal
  BY <1>3, HistDeals DEF TypeOK
<1>8. \A n \in 1 .. nprod : g[n] = ScoreOf(a, P[hist[n]])
  <2> SUFFICES ASSUME NEW n \in 1 .. nprod PROVE g[n] = ScoreOf(a, P[hist[n]])
    OBVIOUS
  <2> DEFINE t == Made(hist[n])
  <2>1. t \in Taken /\ P[hist[n]] = t
    BY <1>6, <1>7
  <2>2. g[n] = Law77(node(t))
    BY <1>7
  <2> HIDE DEF t, a
  <2>3. calc_score(a.vul, dbl(a), strain(a), level(a), t)
          = Law77(Node(a.vul, dbl(a), strain(a), level(a), t))
    BY <1>2, <2>1, ScoreIsLaw
  <2>. QED BY <2>1, <2>2, <2>3 DEF Node, ScoreOf
<1>9. Bids100 <=> Undoubled(strain(a), level(a)) >= 100
  <2> DEFINE n == [node(0) EXCEPT !.dbl = 0]
  <2> HIDE DEF a
  <2>1. n.level = level(a) /\ n.strain = strain(a) /\ n.dbl = 0
    OBVIOUS
  <2> HIDE DEF n, node
  <2>2. Bid(n) = Undoubled(strain(a), level(a))
    BY <1>2, <2>1, BidIs
  <2>. QED BY <2>2 DEF n
<1>10. \A d \in Deal : Made(d) > 6 =>
          (IsGameAt(Made(d)) <=> Undoubled(strain(a), Made(d) - 6) >= 100)
  <2> SUFFICES ASSUME NEW d \in Deal, Made(d) > 6
               PROVE  IsGameAt(Made(d)) <=> Undoubled(strain(a), Made(d) - 6) >= 100
    OBVIOUS
  <2> DEFINE t == Made(d)
             m == t - 6
  <2>1. m \in Level
    BY <1>6 DEF Taken, Level
  <2> HIDE DEF t, a, m
  <2>2. Bid([node(t) EXCEPT !.level = m, !.dbl = 0]) = Undoubled(strain(a), m)
    <3> DEFINE n == [node(t) EXCEPT !.level = m, !.dbl = 0]
    <3>1. n.level = m /\ n.strain = strain(a) /\ n.dbl = 0
      OBVIOUS
    <3> HIDE DEF n, node
    <3>2. Bid(n) = Undoubled(strain(a), m)
      BY <1>2, <2>1, <3>1, BidIs
    <3>. QED BY <3>2 DEF n
  <2>. QED BY <2>2 DEF t, m
<1> HIDE DEF a, r, c, P, g, Bids100, IsGameAt, Made, node, declarer
<1>11. level(a) < 6 => slams = c[12] + c[13]
  BY <1>5
<1>12. /\ r.success_cnt = Met(hist, nprod, {d \in Deal : P[d] >= 6 + level(a)})
       /\ r.success_cnt + r.fail_cnt = nprod
       /\ r.score_tot = SumTo(g, 1, nprod)
  <2>1. MadeRight(a, P, r)
    BY <1>2, <1>3, <1>4, <1>5, MadeAndFailed
  <2>. QED BY <1>8, <2>1 DEF MadeRight
<1>13. MissedRight(a, P, r)
  BY <1>2, <1>3, <1>4, <1>5, <1>11, Missed
<1>14. /\ {d \in Deal : P[d] >= 6 + level(a)} = {d \in Deal : Made(d) >= 6 + level(a)}
       /\ {d \in Deal : P[d] >= 12} = {d \in Deal : Made(d) >= 12}
       /\ {d \in Deal : P[d] > 6 /\ Undoubled(strain(a), P[d] - 6) >= 100}
            = {d \in Deal : Made(d) > 6 /\ IsGameAt(Made(d))}
  BY <1>6, <1>10
<1>15. \A D : Met(hist, nprod, D) = Times(D)
  BY <1>3, TimesMet
<1>16. r.success_cnt = Times({d \in Deal : Made(d) >= 6 + level(a)})
  BY <1>12, <1>14, <1>15
<1>17. r.missed_games = IF Bids100 THEN 0
                        ELSE Times({d \in Deal : Made(d) > 6 /\ IsGameAt(Made(d))})
  BY <1>9, <1>13, <1>14, <1>15 DEF MissedRight
<1>18. level(a) < 6 => r.missed_slams = Times({d \in Deal : Made(d) >= 12})
  BY <1>13, <1>14, <1>15 DEF MissedRight
<1>19. /\ r.success_cnt = Times({d \in Deal : Made(d) >= 6 + level(a)})
       /\ r.success_cnt + r.fail_cnt = nprod
       /\ r.score_tot = SumTo(g, 1, nprod)
       /\ r.missed_games = IF Bids100 THEN 0
                           ELSE Times({d \in Deal : Made(d) > 6 /\ IsGameAt(Made(d))})
       /\ level(a) < 6 => r.missed_slams = Times({d \in Deal : Made(d) >= 12})
       /\ r.missed_games > 0 <=> r.missed_G_imps > 0
       /\ level(a) < 6 => (r.missed_slams > 0 <=> r.missed_S_imps > 0)
  BY <1>12, <1>13, <1>16, <1>17, <1>18 DEF MissedRight
<1>. QED BY <1>19, Zenon DEF a, r, g, Bids100, IsGameAt, Made, node, declarer

\* evalcontract accounts for every deal produced once, by the laws of the game, and
\* reports the games and slams missed, for every contract, every vulnerability and
\* every number of deals.
THEOREM Contracts == Spec => []ContractAccounted
<1>1. StatInv => ContractAccounted
  BY ContractRight DEF ContractAccounted
<1>. QED BY <1>1, StatInvariance, PTL

\* The score of a contract as the lexer encodes it is that of Law 77.
THEOREM CodedContracts ==
  \A v \in Vul, x \in Dbl, s \in Strain, l \in Level, t \in Taken :
      score(v, make_contract(l, s, x), t) = Law77(Node(v, x, s, l, t))
<1> SUFFICES ASSUME NEW v \in Vul, NEW x \in Dbl, NEW s \in Strain, NEW l \in Level, NEW t \in Taken
             PROVE  score(v, make_contract(l, s, x), t) = Law77(Node(v, x, s, l, t))
  OBVIOUS
<1> DEFINE c == make_contract(l, s, x)
<1>1. l \in 1 .. 7 /\ s \in 0 .. 4 /\ x \in 0 .. 2
  BY DEF Level, Strain, Dbl, SUIT_NT
<1>2. c = l * 5 + s + 40 * x
  BY DEF make_contract
<1> HIDE DEF c
<1>3. c % 40 = l * 5 + s /\ c \div 40 = x
  <2>1. CASE x = 0
    BY <1>1, <1>2, <2>1
  <2>2. CASE x = 1
    BY <1>1, <1>2, <2>2
  <2>3. CASE x = 2
    BY <1>1, <1>2, <2>3
  <2>. QED BY <1>1, <2>1, <2>2, <2>3
<1>4. (c % 40) % 5 = s /\ (c % 40) \div 5 = l
  <2>1. (l * 5 + s) % 5 = s /\ (l * 5 + s) \div 5 = l
    BY <1>1
  <2>. QED BY <1>3, <2>1
<1>5. score(v, c, t) = calc_score(v, x, s, l, t)
  BY <1>3, <1>4, Zenon DEF score
<1>. QED BY <1>5, ScoreIsLaw DEF c

-----------------------------------------------------------------------------
(* Differences in IMPs. *)

\* Places of the table that a difference of n points does not exceed, and where
\* imps() stops.
Fits(n) == {i \in 0 .. 23 : IMP_tbl[i + 1] >= n}
StopsAt(n) == IF Fits(n) = {} THEN 24
              ELSE CHOOSE k \in Fits(n) : \A l \in Fits(n) : k <= l

\* It stops at the first such place ...
LEMMA StopsFirst ==
  ASSUME NEW n
  PROVE  /\ StopsAt(n) \in 0 .. 24
         /\ \A i \in Fits(n) : StopsAt(n) <= i
         /\ StopsAt(n) = 24 \/ StopsAt(n) \in Fits(n)
<1>1. CASE Fits(n) = {}
  BY <1>1 DEF StopsAt
<1>2. CASE Fits(n) # {}
  <2>1. Fits(n) \subseteq 0 .. 23
    BY DEF Fits
  <2>2. \E k \in Fits(n) : \A l \in Fits(n) : k <= l
    <3>1. Fits(n) \subseteq Nat
      BY <2>1
    <3>. QED BY <1>2, <3>1, LeastExists
  <2>3. StopsAt(n) = CHOOSE k \in Fits(n) : \A l \in Fits(n) : k <= l
    BY <1>2 DEF StopsAt
  <2>4. StopsAt(n) \in Fits(n) /\ \A l \in Fits(n) : StopsAt(n) <= l
    BY <2>2, <2>3, Zenon
  <2>. QED BY <2>1, <2>4
<1>. QED BY <1>1, <1>2

\* ... which is no earlier for a larger difference, and at once for none.
LEMMA StopsLater ==
  /\ \A n, m \in Int : n <= m => StopsAt(n) <= StopsAt(m)
  /\ StopsAt(0) = 0
<1>1. \A i \in 0 .. 23 : IMP_tbl[i + 1] \in Int
  BY DEF IMP_tbl
<1>2. ASSUME NEW n \in Int, NEW m \in Int, n <= m PROVE StopsAt(n) <= StopsAt(m)
  <2>1. Fits(m) \subseteq Fits(n)
    BY <1>1, <1>2 DEF Fits
  <2>2. StopsAt(m) = 24 \/ StopsAt(m) \in Fits(n)
    BY <2>1, StopsFirst
  <2>3. StopsAt(n) \in 0 .. 24 /\ \A i \in Fits(n) : StopsAt(n) <= i
    BY StopsFirst
  <2>. QED BY <2>2, <2>3
<1>3. StopsAt(0) = 0
  <2>1. 0 \in Fits(0)
    BY DEF Fits, IMP_tbl
  <2>2. StopsAt(0) \in 0 .. 24 /\ \A i \in Fits(0) : StopsAt(0) <= i
    BY StopsFirst
  <2>. QED BY <2>1, <2>2
<1>. QED BY <1>2, <1>3

\* Whatever the difference, its IMPs change sign with it, never fall as it grows, and
\* are no more than twenty-four, in spite of the entry of the table with a minus sign.
THEOREM ImpsOfADifference ==
  \A d \in Int : /\ imps(d) \in -24 .. 24 /\ imps(-d) = -imps(d)
                 /\ \A e \in Int : d <= e => imps(d) <= imps(e)
<1>1. ASSUME NEW d \in Int
      PROVE  /\ imps(d) = IF d < 0 THEN -StopsAt(AbsVal(d)) ELSE StopsAt(AbsVal(d))
             /\ AbsVal(d) = (IF d < 0 THEN -d ELSE d) /\ AbsVal(d) \in Int
             /\ StopsAt(AbsVal(d)) \in 0 .. 24
  <2>1. imps(d) = IF d < 0 THEN -StopsAt(AbsVal(d)) ELSE StopsAt(AbsVal(d))
    BY Zenon DEF imps, StopsAt, Fits
  <2>. QED BY <2>1, StopsFirst DEF AbsVal
<1> SUFFICES ASSUME NEW d \in Int
             PROVE  /\ imps(d) \in -24 .. 24 /\ imps(-d) = -imps(d)
                    /\ \A e \in Int : d <= e => imps(d) <= imps(e)
  OBVIOUS
<1>2. imps(d) \in -24 .. 24
  BY <1>1
<1>3. imps(-d) = -imps(d)
  <2>1. -d \in Int /\ AbsVal(-d) = AbsVal(d)
    BY DEF AbsVal
  <2>2. imps(-d) = IF -d < 0 THEN -StopsAt(AbsVal(d)) ELSE StopsAt(AbsVal(d))
    BY <1>1, <2>1
  <2>3. CASE d = 0
    BY <1>1, <2>2, <2>3, StopsLater DEF AbsVal
  <2>4. CASE d # 0
    BY <1>1, <2>2, <2>4
  <2>. QED BY <2>3, <2>4
<1>4. ASSUME NEW e \in Int, d <= e PROVE imps(d) <= imps(e)
  <2>1. CASE d >= 0
    <3>1. AbsVal(d) = d /\ AbsVal(e) = e /\ imps(d) = StopsAt(d) /\ imps(e) = StopsAt(e)
      BY <1>1, <1>4, <2>1
    <3>. QED BY <1>4, <3>1, StopsLater
  <2>2. CASE d < 0 /\ e >= 0
    BY <1>1, <2>2
  <2>3. CASE d < 0 /\ e < 0
    <3>1. /\ AbsVal(d) = -d /\ AbsVal(e) = -e
          /\ imps(d) = -StopsAt(-d) /\ imps(e) = -StopsAt(-e)
      BY <1>1, <2>3
    <3>2. StopsAt(-e) <= StopsAt(-d)
      BY <1>4, StopsLater
    <3>3. StopsAt(-e) \in 0 .. 24 /\ StopsAt(-d) \in 0 .. 24
      BY StopsFirst
    <3>. QED BY <3>1, <3>2, <3>3
  <2>. QED BY <2>1, <2>2, <2>3
<1>. QED BY <1>2, <1>3, <1>4

=============================================================================
