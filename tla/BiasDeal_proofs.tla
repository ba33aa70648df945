--------------------------- MODULE BiasDeal_proofs ---------------------------
(***************************************************************************)
(* Proofs about BiasDeal: for any number and size of hands and any lengths *)
(* the parser lets through, whatever order the packs are shuffled into, no *)
(* card is lost or doubled, a deal that is done has the lengths asked for, *)
(* and an attempt is given up only for a hand that was short of cards.     *)
(*                                                                         *)
(* The order of the proof: induction and sums; slots and hands; ranks;     *)
(* packs, and what shuffling, compressing and moving do to them; what is   *)
(* asked for; the invariant IInv; one lemma for each action; the theorems. *)
(***************************************************************************)
EXTENDS BiasDeal, FiniteSetTheorems, FunctionTheorems, WellFoundedInduction, TLAPS

-----------------------------------------------------------------------------
(* Induction over the natural numbers, and sums. *)

\* The order of the natural numbers, as a relation.
NatLess == {p \in Nat \X Nat : p[1] < p[2]}

\* A set of natural numbers that has members has a least one.
LEMMA LeastExists ==
  ASSUME NEW S, S \subseteq Nat, S # {}
  PROVE  \E x \in S : \A y \in S : x <= y
<1>1. PICK x \in S : \A y \in S : <<y, x>> \notin NatLess
  <2>2. IsWellFoundedOn(NatLess, Nat)
    BY NatLessThanWellFounded DEF OpToRel, NatLess
  <2>. QED BY <2>2, WFMin
<1>2. ASSUME NEW y \in S PROVE x <= y
  <2>1. <<y, x>> \notin NatLess
    BY <1>1
  <2>2. ~(y < x)
    BY <2>1 DEF NatLess
  <2>3. x \in Nat /\ y \in Nat
    OBVIOUS
  <2>. QED BY <2>2, <2>3
<1>. QED BY <1>2

\* Induction, for a set: what holds 0 and with n also n + 1 holds them all.
LEMMA Induction ==
  ASSUME NEW S, 0 \in S, \A n \in Nat : n \in S => n + 1 \in S
  PROVE  Nat \subseteq S
<1> DEFINE T == Nat \ S
<1> SUFFICES ASSUME T # {} PROVE FALSE
  OBVIOUS
<1>1. PICK x \in T : \A y \in T : x <= y
  <2>1. T \subseteq Nat
    OBVIOUS
  <2> HIDE DEF T
  <2>. QED BY <2>1, LeastExists
<1>2. x # 0 /\ x - 1 \in Nat /\ (x - 1) + 1 = x
  BY <1>1
<1>3. x - 1 \in T
  BY <1>1, <1>2
<1>. QED BY <1>1, <1>3

\* g lists the sums of the first 0, 1, ..., m values of f.
IsSum(g, f, m) == g = [n \in 0 .. m |-> IF n = 0 THEN 0 ELSE g[n - 1] + f[n - 1]]

\* The sums SumOf() is defined by exist,
LEMMA SumExists ==
  ASSUME NEW f
  PROVE  \A n \in Nat : \E g : IsSum(g, f, n)
<1> DEFINE S == {n \in Nat : \E g : IsSum(g, f, n)}
<1>1. 0 \in S
  <2>1. IsSum([n \in {0} |-> 0], f, 0)
    BY DEF IsSum
  <2>. QED BY <2>1
<1>2. ASSUME NEW n \in Nat, n \in S PROVE n + 1 \in S
  <2>1. PICK g : IsSum(g, f, n)
    BY <1>2
  <2> DEFINE k == [m \in 0 .. n + 1 |-> IF m = n + 1 THEN g[n] + f[n] ELSE g[m]]
  <2>2. IsSum(k, f, n + 1)
    BY <2>1 DEF IsSum
  <2>. QED BY <2>2
<1>. QED
  <2>. HIDE DEF S
  <2>1. Nat \subseteq S BY <1>1, <1>2, Induction
  <2>2. QED BY <2>1 DEF S

\* so SumOf(f, n) is the last of such a list of sums,
LEMMA SumUnfold ==
  ASSUME NEW f, NEW n \in Nat
  PROVE  \E g : IsSum(g, f, n) /\ SumOf(f, n) = g[n]
<1> DEFINE s == CHOOSE g : IsSum(g, f, n)
<1>1. \E g : IsSum(g, f, n)
  BY SumExists
<1>2. IsSum(s, f, n)
  BY <1>1
<1>3. SumOf(f, n) = s[n]
  BY DEF SumOf, IsSum
<1>. QED BY <1>2, <1>3

\* and two lists agree as far as the shorter one goes.
LEMMA SumUnique ==
  ASSUME NEW f, NEW g, NEW g2, NEW m \in Nat, NEW m2 \in Nat,
         IsSum(g, f, m), IsSum(g2, f, m2), m <= m2
  PROVE  \A k \in 0 .. m : g[k] = g2[k]
<1> DEFINE S == {n \in Nat : n <= m => g[n] = g2[n]}
<1>1. 0 \in S
  BY DEF IsSum
<1>2. ASSUME NEW n \in Nat, n \in S PROVE n + 1 \in S
  <2>2. SUFFICES ASSUME n + 1 <= m PROVE g[n + 1] = g2[n + 1]
    OBVIOUS
  <2>3. g[n] = g2[n]
    BY <1>2, <2>2
  <2>4. n + 1 \in 0 .. m /\ n + 1 \in 0 .. m2 /\ n + 1 # 0 /\ (n + 1) - 1 = n
    BY <2>2
  <2>5. g[n + 1] = g[n] + f[n] /\ g2[n + 1] = g2[n] + f[n]
    BY <2>4 DEF IsSum
  <2>. QED BY <2>3, <2>5, Zenon
<1>3. Nat \subseteq S
  <2>. HIDE DEF S
  <2>. QED BY <1>1, <1>2, Induction
<1>. QED BY <1>3

\* No term adds up to nothing.
LEMMA SumZero ==
  ASSUME NEW f
  PROVE  SumOf(f, 0) = 0
<1>1. PICK g : IsSum(g, f, 0) /\ SumOf(f, 0) = g[0]
  BY SumUnfold
<1>. QED BY <1>1 DEF IsSum

\* One term more adds that term.
LEMMA SumStep ==
  ASSUME NEW f, NEW n \in Nat
  PROVE  SumOf(f, n + 1) = SumOf(f, n) + f[n]
<1>1. PICK g : IsSum(g, f, n + 1) /\ SumOf(f, n + 1) = g[n + 1]
  BY SumUnfold
<1>2. PICK g2 : IsSum(g2, f, n) /\ SumOf(f, n) = g2[n]
  BY SumUnfold
<1>3. g2[n] = g[n]
  <2>1. n <= n + 1
    OBVIOUS
  <2>2. \A k \in 0 .. n : g2[k] = g[k]
    BY <1>1, <1>2, <2>1, SumUnique
  <2>. QED BY <2>2
<1>4. n + 1 \in 0 .. n + 1 /\ n + 1 # 0 /\ (n + 1) - 1 = n
  OBVIOUS
<1>. QED BY <1>1, <1>2, <1>3, <1>4 DEF IsSum

\* The first n values of f are natural numbers.
AllNatural(f, n) == \A k \in 0 .. n - 1 : f[k] \in Nat

\* Natural numbers add up to one.
LEMMA SumNat ==
  ASSUME NEW f, NEW n \in Nat, AllNatural(f, n), NEW a, a \in 0 .. n
  PROVE  SumOf(f, a) \in Nat
<1> DEFINE S == {k \in Nat : k <= n => SumOf(f, k) \in Nat}
<1>1. 0 \in S
  BY SumZero
<1>2. ASSUME NEW k \in Nat, k \in S PROVE k + 1 \in S
  <2>1. SUFFICES ASSUME k + 1 <= n PROVE SumOf(f, k + 1) \in Nat
    OBVIOUS
  <2>2. SumOf(f, k) \in Nat
    BY <1>2, <2>1
  <2>3. f[k] \in Nat
    BY <2>1 DEF AllNatural
  <2>. QED BY <2>2, <2>3, SumStep
<1>3. Nat \subseteq S
  <2>. HIDE DEF S
  <2>. QED BY <1>1, <1>2, Induction
<1>. QED BY <1>3

\* More of them to no less.
LEMMA SumGrows ==
  ASSUME NEW f, NEW n \in Nat, AllNatural(f, n), NEW a, NEW b, a \in 0 .. n, b \in 0 .. n, a <= b
  PROVE  SumOf(f, a) <= SumOf(f, b)
<1> DEFINE S == {k \in Nat : a + k <= n => SumOf(f, a) <= SumOf(f, a + k)}
<1>1. 0 \in S
  <2>1. SumOf(f, a) \in Nat
    BY SumNat
  <2>. QED BY <2>1
<1>2. ASSUME NEW k \in Nat, k \in S PROVE k + 1 \in S
  <2>1. SUFFICES ASSUME a + (k + 1) <= n PROVE SumOf(f, a) <= SumOf(f, a + (k + 1))
    OBVIOUS
  <2>2. SumOf(f, a) <= SumOf(f, a + k)
    BY <1>2, <2>1
  <2>3. f[a + k] \in Nat /\ a + k \in 0 .. n /\ a + k \in Nat
    BY <2>1 DEF AllNatural
  <2>4. SumOf(f, (a + k) + 1) = SumOf(f, a + k) + f[a + k]
    BY <2>3, SumStep
  <2>5. (a + k) + 1 = a + (k + 1)
    OBVIOUS
  <2>6. SumOf(f, a) \in Nat /\ SumOf(f, a + k) \in Nat
    BY <2>3, SumNat
  <2>. QED BY <2>2, <2>3, <2>4, <2>5, <2>6
<1>3. Nat \subseteq S
  <2>. HIDE DEF S
  <2>. QED BY <1>1, <1>2, Induction
<1>4. b - a \in Nat /\ a + (b - a) = b
  OBVIOUS
<1>. QED BY <1>3, <1>4

\* Every number below the sum is within one term.
LEMMA SumLocate ==
  ASSUME NEW f, NEW n \in Nat, AllNatural(f, n), NEW x \in Nat, x < SumOf(f, n)
  PROVE  \E k \in 0 .. n - 1 : SumOf(f, k) <= x /\ x < SumOf(f, k + 1)
<1> DEFINE S == {k \in Nat : k <= n /\ x < SumOf(f, k)}
<1>1. S \subseteq Nat /\ n \in S
  OBVIOUS
<1>2. PICK b \in S : \A c \in S : b <= c
  <2> HIDE DEF S
  <2>. QED BY <1>1, LeastExists
<1>3. b # 0
  BY SumZero
<1>4. b - 1 \in Nat /\ b - 1 \in 0 .. n - 1 /\ b - 1 \in 0 .. n /\ (b - 1) + 1 = b
  BY <1>3
<1>5. b - 1 \notin S
  BY <1>2, <1>4
<1>6. ~(x < SumOf(f, b - 1)) /\ SumOf(f, b - 1) \in Nat
  BY <1>4, <1>5, SumNat
<1>. QED BY <1>4, <1>6

\* The term that grows by x makes the sum grow by x.
LEMMA SumBump ==
  ASSUME NEW f, NEW f2, NEW n \in Nat, NEW p, NEW x \in Int, p \in 0 .. n - 1,
         \A k \in 0 .. n - 1 : f[k] \in Int,
         f2[p] = f[p] + x,
         \A k \in 0 .. n - 1 : k # p => f2[k] = f[k]
  PROVE  SumOf(f2, n) = SumOf(f, n) + x /\ SumOf(f, n) \in Int
<1> DEFINE S == {k \in Nat : k <= n =>
                   /\ SumOf(f, k) \in Int
                   /\ SumOf(f2, k) = SumOf(f, k) + (IF p < k THEN x ELSE 0)}
<1>1. 0 \in S
  BY SumZero
<1>2. ASSUME NEW k \in Nat, k \in S PROVE k + 1 \in S
  <2>1. SUFFICES ASSUME k + 1 <= n
                 PROVE  /\ SumOf(f, k + 1) \in Int
                        /\ SumOf(f2, k + 1) = SumOf(f, k + 1) + (IF p < k + 1 THEN x ELSE 0)
    OBVIOUS
  <2>2. SumOf(f, k) \in Int /\ SumOf(f2, k) = SumOf(f, k) + (IF p < k THEN x ELSE 0)
    BY <1>2, <2>1
  <2>3. f[k] \in Int /\ f2[k] = f[k] + (IF k = p THEN x ELSE 0)
    BY <2>1
  <2>4. SumOf(f, k + 1) = SumOf(f, k) + f[k] /\ SumOf(f2, k + 1) = SumOf(f2, k) + f2[k]
    BY SumStep
  <2>. HIDE DEF S
  <2>. QED BY <2>2, <2>3, <2>4
<1>3. Nat \subseteq S
  <2>. HIDE DEF S
  <2>. QED BY <1>1, <1>2, Induction
<1>. QED BY <1>3

\* Nothing adds up to nothing.
LEMMA SumNone ==
  ASSUME NEW f, NEW n \in Nat, \A k \in 0 .. n - 1 : f[k] = 0
  PROVE  SumOf(f, n) = 0
<1> DEFINE S == {k \in Nat : k <= n => SumOf(f, k) = 0}
<1>1. 0 \in S
  BY SumZero
<1>2. ASSUME NEW k \in Nat, k \in S PROVE k + 1 \in S
  <2>1. SUFFICES ASSUME k + 1 <= n PROVE SumOf(f, k + 1) = 0
    OBVIOUS
  <2>2. SumOf(f, k) = 0 /\ f[k] = 0
    BY <1>2, <2>1
  <2>. QED BY <2>2, SumStep
<1>3. Nat \subseteq S
  <2>. HIDE DEF S
  <2>. QED BY <1>1, <1>2, Induction
<1>. QED BY <1>3

\* n terms of at most b, one of which is nothing, are at most (n - 1) * b.
LEMMA SumBound ==
  ASSUME NEW f, NEW n \in Nat, NEW b \in Nat, NEW z, z \in 0 .. n - 1,
         \A k \in 0 .. n - 1 : f[k] \in 0 .. b, f[z] = 0
  PROVE  SumOf(f, n) <= n * b - b /\ SumOf(f, n) \in Nat
<1> DEFINE S == {k \in Nat : k <= n =>
                   /\ SumOf(f, k) \in Nat
                   /\ SumOf(f, k) <= k * b - (IF z < k THEN b ELSE 0)}
<1>1. 0 \in S
  <2>1. 0 * b = 0
    OBVIOUS
  <2>. QED BY <2>1, SumZero
<1>2. ASSUME NEW k \in Nat, k \in S PROVE k + 1 \in S
  <2>1. SUFFICES ASSUME k + 1 <= n
                 PROVE  /\ SumOf(f, k + 1) \in Nat
                        /\ SumOf(f, k + 1) <= (k + 1) * b - (IF z < k + 1 THEN b ELSE 0)
    OBVIOUS
  <2>2. SumOf(f, k) \in Nat /\ SumOf(f, k) <= k * b - (IF z < k THEN b ELSE 0)
    BY <1>2, <2>1
  <2>3. f[k] \in 0 .. b /\ (k = z => f[k] = 0)
    BY <2>1
  <2>4. SumOf(f, k + 1) = SumOf(f, k) + f[k]
    BY SumStep
  <2> DEFINE kb == k * b
  <2>5. (k + 1) * b = kb + b /\ kb \in Int
    OBVIOUS
  <2>. HIDE DEF S, kb
  <2>6. SumOf(f, k) <= kb - (IF z < k THEN b ELSE 0)
    BY <2>2 DEF kb
  <2>. QED BY <2>2, <2>3, <2>4, <2>5, <2>6
<1>3. Nat \subseteq S
  <2>. HIDE DEF S
  <2>. QED BY <1>1, <1>2, Induction
<1>4. n \in S /\ n <= n /\ z < n
  BY <1>3
<1>. QED BY <1>4

-----------------------------------------------------------------------------
(* Slots and hands. *)

\* The hand a slot belongs to; of a place of the pack in order, its suit.
HandOf(d) == d \div HandSize

\* Multiplying by a positive number keeps the order.
LEMMA TimesUp ==
  ASSUME NEW p \in Int, NEW q \in Int, NEW s \in Int, s > 0, p <= q
  PROVE  p * s <= q * s
<1>1. (q - p) * s >= 0
  OBVIOUS
<1>2. (q - p) * s = q * s - p * s
  OBVIOUS
<1>3. p * s \in Int /\ q * s \in Int
  OBVIOUS
<1>. QED BY <1>1, <1>2, <1>3

\* What \div gives for a positive divisor.
LEMMA Quotient ==
  ASSUME NEW x \in Int, NEW s \in Int, s > 0
  PROVE  /\ x \div s \in Int
         /\ (x \div s) * s <= x
         /\ x < (x \div s) * s + s
<1>1. x \div s \in Int /\ x % s \in 0 .. s - 1 /\ x = s * (x \div s) + (x % s)
  OBVIOUS
<1> DEFINE q == x \div s
           r == x % s
<1>2. q \in Int /\ r \in Int /\ 0 <= r /\ r < s /\ x = s * q + r
  BY <1>1
<1> HIDE DEF q, r
<1>3. q * s = s * q
  BY <1>2
<1>4. q * s <= x /\ x < q * s + s
  BY <1>2, <1>3
<1>. QED BY <1>2, <1>4 DEF q

\* The sizes the constants give the pack, the hands and the marks.
LEMMA Sizes ==
  /\ Hands \in Nat /\ Hands > 0 /\ HandSize \in Nat /\ HandSize > 0
  /\ ExgGap \in Nat /\ ExgGap > 0
  /\ N \in Nat /\ N > 0 /\ N <= NO_XS /\ Slot \subseteq Int
  /\ IsFiniteSet(Slot) /\ Cardinality(Slot) = N
<1>1. Hands * HandSize \in Nat /\ Hands * HandSize > 0
  BY SizeAssumption
<1>2. N \in Nat /\ N > 0 /\ N <= NO_XS
  BY <1>1, SizeAssumption DEF N
<1>3. IsFiniteSet(Slot) /\ Cardinality(Slot) = N
  <2>1. N - 1 \in Int /\ ~(0 > N - 1) /\ N - 1 - 0 + 1 = N
    BY <1>2
  <2>. QED BY <2>1, FS_Interval DEF Slot
<1>. QED BY <1>2, <1>3, SizeAssumption DEF Slot

\* A hand has HandSize slots, of those of the deal.
LEMMA Begins ==
  ASSUME NEW g \in Hand
  PROVE  /\ Begin(g) \in Nat /\ End(g) \in Nat
         /\ End(g) = Begin(g) + HandSize /\ End(g) <= N
         /\ g + 1 \in Nat /\ g \in Nat /\ g < Hands
<1>1. g \in Int /\ 0 <= g /\ g + 1 <= Hands /\ Hands \in Int /\ HandSize \in Int /\ HandSize > 0
  BY Sizes DEF Hand
<1>2. 0 * HandSize <= g * HandSize /\ 0 * HandSize = 0
  BY <1>1, TimesUp
<1>3. (g + 1) * HandSize <= Hands * HandSize
  BY <1>1, TimesUp
<1>4. (g + 1) * HandSize = g * HandSize + HandSize /\ g * HandSize \in Int
  BY <1>1
<1> DEFINE gh == g * HandSize
           gs == (g + 1) * HandSize
<1> HIDE DEF gh, gs
<1>5. gh \in Int /\ 0 <= gh /\ gs = gh + HandSize /\ gs <= N
  BY <1>1, <1>2, <1>3, <1>4 DEF gh, gs, N
<1>6. Begin(g) = gh /\ End(g) = gs
  BY DEF Begin, End, gh, gs
<1>. QED BY <1>1, <1>5, <1>6

\* A hand later begins where that one ends or after.
LEMMA HandsApart ==
  ASSUME NEW g \in Hand, NEW k \in Hand, g < k
  PROVE  End(g) <= Begin(k)
<1>1. g \in Int /\ k \in Int /\ g + 1 <= k /\ HandSize \in Int /\ HandSize > 0
  BY Sizes DEF Hand
<1>2. (g + 1) * HandSize <= k * HandSize
  BY <1>1, TimesUp
<1>. QED BY <1>2 DEF Begin, End

\* Every slot is one of the hand HandOf() names,
LEMMA SlotHand ==
  ASSUME NEW d \in Slot
  PROVE  HandOf(d) \in Hand /\ Begin(HandOf(d)) <= d /\ d < End(HandOf(d)) /\ d \in Nat /\ d < N
<1>1. d \in Int /\ 0 <= d /\ d < N /\ HandSize \in Int /\ HandSize > 0 /\ Hands \in Int
  BY Sizes DEF Slot
<1> DEFINE q == d \div HandSize
<1>2. q \in Int /\ q * HandSize <= d /\ d < q * HandSize + HandSize
  BY <1>1, Quotient
<1> HIDE DEF q
<1>3. q * HandSize \in Int /\ (q + 1) * HandSize = q * HandSize + HandSize
  BY <1>1, <1>2
<1>4. q >= 0
  <2>1. SUFFICES ASSUME q + 1 <= 0 PROVE FALSE
    BY <1>2
  <2>2. (q + 1) * HandSize <= 0 * HandSize /\ 0 * HandSize = 0
    BY <1>1, <1>2, <2>1, TimesUp
  <2>. QED BY <1>1, <1>2, <1>3, <2>2
<1>5. q < Hands
  <2>1. SUFFICES ASSUME Hands <= q PROVE FALSE
    BY <1>1, <1>2
  <2>2. Hands * HandSize <= q * HandSize
    BY <1>1, <1>2, <2>1, TimesUp
  <2>3. N <= q * HandSize /\ N \in Int
    BY <2>2, Sizes DEF N
  <2>. QED BY <1>1, <1>2, <1>3, <2>3
<1>6. q \in Hand
  BY <1>1, <1>2, <1>4, <1>5 DEF Hand
<1>7. Begin(q) <= d /\ d < End(q)
  BY <1>2, <1>3 DEF Begin, End
<1>. QED BY <1>1, <1>6, <1>7 DEF q, HandOf

\* and a slot between the ends of a hand is that hand's.
LEMMA InHand ==
  ASSUME NEW g \in Hand, NEW d \in Int, Begin(g) <= d, d < End(g)
  PROVE  d \in Slot /\ HandOf(d) = g
<1>1. d \in Slot
  BY Begins, Sizes DEF Slot
<1> DEFINE k == HandOf(d)
<1>2. k \in Hand /\ Begin(k) <= d /\ d < End(k)
  BY <1>1, SlotHand
<1> HIDE DEF k
<1>3. Begin(g) \in Nat /\ End(g) \in Nat /\ Begin(k) \in Nat /\ End(k) \in Nat
  BY <1>2, Begins
<1>4. ~(k < g)
  <2>1. SUFFICES ASSUME k < g PROVE FALSE
    OBVIOUS
  <2>2. End(k) <= Begin(g)
    BY <1>2, <2>1, HandsApart
  <2>. QED BY <1>2, <1>3, <2>2
<1>5. ~(g < k)
  <2>1. SUFFICES ASSUME g < k PROVE FALSE
    OBVIOUS
  <2>2. End(g) <= Begin(k)
    BY <1>2, <2>1, HandsApart
  <2>. QED BY <1>2, <1>3, <2>2
<1>6. k = g
  <2>1. k \in Int /\ g \in Int
    BY <1>2 DEF Hand
  <2>. QED BY <1>4, <1>5, <2>1
<1>. QED BY <1>1, <1>6 DEF k

\* In a finite set of integers a smaller element has a smaller rank.
LEMMA RankGrows ==
  ASSUME NEW S \in SUBSET Int, IsFiniteSet(S), NEW a \in S, NEW c \in S, a < c
  PROVE  Rank(S, a) < Rank(S, c)
  <1> DEFINE A == {b \in S : b < a}
             C == {b \in S : b < c}
  <1>1. A \in SUBSET C /\ a \in C /\ a \notin A
    <2>1. a \in Int /\ c \in Int /\ \A b \in S : b \in Int
      OBVIOUS
    <2>2. \A b \in S : b < a => b < c
      BY <2>1
    <2>3. A \in SUBSET C
      BY <2>2
    <2>4. a \in C
      OBVIOUS
    <2>5. a \notin A
      BY <2>1
    <2>. QED
      BY <2>3, <2>4, <2>5
  <1>2. IsFiniteSet(C)
    BY FS_Subset
  <1>3. IsFiniteSet(A) /\ Cardinality(A) <= Cardinality(C) /\ Cardinality(A) # Cardinality(C)
    <2> HIDE DEF A, C
    <2>. QED
      BY <1>1, <1>2, FS_Subset
  <1>4. Cardinality(A) \in Nat /\ Cardinality(C) \in Nat
    BY <1>2, <1>3, FS_CardinalityType
  <1>. QED
    BY <1>3, <1>4 DEF Rank

\* The elements of a finite set of integers have the ranks 0, 1, 2, ..., each
\* one of them.
LEMMA Ranks ==
  ASSUME NEW S \in SUBSET Int, IsFiniteSet(S)
  PROVE  /\ \A c \in S : Rank(S, c) \in 0 .. Cardinality(S) - 1
         /\ \A a, c \in S : Rank(S, a) = Rank(S, c) => a = c
         /\ \A n \in 0 .. Cardinality(S) - 1 : \E c \in S : Rank(S, c) = n
  <1> DEFINE Places == 0 .. Cardinality(S) - 1
             rank == [c \in S |-> Rank(S, c)]
  <1>0. Cardinality(S) \in Nat
    BY FS_CardinalityType
  <1>1. ASSUME NEW c \in S PROVE Rank(S, c) \in Places
    <2> DEFINE C == {b \in S : b < c}
    <2>1. C \in SUBSET S /\ C # S
      OBVIOUS
    <2>2. IsFiniteSet(C) /\ Cardinality(C) <= Cardinality(S) /\ Cardinality(C) # Cardinality(S)
      <3> HIDE DEF C
      <3>. QED
        BY <2>1, FS_Subset
    <2>3. Cardinality(C) \in Nat
      BY <2>2, FS_CardinalityType
    <2>. QED
      BY <1>0, <2>2, <2>3 DEF Rank
  <1>2. ASSUME NEW a \in S, NEW c \in S, Rank(S, a) = Rank(S, c) PROVE a = c
    <2>1. Rank(S, a) \in Int /\ Rank(S, c) \in Int
      BY <1>0, <1>1
    <2>2. ~(a < c) /\ ~(c < a)
      BY <1>2, <2>1, RankGrows
    <2>. QED
      BY <2>2
  <1>3. rank \in Injection(S, Places)
    <2> HIDE DEF Places
    <2>1. rank \in [S -> Places]
      BY <1>1
    <2>2. \A a, c \in S : rank[a] = rank[c] => a = c
      BY <1>2
    <2>. QED
      BY <2>1, <2>2, Fun_IsInj
  <1>4. IsFiniteSet(Places) /\ Cardinality(Places) = Cardinality(S)
    BY <1>0, FS_Interval
  <1>5. rank \in Surjection(S, Places)
    <2> HIDE DEF Places, rank
    <2>. QED
      BY <1>3, <1>4, FS_Injection
  <1>6. \A n \in Places : \E c \in S : rank[c] = n
    BY <1>5 DEF Surjection
  <1>. QED
    BY <1>1, <1>2, <1>6

-----------------------------------------------------------------------------
(* Packs. *)

\* A pack has a card, or none, in each place.
PackType == [Slot -> Card \cup {NoCard}]

CardsIn(pack) == {pack[k] : k \in Cards(pack)}
Apart(pack)   == \A j, k \in Cards(pack) : pack[j] = pack[k] => j = k

\* Two packs hold every card between them, and none twice.
OnePlace(a, b) ==
    /\ Apart(a) /\ Apart(b)
    /\ CardsIn(a) \cap CardsIn(b) = {}
    /\ CardsIn(a) \cup CardsIn(b) = Card

\* What is in a pack.
LEMMA PackFacts ==
  ASSUME NEW f \in PackType
  PROVE  /\ Cards(f) \subseteq Slot /\ IsFiniteSet(Cards(f))
         /\ \A k \in Cards(f) : f[k] \in Card /\ k \in Int
         /\ CardsIn(f) \subseteq Card
         /\ \A k \in Slot : f[k] \in Card => k \in Cards(f)
         /\ \A k \in Slot : k \in Cards(f) <=> f[k] # NoCard
<1>1. Cards(f) \subseteq Slot /\ \A k \in Slot : k \in Cards(f) <=> f[k] # NoCard
  BY DEF Cards
<1>2. IsFiniteSet(Cards(f))
  BY <1>1, Sizes, FS_Subset
<1>3. \A k \in Cards(f) : f[k] \in Card /\ k \in Int
  BY <1>1, Sizes DEF PackType
<1>4. NoCard \notin Card
  BY BiasAssumption
<1>. QED BY <1>1, <1>2, <1>3, <1>4 DEF CardsIn

\* Some places hold as many cards as they are.
LEMMA PlacesCount ==
  ASSUME NEW f \in PackType, Apart(f), NEW S, S \subseteq Cards(f), NEW T,
         \A c : c \in T <=> \E k \in S : f[k] = c
  PROVE  IsFiniteSet(S) /\ IsFiniteSet(T) /\ Cardinality(T) = Cardinality(S)
<1>1. IsFiniteSet(S)
  BY PackFacts, FS_Subset
<1> DEFINE m == [k \in S |-> f[k]]
<1>2. m \in [S -> T] /\ (\A j, k \in S : m[j] = m[k] => j = k) /\ \A c \in T : \E k \in S : m[k] = c
  BY DEF Apart
<1>3. m \in Bijection(S, T)
  <2> HIDE DEF m
  <2>1. m \in Injection(S, T)
    BY <1>2, Fun_IsInj
  <2>2. m \in Surjection(S, T)
    BY <1>2, Fun_IsSurj
  <2>. QED BY <2>1, <2>2 DEF Bijection
<1>4. ExistsBijection(S, T)
  BY <1>3 DEF ExistsBijection
<1>. QED BY <1>1, <1>4, FS_Bijection

\* Two packs that hold every card once have N cards between them.
LEMMA AllCounted ==
  ASSUME NEW a \in PackType, NEW b \in PackType, OnePlace(a, b)
  PROVE  /\ Cardinality(Cards(a)) \in Nat /\ Cardinality(Cards(b)) \in Nat
         /\ Cardinality(Cards(a)) + Cardinality(Cards(b)) = N
<1>1. IsFiniteSet(CardsIn(a)) /\ Cardinality(CardsIn(a)) = Cardinality(Cards(a))
  <2>1. \A c : c \in CardsIn(a) <=> \E k \in Cards(a) : a[k] = c
    BY DEF CardsIn
  <2>. QED BY <2>1, PlacesCount DEF OnePlace
<1>2. IsFiniteSet(CardsIn(b)) /\ Cardinality(CardsIn(b)) = Cardinality(Cards(b))
  <2>1. \A c : c \in CardsIn(b) <=> \E k \in Cards(b) : b[k] = c
    BY DEF CardsIn
  <2>. QED BY <2>1, PlacesCount DEF OnePlace
<1>3. Cardinality(CardsIn(a)) \in Nat /\ Cardinality(CardsIn(b)) \in Nat
  BY <1>1, <1>2, FS_CardinalityType
<1>4. Cardinality(CardsIn(a) \cup CardsIn(b)) =
        Cardinality(CardsIn(a)) + Cardinality(CardsIn(b)) - Cardinality(CardsIn(a) \cap CardsIn(b))
  BY <1>1, <1>2, FS_Union
<1>5. CardsIn(a) \cup CardsIn(b) = Card /\ CardsIn(a) \cap CardsIn(b) = {}
  BY DEF OnePlace
<1>6. Cardinality(Card) = N /\ Cardinality({}) = 0 /\ N \in Nat
  BY Sizes, FS_EmptySet DEF Card
<1>7. N = Cardinality(CardsIn(a)) + Cardinality(CardsIn(b)) - 0
  BY <1>4, <1>5, <1>6
<1> DEFINE x == Cardinality(CardsIn(a))
           y == Cardinality(CardsIn(b))
<1>8. x \in Nat /\ y \in Nat /\ N = x + y - 0
  BY <1>3, <1>7
<1>9. x = Cardinality(Cards(a)) /\ y = Cardinality(Cards(b))
  BY <1>1, <1>2
<1> HIDE DEF x, y
<1>10. x \in Nat /\ y \in Nat /\ x + y = N
  BY <1>6, <1>8
<1>. QED BY <1>9, <1>10

\* f2 is f in another order: q says from where each card comes.
Reordered(f, f2, q) ==
    /\ q \in [Cards(f2) -> Cards(f)]
    /\ \A j, k \in Cards(f2) : q[j] = q[k] => j = k
    /\ \A k \in Cards(f) : \E j \in Cards(f2) : q[j] = k
    /\ \A k \in Cards(f2) : f2[k] = f[q[k]]

\* That loses and doubles nothing.
LEMMA ReorderedKeeps ==
  ASSUME NEW f, NEW f2, NEW q, Reordered(f, f2, q)
  PROVE  CardsIn(f2) = CardsIn(f) /\ (Apart(f) => Apart(f2))
<1>1. \A k \in Cards(f2) : f2[k] = f[q[k]] /\ q[k] \in Cards(f)
  BY DEF Reordered
<1>2. \A k \in Cards(f) : \E j \in Cards(f2) : q[j] = k
  BY DEF Reordered
<1>3. CardsIn(f2) \subseteq CardsIn(f)
  BY <1>1 DEF CardsIn
<1>4. CardsIn(f) \subseteq CardsIn(f2)
  <2>1. ASSUME NEW k \in Cards(f) PROVE f[k] \in CardsIn(f2)
    <3>1. PICK j \in Cards(f2) : q[j] = k
      BY <1>2
    <3>2. f2[j] = f[k]
      BY <1>1, <3>1
    <3>. QED BY <3>2 DEF CardsIn
  <2>. QED BY <2>1 DEF CardsIn
<1>5. ASSUME Apart(f), NEW j \in Cards(f2), NEW k \in Cards(f2), f2[j] = f2[k] PROVE j = k
  <2>1. f[q[j]] = f[q[k]] /\ q[j] \in Cards(f) /\ q[k] \in Cards(f)
    BY <1>1, <1>5
  <2>2. q[j] = q[k]
    BY <1>5, <2>1 DEF Apart
  <2>. QED BY <2>2 DEF Reordered
<1>. QED BY <1>3, <1>4, <1>5 DEF Apart

\* Shuffle() of places that all have a card.
LEMMA Shuffled ==
  ASSUME NEW f \in PackType, NEW lo \in Int, NEW hi \in Int, lo .. hi - 1 \subseteq Cards(f),
         NEW f2 \in Shuffles(f, lo, hi)
  PROVE  /\ f2 \in PackType
         /\ Cards(f2) = Cards(f)
         /\ CardsIn(f2) = CardsIn(f)
         /\ Apart(f) => Apart(f2)
         /\ \A k \in Slot : k \notin lo .. hi - 1 => f2[k] = f[k]
         /\ \A k \in lo .. hi - 1 : \E j \in lo .. hi - 1 : f2[k] = f[j]
<1> DEFINE S == lo .. hi - 1
<1>0. S \subseteq Cards(f) /\ Cards(f) \subseteq Slot
  BY PackFacts
<1>1. PICK p \in Surjection(S, S) :
        f2 = [k \in DOMAIN f |-> IF k \in DOMAIN p THEN f[p[k]] ELSE f[k]]
  BY DEF Shuffles
<1>2. IsFiniteSet(S)
  BY FS_Interval
<1> HIDE DEF S
<1>3. p \in [S -> S] /\ (\A j, k \in S : p[j] = p[k] => j = k) /\ (\A k \in S : \E j \in S : p[j] = k)
  <2>1. p \in Injection(S, S)
    BY <1>2, FS_SurjSameCardinalityImpliesInj
  <2>2. \A j, k \in S : p[j] = p[k] => j = k
    <3>1. DOMAIN p = S
      BY DEF Surjection
    <3>. QED BY <2>1, <3>1 DEF Injection, IsInjective
  <2>. QED BY <2>2 DEF Surjection
<1>4. DOMAIN f = Slot /\ DOMAIN p = S
  BY <1>3 DEF PackType
<1>5. f2 = [k \in Slot |-> IF k \in S THEN f[p[k]] ELSE f[k]]
  BY <1>1, <1>4
<1>6. f2 \in PackType
  BY <1>0, <1>3, <1>5 DEF PackType
<1>7. Cards(f2) = Cards(f)
  <2>1. ASSUME NEW k \in Slot PROVE f2[k] # NoCard <=> f[k] # NoCard
    <3>1. CASE k \in S
      <4>1. p[k] \in Cards(f) /\ k \in Cards(f) /\ f2[k] = f[p[k]]
        BY <3>1, <1>0, <1>3, <1>5
      <4>. QED BY <4>1 DEF Cards
    <3>2. CASE k \notin S
      BY <3>2, <1>5
    <3>. QED BY <3>1, <3>2
  <2>. QED BY <2>1 DEF Cards
<1> DEFINE q == [k \in Cards(f) |-> IF k \in S THEN p[k] ELSE k]
<1>8. Reordered(f, f2, q)
  <2>1. q \in [Cards(f) -> Cards(f)]
    BY <1>0, <1>3
  <2>2. ASSUME NEW j \in Cards(f), NEW k \in Cards(f), q[j] = q[k] PROVE j = k
    BY <2>2, <1>3
  <2>3. ASSUME NEW k \in Cards(f) PROVE \E j \in Cards(f) : q[j] = k
    <3>1. CASE k \in S
      <4>1. PICK j \in S : p[j] = k
        BY <3>1, <1>3
      <4>2. j \in Cards(f) /\ q[j] = k
        BY <4>1, <1>0
      <4>. QED BY <4>2
    <3>2. CASE k \notin S
      <4>1. q[k] = k
        BY <3>2
      <4>. QED BY <4>1
    <3>. QED BY <3>1, <3>2
  <2>4. \A k \in Cards(f) : f2[k] = f[q[k]]
    BY <1>0, <1>5
  <2> HIDE DEF q
  <2>. QED BY <1>7, <2>1, <2>2, <2>3, <2>4 DEF Reordered
<1>9. \A k \in Slot : k \notin S => f2[k] = f[k]
  BY <1>5
<1>10. \A k \in S : \E j \in S : f2[k] = f[j]
  BY <1>0, <1>3, <1>5
<1>. QED
  <2> HIDE DEF q
  <2>1. CardsIn(f2) = CardsIn(f) /\ (Apart(f) => Apart(f2))
    BY <1>8, ReorderedKeeps
  <2>. QED BY <1>6, <1>7, <1>9, <1>10, <2>1 DEF S

\* compress_pack() puts the cards, in order, in the first places.
LEMMA Compressed ==
  ASSUME NEW f \in PackType
  PROVE  /\ Compress(f) \in PackType
         /\ Cardinality(Cards(f)) \in 0 .. N
         /\ Cards(Compress(f)) = 0 .. Cardinality(Cards(f)) - 1
         /\ CardsIn(Compress(f)) = CardsIn(f)
         /\ Apart(f) => Apart(Compress(f))
<1> DEFINE C == Cards(f)
           n == Cardinality(C)
           q == [k \in 0 .. n - 1 |-> CHOOSE c \in C : Rank(C, c) = k]
           f2 == Compress(f)
<1>1. C \subseteq Slot /\ C \in SUBSET Int /\ IsFiniteSet(C)
  BY PackFacts, Sizes
<1>2. n \in Nat /\ n <= N
  <2> HIDE DEF C
  <2>. QED BY <1>1, FS_CardinalityType, FS_Subset, Sizes
<1>3. /\ \A c \in C : Rank(C, c) \in 0 .. n - 1
      /\ \A a, c \in C : Rank(C, a) = Rank(C, c) => a = c
      /\ \A k \in 0 .. n - 1 : \E c \in C : Rank(C, c) = k
  <2> HIDE DEF C
  <2>. QED BY <1>1, Ranks
<1>4. \A k \in 0 .. n - 1 : q[k] \in C /\ Rank(C, q[k]) = k
  <2> HIDE DEF C
  <2>. QED BY <1>3
<1>5. f2 = [k \in Slot |-> IF k < n THEN f[q[k]] ELSE NoCard]
  <2>1. ASSUME NEW k \in Slot, k < n PROVE k \in 0 .. n - 1
    BY <2>1, <1>2 DEF Slot
  <2>. QED BY <2>1 DEF Compress
<1>6. 0 .. n - 1 \subseteq Slot /\ \A k \in Slot : k < n <=> k \in 0 .. n - 1
  BY <1>2, Sizes DEF Slot
<1>7. \A c \in C : f[c] \in Card /\ f[c] # NoCard
  BY PackFacts DEF Cards
<1> HIDE DEF n, q, f2
<1>8. f2 \in PackType
  BY <1>4, <1>5, <1>6, <1>7 DEF PackType
<1>9. Cards(f2) = 0 .. n - 1
  BY <1>4, <1>5, <1>6, <1>7 DEF Cards
<1>10. Reordered(f, f2, q)
  <2>1. q \in [0 .. n - 1 -> C]
    BY <1>4 DEF q
  <2>2. \A j, k \in 0 .. n - 1 : q[j] = q[k] => j = k
    BY <1>4
  <2>3. ASSUME NEW c \in C PROVE \E j \in 0 .. n - 1 : q[j] = c
    <3>1. Rank(C, c) \in 0 .. n - 1
      BY <1>3
    <3>2. q[Rank(C, c)] \in C /\ Rank(C, q[Rank(C, c)]) = Rank(C, c)
      BY <1>4, <3>1
    <3>3. q[Rank(C, c)] = c
      BY <1>3, <3>2
    <3>. QED BY <3>1, <3>3
  <2>4. \A k \in 0 .. n - 1 : f2[k] = f[q[k]]
    BY <1>5, <1>6
  <2> HIDE DEF C
  <2>5. C = Cards(f)
    BY DEF C
  <2>. QED BY <1>9, <2>1, <2>2, <2>3, <2>4, <2>5 DEF Reordered
<1>11. CardsIn(f2) = CardsIn(f) /\ (Apart(f) => Apart(f2))
  BY <1>10, ReorderedKeeps
<1>. QED BY <1>2, <1>8, <1>9, <1>11 DEF n, f2

\* The cards at K go to the free places D of another pack, m says from where.
Given(a, b, D, m) == [d \in Slot |-> IF d \in D THEN b[m[d]] ELSE a[d]]
Without(b, K)     == [k \in Slot |-> IF k \in K THEN NoCard ELSE b[k]]

\* m takes the cards at K, one by one, to D, which is free.
CanMove(a, b, D, K, m) ==
    /\ a \in PackType /\ b \in PackType /\ OnePlace(a, b)
    /\ D \subseteq Slot /\ \A d \in D : d \notin Cards(a)
    /\ K \subseteq Cards(b)
    /\ m \in [D -> K]
    /\ \A d, e \in D : m[d] = m[e] => d = e
    /\ \A k \in K : \E d \in D : m[d] = k

\* What is left of b when the cards at K have gone.
LeftOver(b, b2, K) ==
    /\ b2 \in PackType
    /\ Cards(b2) = Cards(b) \ K
    /\ \A c : c \in CardsIn(b2) <=> c \in CardsIn(b) /\ \A k \in K : b[k] # c

\* Moving cards that way loses and doubles none.
LEMMA Moved ==
  ASSUME NEW a, NEW b, NEW D, NEW K, NEW m, CanMove(a, b, D, K, m),
         NEW a2, a2 = Given(a, b, D, m), NEW b2, b2 = Without(b, K)
  PROVE  /\ a2 \in PackType
         /\ Cards(a2) = Cards(a) \cup D
         /\ OnePlace(a2, b2)
         /\ LeftOver(b, b2, K)
<1>0. /\ a \in PackType /\ b \in PackType /\ OnePlace(a, b)
      /\ D \subseteq Slot /\ \A d \in D : d \notin Cards(a)
      /\ K \subseteq Cards(b)
      /\ m \in [D -> K]
      /\ \A d, e \in D : m[d] = m[e] => d = e
      /\ \A k \in K : \E d \in D : m[d] = k
  BY DEF CanMove
<1> USE DEF Given, Without
<1>1. \A d \in D : m[d] \in K /\ m[d] \in Cards(b) /\ m[d] \in Slot /\ b[m[d]] \in Card /\ b[m[d]] # NoCard
  BY <1>0, PackFacts DEF Cards
<1>2. a2 \in PackType /\ b2 \in PackType
  BY <1>0, <1>1 DEF PackType
<1>3. Cards(a2) = Cards(a) \cup D
  BY <1>0, <1>1 DEF Cards
<1>4. Cards(b2) = Cards(b) \ K
  BY <1>0 DEF Cards
<1>5. \A k \in Cards(b2) : b2[k] = b[k] /\ k \in Cards(b) /\ k \notin K
  BY <1>0, <1>4 DEF Cards
<1>6. \A d \in D : a2[d] = b[m[d]]
  BY <1>0, <1>1
<1>7. \A d \in Cards(a) : d \in Cards(a2) /\ d \notin D /\ a2[d] = a[d]
  BY <1>0, <1>3 DEF Cards
<1>8. /\ \A j, k \in Cards(a) : a[j] = a[k] => j = k
      /\ \A j, k \in Cards(b) : b[j] = b[k] => j = k
      /\ \A j \in Cards(a), k \in Cards(b) : a[j] # b[k]
      /\ \A c \in Card : (\E j \in Cards(a) : a[j] = c) \/ (\E k \in Cards(b) : b[k] = c)
  <2>1. \A j \in Cards(a) : a[j] \in CardsIn(a)
    BY DEF CardsIn
  <2>2. \A k \in Cards(b) : b[k] \in CardsIn(b)
    BY DEF CardsIn
  <2>3. \A c \in Card : c \in CardsIn(a) \/ c \in CardsIn(b)
    BY <1>0 DEF OnePlace
  <2>4. \A c : c \in CardsIn(a) => \E j \in Cards(a) : a[j] = c
    BY DEF CardsIn
  <2>5. \A c : c \in CardsIn(b) => \E j \in Cards(b) : b[j] = c
    BY DEF CardsIn
  <2>6. \A j \in Cards(a), k \in Cards(b) : a[j] # b[k]
    BY <1>0, <2>1, <2>2 DEF OnePlace
  <2>7. (\A j, k \in Cards(a) : a[j] = a[k] => j = k) /\ \A j, k \in Cards(b) : b[j] = b[k] => j = k
    BY <1>0 DEF OnePlace, Apart
  <2>. QED BY <2>3, <2>4, <2>5, <2>6, <2>7
<1>9. Apart(a2)
  <2>1. SUFFICES ASSUME NEW j \in Cards(a2), NEW k \in Cards(a2), a2[j] = a2[k] PROVE j = k
    BY DEF Apart
  <2>2. CASE j \in D /\ k \in D
    <3>1. b[m[j]] = b[m[k]] /\ m[j] \in Cards(b) /\ m[k] \in Cards(b)
      BY <1>1, <1>6, <2>1, <2>2
    <3>2. m[j] = m[k]
      BY <1>8, <3>1
    <3>. QED BY <1>0, <2>2, <3>2
  <2>3. CASE j \in D /\ k \in Cards(a)
    BY <1>1, <1>6, <1>7, <1>8, <2>1, <2>3
  <2>4. CASE j \in Cards(a) /\ k \in D
    BY <1>1, <1>6, <1>7, <1>8, <2>1, <2>4
  <2>5. CASE j \in Cards(a) /\ k \in Cards(a)
    BY <1>7, <1>8, <2>1, <2>5
  <2>. QED BY <1>3, <2>1, <2>2, <2>3, <2>4, <2>5
<1>10. Apart(b2)
  BY <1>5, <1>8 DEF Apart
<1>11. CardsIn(a2) \cap CardsIn(b2) = {}
  <2>1. ASSUME NEW j \in Cards(a2), NEW k \in Cards(b2), a2[j] = b2[k] PROVE FALSE
    <3>1. CASE j \in D
      <4>1. b[m[j]] = b[k] /\ m[j] \in Cards(b) /\ m[j] \in K /\ k \in Cards(b) /\ k \notin K
        BY <1>1, <1>5, <1>6, <2>1, <3>1
      <4>. QED BY <1>8, <4>1
    <3>2. CASE j \in Cards(a)
      BY <1>5, <1>7, <1>8, <2>1, <3>2
    <3>. QED BY <1>3, <3>1, <3>2
  <2>. QED BY <2>1 DEF CardsIn
<1>12. CardsIn(a2) \cup CardsIn(b2) = Card
  <2>1. CardsIn(a2) \subseteq Card /\ CardsIn(b2) \subseteq Card
    BY <1>2, PackFacts
  <2>2. ASSUME NEW c \in Card PROVE c \in CardsIn(a2) \cup CardsIn(b2)
    <3>1. CASE \E j \in Cards(a) : a[j] = c
      <4>1. PICK j \in Cards(a) : a[j] = c
        BY <3>1
      <4>2. j \in Cards(a2) /\ a2[j] = c
        BY <1>7, <4>1
      <4>. QED BY <4>2 DEF CardsIn
    <3>2. CASE \E k \in Cards(b) : b[k] = c
      <4>1. PICK k \in Cards(b) : b[k] = c
        BY <3>2
      <4>2. CASE k \in K
        <5>1. PICK d \in D : m[d] = k
          BY <1>0, <4>2
        <5>2. d \in Cards(a2) /\ a2[d] = c
          BY <1>3, <1>6, <4>1, <5>1
        <5>. QED BY <5>2 DEF CardsIn
      <4>3. CASE k \notin K
        <5>1. k \in Cards(b2) /\ b2[k] = c
          BY <1>4, <1>5, <4>1, <4>3
        <5>. QED BY <5>1 DEF CardsIn
      <4>. QED BY <4>2, <4>3
    <3>. QED BY <1>8, <3>1, <3>2
  <2>. QED BY <2>1, <2>2
<1>13. ASSUME NEW c PROVE c \in CardsIn(b2) <=> c \in CardsIn(b) /\ \A k \in K : b[k] # c
  <2>1. ASSUME c \in CardsIn(b2) PROVE c \in CardsIn(b) /\ \A k \in K : b[k] # c
    <3>1. PICK k \in Cards(b2) : b2[k] = c
      BY <2>1 DEF CardsIn
    <3>2. b[k] = c /\ k \in Cards(b) /\ k \notin K
      BY <1>5, <3>1
    <3>3. b[k] \in CardsIn(b)
      BY <3>2 DEF CardsIn
    <3>4. \A l \in K : b[l] # b[k]
      BY <1>0, <1>8, <3>2
    <3>. QED BY <3>2, <3>3, <3>4
  <2>2. ASSUME c \in CardsIn(b), \A k \in K : b[k] # c PROVE c \in CardsIn(b2)
    <3>1. PICK k \in Cards(b) : b[k] = c
      BY <2>2 DEF CardsIn
    <3>2. k \notin K /\ k \in Cards(b2) /\ b2[k] = b[k]
      BY <1>4, <1>5, <2>2, <3>1
    <3>. QED BY <3>1, <3>2 DEF CardsIn
  <2>. QED BY <2>1, <2>2
<1>. QED BY <1>2, <1>3, <1>4, <1>9, <1>10, <1>11, <1>12, <1>13 DEF OnePlace, LeftOver

-----------------------------------------------------------------------------
(* What the input file asks for. *)

\* The cards a hand must have of the suits before s; those the hands before g
\* must have of a suit; and all a hand must have, all to be drawn of a suit.
Before(g, s)      == SumOf(HandNeeds(bias_suits, g), s)
ShareBefore(s, g) == SumOf(SuitNeeds(bias_suits, s), g)
Due(g)            == BiasLen(bias_suits, g)
Drawn(s)          == BiasTot(bias_suits, s)

\* Lengths asked for, as the parser lets them through.
LEMMA Asked ==
  ASSUME bias_suits \in Biases, NEW g \in Hand, NEW s \in Suit
  PROVE  /\ bias_suits[g][s] \in -1 .. HandSize /\ bias_suits[g][s] \in Int
         /\ Need(bias_suits, g, s) \in Nat
         /\ Need(bias_suits, g, s) = IF bias_suits[g][s] > 0 THEN bias_suits[g][s] ELSE 0
         /\ HandNeeds(bias_suits, g)[s] = Need(bias_suits, g, s)
         /\ SuitNeeds(bias_suits, s)[g] = Need(bias_suits, g, s)
<1>1. bias_suits[g][s] \in -1 .. HandSize
  BY BiasAssumption
<1>2. HandSize \in Int
  BY Sizes
<1>3. bias_suits[g][s] \in Int
  BY <1>1, <1>2
<1>. QED BY <1>1, <1>3 DEF Need, HandNeeds, SuitNeeds

\* What a hand asks for is at most a hand, and nothing if it asks nothing.
LEMMA DueFacts ==
  ASSUME bias_suits \in Biases, NEW g \in Hand
  PROVE  /\ AllNatural(HandNeeds(bias_suits, g), Hands)
         /\ Due(g) \in 0 .. HandSize
         /\ Before(g, 0) = 0 /\ Before(g, Hands) = Due(g)
         /\ ~Biased(g) => Due(g) = 0
<1>1. AllNatural(HandNeeds(bias_suits, g), Hands)
  BY Asked DEF AllNatural, Hand, Suit
<1>2. Before(g, Hands) \in Nat
  <2>1. Hands \in Nat /\ Hands \in 0 .. Hands
    BY Sizes
  <2>. QED BY <1>1, <2>1, SumNat DEF Before
<1>3. Before(g, Hands) = Due(g)
  BY DEF Before, Due, BiasLen
<1>4. Due(g) <= HandSize
  BY BiasAssumption DEF Due
<1>5. ASSUME ~Biased(g) PROVE Due(g) = 0
  <2>1. \A s \in 0 .. Hands - 1 : HandNeeds(bias_suits, g)[s] = 0
    <3>1. ASSUME NEW s \in Suit PROVE HandNeeds(bias_suits, g)[s] = 0
      <4>1. bias_suits[g][s] = -1
        BY <1>5 DEF Biased
      <4>. QED BY <4>1, Asked
    <3>. QED BY <3>1 DEF Suit, Hand
  <2>2. SumOf(HandNeeds(bias_suits, g), Hands) = 0
    BY <2>1, SumNone, Sizes
  <2>. QED BY <2>2 DEF Due, BiasLen
<1>6. Before(g, 0) = 0
  BY SumZero DEF Before
<1>. QED BY <1>1, <1>2, <1>3, <1>4, <1>5, <1>6, Sizes

\* What is asked of a suit is at most the suit.
LEMMA DrawnFacts ==
  ASSUME bias_suits \in Biases, NEW s \in Suit
  PROVE  /\ AllNatural(SuitNeeds(bias_suits, s), Hands)
         /\ Drawn(s) \in 0 .. HandSize
         /\ ShareBefore(s, 0) = 0 /\ ShareBefore(s, Hands) = Drawn(s)
<1>1. AllNatural(SuitNeeds(bias_suits, s), Hands)
  BY Asked DEF AllNatural, Hand, Suit
<1>2. ShareBefore(s, Hands) \in Nat
  <2>1. Hands \in Nat /\ Hands \in 0 .. Hands
    BY Sizes
  <2>. QED BY <1>1, <2>1, SumNat DEF ShareBefore
<1>3. ShareBefore(s, Hands) = Drawn(s)
  BY DEF ShareBefore, Drawn, BiasTot
<1>4. Drawn(s) <= HandSize
  BY BiasAssumption DEF Drawn
<1>5. ShareBefore(s, 0) = 0
  BY SumZero DEF ShareBefore
<1>. QED BY <1>1, <1>2, <1>3, <1>4, <1>5, Sizes

\* The places of a hand's suits follow one another.
LEMMA BeforeGrows ==
  ASSUME bias_suits \in Biases, NEW g \in Hand, NEW s \in Suit
  PROVE  /\ Before(g, s) \in Nat /\ Before(g, s + 1) \in Nat
         /\ Before(g, s + 1) = Before(g, s) + Need(bias_suits, g, s)
         /\ Before(g, s + 1) <= Due(g)
         /\ \A t \in Suit : s < t => Before(g, s + 1) <= Before(g, t)
<1> DEFINE f == HandNeeds(bias_suits, g)
<1>1. AllNatural(f, Hands) /\ Hands \in Nat /\ Hands \in 0 .. Hands
  BY DueFacts, Sizes
<1>2. s \in Nat /\ s \in 0 .. Hands /\ s + 1 \in 0 .. Hands
  BY Sizes DEF Suit, Hand
<1>3. SumOf(f, s + 1) = SumOf(f, s) + f[s] /\ f[s] = Need(bias_suits, g, s)
  BY <1>2, SumStep, Asked
<1> HIDE DEF f
<1>4. SumOf(f, s) \in Nat /\ SumOf(f, s + 1) \in Nat
  BY <1>1, <1>2, SumNat
<1>5. SumOf(f, s + 1) <= SumOf(f, Hands)
  BY <1>1, <1>2, SumGrows
<1>6. ASSUME NEW t \in Suit, s < t PROVE SumOf(f, s + 1) <= SumOf(f, t)
  <2>1. t \in 0 .. Hands /\ s + 1 <= t
    BY <1>2, <1>6, Sizes DEF Suit, Hand
  <2>. QED BY <1>1, <1>2, <2>1, SumGrows
<1>. QED BY <1>3, <1>4, <1>5, <1>6, DueFacts DEF Before, f

\* So do the hands' shares of a suit.
LEMMA ShareGrows ==
  ASSUME bias_suits \in Biases, NEW s \in Suit, NEW g \in Hand
  PROVE  /\ ShareBefore(s, g) \in Nat /\ ShareBefore(s, g + 1) \in Nat
         /\ ShareBefore(s, g + 1) = ShareBefore(s, g) + Need(bias_suits, g, s)
         /\ ShareBefore(s, g + 1) <= Drawn(s)
         /\ \A k \in Hand : g < k => ShareBefore(s, g + 1) <= ShareBefore(s, k)
<1> DEFINE f == SuitNeeds(bias_suits, s)
<1>1. AllNatural(f, Hands) /\ Hands \in Nat /\ Hands \in 0 .. Hands
  BY DrawnFacts, Sizes
<1>2. g \in Nat /\ g \in 0 .. Hands /\ g + 1 \in 0 .. Hands
  BY Sizes DEF Hand
<1>3. SumOf(f, g + 1) = SumOf(f, g) + f[g] /\ f[g] = Need(bias_suits, g, s)
  BY <1>2, SumStep, Asked
<1> HIDE DEF f
<1>4. SumOf(f, g) \in Nat /\ SumOf(f, g + 1) \in Nat
  BY <1>1, <1>2, SumNat
<1>5. SumOf(f, g + 1) <= SumOf(f, Hands)
  BY <1>1, <1>2, SumGrows
<1>6. ASSUME NEW k \in Hand, g < k PROVE SumOf(f, g + 1) <= SumOf(f, k)
  <2>1. k \in 0 .. Hands /\ g + 1 <= k
    BY <1>2, <1>6, Sizes DEF Hand
  <2>. QED BY <1>1, <1>2, <2>1, SumGrows
<1>. QED BY <1>3, <1>4, <1>5, <1>6, DrawnFacts DEF ShareBefore, f

\* Slot d is one of those a hand's cards of suit s go to.
Place(d, g, s) ==
    Begin(g) + Before(g, s) <= d /\ d < Begin(g) + Before(g, s + 1)

\* No slot is the place of two suits.
LEMMA OneSuit ==
  ASSUME bias_suits \in Biases, NEW g \in Hand, NEW s \in Suit, NEW t \in Suit,
         NEW d \in Int, Place(d, g, s), Place(d, g, t)
  PROVE  s = t
<1>1. /\ Before(g, s) \in Nat /\ Before(g, s + 1) \in Nat
      /\ Before(g, t) \in Nat /\ Before(g, t + 1) \in Nat
      /\ s < t => Before(g, s + 1) <= Before(g, t)
      /\ t < s => Before(g, t + 1) <= Before(g, s)
  BY BeforeGrows
<1>2. s \in Int /\ t \in Int /\ Begin(g) \in Int
  BY Begins DEF Suit, Hand
<1>. QED BY <1>1, <1>2 DEF Place

\* The cards a hand may still be given.
Fitting(g, left) ==
    SumOf([s \in Suit |-> IF bias_suits[g][s] = -1 THEN left[s] ELSE 0], Hands)

\* A hand that asks for something has less to spare than the marks say.
LEMMA ExcessSmall ==
  ASSUME bias_suits \in Biases, NEW g \in Hand, Biased(g), NEW left \in [Suit -> 0 .. HandSize]
  PROVE  /\ Excess(g, left) = Fitting(g, left) - (HandSize - Due(g))
         /\ Excess(g, left) \in Int /\ Excess(g, left) < N
         /\ Fitting(g, left) \in Nat
<1> DEFINE f == [s \in Suit |-> IF bias_suits[g][s] = -1 THEN left[s] ELSE 0]
<1>1. PICK z \in Suit : bias_suits[g][z] # -1
  BY DEF Biased
<1>2. z \in 0 .. Hands - 1 /\ f[z] = 0
  BY <1>1 DEF Suit, Hand
<1>3. \A s \in 0 .. Hands - 1 : f[s] \in 0 .. HandSize
  BY Sizes DEF Suit, Hand
<1> HIDE DEF f
<1>4. SumOf(f, Hands) <= Hands * HandSize - HandSize /\ SumOf(f, Hands) \in Nat
  BY <1>2, <1>3, SumBound, Sizes
<1>5. Fitting(g, left) = SumOf(f, Hands) /\ Excess(g, left) = SumOf(f, Hands) - (HandSize - Due(g))
  BY DEF Fitting, Excess, f, Due
<1>6. Fitting(g, left) \in Nat /\ Fitting(g, left) <= N - HandSize
  BY <1>4, <1>5 DEF N
<1>. QED BY <1>5, <1>6, DueFacts, Sizes

\* min_idx() finds a hand with least to spare.
LEMMA MinIdxFacts ==
  ASSUME NEW val \in [Hand -> Int]
  PROVE  MinIdx(val) \in Hand /\ \A k \in Hand : val[MinIdx(val)] <= val[k]
<1> DEFINE Best(g, n) == /\ g \in 0 .. n
                         /\ \A k \in 0 .. n : val[g] <= val[k] /\ (k < g => val[g] < val[k])
           S == {n \in Nat : n <= Hands - 1 => \E g \in Hand : Best(g, n)}
<1>0. \A k \in Hand : val[k] \in Int /\ k \in Nat /\ k <= Hands - 1
  BY Sizes DEF Hand
<1>1. 0 \in S
  <2>1. Best(0, 0) /\ 0 \in Hand
    BY <1>0, Sizes DEF Hand
  <2>. QED BY <2>1
<1>2. ASSUME NEW n \in Nat, n \in S PROVE n + 1 \in S
  <2>1. SUFFICES ASSUME n + 1 <= Hands - 1 PROVE \E g \in Hand : Best(g, n + 1)
    OBVIOUS
  <2>2. PICK g \in Hand : Best(g, n)
    BY <1>2, <2>1, Sizes
  <2>3. n + 1 \in Hand /\ \A k \in 0 .. n + 1 : k \in Hand /\ (k \in 0 .. n \/ k = n + 1)
    BY <2>1, Sizes DEF Hand
  <2>4. CASE val[n + 1] < val[g]
    <3>1. Best(n + 1, n + 1)
      BY <1>0, <2>2, <2>3, <2>4
    <3>. QED BY <2>3, <3>1
  <2>5. CASE ~(val[n + 1] < val[g])
    <3>1. Best(g, n + 1)
      BY <1>0, <2>2, <2>3, <2>5
    <3>. QED BY <3>1
  <2>. QED BY <2>4, <2>5
<1>3. Nat \subseteq S
  <2>. HIDE DEF S
  <2>. QED BY <1>1, <1>2, Induction
<1>4. PICK g \in Hand : Best(g, Hands - 1)
  <2>1. Hands - 1 \in Nat /\ Hands - 1 <= Hands - 1
    BY Sizes
  <2>. QED BY <1>3, <2>1
<1>5. /\ \A k \in Hand : val[g] <= val[k]
      /\ \A k \in Hand : k < g => val[g] < val[k]
  BY <1>4 DEF Hand
<1>. QED BY <1>5 DEF MinIdx

-----------------------------------------------------------------------------
(* The inductive invariant. *)

\* The type invariant.
TypeOK ==
    /\ bias_suits \in Biases
    /\ bias_suit_left \in [Suit -> 0 .. HandSize]
    /\ bias_hand_xs \in [Hand -> Int]
    /\ bias_src \in PackType /\ bias_pack \in PackType /\ small_pack \in PackType
    /\ small_pack_sz \in 0 .. N
    /\ pc \in {"loop", "choose", "pick", "fill", "failed", "abort", "dealt"}
    /\ i \in 0 .. Hands /\ h \in Hand
    /\ dst_pos \in 0 .. N /\ src_pos \in 0 .. N

\* The cards of a suit.
Of(cards, s) == {c \in cards : CardSuit(c) = s}

\* The slot after the last filled one of a hand.
Upto(g) ==
    IF pc = "choose" THEN Begin(g) + Before(g, i)
    ELSE IF pc = "dealt" \/ bias_hand_xs[g] = NO_XS THEN End(g)
    ELSE IF pc \in {"fill", "failed"} /\ g = h THEN dst_pos
    ELSE Begin(g) + Due(g)

\* A hand's cards fill its first slots.
HandsFilled == \A d \in Slot : d \in Cards(bias_pack) <=> d < Upto(HandOf(d))

\* First come the suits it asked for, each in its place; what comes after is of
\* suits it said nothing of.
SuitsPlaced ==
    \A d \in Cards(bias_pack) :
        /\ \A s \in Suit : Place(d, HandOf(d), s) => CardSuit(bias_pack[d]) = s
        /\ d >= Begin(HandOf(d)) + Due(HandOf(d)) =>
               bias_suits[HandOf(d)][CardSuit(bias_pack[d])] = -1

\* From each of the first n suits the cards asked for are gone.
SuitsDrawn(src, n) ==
    \A k \in Slot :
        IF HandOf(k) < n /\ k < Begin(HandOf(k)) + Drawn(HandOf(k))
        THEN src[k] = NoCard
        ELSE src[k] # NoCard /\ CardSuit(src[k]) = HandOf(k)

\* What a hand has to spare is worked out from what is left now.
Spare(g) == bias_hand_xs[g] = Excess(g, bias_suit_left)

\* While the suits are drawn from.
Choosing ==
    /\ src_pos = 0
    /\ SuitsDrawn(bias_src, i)
    /\ \A s \in Suit : bias_suit_left[s] = HandSize - Drawn(s)
    /\ \A g \in Hand : IF Biased(g) THEN Spare(g) ELSE bias_hand_xs[g] = BIG_XS
    /\ OnePlace(bias_pack, bias_src)

\* bias_suit_left counts the cards left.
LeftKnown ==
    \A s \in Suit : bias_suit_left[s] = Cardinality(Of(CardsIn(small_pack), s))

\* The hands that have been filled, and those whose turn has been.
TheFilled  == {g \in Hand : bias_hand_xs[g] = NO_XS}
BiasedTo(n) == {g \in Hand : Biased(g) /\ g < n}

\* bias_hand_xs tells the hands to be filled, those filled and the others apart.
Marks ==
    \A g \in Hand : IF Biased(g) THEN bias_hand_xs[g] < N \/ bias_hand_xs[g] = NO_XS
                    ELSE bias_hand_xs[g] = BIG_XS

\* The hand being filled was not yet, and what it had to spare when it was
\* picked is what it can draw from still, less the slots still empty.
TurnOf(g) ==
    /\ i \in Hand /\ Biased(i)
    /\ Biased(g) /\ bias_hand_xs[g] # NO_XS
    /\ Begin(g) + Due(g) <= dst_pos /\ dst_pos <= End(g)
    /\ bias_hand_xs[g] = Fitting(g, bias_suit_left) - (End(g) - dst_pos)

\* While the hands are filled.
FillInv ==
    /\ Cards(small_pack) = src_pos .. small_pack_sz - 1
    /\ OnePlace(bias_pack, small_pack)
    /\ LeftKnown
    /\ Marks
    /\ Cardinality(TheFilled) = Cardinality(BiasedTo(i))
    /\ pc = "pick" => \A g \in Hand : Biased(g) /\ bias_hand_xs[g] # NO_XS => Spare(g)
    /\ pc \in {"fill", "failed"} => TurnOf(h)
    /\ pc = "failed" => bias_hand_xs[h] < 0

\* A deal that is done has every card.
Dealt == {bias_pack[d] : d \in Slot} = Card

\* The inductive invariant.
IInv ==
    /\ TypeOK
    /\ pc = "choose" => Choosing
    /\ Filling => FillInv
    /\ pc = "dealt" => Dealt
    /\ pc \notin {"loop", "abort"} => HandsFilled /\ SuitsPlaced
    /\ pc = "abort" => Due(h) = HandSize

-----------------------------------------------------------------------------
(* A deal is begun. *)

\* The invariant holds at the start.
LEMMA InitInv == Init => IInv
<1> SUFFICES ASSUME Init PROVE IInv
  OBVIOUS
<1>1. NoPack \in PackType
  BY DEF NoPack, PackType
<1>2. 0 \in 0 .. N /\ 0 \in 0 .. Hands /\ 0 \in Hand /\ HandSize \in 0 .. HandSize /\ BIG_XS \in Int
  BY Sizes DEF Hand, BIG_XS
<1>3. TypeOK
  BY <1>1, <1>2 DEF Init, TypeOK
<1>. QED BY <1>3 DEF Init, IInv, Filling

\* What depends on the lengths asked for alone stays.
LEMMA SameAsked ==
  ASSUME bias_suits' = bias_suits
  PROVE  /\ \A g, s : Before(g, s)' = Before(g, s)
         /\ \A g : Due(g)' = Due(g)
         /\ \A s : Drawn(s)' = Drawn(s)
         /\ \A g : Biased(g)' <=> Biased(g)
         /\ \A d, g, s : Place(d, g, s)' <=> Place(d, g, s)
BY DEF Before, Due, Drawn, Biased, Place

\* The pack in order: nothing has been drawn.
LEMMA NewPack ==
  ASSUME NEW f, f = [k \in Slot |-> k]
  PROVE  f \in PackType /\ OnePlace(NoPack, f) /\ Cards(NoPack) = {} /\ NoPack \in PackType
<1>1. f \in PackType /\ NoPack \in PackType
  BY DEF PackType, NoPack, Card
<1>2. Cards(NoPack) = {}
  BY DEF Cards, NoPack
<1>3. Cards(f) = Slot
  BY BiasAssumption DEF Cards, Card
<1>4. CardsIn(NoPack) = {} /\ Apart(NoPack)
  BY <1>2 DEF CardsIn, Apart
<1>5. Apart(f)
  BY <1>3 DEF Apart
<1>6. CardsIn(f) = Card
  BY <1>3 DEF CardsIn, Card
<1>. QED BY <1>1, <1>2, <1>4, <1>5, <1>6 DEF OnePlace

\* re_init_bias_vars() begins a deal with nothing drawn.
LEMMA StartDealInv ==
  ASSUME IInv, StartDeal
  PROVE  IInv'
<1> USE DEF StartDeal
<1>1. bias_suits \in Biases /\ bias_suits' = bias_suits
  BY DEF IInv, TypeOK
<1>2. \A s \in Suit : bias_suit_left'[s] = HandSize - Drawn(s) /\ HandSize - Drawn(s) \in 0 .. HandSize
  <2>1. ASSUME NEW s \in Suit PROVE HandSize - Drawn(s) \in 0 .. HandSize
    BY <1>1, DrawnFacts, Sizes
  <2>2. \A s \in Suit : bias_suit_left'[s] = HandSize - Drawn(s)
    BY DEF Drawn
  <2>. QED BY <2>1, <2>2
<1>3. bias_suit_left' \in [Suit -> 0 .. HandSize]
  <2>1. bias_suit_left' = [s \in Suit |-> HandSize - Drawn(s)]
    BY DEF Drawn
  <2>. QED BY <1>2, <2>1
<1>4. ASSUME NEW g \in Hand
      PROVE  /\ bias_hand_xs'[g] \in Int
             /\ Biased(g) => bias_hand_xs'[g] = Excess(g, bias_suit_left')
             /\ ~Biased(g) => bias_hand_xs'[g] = BIG_XS
  <2>1. bias_hand_xs'[g] = IF Biased(g) THEN Excess(g, bias_suit_left') ELSE BIG_XS
    OBVIOUS
  <2>2. Biased(g) => Excess(g, bias_suit_left') \in Int
    BY <1>1, <1>3, ExcessSmall
  <2>. QED BY <2>1, <2>2 DEF BIG_XS
<1>5. bias_hand_xs' \in [Hand -> Int]
  <2>1. bias_hand_xs' = [g \in Hand |-> bias_hand_xs'[g]]
    OBVIOUS
  <2>. QED BY <1>4, <2>1
<1>6. bias_src' \in PackType /\ OnePlace(bias_pack', bias_src') /\ Cards(bias_pack') = {}
      /\ bias_pack' \in PackType /\ small_pack' \in PackType
  BY NewPack
<1>7. 0 \in 0 .. N /\ 0 \in 0 .. Hands /\ 0 \in Hand
  BY Sizes DEF Hand
<1>8. TypeOK'
  BY <1>1, <1>3, <1>5, <1>6, <1>7 DEF IInv, TypeOK
<1>9. Choosing'
  <2>1. SuitsDrawn(bias_src', 0)
    <3>1. ASSUME NEW k \in Slot
          PROVE  ~(HandOf(k) < 0) /\ bias_src'[k] # NoCard /\ CardSuit(bias_src'[k]) = HandOf(k)
      <4>1. HandOf(k) \in Nat
        BY SlotHand, Begins
      <4>2. bias_src'[k] = k /\ k # NoCard
        BY BiasAssumption DEF Card
      <4>. QED BY <4>1, <4>2 DEF CardSuit, HandOf
    <3>. QED BY <3>1 DEF SuitsDrawn
  <2>2. SuitsDrawn(bias_src, i)'
    BY <1>1, <2>1, SameAsked DEF SuitsDrawn
  <2>3. \A s \in Suit : bias_suit_left'[s] = HandSize - Drawn(s)'
    BY <1>1, <1>2, SameAsked
  <2>4. ASSUME NEW g \in Hand PROVE IF Biased(g)' THEN Spare(g)' ELSE bias_hand_xs'[g] = BIG_XS
    <3>1. Excess(g, bias_suit_left)' = Excess(g, bias_suit_left')
      BY <1>1 DEF Excess
    <3>2. Biased(g)' <=> Biased(g)
      BY <1>1, SameAsked
    <3>. QED BY <1>4, <3>1, <3>2 DEF Spare
  <2>. QED BY <1>6, <2>2, <2>3, <2>4 DEF Choosing
<1>10. HandsFilled'
  <2>1. ASSUME NEW d \in Slot PROVE ~(d < Upto(HandOf(d))')
    <3>1. Upto(HandOf(d))' = Begin(HandOf(d)) + 0
      BY <1>1, SameAsked, DueFacts, SlotHand DEF Upto
    <3>. QED BY <3>1, SlotHand, Begins
  <2>. QED BY <1>6, <2>1 DEF HandsFilled
<1>11. SuitsPlaced'
  BY <1>6 DEF SuitsPlaced
<1>. QED BY <1>8, <1>9, <1>10, <1>11 DEF IInv, Filling

-----------------------------------------------------------------------------
(* The cards asked for are drawn, suit by suit. *)

\* Where hand g's next cards go, and from where they are taken.
ToSlots   == {d \in Slot : d - HandPos(HandOf(d)) \in 0 .. Need(bias_suits, HandOf(d), i) - 1}
FromSlots == {k \in Slot : k - Begin(i) \in 0 .. Drawn(i) - 1}
From(d)   == SuitPos(HandOf(d)) + (d - HandPos(HandOf(d)))

\* They are in the hand, after the suits before, and each is taken from its own
\* place among the first of the suit.
LEMMA Drawing ==
  ASSUME bias_suits \in Biases, i \in Suit
  PROVE  /\ \A d \in Slot : d \in ToSlots <=> Place(d, HandOf(d), i)
         /\ \A d \in ToSlots : From(d) \in FromSlots
         /\ \A d, e \in ToSlots : From(d) = From(e) => d = e
         /\ \A k \in FromSlots : \E d \in ToSlots : From(d) = k
         /\ \A k \in Slot : k \in FromSlots <=> HandOf(k) = i /\ k < Begin(i) + Drawn(i)
<1>0. i \in Hand /\ Begin(i) \in Nat /\ Drawn(i) \in 0 .. HandSize /\ Drawn(i) \in Nat
      /\ End(i) = Begin(i) + HandSize /\ End(i) <= N
  BY Begins, DrawnFacts, Sizes DEF Suit
<1>1. ASSUME NEW g \in Hand
      PROVE  /\ HandPos(g) = Begin(g) + Before(g, i)
             /\ SuitPos(g) = Begin(i) + ShareBefore(i, g)
             /\ Begin(g) \in Nat /\ Before(g, i) \in Nat /\ ShareBefore(i, g) \in Nat
             /\ Need(bias_suits, g, i) \in Nat
             /\ Before(g, i + 1) = Before(g, i) + Need(bias_suits, g, i)
             /\ ShareBefore(i, g + 1) = ShareBefore(i, g) + Need(bias_suits, g, i)
             /\ Before(g, i + 1) <= Due(g) /\ ShareBefore(i, g + 1) <= Drawn(i)
             /\ Due(g) \in 0 .. HandSize /\ HandSize \in Nat
             /\ End(g) = Begin(g) + HandSize
  BY Begins, BeforeGrows, ShareGrows, Asked, DueFacts, Sizes DEF HandPos, SuitPos, Before, ShareBefore
<1>2. ASSUME NEW d \in Slot PROVE d \in ToSlots <=> Place(d, HandOf(d), i)
  <2> DEFINE g == HandOf(d)
  <2>1. g \in Hand /\ d \in Int
    BY SlotHand
  <2>2. d \in ToSlots <=> d - HandPos(g) \in 0 .. Need(bias_suits, g, i) - 1
    BY DEF ToSlots
  <2> HIDE DEF g
  <2>3. d - HandPos(g) \in 0 .. Need(bias_suits, g, i) - 1 <=> Place(d, g, i)
    BY <1>1, <2>1 DEF Place
  <2>. QED BY <2>2, <2>3 DEF g
<1>3. ASSUME NEW d \in ToSlots
      PROVE  /\ d \in Int /\ HandOf(d) \in Hand
             /\ From(d) \in Int
             /\ Begin(i) + ShareBefore(i, HandOf(d)) <= From(d)
             /\ From(d) < Begin(i) + ShareBefore(i, HandOf(d) + 1)
             /\ From(d) = SuitPos(HandOf(d)) + (d - HandPos(HandOf(d)))
  <2> DEFINE g == HandOf(d)
  <2>1. g \in Hand /\ d \in Int /\ d - HandPos(g) \in 0 .. Need(bias_suits, g, i) - 1
    BY SlotHand DEF ToSlots
  <2>2. From(d) = SuitPos(g) + (d - HandPos(g))
    BY DEF From
  <2> HIDE DEF g
  <2>. QED BY <1>0, <1>1, <2>1, <2>2 DEF g
<1>4. ASSUME NEW d \in ToSlots PROVE From(d) \in FromSlots
  <2>1. From(d) - Begin(i) \in 0 .. Drawn(i) - 1
    BY <1>0, <1>1, <1>3
  <2>2. From(d) \in Slot
    BY <1>0, <1>3, <2>1, Sizes DEF Slot
  <2>. QED BY <2>1, <2>2 DEF FromSlots
<1>5. ASSUME NEW d \in ToSlots, NEW e \in ToSlots, From(d) = From(e) PROVE d = e
  <2> DEFINE g == HandOf(d)
             k == HandOf(e)
  <2>1. g \in Hand /\ k \in Hand /\ g \in Int /\ k \in Int
    BY <1>3, Sizes DEF Hand
  <2>2. ~(g < k) /\ ~(k < g)
    <3>1. ShareBefore(i, k) < ShareBefore(i, g + 1) /\ ShareBefore(i, g) < ShareBefore(i, k + 1)
      <4>1. /\ Begin(i) + ShareBefore(i, k) <= From(e)
            /\ From(e) < Begin(i) + ShareBefore(i, k + 1)
            /\ Begin(i) + ShareBefore(i, g) <= From(d)
            /\ From(d) < Begin(i) + ShareBefore(i, g + 1)
            /\ From(d) \in Int /\ From(e) \in Int
        BY <1>3
      <4> HIDE DEF g, k
      <4>2. ShareBefore(i, g + 1) \in Nat /\ ShareBefore(i, k + 1) \in Nat
        BY <2>1, ShareGrows
      <4>. QED BY <1>0, <1>1, <1>5, <2>1, <4>1, <4>2
    <3> HIDE DEF g, k
    <3>2. /\ g < k => ShareBefore(i, g + 1) <= ShareBefore(i, k)
          /\ k < g => ShareBefore(i, k + 1) <= ShareBefore(i, g)
      BY <2>1, ShareGrows
    <3>3. ShareBefore(i, g + 1) \in Nat /\ ShareBefore(i, k + 1) \in Nat
          /\ ShareBefore(i, g) \in Nat /\ ShareBefore(i, k) \in Nat
      BY <2>1, ShareGrows
    <3>. QED BY <3>1, <3>2, <3>3
  <2>3. g = k
    BY <2>1, <2>2
  <2>4. /\ From(d) = SuitPos(g) + (d - HandPos(g))
        /\ From(e) = SuitPos(g) + (e - HandPos(g))
        /\ d \in Int /\ e \in Int
    BY <1>3, <2>3
  <2> HIDE DEF g, k
  <2>5. SuitPos(g) \in Int /\ HandPos(g) \in Int
    BY <1>0, <1>1, <2>1
  <2> DEFINE sp == SuitPos(g)
             hp == HandPos(g)
  <2>6. sp \in Int /\ hp \in Int /\ sp + (d - hp) = sp + (e - hp) /\ d \in Int /\ e \in Int
    BY <1>5, <2>4, <2>5
  <2> HIDE DEF sp, hp
  <2>. QED BY <2>6
<1>6. ASSUME NEW k \in FromSlots PROVE \E d \in ToSlots : From(d) = k
  <2> DEFINE x == k - Begin(i)
  <2>1. x \in Nat /\ x < ShareBefore(i, Hands) /\ k = Begin(i) + x /\ k \in Int
    <3>1. k \in Int /\ k - Begin(i) \in 0 .. Drawn(i) - 1
      BY SlotHand DEF FromSlots
    <3>2. ShareBefore(i, Hands) = Drawn(i)
      BY DrawnFacts
    <3>. QED BY <1>0, <3>1, <3>2
  <2> HIDE DEF x
  <2>2. PICK g \in 0 .. Hands - 1 : ShareBefore(i, g) <= x /\ x < ShareBefore(i, g + 1)
    <3>1. AllNatural(SuitNeeds(bias_suits, i), Hands) /\ Hands \in Nat
      BY DrawnFacts, Sizes
    <3>. QED BY <2>1, <3>1, SumLocate DEF ShareBefore
  <2>3. g \in Hand
    BY DEF Hand
  <2> DEFINE d == HandPos(g) + (x - ShareBefore(i, g))
  <2>4. d \in Int /\ Begin(g) <= d /\ d < End(g) /\ Place(d, g, i)
        /\ SuitPos(g) + (d - HandPos(g)) = k
    BY <1>0, <1>1, <2>1, <2>2, <2>3 DEF Place
  <2> HIDE DEF d
  <2>5. d \in Slot /\ HandOf(d) = g
    BY <2>3, <2>4, InHand
  <2>6. d \in ToSlots
    BY <1>2, <2>4, <2>5
  <2>7. From(d) = k
    BY <2>4, <2>5 DEF From
  <2>. QED BY <2>6, <2>7
<1>7. ASSUME NEW k \in Slot PROVE k \in FromSlots <=> HandOf(k) = i /\ k < Begin(i) + Drawn(i)
  <2>1. k \in Int /\ Begin(HandOf(k)) <= k
    BY SlotHand
  <2>2. ASSUME k \in FromSlots PROVE HandOf(k) = i /\ k < Begin(i) + Drawn(i)
    <3>1. Begin(i) <= k /\ k < Begin(i) + Drawn(i)
      BY <1>0, <2>1, <2>2 DEF FromSlots
    <3>2. k < End(i)
      BY <1>0, <2>1, <3>1, Sizes
    <3>. QED BY <1>0, <2>1, <3>1, <3>2, InHand
  <2>3. ASSUME HandOf(k) = i, k < Begin(i) + Drawn(i) PROVE k \in FromSlots
    <3>1. Begin(i) <= k
      BY <2>1, <2>3
    <3>2. k - Begin(i) \in 0 .. Drawn(i) - 1
      BY <1>0, <2>1, <2>3, <3>1
    <3>. QED BY <3>2 DEF FromSlots
  <2>. QED BY <2>2, <2>3
<1>. QED BY <1>2, <1>4, <1>5, <1>6, <1>7

\* The shuffled suit is as good as the one in order.
LEMMA SuitShuffled ==
  ASSUME IInv, pc = "choose", i \in Suit,
         NEW src, src \in (IF BiasTot(bias_suits, i) > 0
                           THEN Shuffles(bias_src, Begin(i), End(i)) ELSE {bias_src})
  PROVE  src \in PackType /\ OnePlace(bias_pack, src) /\ SuitsDrawn(src, i)
<1>1. bias_src \in PackType /\ OnePlace(bias_pack, bias_src) /\ SuitsDrawn(bias_src, i)
  BY DEF IInv, TypeOK, Choosing
<1>2. CASE ~(BiasTot(bias_suits, i) > 0)
  BY <1>1, <1>2
<1>3. CASE BiasTot(bias_suits, i) > 0
  <2>1. src \in Shuffles(bias_src, Begin(i), End(i))
    BY <1>3
  <2>2. i \in Hand /\ i \in Int /\ Begin(i) \in Int /\ End(i) \in Int
    BY Begins DEF Suit
  <2>3. ASSUME NEW k \in Begin(i) .. End(i) - 1
        PROVE  k \in Slot /\ HandOf(k) = i /\ bias_src[k] # NoCard /\ CardSuit(bias_src[k]) = i
    <3>1. k \in Int /\ Begin(i) <= k /\ k < End(i)
      BY <2>2
    <3>2. k \in Slot /\ HandOf(k) = i
      BY <2>2, <3>1, InHand
    <3>3. ~(HandOf(k) < i)
      BY <2>2, <3>2
    <3>. QED BY <1>1, <3>2, <3>3 DEF SuitsDrawn
  <2>4. Begin(i) .. End(i) - 1 \subseteq Cards(bias_src)
    BY <2>3 DEF Cards
  <2>5. /\ src \in PackType /\ Cards(src) = Cards(bias_src) /\ CardsIn(src) = CardsIn(bias_src)
        /\ Apart(bias_src) => Apart(src)
        /\ \A k \in Slot : k \notin Begin(i) .. End(i) - 1 => src[k] = bias_src[k]
        /\ \A k \in Begin(i) .. End(i) - 1 : \E j \in Begin(i) .. End(i) - 1 : src[k] = bias_src[j]
    BY <1>1, <2>1, <2>2, <2>4, Shuffled
  <2>6. OnePlace(bias_pack, src)
    BY <1>1, <2>5 DEF OnePlace
  <2>7. ASSUME NEW k \in Slot
        PROVE  IF HandOf(k) < i /\ k < Begin(HandOf(k)) + Drawn(HandOf(k))
               THEN src[k] = NoCard
               ELSE src[k] # NoCard /\ CardSuit(src[k]) = HandOf(k)
    <3>1. CASE k \in Begin(i) .. End(i) - 1
      <4>1. PICK j \in Begin(i) .. End(i) - 1 : src[k] = bias_src[j]
        BY <2>5, <3>1
      <4>2. src[k] # NoCard /\ CardSuit(src[k]) = i /\ HandOf(k) = i
        BY <2>3, <3>1, <4>1
      <4>. QED BY <2>2, <4>2
    <3>2. CASE k \notin Begin(i) .. End(i) - 1
      <4>1. src[k] = bias_src[k]
        BY <2>5, <3>2
      <4>. QED BY <1>1, <4>1 DEF SuitsDrawn
    <3>. QED BY <3>1, <3>2
  <2>8. SuitsDrawn(src, i)
    BY <2>7 DEF SuitsDrawn
  <2>. QED BY <2>5, <2>6, <2>8
<1>. QED BY <1>2, <1>3

\* choose_bias_cards() puts a suit's cards after those of the suits before.
LEMMA ChooseSuitInv ==
  ASSUME IInv, ChooseSuit
  PROVE  IInv'
<1>1. /\ pc = "choose" /\ i \in Suit /\ i' = i + 1
      /\ UNCHANGED <<biasVars, small_pack, small_pack_sz, pc, h, dst_pos, src_pos>>
  BY DEF ChooseSuit
<1>2. bias_suits' = bias_suits /\ bias_suit_left' = bias_suit_left /\ bias_hand_xs' = bias_hand_xs
      /\ small_pack' = small_pack /\ small_pack_sz' = small_pack_sz /\ pc' = pc /\ h' = h
      /\ dst_pos' = dst_pos /\ src_pos' = src_pos
  BY <1>1 DEF biasVars
<1>3. PICK src \in (IF BiasTot(bias_suits, i) > 0
                    THEN Shuffles(bias_src, Begin(i), End(i)) ELSE {bias_src}) :
        /\ bias_pack' =
              [d \in Slot |->
                  LET g == d \div HandSize
                  IN  IF d - HandPos(g) \in 0 .. Need(bias_suits, g, i) - 1
                      THEN src[SuitPos(g) + (d - HandPos(g))]
                      ELSE bias_pack[d]]
        /\ bias_src' = Taken(src)
  BY DEF ChooseSuit
<1>4. src \in PackType /\ OnePlace(bias_pack, src) /\ SuitsDrawn(src, i)
  BY <1>1, <1>3, SuitShuffled
<1>5. /\ bias_suits \in Biases /\ bias_pack \in PackType /\ HandsFilled /\ SuitsPlaced
      /\ TypeOK /\ Choosing
  BY <1>1 DEF IInv, TypeOK
<1>6. /\ \A d \in Slot : d \in ToSlots <=> Place(d, HandOf(d), i)
      /\ \A d \in ToSlots : From(d) \in FromSlots
      /\ \A d, e \in ToSlots : From(d) = From(e) => d = e
      /\ \A k \in FromSlots : \E d \in ToSlots : From(d) = k
      /\ \A k \in Slot : k \in FromSlots <=> HandOf(k) = i /\ k < Begin(i) + Drawn(i)
  BY <1>1, <1>5, Drawing
<1>7. ToSlots \subseteq Slot /\ FromSlots \subseteq Slot
  BY DEF ToSlots, FromSlots
<1>8. FromSlots \subseteq Cards(src)
  <2>1. ASSUME NEW k \in FromSlots PROVE k \in Slot /\ src[k] # NoCard
    <3>1. k \in Slot /\ HandOf(k) = i /\ ~(i < i)
      BY <1>1, <1>6, <1>7 DEF Suit, Hand
    <3>. QED BY <1>4, <3>1 DEF SuitsDrawn
  <2>. QED BY <2>1 DEF Cards
<1>9. ASSUME NEW d \in Slot
      PROVE  /\ HandOf(d) \in Hand /\ d \in Int
             /\ d \in Cards(bias_pack) <=> d < Begin(HandOf(d)) + Before(HandOf(d), i)
             /\ d \in ToSlots <=> /\ Begin(HandOf(d)) + Before(HandOf(d), i) <= d
                                  /\ d < Begin(HandOf(d)) + Before(HandOf(d), i + 1)
  <2>1. d \in Cards(bias_pack) <=> d < Upto(HandOf(d))
    BY <1>5 DEF HandsFilled
  <2>2. Upto(HandOf(d)) = Begin(HandOf(d)) + Before(HandOf(d), i)
    BY <1>1 DEF Upto
  <2>. QED BY <1>6, <2>1, <2>2, SlotHand DEF Place
<1>10. ToSlots \cap Cards(bias_pack) = {}
  <2>1. ASSUME NEW d \in Slot, d \in ToSlots, d \in Cards(bias_pack) PROVE FALSE
    <3> DEFINE x == Begin(HandOf(d)) + Before(HandOf(d), i)
    <3>1. x <= d /\ d < x /\ d \in Int
      BY <1>9, <2>1
    <3>2. x \in Int
      BY <1>1, <1>5, <1>9, Begins, BeforeGrows
    <3> HIDE DEF x
    <3>. QED BY <3>1, <3>2
  <2>. QED BY <1>7, <2>1
<1> DEFINE m == [d \in ToSlots |-> From(d)]
<1>11. /\ m \in [ToSlots -> FromSlots]
       /\ \A d, e \in ToSlots : m[d] = m[e] => d = e
       /\ \A k \in FromSlots : \E d \in ToSlots : m[d] = k
  BY <1>6
<1>12. bias_pack' = [d \in Slot |-> IF d \in ToSlots THEN src[m[d]] ELSE bias_pack[d]]
  <2>1. ASSUME NEW d \in Slot
        PROVE  (LET g == d \div HandSize
                IN  IF d - HandPos(g) \in 0 .. Need(bias_suits, g, i) - 1
                    THEN src[SuitPos(g) + (d - HandPos(g))]
                    ELSE bias_pack[d])
               = IF d \in ToSlots THEN src[m[d]] ELSE bias_pack[d]
    BY DEF ToSlots, From, HandOf
  <2> HIDE DEF m
  <2>. QED BY <1>3, <2>1
<1>13. bias_src' = [k \in Slot |-> IF k \in FromSlots THEN NoCard ELSE src[k]]
  BY <1>3 DEF Taken, FromSlots, Drawn
<1>14. /\ bias_pack' \in PackType /\ bias_src' \in PackType
       /\ Cards(bias_pack') = Cards(bias_pack) \cup ToSlots
       /\ OnePlace(bias_pack', bias_src')
  <2> HIDE DEF m
  <2>1. PICK a2, b2 : a2 = bias_pack' /\ b2 = bias_src'
    OBVIOUS
  <2>2. CanMove(bias_pack, src, ToSlots, FromSlots, m)
    BY <1>4, <1>5, <1>7, <1>8, <1>10, <1>11 DEF CanMove
  <2>4. a2 = Given(bias_pack, src, ToSlots, m)
    BY <1>12, <2>1 DEF Given
  <2>5. b2 = Without(src, FromSlots)
    BY <1>13, <2>1 DEF Without
  <2>6. /\ a2 \in PackType /\ LeftOver(src, b2, FromSlots)
        /\ Cards(a2) = Cards(bias_pack) \cup ToSlots
        /\ OnePlace(a2, b2)
    BY <2>2, <2>4, <2>5, Moved
  <2>. QED BY <2>1, <2>6 DEF LeftOver
<1>15. i' \in 0 .. Hands /\ i \in Nat /\ i < Hands
  BY <1>1, Sizes DEF Suit, Hand
<1>16. TypeOK'
  BY <1>2, <1>5, <1>14, <1>15 DEF TypeOK
<1>17. SuitsDrawn(bias_src', i + 1)
  <2>1. ASSUME NEW k \in Slot
        PROVE  IF HandOf(k) < i + 1 /\ k < Begin(HandOf(k)) + Drawn(HandOf(k))
               THEN bias_src'[k] = NoCard
               ELSE bias_src'[k] # NoCard /\ CardSuit(bias_src'[k]) = HandOf(k)
    <3>1. HandOf(k) \in Nat
      BY SlotHand, Begins
    <3>2. bias_src'[k] = IF k \in FromSlots THEN NoCard ELSE src[k]
      BY <1>13
    <3>3. k \in FromSlots <=> HandOf(k) = i /\ k < Begin(i) + Drawn(i)
      BY <1>6
    <3>4. IF HandOf(k) < i /\ k < Begin(HandOf(k)) + Drawn(HandOf(k))
          THEN src[k] = NoCard
          ELSE src[k] # NoCard /\ CardSuit(src[k]) = HandOf(k)
      BY <1>4 DEF SuitsDrawn
    <3>5. CASE HandOf(k) = i
      BY <1>15, <3>2, <3>3, <3>4, <3>5
    <3>6. CASE HandOf(k) # i
      <4>1. HandOf(k) < i + 1 <=> HandOf(k) < i
        BY <1>15, <3>1, <3>6
      <4>. QED BY <3>2, <3>3, <3>4, <3>6, <4>1
    <3>. QED BY <3>5, <3>6
  <2>. QED BY <2>1 DEF SuitsDrawn
<1>18. Choosing'
  <2>1. SuitsDrawn(bias_src, i)'
    BY <1>1, <1>2, <1>17, SameAsked DEF SuitsDrawn
  <2>2. \A s \in Suit : bias_suit_left'[s] = HandSize - Drawn(s)'
    BY <1>2, <1>5, SameAsked DEF Choosing
  <2>3. ASSUME NEW g \in Hand PROVE IF Biased(g)' THEN Spare(g)' ELSE bias_hand_xs'[g] = BIG_XS
    <3>1. Spare(g)' <=> Spare(g)
      BY <1>2 DEF Spare, Excess
    <3>2. Biased(g)' <=> Biased(g)
      BY <1>2, SameAsked
    <3>. QED BY <1>2, <1>5, <3>1, <3>2 DEF Choosing
  <2>. QED BY <1>2, <1>5, <1>14, <2>1, <2>2, <2>3 DEF Choosing
<1>19. HandsFilled'
  <2>1. ASSUME NEW d \in Slot PROVE d \in Cards(bias_pack') <=> d < Upto(HandOf(d))'
    <3> DEFINE g == HandOf(d)
    <3>1. Upto(g)' = Begin(g) + Before(g, i + 1)
      BY <1>1, <1>2, SameAsked DEF Upto
    <3>2. d \in Cards(bias_pack') <=> d \in Cards(bias_pack) \/ d \in ToSlots
      BY <1>14
    <3>3. Begin(g) \in Nat /\ Before(g, i) \in Nat /\ Before(g, i + 1) \in Nat
          /\ Before(g, i) <= Before(g, i + 1)
      <4>1. g \in Hand
        BY <1>9
      <4> HIDE DEF g
      <4>2. /\ Begin(g) \in Nat /\ Before(g, i) \in Nat /\ Before(g, i + 1) \in Nat
            /\ Need(bias_suits, g, i) \in Nat
            /\ Before(g, i + 1) = Before(g, i) + Need(bias_suits, g, i)
        BY <1>1, <1>5, <4>1, Begins, BeforeGrows, Asked
      <4>. QED BY <4>2
    <3>4. /\ d \in Int
          /\ d \in Cards(bias_pack) <=> d < Begin(g) + Before(g, i)
          /\ d \in ToSlots <=> Begin(g) + Before(g, i) <= d /\ d < Begin(g) + Before(g, i + 1)
      BY <1>9
    <3> HIDE DEF g
    <3>5. d \in Cards(bias_pack') <=> d < Upto(g)'
      BY <3>1, <3>2, <3>3, <3>4
    <3>. QED BY <3>5 DEF g
  <2>. QED BY <2>1 DEF HandsFilled
<1>20. SuitsPlaced'
  <2>1. ASSUME NEW d \in Cards(bias_pack')
        PROVE  /\ \A s \in Suit : Place(d, HandOf(d), s)' => CardSuit(bias_pack'[d]) = s
               /\ d >= Begin(HandOf(d)) + Due(HandOf(d))' =>
                      bias_suits'[HandOf(d)][CardSuit(bias_pack'[d])] = -1
    <3> DEFINE g == HandOf(d)
    <3>1. d \in Slot /\ g \in Hand /\ d \in Int
      BY <1>9 DEF Cards
    <3>2. CASE d \in ToSlots
      <4>1. bias_pack'[d] = src[From(d)] /\ From(d) \in FromSlots
        BY <1>6, <1>12, <3>1, <3>2
      <4>2. CardSuit(bias_pack'[d]) = i
        <5>1. From(d) \in Slot /\ HandOf(From(d)) = i /\ ~(i < i)
          BY <1>6, <1>7, <1>15, <4>1
        <5>. QED BY <1>4, <4>1, <5>1 DEF SuitsDrawn
      <4>3. Place(d, g, i)
        BY <1>6, <3>1, <3>2
      <4> HIDE DEF g
      <4>4. ASSUME NEW s \in Suit, Place(d, g, s)' PROVE s = i
        <5>1. Place(d, g, s)
          BY <1>2, <4>4, SameAsked
        <5>. QED BY <1>1, <1>5, <3>1, <4>3, <5>1, OneSuit
      <4>5. ~(d >= Begin(g) + Due(g))
        <5>1. /\ d < Begin(g) + Before(g, i + 1) /\ Before(g, i + 1) <= Due(g)
              /\ Before(g, i + 1) \in Nat /\ Begin(g) \in Nat /\ Due(g) \in Nat
          BY <1>1, <1>5, <3>1, <4>3, BeforeGrows, Begins, DueFacts, Sizes DEF Place
        <5>. QED BY <3>1, <5>1
      <4>6. Due(g)' = Due(g)
        BY <1>2, SameAsked
      <4>. QED BY <4>2, <4>4, <4>5, <4>6 DEF g
    <3>3. CASE d \notin ToSlots
      <4>1. d \in Cards(bias_pack) /\ bias_pack'[d] = bias_pack[d]
        BY <1>12, <1>14, <3>1, <3>3
      <4>2. /\ \A s \in Suit : Place(d, g, s) => CardSuit(bias_pack[d]) = s
            /\ d >= Begin(g) + Due(g) => bias_suits[g][CardSuit(bias_pack[d])] = -1
        BY <1>5, <4>1 DEF SuitsPlaced
      <4>. QED BY <1>2, <4>1, <4>2, SameAsked
    <3>. QED BY <3>2, <3>3
  <2>. QED BY <2>1 DEF SuitsPlaced
<1>. QED BY <1>1, <1>2, <1>16, <1>18, <1>19, <1>20 DEF IInv, Filling

\* A step that puts no card in a slot leaves the suits where they are.
LEMMA SamePlaced ==
  ASSUME bias_suits' = bias_suits, bias_pack' = bias_pack, SuitsPlaced
  PROVE  SuitsPlaced'
<1>1. ASSUME NEW d \in Cards(bias_pack')
      PROVE  /\ \A s \in Suit : Place(d, HandOf(d), s)' => CardSuit(bias_pack'[d]) = s
             /\ d >= Begin(HandOf(d)) + Due(HandOf(d))' =>
                    bias_suits'[HandOf(d)][CardSuit(bias_pack'[d])] = -1
  BY <1>1, SameAsked DEF SuitsPlaced
<1>. QED BY <1>1 DEF SuitsPlaced

\* compress_pack(), then Shuffle().
LEMMA Repacked ==
  ASSUME NEW f \in PackType, NEW n, n = Cardinality(Cards(f)), NEW f2 \in Shuffles(Compress(f), 0, n)
  PROVE  /\ n \in 0 .. N /\ f2 \in PackType
         /\ Cards(f2) = 0 .. n - 1
         /\ CardsIn(f2) = CardsIn(f)
         /\ Apart(f) => Apart(f2)
<1>1. PICK f1 : f1 = Compress(f)
  OBVIOUS
<1>2. /\ f1 \in PackType /\ n \in 0 .. N /\ Cards(f1) = 0 .. n - 1
      /\ CardsIn(f1) = CardsIn(f) /\ (Apart(f) => Apart(f1))
  BY <1>1, Compressed
<1>3. 0 \in Int /\ n \in Int /\ 0 .. n - 1 \subseteq Cards(f1) /\ f2 \in Shuffles(f1, 0, n)
  BY <1>1, <1>2, Sizes
<1>4. f2 \in PackType /\ Cards(f2) = Cards(f1) /\ CardsIn(f2) = CardsIn(f1) /\ (Apart(f1) => Apart(f2))
  BY <1>2, <1>3, Shuffled
<1>. QED BY <1>2, <1>4

\* When all suits have been drawn from, the cards left of each are those after
\* the ones drawn.
LEMMA RestCounted ==
  ASSUME IInv, pc = "choose", i \notin Suit, NEW s \in Suit
  PROVE  Cardinality(Of(CardsIn(bias_src), s)) = HandSize - Drawn(s)
<1>1. bias_suits \in Biases /\ bias_src \in PackType /\ SuitsDrawn(bias_src, i) /\ OnePlace(bias_pack, bias_src)
      /\ i = Hands
  <2>1. i \in 0 .. Hands
    BY DEF IInv, TypeOK
  <2>2. i = Hands
    BY <2>1, Sizes DEF Suit, Hand
  <2>. QED BY <2>2 DEF IInv, TypeOK, Choosing
<1>2. s \in Hand /\ Begin(s) \in Nat /\ End(s) = Begin(s) + HandSize /\ End(s) <= N
      /\ Drawn(s) \in 0 .. HandSize /\ HandSize \in Nat
  BY <1>1, Begins, DrawnFacts, Sizes DEF Suit
<1> DEFINE S == Begin(s) + Drawn(s) .. End(s) - 1
           T == Of(CardsIn(bias_src), s)
<1>3. ASSUME NEW k \in Slot
      PROVE  IF k < Begin(HandOf(k)) + Drawn(HandOf(k))
             THEN bias_src[k] = NoCard
             ELSE bias_src[k] # NoCard /\ CardSuit(bias_src[k]) = HandOf(k)
  <2>1. HandOf(k) < i
    BY <1>1, SlotHand, Begins
  <2>. QED BY <1>1, <2>1 DEF SuitsDrawn
<1>4. ASSUME NEW k \in S PROVE k \in Cards(bias_src) /\ CardSuit(bias_src[k]) = s
  <2>1. k \in Int /\ Begin(s) <= k /\ k < End(s) /\ ~(k < Begin(s) + Drawn(s))
    BY <1>2
  <2>2. k \in Slot /\ HandOf(k) = s
    BY <1>2, <2>1, InHand
  <2>. QED BY <1>3, <2>1, <2>2 DEF Cards
<1>5. ASSUME NEW k \in Cards(bias_src), CardSuit(bias_src[k]) = s PROVE k \in S
  <2>1. k \in Slot /\ bias_src[k] # NoCard
    BY DEF Cards
  <2>2. ~(k < Begin(HandOf(k)) + Drawn(HandOf(k))) /\ HandOf(k) = s
    BY <1>3, <1>5, <2>1
  <2>3. k \in Int /\ k < End(s)
    BY <2>1, <2>2, SlotHand
  <2>. QED BY <1>2, <2>2, <2>3
<1>6. S \subseteq Cards(bias_src) /\ \A c : c \in T <=> \E k \in S : bias_src[k] = c
  BY <1>4, <1>5 DEF Of, CardsIn
<1>7. Cardinality(T) = Cardinality(S)
  <2> HIDE DEF S, T
  <2>. QED BY <1>1, <1>6, PlacesCount DEF OnePlace
<1>8. Cardinality(S) = HandSize - Drawn(s)
  <2>1. PICK lo \in Int, hi \in Int : lo = Begin(s) + Drawn(s) /\ hi = End(s) - 1
    BY <1>2
  <2>2. Cardinality(lo .. hi) = IF lo > hi THEN 0 ELSE hi - lo + 1
    BY FS_Interval
  <2>. QED BY <1>2, <2>1, <2>2
<1>. QED BY <1>7, <1>8

\* The cards not drawn become small_pack, bias_suit_left of each suit.
LEMMA ShuffleRestInv ==
  ASSUME IInv, ShuffleRest
  PROVE  IInv'
<1>1. /\ pc = "choose" /\ i \notin Suit /\ pc' = "pick" /\ i' = 0
      /\ small_pack_sz' = Cardinality(Cards(bias_src))
      /\ small_pack' \in Shuffles(Compress(bias_src), 0, small_pack_sz')
      /\ bias_suits' = bias_suits /\ bias_suit_left' = bias_suit_left /\ bias_hand_xs' = bias_hand_xs
      /\ bias_src' = bias_src /\ bias_pack' = bias_pack
      /\ h' = h /\ dst_pos' = dst_pos /\ src_pos' = src_pos
  BY DEF ShuffleRest, biasVars
<1>2. TypeOK /\ Choosing /\ HandsFilled /\ SuitsPlaced
  BY <1>1 DEF IInv
<1>3. bias_suits \in Biases /\ i = Hands /\ bias_suit_left \in [Suit -> 0 .. HandSize]
      /\ bias_src \in PackType /\ bias_hand_xs \in [Hand -> Int]
  <2>1. i \in 0 .. Hands
    BY <1>2 DEF TypeOK
  <2>2. i = Hands
    BY <1>1, <2>1, Sizes DEF Suit, Hand
  <2>. QED BY <1>2, <2>2 DEF TypeOK
<1>4. /\ small_pack_sz' \in 0 .. N /\ small_pack' \in PackType
      /\ Cards(small_pack') = 0 .. small_pack_sz' - 1
      /\ CardsIn(small_pack') = CardsIn(bias_src)
      /\ Apart(bias_src) => Apart(small_pack')
  <2>1. PICK n, f2 : n = small_pack_sz' /\ f2 = small_pack'
    OBVIOUS
  <2>2. /\ n \in 0 .. N /\ f2 \in PackType
        /\ Cards(f2) = 0 .. n - 1
        /\ CardsIn(f2) = CardsIn(bias_src)
        /\ Apart(bias_src) => Apart(f2)
    BY <1>1, <1>3, <2>1, Repacked
  <2>. QED BY <2>1, <2>2
<1>5. TypeOK'
  <2>1. 0 \in 0 .. Hands
    BY Sizes
  <2>. QED BY <1>1, <1>2, <1>4, <2>1 DEF TypeOK
<1>6. OnePlace(bias_pack', small_pack')
  BY <1>1, <1>2, <1>4 DEF Choosing, OnePlace
<1>7. LeftKnown'
  <2>1. ASSUME NEW s \in Suit PROVE bias_suit_left'[s] = Cardinality(Of(CardsIn(small_pack'), s))
    <3>1. bias_suit_left[s] = HandSize - Drawn(s)
      BY <1>2 DEF Choosing
    <3>. QED BY <1>1, <1>4, <3>1, RestCounted
  <2>. QED BY <2>1 DEF LeftKnown
<1>8. ASSUME NEW g \in Hand
      PROVE  /\ bias_hand_xs[g] # NO_XS
             /\ Biased(g) => bias_hand_xs[g] < N /\ Spare(g)
             /\ ~Biased(g) => bias_hand_xs[g] = BIG_XS
  <2>1. IF Biased(g) THEN Spare(g) ELSE bias_hand_xs[g] = BIG_XS
    BY <1>2 DEF Choosing
  <2>2. Biased(g) => Excess(g, bias_suit_left) < N /\ Excess(g, bias_suit_left) \in Int
    BY <1>3, ExcessSmall
  <2>. QED BY <2>1, <2>2, Sizes DEF Spare, BIG_XS, NO_XS
<1>9. Marks'
  <2>1. ASSUME NEW g \in Hand
        PROVE  IF Biased(g)' THEN bias_hand_xs'[g] < N \/ bias_hand_xs'[g] = NO_XS
                             ELSE bias_hand_xs'[g] = BIG_XS
    BY <1>1, <1>8, SameAsked
  <2>. QED BY <2>1 DEF Marks
<1>10. Cardinality(TheFilled)' = Cardinality(BiasedTo(i))'
  <2>1. TheFilled' = {}
    BY <1>1, <1>8 DEF TheFilled
  <2>2. BiasedTo(i)' = {}
    BY <1>1, Begins DEF BiasedTo
  <2>. QED BY <2>1, <2>2
<1>11. \A g \in Hand : Spare(g)'
                        \/ ~(Biased(g)' /\ bias_hand_xs'[g] # NO_XS)
  <2>1. ASSUME NEW g \in Hand, Biased(g)' PROVE Spare(g)'
    <3>1. Biased(g)
      BY <1>1, <2>1, SameAsked
    <3>2. Spare(g)' <=> Spare(g)
      BY <1>1 DEF Spare, Excess
    <3>. QED BY <1>8, <3>1, <3>2
  <2>. QED BY <2>1
<1>12. FillInv'
  <2>1. src_pos' = 0
    BY <1>1, <1>2 DEF Choosing
  <2>2. Cards(small_pack') = src_pos' .. small_pack_sz' - 1
    BY <1>4, <2>1
  <2>3. (pc = "pick" => \A g \in Hand : Biased(g) /\ bias_hand_xs[g] # NO_XS => Spare(g))'
    BY <1>11
  <2>. QED BY <1>1, <1>6, <1>7, <1>9, <1>10, <2>2, <2>3 DEF FillInv
<1>13. HandsFilled'
  <2>1. ASSUME NEW d \in Slot PROVE d \in Cards(bias_pack') <=> d < Upto(HandOf(d))'
    <3>1. HandOf(d) \in Hand
      BY SlotHand
    <3>2. Upto(HandOf(d))' = Begin(HandOf(d)) + Due(HandOf(d))
      BY <1>1, <1>8, <3>1, SameAsked DEF Upto
    <3>3. Upto(HandOf(d)) = Begin(HandOf(d)) + Before(HandOf(d), Hands)
      BY <1>1, <1>3 DEF Upto
    <3>. QED BY <1>1, <1>2, <1>3, <3>1, <3>2, <3>3, DueFacts DEF HandsFilled
  <2>. QED BY <2>1 DEF HandsFilled
<1>14. SuitsPlaced'
  BY <1>1, <1>2, SamePlaced
<1>. QED BY <1>1, <1>5, <1>12, <1>13, <1>14 DEF IInv, Filling

-----------------------------------------------------------------------------
(* The hands that ask for something are filled, one in each of their turns. *)

\* A step that neither fills a slot nor moves an end keeps the hands filled.
LEMMA SameFilled ==
  ASSUME bias_pack' = bias_pack, HandsFilled, \A g \in Hand : Upto(g)' = Upto(g)
  PROVE  HandsFilled'
<1>1. ASSUME NEW d \in Slot PROVE d \in Cards(bias_pack') <=> d < Upto(HandOf(d))'
  BY SlotHand DEF HandsFilled
<1>. QED BY <1>1 DEF HandsFilled

\* The sums depend on bias_suits and bias_suit_left alone.
LEMMA SameSums ==
  ASSUME bias_suits' = bias_suits, bias_suit_left' = bias_suit_left
  PROVE  /\ \A g : Excess(g, bias_suit_left)' = Excess(g, bias_suit_left)
         /\ \A g : Fitting(g, bias_suit_left)' = Fitting(g, bias_suit_left)
BY DEF Excess, Fitting

\* The hands whose turn has been.
LEMMA Turns ==
  ASSUME NEW n \in Hand
  PROVE  /\ IsFiniteSet(Hand) /\ IsFiniteSet(BiasedTo(n)) /\ n \notin BiasedTo(n)
         /\ Biased(n) => BiasedTo(n + 1) = BiasedTo(n) \cup {n}
         /\ ~Biased(n) => BiasedTo(n + 1) = BiasedTo(n)
         /\ BiasedTo(n) \subseteq Hand /\ \A g \in BiasedTo(n) : Biased(g)
<1>1. IsFiniteSet(Hand)
  BY Sizes, FS_Interval DEF Hand
<1>2. IsFiniteSet(BiasedTo(n))
  <2>1. BiasedTo(n) \subseteq Hand
    BY DEF BiasedTo
  <2>. QED BY <1>1, <2>1, FS_Subset
<1>3. \A g \in Hand : g \in Nat
  BY Begins
<1>4. \A g \in Hand : g < n + 1 <=> g < n \/ g = n
  BY <1>3
<1>5. n \notin BiasedTo(n)
  BY <1>3 DEF BiasedTo
<1>. QED BY <1>1, <1>2, <1>4, <1>5 DEF BiasedTo

\* While it is the turn of a hand that asks for something, not all of those
\* have been filled.
LEMMA OneToFill ==
  ASSUME Marks, i \in Hand, Biased(i), Cardinality(TheFilled) = Cardinality(BiasedTo(i))
  PROVE  \E g \in Hand : Biased(g) /\ bias_hand_xs[g] # NO_XS
<1>1. SUFFICES ASSUME \A g \in Hand : Biased(g) => g \in TheFilled PROVE FALSE
  BY DEF TheFilled
<1>2. BiasedTo(i) \cup {i} \subseteq TheFilled
  BY <1>1, Turns
<1>3. TheFilled \subseteq Hand /\ IsFiniteSet(TheFilled)
  <2>1. TheFilled \subseteq Hand
    BY DEF TheFilled
  <2>. QED BY <2>1, Turns, FS_Subset
<1>4. Cardinality(BiasedTo(i) \cup {i}) = Cardinality(BiasedTo(i)) + 1
      /\ Cardinality(BiasedTo(i)) \in Nat
  BY Turns, FS_AddElement, FS_CardinalityType
<1>5. Cardinality(BiasedTo(i) \cup {i}) <= Cardinality(TheFilled)
  BY <1>2, <1>3, FS_Subset
<1>. QED BY <1>4, <1>5

\* A hand that asks for nothing has no turn.
LEMMA SkipHandInv ==
  ASSUME IInv, SkipHand
  PROVE  IInv'
<1>1. /\ pc = "pick" /\ i \in Hand /\ ~Biased(i) /\ i' = i + 1 /\ pc' = "pick"
      /\ bias_suits' = bias_suits /\ bias_suit_left' = bias_suit_left /\ bias_hand_xs' = bias_hand_xs
      /\ bias_src' = bias_src /\ bias_pack' = bias_pack
      /\ small_pack' = small_pack /\ small_pack_sz' = small_pack_sz
      /\ h' = h /\ dst_pos' = dst_pos /\ src_pos' = src_pos
  BY DEF SkipHand, biasVars, packVars
<1>2. TypeOK /\ FillInv /\ HandsFilled /\ SuitsPlaced
  BY <1>1 DEF IInv, Filling
<1>3. TypeOK'
  <2>1. i + 1 \in 0 .. Hands
    BY <1>1, Begins, Sizes
  <2>. QED BY <1>1, <1>2, <2>1 DEF TypeOK
<1>4. FillInv'
  <2>1. Cards(small_pack') = src_pos' .. small_pack_sz' - 1 /\ OnePlace(bias_pack', small_pack')
    BY <1>1, <1>2 DEF FillInv
  <2>2. LeftKnown' /\ Marks'
    BY <1>1, <1>2, SameAsked DEF FillInv, LeftKnown, Marks
  <2>3. Cardinality(TheFilled)' = Cardinality(BiasedTo(i))'
    <3>1. TheFilled' = TheFilled
      BY <1>1 DEF TheFilled
    <3>2. BiasedTo(i)' = BiasedTo(i + 1)
      BY <1>1, SameAsked DEF BiasedTo
    <3>. QED BY <1>1, <1>2, <3>1, <3>2, Turns DEF FillInv
  <2>4. (pc = "pick" => \A g \in Hand : Biased(g) /\ bias_hand_xs[g] # NO_XS => Spare(g))'
    <3>1. \A g \in Hand : Biased(g) /\ bias_hand_xs[g] # NO_XS => Spare(g)
      BY <1>1, <1>2 DEF FillInv
    <3>. QED BY <1>1, <3>1, SameAsked, SameSums DEF Spare
  <2>. QED BY <1>1, <2>1, <2>2, <2>3, <2>4 DEF FillInv
<1>5. HandsFilled'
  <2>1. \A g \in Hand : Upto(g)' = Upto(g)
    BY <1>1, SameAsked DEF Upto
  <2>. QED BY <1>1, <1>2, <2>1, SameFilled
<1>6. SuitsPlaced'
  BY <1>1, <1>2, SamePlaced
<1>. QED BY <1>1, <1>3, <1>4, <1>5, <1>6 DEF IInv, Filling

\* The hand with least to spare is one that is still to be filled.
LEMMA RightHand ==
  ASSUME TypeOK, Marks, i \in Hand, Biased(i), Cardinality(TheFilled) = Cardinality(BiasedTo(i)),
         NEW g, g = MinIdx(bias_hand_xs)
  PROVE  g \in Hand /\ Biased(g) /\ bias_hand_xs[g] # NO_XS
<1>1. bias_hand_xs \in [Hand -> Int]
  BY DEF TypeOK
<1>2. PICK k \in Hand : Biased(k) /\ bias_hand_xs[k] # NO_XS
  BY OneToFill
<1>3. g \in Hand /\ bias_hand_xs[g] <= bias_hand_xs[k]
  BY <1>1, MinIdxFacts
<1>4. bias_hand_xs[k] < N
  BY <1>2 DEF Marks
<1>5. bias_hand_xs[g] < N
  BY <1>1, <1>3, <1>4, Sizes
<1>6. bias_hand_xs[g] # NO_XS /\ bias_hand_xs[g] # BIG_XS
  BY <1>5, Sizes DEF NO_XS, BIG_XS
<1>. QED BY <1>3, <1>6 DEF Marks

\* The hand picked is one still to be filled, and the assertion finds its next
\* slot free unless it asks for a whole hand card by card.
LEMMA PickHandInv ==
  ASSUME IInv, PickHand
  PROVE  IInv'
<1>1. /\ pc = "pick" /\ i \in Hand /\ Biased(i) /\ i' = i
      /\ h' = MinIdx(bias_hand_xs)
      /\ dst_pos' = Begin(h') + BiasLen(bias_suits, h')
      /\ \/ dst_pos' = N /\ pc' \in {"fill", "abort"}
         \/ dst_pos' < N /\ pc' = IF bias_pack[dst_pos'] = NoCard THEN "fill" ELSE "abort"
      /\ bias_suits' = bias_suits /\ bias_suit_left' = bias_suit_left /\ bias_hand_xs' = bias_hand_xs
      /\ bias_src' = bias_src /\ bias_pack' = bias_pack
      /\ small_pack' = small_pack /\ small_pack_sz' = small_pack_sz
      /\ src_pos' = src_pos
  BY DEF PickHand, biasVars, packVars
<1>2. TypeOK /\ FillInv /\ HandsFilled /\ SuitsPlaced /\ bias_suits \in Biases
      /\ bias_suit_left \in [Suit -> 0 .. HandSize]
  BY <1>1 DEF IInv, Filling, TypeOK
<1>3. PICK g, d : g = h' /\ d = dst_pos'
  OBVIOUS
<1>4. g \in Hand /\ Biased(g) /\ bias_hand_xs[g] # NO_XS
  BY <1>1, <1>2, <1>3, RightHand DEF FillInv
<1>5. /\ d = Begin(g) + Due(g) /\ d \in 0 .. N
      /\ Begin(g) \in Nat /\ Due(g) \in 0 .. HandSize /\ HandSize \in Nat
      /\ End(g) = Begin(g) + HandSize /\ End(g) <= N /\ N \in Nat
  BY <1>1, <1>2, <1>3, <1>4, DueFacts, Begins, Sizes DEF Due
<1>6. pc' \in {"fill", "abort"}
  BY <1>1
<1>7. TypeOK'
  BY <1>1, <1>2, <1>3, <1>4, <1>5, <1>6 DEF TypeOK
<1>8. pc' = "abort" => Due(g) = HandSize
  <2>1. SUFFICES ASSUME pc' = "abort", Due(g) # HandSize PROVE FALSE
    OBVIOUS
  <2>2. d \in Int /\ Begin(g) <= d /\ d < End(g) /\ d # N
    BY <1>5, <2>1
  <2>3. d \in Slot /\ HandOf(d) = g
    BY <1>4, <2>2, InHand
  <2>4. bias_pack[d] # NoCard
    BY <1>1, <1>3, <2>1, <2>2
  <2>5. d < Upto(g)
    BY <1>2, <2>3, <2>4 DEF HandsFilled, Cards
  <2>6. Upto(g) = d
    BY <1>1, <1>4, <1>5 DEF Upto
  <2>. QED BY <2>2, <2>5, <2>6
<1>9. ASSUME pc' = "fill" PROVE FillInv'
  <2>1. Cards(small_pack') = src_pos' .. small_pack_sz' - 1 /\ OnePlace(bias_pack', small_pack')
    BY <1>1, <1>2 DEF FillInv
  <2>2. LeftKnown' /\ Marks'
    BY <1>1, <1>2, SameAsked DEF FillInv, LeftKnown, Marks
  <2>3. Cardinality(TheFilled)' = Cardinality(BiasedTo(i))'
    <3>1. TheFilled' = TheFilled
      BY <1>1 DEF TheFilled
    <3>2. BiasedTo(i)' = BiasedTo(i)
      BY <1>1, SameAsked DEF BiasedTo
    <3>. QED BY <1>2, <3>1, <3>2 DEF FillInv
  <2>4. TurnOf(h)'
    <3>1. i' \in Hand /\ Biased(i)' /\ Biased(h)' /\ bias_hand_xs'[h'] # NO_XS
      BY <1>1, <1>3, <1>4, SameAsked
    <3>2. (Begin(h) + Due(h))' <= dst_pos' /\ dst_pos' <= End(h)'
      BY <1>1, <1>3, <1>5, SameAsked
    <3>3. bias_hand_xs[g] = Fitting(g, bias_suit_left) - (End(g) - d)
      <4>1. Spare(g)
        BY <1>1, <1>2, <1>4 DEF FillInv
      <4>2. Excess(g, bias_suit_left) = Fitting(g, bias_suit_left) - (HandSize - Due(g))
        BY <1>2, <1>4, ExcessSmall
      <4>3. HandSize - Due(g) = End(g) - d
        BY <1>5
      <4>. QED BY <4>1, <4>2, <4>3 DEF Spare
    <3>4. Fitting(h, bias_suit_left)' = Fitting(g, bias_suit_left)
      BY <1>1, <1>3 DEF Fitting
    <3>5. bias_hand_xs'[h'] = Fitting(h, bias_suit_left)' - (End(h)' - dst_pos')
      BY <1>1, <1>3, <3>3, <3>4
    <3>. QED BY <3>1, <3>2, <3>5 DEF TurnOf
  <2>. QED BY <1>9, <2>1, <2>2, <2>3, <2>4 DEF FillInv
<1>10. ASSUME pc' = "fill" PROVE HandsFilled'
  <2>1. ASSUME NEW k \in Hand PROVE Upto(k)' = Upto(k)
    <3>1. Due(k)' = Due(k)
      BY <1>1, SameAsked
    <3>. QED BY <1>1, <1>3, <1>5, <1>10, <3>1 DEF Upto
  <2>. QED BY <1>1, <1>2, <2>1, SameFilled
<1>11. SuitsPlaced'
  BY <1>1, <1>2, SamePlaced
<1>12. pc' = "abort" => Due(h)' = HandSize
  BY <1>1, <1>3, <1>8 DEF Due
<1>. QED BY <1>6, <1>7, <1>9, <1>10, <1>11, <1>12 DEF IInv, Filling

\* Three cards change places, or two, or none.
Cycled(f, x, y, z) ==
    [k \in Slot |-> IF k = x THEN f[z] ELSE IF k = y THEN f[x] ELSE IF k = z THEN f[y] ELSE f[k]]

\* x, y and z are places with cards, three of them, two or one.
CanCycle(f, x, y, z) ==
    f \in PackType /\ x \in Cards(f) /\ y \in Cards(f) /\ z \in Cards(f) /\ (x = y <=> x = z)

\* f2 has the cards of f, in the same places, in some order.
SameCards(f, f2) ==
    /\ f2 \in PackType /\ Cards(f2) = Cards(f) /\ CardsIn(f2) = CardsIn(f)
    /\ Apart(f) => Apart(f2)

\* That loses and doubles none.
LEMMA CycledKeeps ==
  ASSUME NEW f, NEW x, NEW y, NEW z, CanCycle(f, x, y, z), NEW f2, f2 = Cycled(f, x, y, z)
  PROVE  SameCards(f, f2) /\ f2[x] = f[z]
<1>0. f \in PackType /\ x \in Cards(f) /\ y \in Cards(f) /\ z \in Cards(f) /\ (x = y <=> x = z)
  BY DEF CanCycle
<1> DEFINE q == [k \in Cards(f) |-> IF k = x THEN z ELSE IF k = y THEN x ELSE IF k = z THEN y ELSE k]
<1>1. Cards(f) \subseteq Slot /\ \A k \in Cards(f) : f[k] \in Card /\ f[k] # NoCard
  BY <1>0, PackFacts DEF Cards
<1>2. \A k \in Slot : f2[k] = IF k = x THEN f[z] ELSE IF k = y THEN f[x] ELSE IF k = z THEN f[y] ELSE f[k]
  BY DEF Cycled
<1>3. f2 \in PackType
  <2>1. \A k \in Slot : f2[k] \in Card \cup {NoCard}
    BY <1>0, <1>1, <1>2 DEF PackType
  <2>2. f2 = [k \in Slot |-> f2[k]]
    BY DEF Cycled
  <2>. QED BY <2>1, <2>2 DEF PackType
<1>4. Cards(f2) = Cards(f)
  <2>1. \A k \in Slot : f2[k] # NoCard <=> f[k] # NoCard
    BY <1>0, <1>1, <1>2
  <2>. QED BY <2>1 DEF Cards
<1>5. Reordered(f, f2, q)
  <2>1. q \in [Cards(f2) -> Cards(f)]
    BY <1>0, <1>4
  <2>2. \A j, k \in Cards(f2) : q[j] = q[k] => j = k
    BY <1>0, <1>4
  <2>3. ASSUME NEW k \in Cards(f) PROVE \E j \in Cards(f2) : q[j] = k
    <3>1. q[y] = x /\ q[x] = z /\ (z = y \/ q[z] = y)
      BY <1>0
    <3>2. k \notin {x, y, z} => q[k] = k
      OBVIOUS
    <3> HIDE DEF q
    <3>3. CASE k \in {x, y, z}
      BY <1>0, <1>4, <3>1, <3>3
    <3>4. CASE k \notin {x, y, z}
      BY <1>4, <3>2, <3>4
    <3>. QED BY <3>3, <3>4
  <2>4. \A k \in Cards(f2) : f2[k] = f[q[k]]
    BY <1>0, <1>1, <1>2, <1>4
  <2> HIDE DEF q
  <2>. QED BY <2>1, <2>2, <2>3, <2>4 DEF Reordered
<1>6. CardsIn(f2) = CardsIn(f) /\ (Apart(f) => Apart(f2))
  <2> HIDE DEF q
  <2>. QED BY <1>5, ReorderedKeeps
<1>7. f2[x] = f[z]
  BY <1>0, <1>1, <1>2
<1>. QED BY <1>3, <1>4, <1>6, <1>7 DEF SameCards

\* exg_cards() brings the card chosen to src_pos, and loses none on the way.
LEMMA Exchanged ==
  ASSUME TypeOK, Cards(small_pack) = src_pos .. small_pack_sz - 1, NEW j \in Cards(small_pack)
  PROVE  \E f2 : /\ SameCards(small_pack, f2) /\ f2[src_pos] = small_pack[j]
                 /\ Exg(j) = Without(f2, {src_pos})
<1>1. small_pack \in PackType /\ src_pos \in Int /\ small_pack_sz \in Int
      /\ ExgGap \in Int /\ ExgGap > 0 /\ j \in Int /\ DOMAIN small_pack = Slot
      /\ Cards(small_pack) \subseteq Slot
  BY Sizes DEF TypeOK, PackType, Cards
<1>2. src_pos \in Cards(small_pack)
  BY <1>1
<1>3. PICK y : y = IF j = src_pos THEN src_pos
                   ELSE IF src_pos < small_pack_sz - ExgGap THEN src_pos + ExgGap ELSE j
  OBVIOUS
<1>4. CanCycle(small_pack, src_pos, y, j)
  BY <1>1, <1>2, <1>3 DEF CanCycle
<1>5. PICK f2 : f2 = Cycled(small_pack, src_pos, y, j)
  OBVIOUS
<1>6. SameCards(small_pack, f2) /\ f2[src_pos] = small_pack[j]
  BY <1>4, <1>5, CycledKeeps
<1>7. y \in Slot /\ j \in Slot /\ src_pos \in Slot
  BY <1>1, <1>4 DEF CanCycle
<1>8. Exg(j) = Without(f2, {src_pos})
  <2>1. CASE j = src_pos
    BY <1>1, <1>3, <1>5, <1>7, <2>1 DEF Exg, Without, Cycled
  <2>2. CASE j # src_pos /\ src_pos < small_pack_sz - ExgGap
    <3>1. Exg(j) = [small_pack EXCEPT ![j] = small_pack[y], ![y] = small_pack[src_pos], ![src_pos] = NoCard]
      BY <1>3, <2>2 DEF Exg
    <3>. QED BY <1>1, <1>5, <1>7, <2>2, <3>1 DEF Without, Cycled
  <2>3. CASE j # src_pos /\ ~(src_pos < small_pack_sz - ExgGap)
    <3>1. Exg(j) = [small_pack EXCEPT ![j] = small_pack[src_pos], ![src_pos] = NoCard] /\ y = j
      BY <1>3, <2>3 DEF Exg
    <3>. QED BY <1>1, <1>5, <1>7, <2>3, <3>1 DEF Without, Cycled
  <2>. QED BY <2>1, <2>2, <2>3
<1>. QED BY <1>6, <1>8

\* A card that goes leaves one less of its suit.
LEMMA OneLess ==
  ASSUME NEW C, IsFiniteSet(C), NEW c \in C, NEW C2, \A x : x \in C2 <=> x \in C /\ x # c, NEW s
  PROVE  /\ s = CardSuit(c) => /\ Cardinality(Of(C, s)) >= 1
                               /\ Cardinality(Of(C2, s)) = Cardinality(Of(C, s)) - 1
         /\ s # CardSuit(c) => Cardinality(Of(C2, s)) = Cardinality(Of(C, s))
<1>1. IsFiniteSet(Of(C, s))
  <2>1. Of(C, s) \subseteq C
    BY DEF Of
  <2>. QED BY <2>1, FS_Subset
<1>2. ASSUME s = CardSuit(c)
      PROVE  /\ Cardinality(Of(C, s)) >= 1
             /\ Cardinality(Of(C2, s)) = Cardinality(Of(C, s)) - 1
  <2>1. c \in Of(C, s) /\ Of(C2, s) = Of(C, s) \ {c}
    BY <1>2 DEF Of
  <2>2. Cardinality(Of(C, s) \ {c}) = Cardinality(Of(C, s)) - 1 /\ IsFiniteSet(Of(C, s) \ {c})
    BY <1>1, <2>1, FS_RemoveElement
  <2>3. Cardinality(Of(C, s)) \in Nat /\ Cardinality(Of(C, s) \ {c}) \in Nat
    BY <1>1, <2>2, FS_CardinalityType
  <2>. QED BY <2>1, <2>2, <2>3
<1>3. ASSUME s # CardSuit(c) PROVE Of(C2, s) = Of(C, s)
  BY <1>3 DEF Of
<1>. QED BY <1>2, <1>3

\* So the hand has one less to draw from.
LEMMA OneLessFits ==
  ASSUME bias_suits \in Biases, NEW g \in Hand, NEW left \in [Suit -> 0 .. HandSize],
         NEW s \in Suit, bias_suits[g][s] = -1,
         NEW left2, left2 = [left EXCEPT ![s] = @ - 1]
  PROVE  Fitting(g, left2) = Fitting(g, left) - 1 /\ Fitting(g, left) \in Int
<1> DEFINE f  == [t \in Suit |-> IF bias_suits[g][t] = -1 THEN left[t] ELSE 0]
           f2 == [t \in Suit |-> IF bias_suits[g][t] = -1 THEN left2[t] ELSE 0]
<1>1. Suit = 0 .. Hands - 1 /\ Hands \in Nat /\ HandSize \in Int
  BY Sizes DEF Suit, Hand
<1>2. \A t \in Suit : f[t] \in Int
  BY <1>1
<1>3. f2[s] = f[s] + (-1)
  <2>1. f2[s] = left2[s] /\ f[s] = left[s] /\ left2[s] = left[s] - 1 /\ left[s] \in Int
    BY <1>1
  <2> HIDE DEF f, f2
  <2>. QED BY <2>1
<1>4. \A t \in Suit : t # s => f2[t] = f[t]
  OBVIOUS
<1>5. Fitting(g, left2) = SumOf(f2, Hands) /\ Fitting(g, left) = SumOf(f, Hands)
  BY DEF Fitting
<1> HIDE DEF f, f2
<1>6. SumOf(f2, Hands) = SumOf(f, Hands) + (-1) /\ SumOf(f, Hands) \in Int
  <2>1. PICK x \in Int : x = -1
    OBVIOUS
  <2>2. /\ s \in 0 .. Hands - 1 /\ f2[s] = f[s] + x
        /\ \A t \in 0 .. Hands - 1 : f[t] \in Int
        /\ \A t \in 0 .. Hands - 1 : t # s => f2[t] = f[t]
    BY <1>1, <1>2, <1>3, <1>4, <2>1
  <2>3. PICK v, v2 : v = f /\ v2 = f2
    OBVIOUS
  <2>4. SumOf(v2, Hands) = SumOf(v, Hands) + x /\ SumOf(v, Hands) \in Int
    <3>1. /\ v2[s] = v[s] + x
          /\ \A t \in 0 .. Hands - 1 : v[t] \in Int
          /\ \A t \in 0 .. Hands - 1 : t # s => v2[t] = v[t]
      BY <2>2, <2>3
    <3>2. PICK n \in Nat : n = Hands
      BY <1>1
    <3>3. /\ s \in 0 .. n - 1
          /\ \A t \in 0 .. n - 1 : v[t] \in Int
          /\ \A t \in 0 .. n - 1 : t # s => v2[t] = v[t]
      BY <2>2, <3>1, <3>2
    <3>4. SumOf(v2, n) = SumOf(v, n) + x /\ SumOf(v, n) \in Int
      BY <3>1, <3>3, SumBump
    <3>. QED BY <3>2, <3>4
  <2>. QED BY <2>1, <2>3, <2>4
<1>. QED BY <1>5, <1>6

\* What PlaceCard makes of the two packs.
Placed(j, a2, b2) == a2 = [bias_pack EXCEPT ![dst_pos] = small_pack[j]] /\ b2 = Exg(j)

\* A card chosen goes to the next slot of the hand, and out of small_pack.
LEMMA CardMoves ==
  ASSUME TypeOK, FillInv, pc = "fill", HandsFilled, dst_pos < End(h), NEW j, Fits(j),
         NEW a2, NEW b2, Placed(j, a2, b2)
  PROVE  /\ a2 \in PackType /\ b2 \in PackType
         /\ Cards(a2) = Cards(bias_pack) \cup {dst_pos}
         /\ Cards(b2) = src_pos + 1 .. small_pack_sz - 1
         /\ OnePlace(a2, b2)
         /\ small_pack[j] \in CardsIn(small_pack)
         /\ \A c : c \in CardsIn(b2) <=> c \in CardsIn(small_pack) /\ c # small_pack[j]
         /\ dst_pos \in Slot /\ HandOf(dst_pos) = h /\ src_pos < small_pack_sz
<1>1. /\ small_pack \in PackType /\ bias_pack \in PackType /\ OnePlace(bias_pack, small_pack)
      /\ Cards(small_pack) = src_pos .. small_pack_sz - 1
      /\ src_pos \in Int /\ small_pack_sz \in Int /\ h \in Hand /\ dst_pos \in Int
      /\ bias_suits \in Biases
  BY Sizes DEF TypeOK, FillInv
<1>2. j \in Cards(small_pack) /\ src_pos \in Cards(small_pack) /\ src_pos < small_pack_sz
  BY <1>1 DEF Fits
<1>3. PICK f2 : /\ SameCards(small_pack, f2) /\ f2[src_pos] = small_pack[j]
                /\ Exg(j) = Without(f2, {src_pos})
  BY <1>1, <1>2, Exchanged
<1>4. TurnOf(h)
  BY DEF FillInv
<1>5. dst_pos \in Slot /\ HandOf(dst_pos) = h
  <2>1. Begin(h) \in Nat /\ Due(h) \in Nat
    BY <1>1, Begins, DueFacts, Sizes
  <2>2. Begin(h) <= dst_pos
    BY <1>1, <1>4, <2>1 DEF TurnOf
  <2>. QED BY <1>1, <2>2, InHand
<1>6. dst_pos \notin Cards(bias_pack)
  <2>1. Upto(h) = dst_pos
    BY <1>4 DEF Upto, TurnOf
  <2>2. ~(dst_pos < Upto(HandOf(dst_pos)))
    BY <1>1, <1>5, <2>1
  <2>. QED BY <1>5, <2>2 DEF HandsFilled
<1>7. /\ f2 \in PackType /\ Cards(f2) = Cards(small_pack) /\ CardsIn(f2) = CardsIn(small_pack)
      /\ Apart(f2)
  BY <1>1, <1>3 DEF SameCards, OnePlace
<1>8. OnePlace(bias_pack, f2)
  BY <1>1, <1>7 DEF OnePlace
<1>9. PICK d, m : d = dst_pos /\ m = [e \in {d} |-> src_pos]
  OBVIOUS
<1>10. CanMove(bias_pack, f2, {d}, {src_pos}, m)
  BY <1>1, <1>2, <1>5, <1>6, <1>7, <1>8, <1>9 DEF CanMove
<1>11. a2 = Given(bias_pack, f2, {d}, m)
  <2>1. DOMAIN bias_pack = Slot
    BY <1>1 DEF PackType
  <2>. QED BY <1>3, <1>5, <1>9, <2>1 DEF Given, Placed
<1>12. b2 = Without(f2, {src_pos})
  BY <1>3 DEF Placed
<1>13. /\ a2 \in PackType /\ Cards(a2) = Cards(bias_pack) \cup {d} /\ OnePlace(a2, b2)
       /\ LeftOver(f2, b2, {src_pos})
  <2>1. PICK a, D, K : a = bias_pack /\ D = {d} /\ K = {src_pos}
    OBVIOUS
  <2>2. CanMove(a, f2, D, K, m) /\ a2 = Given(a, f2, D, m) /\ b2 = Without(f2, K)
    BY <1>10, <1>11, <1>12, <2>1
  <2>3. a2 \in PackType /\ Cards(a2) = Cards(a) \cup D /\ OnePlace(a2, b2) /\ LeftOver(f2, b2, K)
    BY <2>2, Moved
  <2>. QED BY <2>1, <2>3
<1>14. /\ b2 \in PackType /\ Cards(b2) = Cards(small_pack) \ {src_pos}
       /\ \A c : c \in CardsIn(b2) <=> c \in CardsIn(small_pack) /\ c # small_pack[j]
  BY <1>3, <1>7, <1>13 DEF LeftOver
<1>15. Cards(b2) = src_pos + 1 .. small_pack_sz - 1
  BY <1>1, <1>14
<1>16. small_pack[j] \in CardsIn(small_pack)
  BY <1>2 DEF CardsIn
<1>. QED BY <1>2, <1>5, <1>9, <1>13, <1>14, <1>15, <1>16

\* choose_nobias_card() and exg_cards() move one card, of a suit the hand says
\* nothing of, and what is left of the suit and of the hand's choice follow.
LEMMA PlaceCardInv ==
  ASSUME IInv, PlaceCard
  PROVE  IInv'
<1>1. /\ pc = "fill" /\ pc' = "fill" /\ dst_pos < End(h)
      /\ dst_pos' = dst_pos + 1 /\ src_pos' = src_pos + 1
      /\ bias_suits' = bias_suits /\ bias_hand_xs' = bias_hand_xs /\ bias_src' = bias_src
      /\ small_pack_sz' = small_pack_sz /\ i' = i /\ h' = h
  BY DEF PlaceCard
<1>2. PICK j \in Slot :
         /\ Fits(j)
         /\ small_pack' = Exg(j)
         /\ bias_pack' = [bias_pack EXCEPT ![dst_pos] = small_pack[j]]
         /\ bias_suit_left' = [bias_suit_left EXCEPT ![CardSuit(small_pack[j])] = @ - 1]
  BY DEF PlaceCard
<1>3. /\ TypeOK /\ FillInv /\ HandsFilled /\ SuitsPlaced /\ bias_suits \in Biases
      /\ bias_suit_left \in [Suit -> 0 .. HandSize] /\ h \in Hand /\ dst_pos \in Int
      /\ TurnOf(h) /\ LeftKnown /\ small_pack \in PackType /\ src_pos \in 0 .. N /\ small_pack_sz \in 0 .. N
  <2>1. TypeOK /\ FillInv /\ HandsFilled /\ SuitsPlaced
    BY <1>1 DEF IInv, Filling
  <2>. QED BY <1>1, <2>1, Sizes DEF FillInv, TypeOK
<1>4. PICK a2, b2, c, left2 :
         a2 = bias_pack' /\ b2 = small_pack' /\ c = small_pack[j] /\ left2 = bias_suit_left'
  OBVIOUS
<1>5. /\ a2 \in PackType /\ b2 \in PackType
      /\ Cards(a2) = Cards(bias_pack) \cup {dst_pos}
      /\ Cards(b2) = src_pos + 1 .. small_pack_sz - 1
      /\ OnePlace(a2, b2)
      /\ c \in CardsIn(small_pack)
      /\ \A x : x \in CardsIn(b2) <=> x \in CardsIn(small_pack) /\ x # c
      /\ dst_pos \in Slot /\ HandOf(dst_pos) = h /\ src_pos < small_pack_sz
  BY <1>1, <1>2, <1>3, <1>4, CardMoves DEF Placed
<1>6. IsFiniteSet(CardsIn(small_pack)) /\ c \in Card
  <2>1. CardsIn(small_pack) \subseteq Card /\ IsFiniteSet(Card)
    BY <1>3, PackFacts, Sizes DEF Card
  <2>. QED BY <1>5, <2>1, FS_Subset
<1>7. CardSuit(c) \in Suit /\ bias_suits[h][CardSuit(c)] = -1
  <2>1. CardSuit(c) = HandOf(c)
    BY DEF CardSuit, HandOf
  <2>. QED BY <1>2, <1>4, <1>6, <2>1, SlotHand DEF Fits, Card, Suit
<1>8. PICK s \in Suit : s = CardSuit(c)
  BY <1>7
<1>9. left2 = [bias_suit_left EXCEPT ![s] = @ - 1]
  BY <1>2, <1>4, <1>8
<1>10. ASSUME NEW t \in Suit
       PROVE  left2[t] = Cardinality(Of(CardsIn(b2), t)) /\ left2[t] \in 0 .. HandSize
  <2>1. bias_suit_left[t] = Cardinality(Of(CardsIn(small_pack), t)) /\ bias_suit_left[t] \in 0 .. HandSize
    BY <1>3 DEF LeftKnown
  <2>2. /\ t = s => /\ Cardinality(Of(CardsIn(small_pack), t)) >= 1
                    /\ Cardinality(Of(CardsIn(b2), t)) = Cardinality(Of(CardsIn(small_pack), t)) - 1
        /\ t # s => Cardinality(Of(CardsIn(b2), t)) = Cardinality(Of(CardsIn(small_pack), t))
    BY <1>5, <1>6, <1>8, OneLess
  <2>3. left2[t] = IF t = s THEN bias_suit_left[t] - 1 ELSE bias_suit_left[t]
    BY <1>3, <1>9
  <2>. QED BY <2>1, <2>2, <2>3, Sizes
<1>11. left2 \in [Suit -> 0 .. HandSize]
  <2>1. left2 = [t \in Suit |-> left2[t]]
    BY <1>3, <1>9
  <2>. QED BY <1>10, <2>1
<1>12. TypeOK'
  <2>1. dst_pos + 1 \in 0 .. N /\ src_pos + 1 \in 0 .. N
    BY <1>1, <1>3, <1>5, Begins, SlotHand, Sizes
  <2>. QED BY <1>1, <1>3, <1>4, <1>5, <1>11, <2>1 DEF TypeOK
<1>13. FillInv'
  <2>1. Cards(small_pack') = src_pos' .. small_pack_sz' - 1 /\ OnePlace(bias_pack', small_pack')
    BY <1>1, <1>4, <1>5
  <2>2. LeftKnown'
    <3>1. \A t \in Suit : bias_suit_left'[t] = Cardinality(Of(CardsIn(small_pack'), t))
      BY <1>4, <1>10
    <3>. QED BY <3>1 DEF LeftKnown
  <2>3. Marks'
    BY <1>1, <1>3, SameAsked DEF FillInv, Marks
  <2>4. Cardinality(TheFilled)' = Cardinality(BiasedTo(i))'
    <3>1. TheFilled' = TheFilled
      BY <1>1 DEF TheFilled
    <3>2. BiasedTo(i)' = BiasedTo(i)
      BY <1>1, SameAsked DEF BiasedTo
    <3>. QED BY <1>3, <3>1, <3>2 DEF FillInv
  <2>5. TurnOf(h)'
    <3>1. Fitting(h, left2) = Fitting(h, bias_suit_left) - 1 /\ Fitting(h, bias_suit_left) \in Int
      BY <1>3, <1>7, <1>8, <1>9, OneLessFits
    <3>2. Fitting(h, bias_suit_left)' = Fitting(h, left2)
      BY <1>1, <1>4 DEF Fitting
    <3>3. /\ i \in Hand /\ Biased(i) /\ Biased(h) /\ bias_hand_xs[h] # NO_XS
          /\ Begin(h) + Due(h) <= dst_pos
          /\ bias_hand_xs[h] = Fitting(h, bias_suit_left) - (End(h) - dst_pos)
          /\ Begin(h) \in Nat /\ Due(h) \in Nat /\ End(h) \in Nat
      BY <1>3, Begins, DueFacts, Sizes DEF TurnOf
    <3>4. bias_hand_xs[h] = Fitting(h, left2) - (End(h) - (dst_pos + 1))
      <4>1. PICK x \in Int, y \in Int, e \in Int, d \in Int :
               x = Fitting(h, left2) /\ y = Fitting(h, bias_suit_left) /\ e = End(h) /\ d = dst_pos
        BY <1>3, <3>1, <3>3
      <4>2. x = y - 1 /\ bias_hand_xs[h] = y - (e - d)
        BY <3>1, <3>3, <4>1
      <4>3. bias_hand_xs[h] = x - (e - (d + 1))
        BY <4>2
      <4>. QED BY <4>1, <4>3
    <3>5. Biased(i)' /\ Biased(h)' /\ Due(h)' = Due(h)
      BY <1>1, <3>3, SameAsked
    <3>6. Begin(h) + Due(h) <= dst_pos + 1 /\ dst_pos + 1 <= End(h)
      BY <1>1, <1>3, <3>3
    <3>. QED BY <1>1, <3>2, <3>3, <3>4, <3>5, <3>6 DEF TurnOf
  <2>. QED BY <1>1, <2>1, <2>2, <2>3, <2>4, <2>5 DEF FillInv
<1>14. HandsFilled'
  <2>1. ASSUME NEW d \in Slot PROVE d \in Cards(a2) <=> d < Upto(HandOf(d))'
    <3>1. d \in Int
      BY SlotHand
    <3>2. Due(HandOf(d))' = Due(HandOf(d))
      BY <1>1, SameAsked
    <3>3. bias_hand_xs[h] # NO_XS
      BY <1>3 DEF TurnOf
    <3>4. d \in Cards(bias_pack) <=> d < Upto(HandOf(d))
      BY <1>3 DEF HandsFilled
    <3>5. CASE HandOf(d) = h
      <4>1. Upto(HandOf(d)) = dst_pos /\ Upto(HandOf(d))' = dst_pos + 1
        BY <1>1, <3>3, <3>5 DEF Upto
      <4>. QED BY <1>3, <1>5, <3>1, <3>4, <4>1
    <3>6. CASE HandOf(d) # h
      <4>1. Upto(HandOf(d))' = Upto(HandOf(d))
        BY <1>1, <3>2, <3>6 DEF Upto
      <4>. QED BY <1>5, <3>4, <3>6, <4>1
    <3>. QED BY <3>5, <3>6
  <2>. QED BY <1>4, <2>1 DEF HandsFilled
<1>15. SuitsPlaced'
  <2>1. ASSUME NEW d \in Cards(bias_pack')
        PROVE  /\ \A t \in Suit : Place(d, HandOf(d), t)' => CardSuit(bias_pack'[d]) = t
               /\ d >= Begin(HandOf(d)) + Due(HandOf(d))' =>
                      bias_suits'[HandOf(d)][CardSuit(bias_pack'[d])] = -1
    <3>0. DOMAIN bias_pack = Slot /\ d \in Cards(a2)
      BY <1>3, <1>4 DEF TypeOK, PackType
    <3>1. CASE d = dst_pos
      <4>1. bias_pack'[d] = c
        BY <1>2, <1>4, <1>5, <3>0, <3>1
      <4>2. ASSUME NEW t \in Suit, Place(d, h, t) PROVE FALSE
        <5>1. /\ Before(h, t + 1) \in Nat /\ Before(h, t + 1) <= Due(h)
              /\ Begin(h) \in Nat /\ Due(h) \in Nat
              /\ Begin(h) + Due(h) <= dst_pos
          BY <1>3, BeforeGrows, Begins, DueFacts, Sizes DEF TurnOf
        <5>. QED BY <1>3, <3>1, <4>2, <5>1 DEF Place
      <4>. QED BY <1>1, <1>5, <1>7, <3>1, <4>1, <4>2, SameAsked
    <3>2. CASE d # dst_pos
      <4>1. d \in Cards(bias_pack) /\ bias_pack'[d] = bias_pack[d]
        BY <1>2, <1>5, <3>0, <3>2 DEF Cards
      <4>2. /\ \A t \in Suit : Place(d, HandOf(d), t) => CardSuit(bias_pack[d]) = t
            /\ d >= Begin(HandOf(d)) + Due(HandOf(d)) => bias_suits[HandOf(d)][CardSuit(bias_pack[d])] = -1
        BY <1>3, <4>1 DEF SuitsPlaced
      <4>. QED BY <1>1, <4>1, <4>2, SameAsked
    <3>. QED BY <3>1, <3>2
  <2>. QED BY <2>1 DEF SuitsPlaced
<1>. QED BY <1>1, <1>12, <1>13, <1>14, <1>15 DEF IInv, Filling

\* Without a card that fits, the hand had too few to draw from.
LEMMA NoneFits ==
  ASSUME TypeOK, LeftKnown, Cards(small_pack) = src_pos .. small_pack_sz - 1,
         \A k \in Slot : ~Fits(k)
  PROVE  Fitting(h, bias_suit_left) = 0
<1> DEFINE f == [s \in Suit |-> IF bias_suits[h][s] = -1 THEN bias_suit_left[s] ELSE 0]
<1>1. ASSUME NEW s \in Suit PROVE f[s] = 0
  <2>1. CASE bias_suits[h][s] = -1
    <3>1. ASSUME NEW c \in Of(CardsIn(small_pack), s) PROVE FALSE
      <4>1. PICK k \in Cards(small_pack) : small_pack[k] = c
        BY DEF Of, CardsIn
      <4>2. CardSuit(small_pack[k]) = s
        BY <4>1 DEF Of
      <4>3. k \in Slot /\ Fits(k)
        BY <2>1, <4>1, <4>2 DEF Fits, Cards
      <4>. QED BY <4>3
    <3>2. Of(CardsIn(small_pack), s) = {}
      BY <3>1
    <3>3. bias_suit_left[s] = 0
      BY <3>2, FS_EmptySet DEF LeftKnown
    <3>. QED BY <3>3
  <2>2. CASE bias_suits[h][s] # -1
    BY <2>2
  <2>. QED BY <2>1, <2>2
<1>2. Fitting(h, bias_suit_left) = SumOf(f, Hands)
  BY DEF Fitting
<1>3. \A s \in 0 .. Hands - 1 : f[s] = 0
  <2> HIDE DEF f
  <2>. QED BY <1>1 DEF Suit, Hand
<1> HIDE DEF f
<1>. QED BY <1>2, <1>3, SumNone, Sizes

\* A hand without a card that fits was short of cards when it was picked.
LEMMA GiveUpInv ==
  ASSUME IInv, GiveUp
  PROVE  IInv'
<1>1. /\ pc = "fill" /\ pc' = "failed" /\ dst_pos < End(h)
      /\ \A k \in Slot : ~Fits(k)
      /\ bias_suits' = bias_suits /\ bias_suit_left' = bias_suit_left /\ bias_hand_xs' = bias_hand_xs
      /\ bias_src' = bias_src /\ bias_pack' = bias_pack
      /\ small_pack' = small_pack /\ small_pack_sz' = small_pack_sz
      /\ i' = i /\ h' = h /\ dst_pos' = dst_pos /\ src_pos' = src_pos
  BY DEF GiveUp, biasVars, packVars
<1>2. TypeOK /\ FillInv /\ HandsFilled /\ SuitsPlaced /\ TurnOf(h) /\ h \in Hand /\ dst_pos \in Int
  <2>1. TypeOK /\ FillInv /\ HandsFilled /\ SuitsPlaced
    BY <1>1 DEF IInv, Filling
  <2>. QED BY <1>1, <2>1, Sizes DEF FillInv, TypeOK
<1>3. TypeOK'
  BY <1>1, <1>2 DEF TypeOK
<1>4. bias_hand_xs[h] < 0
  <2>1. Fitting(h, bias_suit_left) = 0
    BY <1>1, <1>2, NoneFits DEF FillInv
  <2>2. bias_hand_xs[h] = 0 - (End(h) - dst_pos) /\ End(h) \in Nat
    BY <1>2, <2>1, Begins DEF TurnOf
  <2>. QED BY <1>1, <1>2, <2>2
<1>5. FillInv'
  <2>1. Cards(small_pack') = src_pos' .. small_pack_sz' - 1 /\ OnePlace(bias_pack', small_pack')
    BY <1>1, <1>2 DEF FillInv
  <2>2. LeftKnown' /\ Marks'
    BY <1>1, <1>2, SameAsked DEF FillInv, LeftKnown, Marks
  <2>3. Cardinality(TheFilled)' = Cardinality(BiasedTo(i))'
    <3>1. TheFilled' = TheFilled
      BY <1>1 DEF TheFilled
    <3>2. BiasedTo(i)' = BiasedTo(i)
      BY <1>1, SameAsked DEF BiasedTo
    <3>. QED BY <1>2, <3>1, <3>2 DEF FillInv
  <2>4. TurnOf(h)'
    BY <1>1, <1>2, SameAsked, SameSums DEF TurnOf
  <2>. QED BY <1>1, <1>4, <2>1, <2>2, <2>3, <2>4 DEF FillInv
<1>6. HandsFilled'
  <2>1. \A g \in Hand : Upto(g)' = Upto(g)
    BY <1>1, SameAsked DEF Upto
  <2>. QED BY <1>1, <1>2, <2>1, SameFilled
<1>7. SuitsPlaced'
  BY <1>1, <1>2, SamePlaced
<1>. QED BY <1>1, <1>3, <1>5, <1>6, <1>7 DEF IInv, Filling

\* What is worked out for the other hands once one is filled.
LEMMA NewExcessFacts ==
  ASSUME bias_suits \in Biases, bias_suit_left \in [Suit -> 0 .. HandSize],
         bias_hand_xs \in [Hand -> Int], Marks, h \in Hand, Biased(h), bias_hand_xs[h] # NO_XS,
         NEW xs, xs = NewExcess
  PROVE  /\ xs \in [Hand -> Int]
         /\ \A g \in Hand : xs[g] = NO_XS <=> bias_hand_xs[g] = NO_XS \/ g = h
         /\ \A g \in Hand : Biased(g) /\ xs[g] # NO_XS => xs[g] = Excess(g, bias_suit_left)
         /\ \A g \in Hand : IF Biased(g) THEN xs[g] < N \/ xs[g] = NO_XS ELSE xs[g] = BIG_XS
<1>1. ASSUME NEW g \in Hand
      PROVE  xs[g] = IF g = h THEN NO_XS
                     ELSE IF bias_hand_xs[g] < N THEN Excess(g, bias_suit_left)
                     ELSE bias_hand_xs[g]
  BY DEF NewExcess
<1>2. N \in Nat /\ N <= NO_XS /\ NO_XS \in Int /\ BIG_XS \in Int /\ ~(BIG_XS < N) /\ BIG_XS # NO_XS
      /\ ~(NO_XS < N)
  BY Sizes DEF NO_XS, BIG_XS
<1>3. ASSUME NEW g \in Hand
      PROVE  /\ xs[g] \in Int
             /\ xs[g] = NO_XS <=> bias_hand_xs[g] = NO_XS \/ g = h
             /\ Biased(g) /\ xs[g] # NO_XS => xs[g] = Excess(g, bias_suit_left)
             /\ IF Biased(g) THEN xs[g] < N \/ xs[g] = NO_XS ELSE xs[g] = BIG_XS
  <2>1. CASE g = h
    BY <1>1, <1>2, <2>1
  <2>2. CASE g # h /\ Biased(g) /\ bias_hand_xs[g] < N
    <3>1. Excess(g, bias_suit_left) \in Int /\ Excess(g, bias_suit_left) < N
      BY <2>2, ExcessSmall
    <3>2. xs[g] = Excess(g, bias_suit_left)
      BY <1>1, <2>2
    <3>. QED BY <1>2, <2>2, <3>1, <3>2
  <2>3. CASE g # h /\ Biased(g) /\ ~(bias_hand_xs[g] < N)
    <3>1. bias_hand_xs[g] = NO_XS
      BY <2>3 DEF Marks
    <3>. QED BY <1>1, <1>2, <2>3, <3>1
  <2>4. CASE g # h /\ ~Biased(g)
    <3>1. bias_hand_xs[g] = BIG_XS
      BY <2>4 DEF Marks
    <3>. QED BY <1>1, <1>2, <2>4, <3>1
  <2>. QED BY <2>1, <2>2, <2>3, <2>4
<1>4. xs \in [Hand -> Int]
  <2>1. xs = [g \in Hand |-> xs[g]]
    BY DEF NewExcess
  <2>. QED BY <1>3, <2>1
<1>. QED BY <1>3, <1>4

\* A hand filled is marked, the others' excesses are those of what is left, and
\* the cards left are put in another order.
LEMMA HandFilledInv ==
  ASSUME IInv, HandFilled
  PROVE  IInv'
<1>1. /\ pc = "fill" /\ pc' = "pick" /\ dst_pos >= End(h) /\ i' = i + 1
      /\ bias_hand_xs' = NewExcess
      /\ small_pack' \in (IF i < 2 THEN Shuffles(small_pack, src_pos, small_pack_sz) ELSE {small_pack})
      /\ bias_suits' = bias_suits /\ bias_suit_left' = bias_suit_left
      /\ bias_src' = bias_src /\ bias_pack' = bias_pack
      /\ small_pack_sz' = small_pack_sz
      /\ h' = h /\ dst_pos' = dst_pos /\ src_pos' = src_pos
  BY DEF HandFilled
<1>2. /\ TypeOK /\ FillInv /\ HandsFilled /\ SuitsPlaced /\ TurnOf(h) /\ Marks /\ LeftKnown
      /\ h \in Hand /\ dst_pos \in Int /\ End(h) \in Int /\ bias_suits \in Biases
      /\ bias_suit_left \in [Suit -> 0 .. HandSize] /\ bias_hand_xs \in [Hand -> Int]
      /\ small_pack \in PackType /\ OnePlace(bias_pack, small_pack)
      /\ Cards(small_pack) = src_pos .. small_pack_sz - 1
      /\ src_pos \in Int /\ small_pack_sz \in Int
  <2>1. TypeOK /\ FillInv /\ HandsFilled /\ SuitsPlaced
    BY <1>1 DEF IInv, Filling
  <2>2. h \in Hand
    BY <2>1 DEF TypeOK
  <2>3. End(h) \in Int
    BY <2>2, Begins
  <2>. QED BY <1>1, <2>1, <2>2, <2>3, Sizes DEF FillInv, TypeOK
<1>3. /\ i \in Hand /\ Biased(i) /\ Biased(h) /\ bias_hand_xs[h] # NO_XS /\ dst_pos = End(h)
  BY <1>1, <1>2 DEF TurnOf
<1>4. /\ small_pack' \in PackType /\ Cards(small_pack') = Cards(small_pack)
      /\ CardsIn(small_pack') = CardsIn(small_pack)
      /\ Apart(small_pack) => Apart(small_pack')
  <2>1. PICK f2 : f2 = small_pack'
    OBVIOUS
  <2>2. CASE i < 2
    <3>1. f2 \in Shuffles(small_pack, src_pos, small_pack_sz)
      BY <1>1, <2>1, <2>2
    <3>2. /\ f2 \in PackType /\ Cards(f2) = Cards(small_pack)
          /\ CardsIn(f2) = CardsIn(small_pack)
          /\ Apart(small_pack) => Apart(f2)
      BY <1>2, <3>1, Shuffled
    <3>. QED BY <2>1, <3>2
  <2>3. CASE ~(i < 2)
    BY <1>1, <1>2, <2>3
  <2>. QED BY <2>2, <2>3
<1>5. PICK xs : xs = bias_hand_xs'
  OBVIOUS
<1>6. /\ xs \in [Hand -> Int]
      /\ \A g \in Hand : xs[g] = NO_XS <=> bias_hand_xs[g] = NO_XS \/ g = h
      /\ \A g \in Hand : Biased(g) /\ xs[g] # NO_XS => xs[g] = Excess(g, bias_suit_left)
      /\ \A g \in Hand : IF Biased(g) THEN xs[g] < N \/ xs[g] = NO_XS ELSE xs[g] = BIG_XS
  BY <1>1, <1>2, <1>3, <1>5, NewExcessFacts
<1>7. TypeOK'
  <2>1. i + 1 \in 0 .. Hands
    BY <1>3, Begins, Sizes
  <2>. QED BY <1>1, <1>2, <1>4, <1>5, <1>6, <2>1 DEF TypeOK
<1>8. FillInv'
  <2>1. Cards(small_pack') = src_pos' .. small_pack_sz' - 1 /\ OnePlace(bias_pack', small_pack')
    BY <1>1, <1>2, <1>4 DEF OnePlace
  <2>2. LeftKnown'
    BY <1>1, <1>2, <1>4 DEF LeftKnown
  <2>3. Marks'
    <3>1. ASSUME NEW g \in Hand
          PROVE  IF Biased(g)' THEN bias_hand_xs'[g] < N \/ bias_hand_xs'[g] = NO_XS
                               ELSE bias_hand_xs'[g] = BIG_XS
      BY <1>1, <1>5, <1>6, SameAsked
    <3>. QED BY <3>1 DEF Marks
  <2>4. Cardinality(TheFilled)' = Cardinality(BiasedTo(i))'
    <3>1. TheFilled' = TheFilled \cup {h} /\ h \notin TheFilled /\ TheFilled \subseteq Hand
      BY <1>2, <1>3, <1>5, <1>6 DEF TheFilled
    <3>2. BiasedTo(i)' = BiasedTo(i + 1)
      BY <1>1, SameAsked DEF BiasedTo
    <3>3. IsFiniteSet(TheFilled) /\ IsFiniteSet(BiasedTo(i)) /\ i \notin BiasedTo(i)
          /\ BiasedTo(i + 1) = BiasedTo(i) \cup {i}
      BY <1>3, <3>1, Turns, FS_Subset
    <3>4. /\ Cardinality(TheFilled \cup {h}) = Cardinality(TheFilled) + 1
          /\ Cardinality(BiasedTo(i) \cup {i}) = Cardinality(BiasedTo(i)) + 1
      BY <3>1, <3>3, FS_AddElement
    <3>. QED BY <1>2, <3>1, <3>2, <3>3, <3>4 DEF FillInv
  <2>5. (pc = "pick" => \A g \in Hand : Biased(g) /\ bias_hand_xs[g] # NO_XS => Spare(g))'
    <3>1. ASSUME NEW g \in Hand, Biased(g)', bias_hand_xs'[g] # NO_XS PROVE Spare(g)'
      <4>1. Biased(g)
        BY <1>1, <3>1, SameAsked
      <4>2. bias_hand_xs'[g] = Excess(g, bias_suit_left)
        BY <1>5, <1>6, <3>1, <4>1
      <4>. QED BY <1>1, <4>2, SameSums DEF Spare
    <3>. QED BY <3>1
  <2>. QED BY <1>1, <2>1, <2>2, <2>3, <2>4, <2>5 DEF FillInv
<1>9. HandsFilled'
  <2>1. ASSUME NEW g \in Hand PROVE Upto(g)' = Upto(g)
    <3>1. Due(g)' = Due(g)
      BY <1>1, SameAsked
    <3>2. bias_hand_xs'[g] = NO_XS <=> bias_hand_xs[g] = NO_XS \/ g = h
      BY <1>5, <1>6
    <3>. QED BY <1>1, <1>3, <3>1, <3>2 DEF Upto
  <2>. QED BY <1>1, <1>2, <2>1, SameFilled
<1>10. SuitsPlaced'
  BY <1>1, <1>2, SamePlaced
<1>. QED BY <1>1, <1>7, <1>8, <1>9, <1>10 DEF IInv, Filling

-----------------------------------------------------------------------------
(* The other hands get what is left. *)

\* When all turns are over the hands that ask for something are full, and the
\* others empty: there are as many free slots as cards left.
LEMMA RoomForRest ==
  ASSUME IInv, pc = "pick", i \notin Hand
  PROVE  /\ i = Hands
         /\ \A g \in Hand : Upto(g) = IF Biased(g) THEN End(g) ELSE Begin(g)
         /\ Cards(bias_pack) = Slot \ FreeSlots
         /\ FreeSlots \subseteq Slot /\ IsFiniteSet(FreeSlots)
         /\ Cardinality(FreeSlots) = Cardinality(Cards(small_pack))
<1>1. TypeOK /\ FillInv /\ HandsFilled /\ bias_suits \in Biases /\ i \in 0 .. Hands
      /\ bias_pack \in PackType /\ small_pack \in PackType /\ OnePlace(bias_pack, small_pack)
      /\ Marks /\ Cardinality(TheFilled) = Cardinality(BiasedTo(i))
  BY DEF IInv, Filling, TypeOK, FillInv
<1>2. i = Hands
  BY <1>1, Sizes DEF Hand
<1>3. \A g \in Hand : Biased(g) => g \in TheFilled
  <2>1. \A g \in Hand : g < i
    BY <1>2, Begins
  <2>2. BiasedTo(i) \subseteq Hand /\ \A g \in Hand : Biased(g) => g \in BiasedTo(i)
    BY <2>1 DEF BiasedTo
  <2>3. TheFilled \subseteq BiasedTo(i)
    <3>1. ASSUME NEW g \in TheFilled PROVE g \in BiasedTo(i)
      <4>1. g \in Hand /\ bias_hand_xs[g] # BIG_XS
        BY DEF TheFilled, NO_XS, BIG_XS
      <4>. QED BY <1>1, <2>2, <4>1 DEF Marks
    <3>. QED BY <3>1
  <2>4. IsFiniteSet(Hand)
    BY Sizes, FS_Interval DEF Hand
  <2>5. IsFiniteSet(BiasedTo(i))
    BY <2>2, <2>4, FS_Subset
  <2>6. TheFilled = BiasedTo(i)
    BY <1>1, <2>3, <2>5, FS_Subset
  <2>. QED BY <2>2, <2>6
<1>4. ASSUME NEW g \in Hand PROVE Upto(g) = IF Biased(g) THEN End(g) ELSE Begin(g)
  <2>1. CASE Biased(g)
    BY <1>3, <2>1 DEF Upto, TheFilled
  <2>2. CASE ~Biased(g)
    <3>1. Due(g) = 0 /\ Begin(g) \in Nat
      BY <1>1, <2>2, DueFacts, Begins
    <3>2. bias_hand_xs[g] # NO_XS
      BY <1>1, <2>2 DEF Marks, NO_XS, BIG_XS
    <3>. QED BY <2>2, <3>1, <3>2 DEF Upto
  <2>. QED BY <2>1, <2>2
<1>5. Cards(bias_pack) = Slot \ FreeSlots
  <2>1. ASSUME NEW d \in Slot PROVE d \in Cards(bias_pack) <=> Biased(HandOf(d))
    <3>1. /\ HandOf(d) \in Hand /\ d \in Int /\ Begin(HandOf(d)) <= d /\ d < End(HandOf(d))
          /\ Begin(HandOf(d)) \in Int
      BY SlotHand, Begins
    <3>2. d \in Cards(bias_pack) <=> d < Upto(HandOf(d))
      BY <1>1 DEF HandsFilled
    <3>. QED BY <1>4, <3>1, <3>2
  <2>2. \A d \in Slot : d \in FreeSlots <=> ~Biased(HandOf(d))
    BY DEF FreeSlots, HandOf
  <2>. QED BY <2>1, <2>2 DEF Cards
<1>6. FreeSlots \subseteq Slot
  BY DEF FreeSlots
<1>7. IsFiniteSet(FreeSlots)
  BY <1>6, Sizes, FS_Subset
<1>8. Cardinality(FreeSlots) = Cardinality(Cards(small_pack))
  <2>1. /\ Cardinality(Cards(bias_pack)) \in Nat /\ Cardinality(Cards(small_pack)) \in Nat
        /\ Cardinality(Cards(bias_pack)) + Cardinality(Cards(small_pack)) = N
    BY <1>1, AllCounted
  <2>2. IsFiniteSet(Cards(bias_pack))
    BY <1>1, PackFacts
  <2>3. Cards(bias_pack) \cap FreeSlots = {} /\ Cards(bias_pack) \cup FreeSlots = Slot
    BY <1>5, <1>6
  <2>4. Cardinality(Cards(bias_pack) \cup FreeSlots)
          = Cardinality(Cards(bias_pack)) + Cardinality(FreeSlots) - Cardinality(Cards(bias_pack) \cap FreeSlots)
    BY <1>7, <2>2, FS_Union
  <2>5. Cardinality({}) = 0 /\ Cardinality(Slot) = N /\ Cardinality(FreeSlots) \in Nat
    BY <1>7, Sizes, FS_EmptySet, FS_CardinalityType
  <2>6. PICK x \in Nat, y \in Nat, z \in Nat :
           /\ x = Cardinality(Cards(bias_pack)) /\ y = Cardinality(Cards(small_pack))
           /\ z = Cardinality(FreeSlots)
    BY <2>1, <2>5
  <2>7. x + y = N /\ N = x + z - 0
    BY <2>1, <2>3, <2>4, <2>5, <2>6
  <2>8. y = z
    BY <2>7
  <2>. QED BY <2>6, <2>8
<1>. QED BY <1>2, <1>4, <1>5, <1>6, <1>7, <1>8

\* All cards left go to the free slots, one to each.
LEMMA RestGiven ==
  ASSUME NEW a \in PackType, NEW b \in PackType, OnePlace(a, b),
         NEW F, F \subseteq Slot, Cards(a) = Slot \ F,
         Cards(b) = 0 .. Cardinality(F) - 1,
         NEW a2, a2 = [d \in Slot |-> IF d \in F THEN b[Rank(F, d)] ELSE a[d]]
  PROVE  a2 \in PackType /\ Cards(a2) = Slot /\ CardsIn(a2) = Card
<1>1. F \in SUBSET Int /\ IsFiniteSet(F)
  BY Sizes, FS_Subset
<1>2. /\ \A c \in F : Rank(F, c) \in Cards(b)
      /\ \A d, c \in F : Rank(F, d) = Rank(F, c) => d = c
      /\ \A n \in Cards(b) : \E c \in F : Rank(F, c) = n
  BY <1>1, Ranks
<1>3. PICK m : m = [d \in F |-> Rank(F, d)]
  OBVIOUS
<1>4. m \in [F -> Cards(b)] /\ (\A d, e \in F : m[d] = m[e] => d = e)
      /\ \A k \in Cards(b) : \E d \in F : m[d] = k
  BY <1>2, <1>3
<1>5. PICK K : K = Cards(b)
  OBVIOUS
<1>6. CanMove(a, b, F, K, m)
  BY <1>4, <1>5 DEF CanMove
<1>7. PICK x, y : x = Given(a, b, F, m) /\ y = Without(b, K)
  OBVIOUS
<1>8. x \in PackType /\ Cards(x) = Cards(a) \cup F /\ OnePlace(x, y) /\ LeftOver(b, y, K)
  BY <1>6, <1>7, Moved
<1>9. x = a2
  BY <1>3, <1>7 DEF Given
<1>10. CardsIn(y) = {}
  BY <1>5, <1>8 DEF LeftOver, CardsIn
<1>11. CardsIn(x) = Card /\ Cards(x) = Slot
  BY <1>8, <1>10 DEF OnePlace
<1>. QED BY <1>8, <1>9, <1>11

\* fill_unbias_hands() completes the deal.
LEMMA FillUnbiasedInv ==
  ASSUME IInv, FillUnbiased
  PROVE  IInv'
<1>1. /\ pc = "pick" /\ i \notin Hand /\ pc' = "dealt"
      /\ small_pack_sz' = Cardinality(Cards(small_pack))
      /\ small_pack' \in Shuffles(Compress(small_pack), 0, small_pack_sz')
      /\ bias_pack' = [d \in Slot |->
             IF d \in FreeSlots THEN small_pack'[Rank(FreeSlots, d)] ELSE bias_pack[d]]
      /\ src_pos' = small_pack_sz'
      /\ bias_suits' = bias_suits /\ bias_suit_left' = bias_suit_left /\ bias_hand_xs' = bias_hand_xs
      /\ bias_src' = bias_src
      /\ i' = i /\ h' = h /\ dst_pos' = dst_pos
  BY DEF FillUnbiased, biasVars
<1>2. TypeOK /\ FillInv /\ HandsFilled /\ SuitsPlaced /\ bias_suits \in Biases
      /\ bias_pack \in PackType /\ small_pack \in PackType /\ OnePlace(bias_pack, small_pack)
  BY <1>1 DEF IInv, Filling, TypeOK, FillInv
<1>3. PICK a2, b2, n : a2 = bias_pack' /\ b2 = small_pack' /\ n = small_pack_sz'
  OBVIOUS
<1>4. /\ n \in 0 .. N /\ b2 \in PackType /\ Cards(b2) = 0 .. n - 1
      /\ CardsIn(b2) = CardsIn(small_pack) /\ (Apart(small_pack) => Apart(b2))
  BY <1>1, <1>2, <1>3, Repacked
<1>5. OnePlace(bias_pack, b2)
  BY <1>2, <1>4 DEF OnePlace
<1>6. /\ i = Hands /\ Cards(bias_pack) = Slot \ FreeSlots
      /\ FreeSlots \subseteq Slot /\ n = Cardinality(FreeSlots)
  BY <1>1, <1>3, RoomForRest
<1>7. a2 \in PackType /\ Cards(a2) = Slot /\ CardsIn(a2) = Card
  <2>1. PICK F, a : F = FreeSlots /\ a = bias_pack
    OBVIOUS
  <2>2. /\ a \in PackType /\ OnePlace(a, b2) /\ F \subseteq Slot /\ Cards(a) = Slot \ F
        /\ Cards(b2) = 0 .. Cardinality(F) - 1
    BY <1>2, <1>4, <1>5, <1>6, <2>1
  <2>3. a2 = [d \in Slot |-> IF d \in F THEN b2[Rank(F, d)] ELSE a[d]]
    BY <1>1, <1>3, <2>1
  <2>. QED BY <1>4, <2>2, <2>3, RestGiven
<1>8. TypeOK'
  BY <1>1, <1>2, <1>3, <1>4, <1>7 DEF TypeOK
<1>9. Dealt'
  <2>1. {a2[d] : d \in Slot} = CardsIn(a2)
    BY <1>7 DEF CardsIn
  <2>. QED BY <1>3, <1>7, <2>1 DEF Dealt
<1>10. HandsFilled'
  <2>1. ASSUME NEW d \in Slot PROVE d \in Cards(a2) /\ d < Upto(HandOf(d))'
    BY <1>1, <1>7, SlotHand DEF Upto
  <2>. QED BY <1>3, <2>1 DEF HandsFilled
<1>11. SuitsPlaced'
  <2>1. ASSUME NEW d \in Cards(bias_pack')
        PROVE  /\ \A t \in Suit : Place(d, HandOf(d), t)' => CardSuit(bias_pack'[d]) = t
               /\ d >= Begin(HandOf(d)) + Due(HandOf(d))' =>
                      bias_suits'[HandOf(d)][CardSuit(bias_pack'[d])] = -1
    <3>0. d \in Slot /\ HandOf(d) \in Hand /\ d \in Int /\ Begin(HandOf(d)) <= d /\ Begin(HandOf(d)) \in Nat
      BY SlotHand, Begins DEF Cards
    <3>1. CASE d \in FreeSlots
      <4>1. ~Biased(HandOf(d))
        BY <3>1 DEF FreeSlots, HandOf
      <4>2. a2[d] \in Card
        BY <1>3, <1>7, PackFacts
      <4>3. CardSuit(a2[d]) \in Suit
        <5>1. CardSuit(a2[d]) = HandOf(a2[d])
          BY DEF CardSuit, HandOf
        <5>. QED BY <4>2, <5>1, SlotHand DEF Card, Suit
      <4>4. bias_suits[HandOf(d)][CardSuit(a2[d])] = -1
        BY <4>1, <4>3 DEF Biased
      <4>5. ASSUME NEW t \in Suit, Place(d, HandOf(d), t) PROVE FALSE
        <5>1. Before(HandOf(d), t + 1) \in Nat /\ Before(HandOf(d), t + 1) <= Due(HandOf(d)) /\ Due(HandOf(d)) = 0
          BY <1>2, <3>0, <4>1, BeforeGrows, DueFacts
        <5>2. d < Begin(HandOf(d)) + Before(HandOf(d), t + 1)
          BY <4>5 DEF Place
        <5>. QED BY <3>0, <5>1, <5>2
      <4>. QED BY <1>1, <1>3, <4>4, <4>5, SameAsked
    <3>2. CASE d \notin FreeSlots
      <4>1. d \in Cards(bias_pack) /\ bias_pack'[d] = bias_pack[d]
        BY <1>1, <1>6, <3>0, <3>2
      <4>2. /\ \A t \in Suit : Place(d, HandOf(d), t) => CardSuit(bias_pack[d]) = t
            /\ d >= Begin(HandOf(d)) + Due(HandOf(d)) => bias_suits[HandOf(d)][CardSuit(bias_pack[d])] = -1
        BY <1>2, <4>1 DEF SuitsPlaced
      <4>. QED BY <1>1, <4>1, <4>2, SameAsked
    <3>. QED BY <3>1, <3>2
  <2>. QED BY <2>1 DEF SuitsPlaced
<1>. QED BY <1>1, <1>8, <1>9, <1>10, <1>11 DEF IInv, Filling

\* A step that changes nothing keeps the invariant.
LEMMA StutterInv ==
  ASSUME IInv, UNCHANGED vars
  PROVE  IInv'
<1>1. /\ bias_suits' = bias_suits /\ bias_suit_left' = bias_suit_left /\ bias_hand_xs' = bias_hand_xs
      /\ bias_src' = bias_src /\ bias_pack' = bias_pack /\ small_pack' = small_pack
      /\ small_pack_sz' = small_pack_sz /\ pc' = pc
      /\ i' = i /\ h' = h /\ dst_pos' = dst_pos /\ src_pos' = src_pos
  BY DEF vars, biasVars, packVars
<1>2. TypeOK'
  BY <1>1 DEF IInv, TypeOK
<1>3. \A g : (Biased(g)' <=> Biased(g)) /\ (Spare(g)' <=> Spare(g)) /\ Due(g)' = Due(g)
             /\ Upto(g)' = Upto(g)
  BY <1>1, SameAsked, SameSums DEF Spare, Upto
<1>4. pc = "choose" => Choosing'
  <2>1. Choosing => SuitsDrawn(bias_src, i)'
    BY <1>1, SameAsked DEF SuitsDrawn, Choosing
  <2>. QED BY <1>1, <1>3, <2>1, SameAsked DEF IInv, Choosing
<1>5. Filling => FillInv'
  <2>1. FillInv => LeftKnown' /\ Marks'
    BY <1>1, <1>3 DEF FillInv, LeftKnown, Marks
  <2>2. TheFilled' = TheFilled /\ BiasedTo(i)' = BiasedTo(i)
    BY <1>1, <1>3 DEF TheFilled, BiasedTo
  <2>3. TurnOf(h) => TurnOf(h)'
    BY <1>1, <1>3, SameSums DEF TurnOf
  <2>. QED BY <1>1, <1>3, <2>1, <2>2, <2>3 DEF IInv, FillInv
<1>6. HandsFilled => HandsFilled'
  BY <1>1, <1>3, SameFilled
<1>7. SuitsPlaced => SuitsPlaced'
  BY <1>1, SamePlaced
<1>8. Dealt => Dealt'
  BY <1>1 DEF Dealt
<1>. QED BY <1>1, <1>2, <1>3, <1>4, <1>5, <1>6, <1>7, <1>8 DEF IInv, Filling

\* The invariant holds in every state make_bias_deal() can reach, for any
\* number and size of hands and any lengths the parser lets through.
THEOREM Invariance == Spec => []IInv
<1>1. ASSUME IInv, [Next]_vars PROVE IInv'
  <2>1. CASE StartDeal
    BY <1>1, <2>1, StartDealInv
  <2>2. CASE ChooseSuit
    BY <1>1, <2>2, ChooseSuitInv
  <2>3. CASE ShuffleRest
    BY <1>1, <2>3, ShuffleRestInv
  <2>4. CASE SkipHand
    BY <1>1, <2>4, SkipHandInv
  <2>5. CASE PickHand
    BY <1>1, <2>5, PickHandInv
  <2>6. CASE PlaceCard
    BY <1>1, <2>6, PlaceCardInv
  <2>7. CASE GiveUp
    BY <1>1, <2>7, GiveUpInv
  <2>8. CASE HandFilled
    BY <1>1, <2>8, HandFilledInv
  <2>9. CASE FillUnbiased
    BY <1>1, <2>9, FillUnbiasedInv
  <2>10. CASE UNCHANGED vars
    BY <1>1, <2>10, StutterInv
  <2>. QED BY <1>1, <2>1, <2>2, <2>3, <2>4, <2>5, <2>6, <2>7, <2>8, <2>9, <2>10 DEF Next
<1>. QED BY <1>1, InitInv, PTL DEF Spec

\* Every card is in one place, while the deal is made and when it is done.
LEMMA CardsAccounted == IInv => EveryCardOnce
<1> SUFFICES ASSUME IInv PROVE EveryCardOnce
  OBVIOUS
<1>1. ASSUME Filling
      PROVE  /\ {bias_pack[d] : d \in Cards(bias_pack)} \cup {small_pack[k] : k \in Unused} = Card
             /\ Cardinality(Cards(bias_pack)) + Cardinality(Unused) = N
  <2>1. /\ bias_pack \in PackType /\ small_pack \in PackType /\ OnePlace(bias_pack, small_pack)
        /\ Cards(small_pack) = src_pos .. small_pack_sz - 1
    BY <1>1 DEF IInv, TypeOK, FillInv
  <2>2. Unused = Cards(small_pack)
    <3>1. \A k \in src_pos .. small_pack_sz - 1 : small_pack[k] # NoCard
      BY <2>1 DEF Cards
    <3>. QED BY <2>1, <3>1 DEF Unused
  <2>3. Cardinality(Cards(bias_pack)) + Cardinality(Cards(small_pack)) = N
    BY <2>1, AllCounted
  <2>. QED BY <2>1, <2>2, <2>3 DEF OnePlace, CardsIn
<1>. QED BY <1>1 DEF EveryCardOnce, IInv, Dealt

\* While hands are filled, with cards passed over and moved about, every card
\* is in one place; and a deal that is done has all of them.
THEOREM EveryCard == Spec => []EveryCardOnce
BY CardsAccounted, Invariance, PTL

\* In a full hand the cards of a suit spoken of are in the slots of that suit.
LEMMA SuitInPlace ==
  ASSUME IInv, pc = "dealt", NEW g \in Hand, NEW s \in Suit, bias_suits[g][s] # -1
  PROVE  HandSuit(g, s) = Begin(g) + Before(g, s) .. Begin(g) + Before(g, s + 1) - 1
<1>1. TypeOK /\ HandsFilled /\ SuitsPlaced /\ bias_suits \in Biases
  BY DEF IInv, TypeOK
<1>2. /\ Begin(g) \in Nat /\ End(g) = Begin(g) + HandSize /\ End(g) <= N
      /\ Due(g) \in 0 .. HandSize /\ HandSize \in Nat
      /\ Before(g, s) \in Nat /\ Before(g, s + 1) \in Nat /\ Before(g, s + 1) <= Due(g)
  BY <1>1, Begins, DueFacts, BeforeGrows, Sizes
<1>3. ASSUME NEW d \in Int, Begin(g) <= d, d < End(g)
      PROVE  CardSuit(bias_pack[d]) = s <=> Place(d, g, s)
  <2>1. d \in Slot /\ HandOf(d) = g
    BY <1>3, InHand
  <2>2. d \in Cards(bias_pack)
    <3>1. Upto(g) = End(g)
      BY DEF Upto
    <3>. QED BY <1>1, <1>3, <2>1, <3>1 DEF HandsFilled
  <2>3. Place(d, g, s) => CardSuit(bias_pack[d]) = s
    BY <1>1, <2>1, <2>2 DEF SuitsPlaced
  <2>4. ASSUME CardSuit(bias_pack[d]) = s PROVE Place(d, g, s)
    <3>1. d < Begin(g) + Due(g)
      <4>1. ~(d >= Begin(g) + Due(g))
        BY <1>1, <2>1, <2>2, <2>4 DEF SuitsPlaced
      <4>. QED BY <1>2, <1>3, <4>1
    <3>2. PICK x \in Nat : d = Begin(g) + x /\ x < Due(g)
      <4>1. d - Begin(g) \in Nat /\ d = Begin(g) + (d - Begin(g)) /\ d - Begin(g) < Due(g)
        BY <1>2, <1>3, <3>1
      <4>. QED BY <4>1
    <3>3. PICK t \in 0 .. Hands - 1 : Before(g, t) <= x /\ x < Before(g, t + 1)
      <4>1. AllNatural(HandNeeds(bias_suits, g), Hands) /\ Hands \in Nat /\ x < Before(g, Hands)
        BY <1>1, <3>2, DueFacts, Sizes
      <4>. QED BY <3>2, <4>1, SumLocate DEF Before
    <3>4. t \in Suit
      BY DEF Suit, Hand
    <3>5. Place(d, g, t)
      <4>1. Before(g, t) \in Nat /\ Before(g, t + 1) \in Nat
        BY <1>1, <3>4, BeforeGrows
      <4>. QED BY <1>2, <3>2, <3>3, <4>1 DEF Place
    <3>6. CardSuit(bias_pack[d]) = t
      BY <1>1, <2>1, <2>2, <3>4, <3>5 DEF SuitsPlaced
    <3>. QED BY <2>4, <3>5, <3>6
  <2>. QED BY <2>3, <2>4
<1>4. ASSUME NEW d PROVE d \in HandSuit(g, s) <=> d \in Int /\ Place(d, g, s)
  <2>1. d \in HandSuit(g, s) <=> d \in Int /\ Begin(g) <= d /\ d < End(g) /\ CardSuit(bias_pack[d]) = s
    BY <1>2 DEF HandSuit
  <2>2. d \in Int /\ Place(d, g, s) => Begin(g) <= d /\ d < End(g)
    BY <1>2 DEF Place
  <2>. QED BY <1>3, <2>1, <2>2
<1>5. ASSUME NEW d
      PROVE  d \in Begin(g) + Before(g, s) .. Begin(g) + Before(g, s + 1) - 1 <=> d \in Int /\ Place(d, g, s)
  BY <1>2 DEF Place
<1>. QED BY <1>4, <1>5

\* Every deal made has the lengths asked for, voids included.
LEMMA LengthsRight == IInv => BiasMet
<1> SUFFICES ASSUME IInv, pc = "dealt", NEW g \in Hand, NEW s \in Suit, bias_suits[g][s] # -1
             PROVE  Cardinality(HandSuit(g, s)) = bias_suits[g][s]
  BY DEF BiasMet
<1>1. bias_suits \in Biases
  BY DEF IInv, TypeOK
<1>2. /\ Begin(g) \in Nat /\ Before(g, s) \in Nat /\ Before(g, s + 1) \in Nat
      /\ Before(g, s + 1) = Before(g, s) + Need(bias_suits, g, s)
      /\ Need(bias_suits, g, s) \in Nat
      /\ Need(bias_suits, g, s) = IF bias_suits[g][s] > 0 THEN bias_suits[g][s] ELSE 0
      /\ bias_suits[g][s] \in -1 .. HandSize /\ HandSize \in Nat
  BY <1>1, Begins, BeforeGrows, Asked, Sizes
<1>3. Need(bias_suits, g, s) = bias_suits[g][s]
  BY <1>2
<1>4. PICK lo \in Int, hi \in Int :
         lo = Begin(g) + Before(g, s) /\ hi = Begin(g) + Before(g, s + 1) - 1
  BY <1>2
<1>5. HandSuit(g, s) = lo .. hi
  BY <1>4, SuitInPlace
<1>6. Cardinality(lo .. hi) = IF lo > hi THEN 0 ELSE hi - lo + 1
  BY FS_Interval
<1>7. hi = lo + Need(bias_suits, g, s) - 1
  BY <1>2, <1>4
<1>8. Cardinality(lo .. hi) = Need(bias_suits, g, s)
  <2>1. PICK n \in Nat : n = Need(bias_suits, g, s)
    BY <1>2
  <2>2. hi = lo + n - 1
    BY <1>7, <2>1
  <2>3. Cardinality(lo .. hi) = n
    <3>1. CASE n = 0
      <4>1. lo > hi
        BY <2>2, <3>1
      <4>. QED BY <1>6, <3>1, <4>1
    <3>2. CASE n # 0
      <4>1. ~(lo > hi) /\ hi - lo + 1 = n
        BY <2>2, <3>2
      <4>. QED BY <1>6, <4>1
    <3>. QED BY <3>1, <3>2
  <2>. QED BY <2>1, <2>3
<1>. QED BY <1>3, <1>5, <1>8

\* Every deal made has, in every hand, just the lengths asked for, voids
\* included.
THEOREM LengthsMet == Spec => []BiasMet
BY LengthsRight, Invariance, PTL

\* bias_suit_left is what is left of each suit, and a hand given up was short.
LEMMA ShortWhenLeft == IInv => GivesUpOnlyShort
<1> SUFFICES ASSUME IInv PROVE GivesUpOnlyShort
  OBVIOUS
<1>1. ASSUME Filling, NEW s \in Suit
      PROVE  bias_suit_left[s] = Cardinality({k \in Unused : CardSuit(small_pack[k]) = s})
  <2>1. /\ small_pack \in PackType /\ Apart(small_pack)
        /\ Cards(small_pack) = src_pos .. small_pack_sz - 1
        /\ bias_suit_left[s] = Cardinality(Of(CardsIn(small_pack), s))
    BY <1>1 DEF IInv, TypeOK, FillInv, OnePlace, LeftKnown
  <2>2. Unused = Cards(small_pack)
    <3>1. \A k \in src_pos .. small_pack_sz - 1 : small_pack[k] # NoCard
      BY <2>1 DEF Cards
    <3>. QED BY <2>1, <3>1 DEF Unused
  <2> DEFINE S == {k \in Unused : CardSuit(small_pack[k]) = s}
             T == Of(CardsIn(small_pack), s)
  <2>3. S \subseteq Cards(small_pack) /\ \A c : c \in T <=> \E k \in S : small_pack[k] = c
    BY <2>2 DEF Of, CardsIn
  <2>4. Cardinality(T) = Cardinality(S)
    <3> HIDE DEF S, T
    <3>. QED BY <2>1, <2>3, PlacesCount
  <2>. QED BY <2>1, <2>4
<1>2. ASSUME pc = "failed" PROVE bias_hand_xs[h] < 0
  BY <1>2 DEF IInv, Filling, FillInv
<1>. QED BY <1>1, <1>2 DEF GivesUpOnlyShort

\* An attempt is given up only when the hand to be filled was short of cards,
\* and bias_suit_left is always what is left of each suit.
THEOREM ShortOnly == Spec => []GivesUpOnlyShort
BY ShortWhenLeft, Invariance, PTL

\* A hand picked that has no free slot asked for a whole hand.
AbortsOnlyFull == pc = "abort" => BiasLen(bias_suits, h) = HandSize

\* The assertion of fill_bias_hands() that a hand picked has a free slot can
\* fail for one kind of hand only: one whose lengths add up to a whole hand.
THEOREM AbortsOnly == Spec => []AbortsOnlyFull
<1>1. IInv => AbortsOnlyFull
  BY DEF IInv, AbortsOnlyFull, Due
<1>. QED BY <1>1, Invariance, PTL

\* Every variable keeps its type: no excess, size or position leaves its range.
THEOREM TypeCorrect == Spec => []TypeOK
<1>1. IInv => TypeOK
  BY DEF IInv
<1>. QED BY <1>1, Invariance, PTL
=============================================================================
