--------------------------- MODULE DealCards_proofs ---------------------------
(***************************************************************************)
(* Proofs about DealCards and Library: for hands of any size, any predealt *)
(* cards and any number of shuffles, whatever the random numbers, no card  *)
(* is lost or doubled; and a deal of hands of up to 15 cards, what four    *)
(* bits hold of tricks, survives the way to a record and back, whatever    *)
(* was written before.                                                     *)
(***************************************************************************)
EXTENDS Library, FiniteSetTheorems, FunctionTheorems, TLAPS

-----------------------------------------------------------------------------
(* Ranks: how many elements of a set are smaller. *)

Rank(S, c) == Cardinality({b \in S : b < c})

\* In a finite set of integers a smaller element has a smaller rank.
LEMMA RankGrows ==
  ASSUME NEW S \in SUBSET Int, IsFiniteSet(S), NEW a \in S, NEW c \in S, a < c
  PROVE  Rank(S, a) < Rank(S, c)
  <1> DEFINE A == {b \in S : b < a}
             C == {b \in S : b < c}
  <1>1. A \in SUBSET C /\ a \in C /\ a \notin A
    <2>1. a \in Int /\ c \in Int /\ \A b \in S : b \in Int
      OBVIOUS
    <2>2. \A b \in S : b < a => b < c
      BY <2>1
    <2>3. A \in SUBSET C
      BY <2>2
    <2>4. a \in C
      OBVIOUS
    <2>5. a \notin A
      BY <2>1
    <2>. QED
      BY <2>3, <2>4, <2>5
  <1>2. IsFiniteSet(C)
    BY FS_Subset
  <1>3. IsFiniteSet(A) /\ Cardinality(A) <= Cardinality(C) /\ Cardinality(A) # Cardinality(C)
    <2> HIDE DEF A, C
    <2>. QED
      BY <1>1, <1>2, FS_Subset
  <1>4. Cardinality(A) \in Nat /\ Cardinality(C) \in Nat
    BY <1>2, <1>3, FS_CardinalityType
  <1>. QED
    BY <1>3, <1>4 DEF Rank

\* The elements of a finite set of integers have the ranks 0, 1, 2, ..., each
\* one of them.
LEMMA Ranks ==
  ASSUME NEW S \in SUBSET Int, IsFiniteSet(S)
  PROVE  /\ \A c \in S : Rank(S, c) \in 0 .. Cardinality(S) - 1
         /\ \A a, c \in S : Rank(S, a) = Rank(S, c) => a = c
         /\ \A n \in 0 .. Cardinality(S) - 1 : \E c \in S : Rank(S, c) = n
  <1> DEFINE Places == 0 .. Cardinality(S) - 1
             rank == [c \in S |-> Rank(S, c)]
  <1>0. Cardinality(S) \in Nat
    BY FS_CardinalityType
  <1>1. ASSUME NEW c \in S PROVE Rank(S, c) \in Places
    <2> DEFINE C == {b \in S : b < c}
    <2>1. C \in SUBSET S /\ C # S
      OBVIOUS
    <2>2. IsFiniteSet(C) /\ Cardinality(C) <= Cardinality(S) /\ Cardinality(C) # Cardinality(S)
      <3> HIDE DEF C
      <3>. QED
        BY <2>1, FS_Subset
    <2>3. Cardinality(C) \in Nat
      BY <2>2, FS_CardinalityType
    <2>. QED
      BY <1>0, <2>2, <2>3 DEF Rank
  <1>2. ASSUME NEW a \in S, NEW c \in S, Rank(S, a) = Rank(S, c) PROVE a = c
    <2>1. Rank(S, a) \in Int /\ Rank(S, c) \in Int
      BY <1>0, <1>1
    <2>2. ~(a < c) /\ ~(c < a)
      BY <1>2, <2>1, RankGrows
    <2>. QED
      BY <2>2
  <1>3. rank \in Injection(S, Places)
    <2> HIDE DEF Places
    <2>1. rank \in [S -> Places]
      BY <1>1
    <2>2. \A a, c \in S : rank[a] = rank[c] => a = c
      BY <1>2
    <2>. QED
      BY <2>1, <2>2, Fun_IsInj
  <1>4. IsFiniteSet(Places) /\ Cardinality(Places) = Cardinality(S)
    BY <1>0, FS_Interval
  <1>5. rank \in Surjection(S, Places)
    <2> HIDE DEF Places, rank
    <2>. QED
      BY <1>3, <1>4, FS_Injection
  <1>6. \A n \in Places : \E c \in S : rank[c] = n
    BY <1>5 DEF Surjection
  <1>. QED
    BY <1>1, <1>2, <1>6

-----------------------------------------------------------------------------
(* Deals. *)

\* A deal with every card of the pack.
Whole(d) == d \in [Slot -> Card] /\ \A c \in Card : \E s \in Slot : d[s] = c

\* The slots are finitely many integers.
LEMMA Slots ==
  /\ N \in Nat /\ N > 0 /\ Slot \subseteq Int
  /\ IsFiniteSet(Slot) /\ Cardinality(Slot) = N
  <1>1. N \in Nat /\ N > 0
    BY SizeAssumption DEF N
  <1>. QED
    BY <1>1, FS_Interval DEF Slot

\* The k-th slot of hand p is where div and mod say it is.
LEMMA PlaceSlot ==
  ASSUME NEW p \in Seat, NEW k \in 0 .. HandSize - 1
  PROVE  /\ p * HandSize + k \in Slot /\ p * HandSize + k \in HandSlots(p)
         /\ (p * HandSize + k) \div HandSize = p
         /\ (p * HandSize + k) % HandSize = k
  <1> USE SizeAssumption DEF Seat, Slot, N, HandSlots
  <1>1. CASE p = 0
    BY <1>1
  <1>2. CASE p = 1
    BY <1>2
  <1>3. CASE p = 2
    BY <1>3
  <1>4. CASE p = 3
    BY <1>4
  <1>. QED
    BY <1>1, <1>2, <1>3, <1>4

\* Every slot is the k-th of some hand.
LEMMA SlotPlace ==
  ASSUME NEW s \in Slot
  PROVE  \E p \in Seat, k \in 0 .. HandSize - 1 : s = p * HandSize + k
  <1> USE SizeAssumption DEF Seat, Slot, N
  <1>1. CASE s < HandSize
    <2>1. s = 0 * HandSize + s /\ s \in 0 .. HandSize - 1
      BY <1>1
    <2>. QED
      BY <2>1
  <1>2. CASE HandSize <= s /\ s < 2 * HandSize
    <2>1. s = 1 * HandSize + (s - HandSize) /\ s - HandSize \in 0 .. HandSize - 1
      BY <1>2
    <2>. QED
      BY <2>1
  <1>3. CASE 2 * HandSize <= s /\ s < 3 * HandSize
    <2>1. s = 2 * HandSize + (s - 2 * HandSize) /\ s - 2 * HandSize \in 0 .. HandSize - 1
      BY <1>3
    <2>. QED
      BY <2>1
  <1>4. CASE 3 * HandSize <= s
    <2>1. s = 3 * HandSize + (s - 3 * HandSize) /\ s - 3 * HandSize \in 0 .. HandSize - 1
      BY <1>4
    <2>. QED
      BY <2>1
  <1>. QED
    BY <1>1, <1>2, <1>3, <1>4

\* So a slot is in one hand, at one place.
LEMMA SlotHand ==
  ASSUME NEW s \in Slot
  PROVE  /\ s \div HandSize \in Seat /\ s % HandSize \in 0 .. HandSize - 1
         /\ s \in HandSlots(s \div HandSize)
  <1>1. PICK p \in Seat, k \in 0 .. HandSize - 1 : s = p * HandSize + k
    BY SlotPlace
  <1>. QED
    BY <1>1, PlaceSlot

\* The slots of a hand are slots, as many as a hand has cards.
LEMMA HandSlotsCount ==
  ASSUME NEW p \in Seat
  PROVE  /\ HandSlots(p) \subseteq Slot
         /\ IsFiniteSet(HandSlots(p)) /\ Cardinality(HandSlots(p)) = HandSize
  <1> DEFINE a == p * HandSize
             b == (p + 1) * HandSize - 1
  <1>1. a \in Int /\ b \in Int /\ a <= b /\ b - a + 1 = HandSize /\ 0 <= a /\ b < N
    <2> USE SizeAssumption DEF Seat, N
    <2>1. CASE p = 0
      BY <2>1
    <2>2. CASE p = 1
      BY <2>2
    <2>3. CASE p = 2
      BY <2>3
    <2>4. CASE p = 3
      BY <2>4
    <2>. QED
      BY <2>1, <2>2, <2>3, <2>4
  <1>2. HandSlots(p) = a .. b
    BY DEF HandSlots
  <1> HIDE DEF a, b
  <1>3. IsFiniteSet(a .. b) /\ Cardinality(a .. b) = HandSize
    BY <1>1, FS_Interval
  <1>4. a .. b \subseteq Slot
    BY <1>1, Slots DEF Slot
  <1>. QED
    BY <1>2, <1>3, <1>4

\* A deal with every card has each of them once.
LEMMA WholeOnce ==
  ASSUME NEW d, Whole(d), NEW r \in Slot, NEW s \in Slot, d[r] = d[s]
  PROVE  r = s
  <1>1. d \in Surjection(Slot, Card)
    BY Fun_IsSurj DEF Whole
  <1>2. d \in Injection(Slot, Card)
    BY <1>1, Slots, FS_SurjSameCardinalityImpliesInj DEF Card
  <1>. QED
    BY <1>2, Fun_InjectionProperties

\* So its hands have the right number of cards.
LEMMA HandCards ==
  ASSUME NEW d, Whole(d), NEW p \in Seat
  PROVE  LET hand == Hands(d)[p]
         IN  /\ hand \in SUBSET Int /\ hand \subseteq Card
             /\ IsFiniteSet(hand) /\ Cardinality(hand) = HandSize
  <1> DEFINE hand == {d[s] : s \in HandSlots(p)}
             g == [s \in HandSlots(p) |-> d[s]]
  <1>1. Hands(d)[p] = hand
    BY DEF Hands
  <1>2. hand \subseteq Card /\ hand \in SUBSET Int
    BY Slots, HandSlotsCount DEF Whole, Card
  <1>3. g \in Bijection(HandSlots(p), hand)
    <2>1. g \in [HandSlots(p) -> hand]
      OBVIOUS
    <2>2. \A r, s \in HandSlots(p) : g[r] = g[s] => r = s
      BY HandSlotsCount, WholeOnce
    <2>3. \A c \in hand : \E s \in HandSlots(p) : g[s] = c
      OBVIOUS
    <2> HIDE DEF g, hand
    <2>. QED
      BY <2>1, <2>2, <2>3, Fun_IsBij
  <1>4. IsFiniteSet(hand) /\ Cardinality(hand) = HandSize
    <2>1. ExistsBijection(HandSlots(p), hand)
      BY <1>3 DEF ExistsBijection
    <2> HIDE DEF hand
    <2>. QED
      BY <2>1, HandSlotsCount, FS_Bijection
  <1>. QED
    BY <1>1, <1>2, <1>4

\* The slots of hand p are those that div says are in p.
LEMMA InHand ==
  ASSUME NEW p \in Seat, NEW s \in HandSlots(p)
  PROVE  s \in Slot /\ s \div HandSize = p
  <1> DEFINE k == s - p * HandSize
  <1>1. k \in 0 .. HandSize - 1 /\ s = p * HandSize + k
    <2> USE SizeAssumption DEF Seat, HandSlots
    <2>1. CASE p = 0
      BY <2>1
    <2>2. CASE p = 1
      BY <2>2
    <2>3. CASE p = 2
      BY <2>3
    <2>4. CASE p = 3
      BY <2>4
    <2>. QED
      BY <2>1, <2>2, <2>3, <2>4
  <1> HIDE DEF k
  <1>. QED
    BY <1>1, PlaceSlot

\* In a sorted deal a slot has the card of its rank in the hand, and that one
\* only.
LEMMA SortedPlace ==
  ASSUME NEW d, Whole(d), NEW s \in Slot
  PROVE  LET hand == Hands(d)[s \div HandSize]
         IN  /\ Sorted(d)[s] \in hand
             /\ Rank(hand, Sorted(d)[s]) = s % HandSize
             /\ \A c \in hand : Rank(hand, c) = s % HandSize => c = Sorted(d)[s]
  <1> DEFINE hand == Hands(d)[s \div HandSize]
  <1>1. Sorted(d)[s] = CHOOSE c \in hand : Rank(hand, c) = s % HandSize
    BY DEF Sorted, Rank
  <1>2. s \div HandSize \in Seat /\ s % HandSize \in 0 .. HandSize - 1
    BY SlotHand
  <1>3. hand \in SUBSET Int /\ IsFiniteSet(hand) /\ Cardinality(hand) = HandSize
    BY <1>2, HandCards
  <1> HIDE DEF hand
  <1>4. \E c \in hand : Rank(hand, c) = s % HandSize
    BY <1>2, <1>3, Ranks
  <1>5. \A a, c \in hand : Rank(hand, a) = Rank(hand, c) => a = c
    BY <1>3, Ranks
  <1>6. Sorted(d)[s] \in hand /\ Rank(hand, Sorted(d)[s]) = s % HandSize
    BY <1>1, <1>4
  <1>. QED
    BY <1>5, <1>6 DEF hand

\* Every card of a hand has a slot of it, the one of its rank.
LEMMA RankSlot ==
  ASSUME NEW d, Whole(d), NEW p \in Seat, NEW c \in Hands(d)[p]
  PROVE  LET t == p * HandSize + Rank(Hands(d)[p], c)
         IN  /\ t \in Slot /\ t \in HandSlots(p) /\ t \div HandSize = p
             /\ t % HandSize = Rank(Hands(d)[p], c)
  <1> DEFINE hand == Hands(d)[p]
             k == Rank(hand, c)
  <1>1. hand \in SUBSET Int /\ IsFiniteSet(hand) /\ Cardinality(hand) = HandSize
    BY HandCards
  <1>2. k \in 0 .. HandSize - 1
    <2> HIDE DEF hand
    <2>1. c \in hand
      BY DEF hand
    <2>. QED
      BY <1>1, <2>1, Ranks
  <1> HIDE DEF k
  <1>3. /\ p * HandSize + k \in Slot /\ p * HandSize + k \in HandSlots(p)
        /\ (p * HandSize + k) \div HandSize = p /\ (p * HandSize + k) % HandSize = k
    BY <1>2, PlaceSlot
  <1>. QED
    BY <1>3 DEF k

\* sortDeal() leaves every hand its cards.
LEMMA SortedHands ==
  ASSUME NEW d, Whole(d)
  PROVE  Hands(Sorted(d)) = Hands(d)
  <1> DEFINE e == Sorted(d)
  <1>1. ASSUME NEW p \in Seat
        PROVE  {e[s] : s \in HandSlots(p)} = Hands(d)[p]
    <2>1. ASSUME NEW s \in HandSlots(p) PROVE e[s] \in Hands(d)[p]
      <3>1. s \in Slot /\ s \div HandSize = p
        BY InHand
      <3>. QED
        BY <3>1, SortedPlace
    <2>2. ASSUME NEW c \in Hands(d)[p] PROVE \E s \in HandSlots(p) : e[s] = c
      <3> DEFINE t == p * HandSize + Rank(Hands(d)[p], c)
      <3>1. /\ t \in Slot /\ t \in HandSlots(p) /\ t \div HandSize = p
            /\ t % HandSize = Rank(Hands(d)[p], c)
        BY RankSlot
      <3> HIDE DEF t
      <3>2. e[t] = c
        BY <3>1, SortedPlace
      <3>. QED
        BY <3>1, <3>2
    <2> HIDE DEF e
    <2>. QED
      BY <2>1, <2>2
  <1>2. Hands(e) = [p \in Seat |-> {e[s] : s \in HandSlots(p)}]
    BY DEF Hands
  <1>3. Hands(d) = [p \in Seat |-> Hands(d)[p]]
    BY DEF Hands
  <1> HIDE DEF e
  <1>4. Hands(e) = Hands(d)
    BY <1>1, <1>2, <1>3
  <1>. QED
    BY <1>4 DEF e

\* sortDeal() loses no card.
LEMMA SortedWhole ==
  ASSUME NEW d, Whole(d)
  PROVE  Whole(Sorted(d))
  <1> DEFINE e == Sorted(d)
  <1>1. \A s \in Slot : e[s] \in Card
    BY SortedPlace, SlotHand, HandCards
  <1>2. ASSUME NEW c \in Card
        PROVE  \E s \in Slot : e[s] = c
    <2>1. PICK r \in Slot : d[r] = c
      BY DEF Whole
    <2>2. PICK p \in Seat : r \in HandSlots(p)
      BY SlotHand
    <2>3. c \in Hands(d)[p]
      BY <2>1, <2>2 DEF Hands
    <2>4. c \in Hands(e)[p]
      BY <2>3, SortedHands
    <2>5. PICK s \in HandSlots(p) : e[s] = c
      BY <2>4 DEF Hands
    <2>. QED
      BY <2>5, InHand
  <1>. QED
    BY <1>1, <1>2 DEF Whole, Sorted

\* Nor does an exchange of two cards, in a deal or in another array of cards.
Onto(f, D, T) == f \in [D -> T] /\ \A c \in T : \E s \in D : f[s] = c

LEMMA ExchangeOnto ==
  ASSUME NEW D, NEW T, NEW f, NEW a \in D, NEW b \in D, Onto(f, D, T)
  PROVE  Onto(Exchange(f, a, b), D, T)
  <1> DEFINE g == Exchange(f, a, b)
  <1> USE DEF Onto
  <1>1. g \in [D -> T] /\ g[b] = f[a] /\ g[a] = f[b]
    BY DEF Exchange
  <1>2. \A s \in D : s # a /\ s # b => g[s] = f[s]
    BY DEF Exchange
  <1>3. ASSUME NEW c \in T PROVE \E s \in D : g[s] = c
    <2>1. PICK s \in D : f[s] = c
      OBVIOUS
    <2> HIDE DEF g
    <2>. QED
      BY <1>1, <1>2, <2>1
  <1>. QED
    BY <1>1, <1>3

\* Nor do hands that change places.
LEMMA Swap2Whole ==
  ASSUME NEW d, Whole(d), NEW p1 \in Seat, NEW p2 \in Seat, p1 < p2
  PROVE  Whole(Swap2(d, p1, p2))
  <1> DEFINE e == Swap2(d, p1, p2)
             m == (p2 - p1) * HandSize
             From(s) == IF s \in HandSlots(p1) THEN s + m
                        ELSE IF s \in HandSlots(p2) THEN s - m ELSE s
  <1>1. ASSUME NEW s \in Slot
        PROVE  From(s) \in Slot /\ From(From(s)) = s
    <2>1. \/ (p1 = 0 /\ p2 = 1) \/ (p1 = 0 /\ p2 = 2) \/ (p1 = 0 /\ p2 = 3)
          \/ (p1 = 1 /\ p2 = 2) \/ (p1 = 1 /\ p2 = 3) \/ (p1 = 2 /\ p2 = 3)
      BY DEF Seat
    <2> USE SizeAssumption DEF Slot, N, HandSlots
    <2>2. CASE p1 = 0 /\ p2 = 1
      BY <2>2
    <2>3. CASE p1 = 0 /\ p2 = 2
      BY <2>3
    <2>4. CASE p1 = 0 /\ p2 = 3
      BY <2>4
    <2>5. CASE p1 = 1 /\ p2 = 2
      BY <2>5
    <2>6. CASE p1 = 1 /\ p2 = 3
      BY <2>6
    <2>7. CASE p1 = 2 /\ p2 = 3
      BY <2>7
    <2>. QED
      BY <2>1, <2>2, <2>3, <2>4, <2>5, <2>6, <2>7
  <1>2. HandSlots(p1) \cap HandSlots(p2) = {}
    BY SizeAssumption DEF HandSlots, Seat
  <1>3. \A s \in Slot : e[s] = d[From(s)]
    BY <1>2 DEF Swap2
  <1>4. e \in [Slot -> Card]
    <2>1. \A s \in Slot : e[s] \in Card
      BY <1>1, <1>3 DEF Whole
    <2>. QED
      BY <2>1 DEF Swap2
  <1>5. ASSUME NEW c \in Card PROVE \E s \in Slot : e[s] = c
    <2>1. PICK r \in Slot : d[r] = c
      BY DEF Whole
    <2> HIDE DEF e, From
    <2>. QED
      BY <1>1, <1>3, <2>1
  <1>. QED
    BY <1>4, <1>5 DEF Whole

-----------------------------------------------------------------------------
(* Predealt cards. *)

Rest == Card \ Kept
Free == {s \in Slot : Stacked[s] = NoCard}

\* There are as many free slots as cards left over.
LEMMA FreeCount ==
  /\ Rest \in SUBSET Int /\ IsFiniteSet(Rest) /\ Small = Cardinality(Rest)
  /\ Free \in SUBSET Int /\ IsFiniteSet(Free) /\ Small = Cardinality(Free)
  /\ Small \in 0 .. N
  <1> DEFINE g == [s \in Predealt |-> Stacked[s]]
  <1>1. Predealt \subseteq Slot /\ Free = Slot \ Predealt /\ Kept \subseteq Card
    BY StackedAssumption DEF Predealt, Free, Kept
  <1>2. g \in Bijection(Predealt, Kept)
    <2>1. g \in [Predealt -> Kept] /\ \A c \in Kept : \E s \in Predealt : g[s] = c
      BY DEF Kept
    <2>2. \A r, s \in Predealt : g[r] = g[s] => r = s
      BY StackedAssumption
    <2> HIDE DEF g
    <2>. QED
      BY <2>1, <2>2, Fun_IsBij
  <1>3. IsFiniteSet(Predealt)
    BY <1>1, Slots, FS_Subset
  <1>4. ExistsBijection(Predealt, Kept)
    BY <1>2 DEF ExistsBijection
  <1>5. IsFiniteSet(Kept) /\ Cardinality(Kept) = Cardinality(Predealt)
    BY <1>3, <1>4, FS_Bijection
  <1>6. /\ IsFiniteSet(Free)
        /\ Cardinality(Free) = N - Cardinality(Slot \cap Predealt)
    BY <1>1, Slots, FS_Difference
  <1>7. /\ IsFiniteSet(Rest)
        /\ Cardinality(Rest) = N - Cardinality(Card \cap Kept)
    BY Slots, FS_Difference DEF Rest, Card
  <1>8. Slot \cap Predealt = Predealt /\ Card \cap Kept = Kept
    BY <1>1
  <1>9. Cardinality(Rest) \in Nat /\ Cardinality(Kept) \in Nat
    BY <1>5, <1>7, FS_CardinalityType
  <1>10. Rest \in SUBSET Int /\ Free \in SUBSET Int
    BY Slots DEF Rest, Free, Card
  <1>11. Small = Cardinality(Rest)
    BY DEF Small, Rest
  <1>12. Small = N - Cardinality(Predealt) /\ Small = Cardinality(Free)
    BY <1>5, <1>6, <1>7, <1>8, <1>11
  <1>13. Small \in 0 .. N
    BY <1>5, <1>9, <1>11, <1>12, Slots
  <1>. QED
    BY <1>6, <1>7, <1>10, <1>11, <1>12, <1>13

\* The pack small_pack starts as has the cards left over, each of them.
LEMMA LeftRest ==
  LET pack == [n \in 0 .. Small - 1 |-> Left(n)]
  IN  /\ pack \in [0 .. Small - 1 -> Rest]
      /\ \A c \in Rest : \E n \in 0 .. Small - 1 : pack[n] = c
  <1>1. ASSUME NEW n \in 0 .. Small - 1
        PROVE  Left(n) \in Rest /\ Rank(Rest, Left(n)) = n
    <2>1. \E c \in Rest : Rank(Rest, c) = n
      BY FreeCount, Ranks
    <2>2. Left(n) = CHOOSE c \in Rest : Rank(Rest, c) = n
      BY DEF Left, Rank, Rest
    <2>. QED
      BY <2>1, <2>2
  <1>2. ASSUME NEW c \in Rest
        PROVE  \E n \in 0 .. Small - 1 : Left(n) = c
    <2> DEFINE n == Rank(Rest, c)
    <2>1. n \in 0 .. Small - 1
      BY FreeCount, Ranks
    <2>2. Left(n) \in Rest /\ Rank(Rest, Left(n)) = Rank(Rest, c)
      BY <1>1, <2>1
    <2>3. \A a, b \in Rest : Rank(Rest, a) = Rank(Rest, b) => a = b
      BY FreeCount, Ranks
    <2>4. Left(n) = c
      <3> HIDE DEF n
      <3>. QED
        BY <2>2, <2>3
    <2>. QED
      BY <2>1, <2>4
  <1>. QED
    BY <1>1, <1>2

\* merge_deal() puts every card left over in a free slot.
LEMMA MergeWhole ==
  ASSUME small_pack \in [0 .. Small - 1 -> Rest],
         \A c \in Rest : \E n \in 0 .. Small - 1 : small_pack[n] = c
  PROVE  /\ Whole(Merge(Stacked))
         /\ \A s \in Predealt : Merge(Stacked)[s] = Stacked[s]
  <1> DEFINE e == Merge(Stacked)
  <1>1. ASSUME NEW s \in Slot
        PROVE  e[s] = IF s \in Free THEN small_pack[Rank(Free, s)] ELSE Stacked[s]
    <2>1. {r \in Slot : r < s /\ Stacked[r] = NoCard} = {b \in Free : b < s}
      BY DEF Free
    <2>. QED
      BY <2>1 DEF Merge, Free, Rank
  <1>2. ASSUME NEW s \in Slot PROVE e[s] \in Card
    <2>1. CASE s \in Free
      <3>1. Rank(Free, s) \in 0 .. Small - 1
        BY <2>1, FreeCount, Ranks
      <3>. QED
        BY <1>1, <2>1, <3>1 DEF Rest
    <2>2. CASE s \notin Free
      BY <1>1, <2>2, StackedAssumption DEF Free
    <2>. QED
      BY <2>1, <2>2
  <1>3. ASSUME NEW c \in Card PROVE \E s \in Slot : e[s] = c
    <2>1. CASE c \in Rest
      <3>1. PICK n \in 0 .. Small - 1 : small_pack[n] = c
        BY <2>1
      <3>2. PICK s \in Free : Rank(Free, s) = n
        BY FreeCount, Ranks
      <3>. QED
        BY <1>1, <3>1, <3>2 DEF Free
    <2>2. CASE c \in Kept
      <3>1. PICK s \in Predealt : Stacked[s] = c
        BY <2>2 DEF Kept
      <3>. QED
        BY <1>1, <3>1 DEF Predealt, Free
    <2>. QED
      BY <2>1, <2>2 DEF Rest
  <1>4. \A s \in Predealt : e[s] = Stacked[s]
    BY <1>1 DEF Predealt, Free
  <1>5. e \in [Slot -> Card]
    BY <1>2 DEF Merge
  <1>. QED
    BY <1>3, <1>4, <1>5 DEF Whole

-----------------------------------------------------------------------------
(* The invariant. *)

\* small_pack has the cards left over, each of them.
PackOnto == \A c \in Rest : \E n \in 0 .. Small - 1 : small_pack[n] = c

\* Where a group of swapped deals can be.
SwapOK ==
  /\ DealMode = "swap" => \/ swapping = 2 /\ swapindex \in 0 .. 1
                          \/ swapping = 3 /\ swapindex \in 0 .. 5
  /\ DealMode # "swap" => swapping = 0 /\ swapindex = 0

\* curdeal has every card at all times, save that with predealt cards it is
\* stacked_pack while the others are shuffled.
CurdealOK ==
  /\ DealMode # "predeal" => Whole(curdeal)
  /\ DealMode = "predeal" /\ pc = "shuffle" => curdeal = Stacked /\ i <= Small - 1
  /\ DealMode = "predeal" /\ pc = "dealt" =>
        Whole(curdeal) /\ \A s \in Predealt : curdeal[s] = Stacked[s]

IInv == TypeOK /\ PackOnto /\ SwapOK /\ CurdealOK

\* A whole deal is a deal.
LEMMA WholeType ==
  ASSUME NEW d, Whole(d)
  PROVE  d \in [Slot -> Card \cup {NoCard}]
  BY DEF Whole

\* The full pack and small_pack start with all their cards.
LEMMA InitIInv == Init => IInv
  <1> SUFFICES ASSUME Init PROVE IInv
    OBVIOUS
  <1>1. small_pack \in [0 .. Small - 1 -> Rest] /\ PackOnto
    BY LeftRest DEF Init, PackOnto
  <1>2. DealMode # "predeal" => Whole(curdeal)
    BY DEF Init, Whole, Card
  <1>3. curdeal \in [Slot -> Card \cup {NoCard}]
    BY StackedAssumption DEF Init, Card
  <1>4. TypeOK
    BY <1>1, <1>3, SizeAssumption, Slots DEF Init, TypeOK, Rest
  <1>5. SwapOK
    BY DEF Init, SwapOK
  <1>6. CurdealOK
    BY <1>2 DEF Init, CurdealOK
  <1>. QED
    BY <1>1, <1>4, <1>5, <1>6 DEF IInv

\* shuffle() starts from the deal there is.
LEMMA StartShuffleIInv == IInv /\ StartShuffle => IInv'
  <1> SUFFICES ASSUME IInv, StartShuffle PROVE IInv'
    OBVIOUS
  <1> USE DEF IInv, StartShuffle, modeVars
  <1>1. TypeOK'
    BY Slots, SizeAssumption DEF TypeOK, Small, Kept, Predealt
  <1>2. PackOnto'
    BY DEF PackOnto, Rest, Small, Kept, Predealt
  <1>3. SwapOK'
    BY DEF SwapOK
  <1>4. CurdealOK'
    BY DEF CurdealOK, Whole
  <1>. QED
    BY <1>1, <1>2, <1>3, <1>4

\* With predealt cards it starts from stacked_pack.
LEMMA StartPredealIInv == IInv /\ StartPredeal => IInv'
  <1> SUFFICES ASSUME IInv, StartPredeal PROVE IInv'
    OBVIOUS
  <1> USE DEF IInv, StartPredeal, modeVars
  <1>1. TypeOK'
    BY Slots, SizeAssumption, StackedAssumption, FreeCount DEF TypeOK
  <1>2. PackOnto'
    BY DEF PackOnto
  <1>3. SwapOK'
    BY DEF SwapOK
  <1>4. CurdealOK'
    BY FreeCount DEF CurdealOK
  <1>. QED
    BY <1>1, <1>2, <1>3, <1>4

\* A turn of the shuffle loses no card.
LEMMA ShuffleStepIInv ==
  ASSUME NEW j \in Draws, IInv, ShuffleStep(j)
  PROVE  IInv'
  <1> USE DEF IInv, ShuffleStep, modeVars
  <1>1. j \in Nat /\ i \in Nat /\ j <= i /\ i > 0 /\ i <= N - 1
    BY DrawsAssumption, Slots DEF Slot, TypeOK
  <1>2. SwapOK'
    BY DEF SwapOK
  <1>3. CASE DealMode = "predeal"
    <2>1. i \in 0 .. Small - 1 /\ j \in 0 .. Small - 1
      BY <1>1, <1>3, FreeCount DEF CurdealOK
    <2>2. /\ small_pack' \in [0 .. Small - 1 -> Rest]
          /\ \A c \in Rest : \E n \in 0 .. Small - 1 : small_pack'[n] = c
      <3>1. Onto(small_pack, 0 .. Small - 1, Rest)
        BY DEF TypeOK, Rest, PackOnto, Onto
      <3>2. Onto(Exchange(small_pack, i, j), 0 .. Small - 1, Rest)
        BY <2>1, <3>1, ExchangeOnto
      <3>. QED
        BY <1>3, <3>2 DEF Onto
    <2>3. TypeOK'
      BY <1>1, <1>3, <2>2, Slots DEF TypeOK, Rest
    <2>4. CurdealOK'
      BY <1>1, <1>3, FreeCount DEF CurdealOK
    <2>. QED
      BY <1>2, <2>2, <2>3, <2>4 DEF PackOnto
  <1>4. CASE DealMode # "predeal"
    <2>1. i \in Slot /\ j \in Slot
      BY <1>1, DrawsAssumption, Slots DEF Slot
    <2>2. Whole(curdeal')
      <3>1. Onto(curdeal, Slot, Card)
        BY <1>4 DEF CurdealOK, Whole, Onto
      <3>2. Onto(Exchange(curdeal, i, j), Slot, Card)
        BY <2>1, <3>1, ExchangeOnto
      <3>. QED
        BY <1>4, <3>2 DEF Whole, Onto
    <2>3. TypeOK'
      BY <1>1, <1>4, <2>2, WholeType, Slots DEF TypeOK
    <2>4. PackOnto'
      BY <1>4 DEF PackOnto
    <2>5. CurdealOK'
      BY <1>4, <2>2 DEF CurdealOK
    <2>. QED
      BY <1>2, <2>3, <2>4, <2>5
  <1>. QED
    BY <1>3, <1>4

\* At its end the cards left over go to the free slots.
LEMMA ShuffleEndsIInv == IInv /\ ShuffleEnds => IInv'
  <1> SUFFICES ASSUME IInv, ShuffleEnds PROVE IInv'
    OBVIOUS
  <1> USE DEF IInv, ShuffleEnds, modeVars
  <1>1. /\ Whole(curdeal')
        /\ DealMode = "predeal" => \A s \in Predealt : curdeal'[s] = Stacked[s]
    <2>1. CASE DealMode = "predeal"
      <3>1. /\ small_pack \in [0 .. Small - 1 -> Rest]
            /\ \A c \in Rest : \E n \in 0 .. Small - 1 : small_pack[n] = c
        BY DEF TypeOK, Rest, PackOnto
      <3>2. curdeal' = Merge(Stacked)
        BY <2>1 DEF CurdealOK
      <3>. QED
        BY <3>1, <3>2, MergeWhole
    <2>2. CASE DealMode # "predeal"
      BY <2>2 DEF CurdealOK
    <2>. QED
      BY <2>1, <2>2
  <1>2. SwapOK'
    BY DEF SwapOK, NextSwap
  <1>3. TypeOK'
    BY <1>1, <1>2, WholeType DEF TypeOK, SwapOK
  <1>4. PackOnto'
    BY DEF PackOnto
  <1>5. CurdealOK'
    BY <1>1 DEF CurdealOK
  <1>. QED
    BY <1>2, <1>3, <1>4, <1>5

\* A swapped deal has the cards of the deal before it.
LEMMA SwapDealIInv == IInv /\ SwapDeal => IInv'
  <1> SUFFICES ASSUME IInv, SwapDeal PROVE IInv'
    OBVIOUS
  <1> USE DEF IInv, SwapDeal, modeVars
  <1>1. Whole(curdeal) /\ swapindex \in 1 .. 5
    BY DEF CurdealOK, SwapOK
  <1>2. Whole(curdeal')
    <2>1. /\ Whole(Swap2(curdeal, 1, 3)) /\ Whole(Swap2(curdeal, 2, 3))
          /\ Whole(Swap2(curdeal, 1, 2))
      BY <1>1, Swap2Whole DEF Seat
    <2>2. \/ curdeal' = Swap2(curdeal, 1, 3) \/ curdeal' = Swap2(curdeal, 2, 3)
          \/ curdeal' = Swap2(curdeal, 1, 2)
      BY <1>1 DEF SwapHands
    <2>. QED
      BY <2>1, <2>2
  <1>3. SwapOK'
    BY DEF SwapOK, NextSwap
  <1>4. TypeOK'
    BY <1>2, <1>3, WholeType DEF TypeOK, SwapOK
  <1>5. PackOnto'
    BY DEF PackOnto
  <1>6. CurdealOK'
    BY <1>2 DEF CurdealOK
  <1>. QED
    BY <1>3, <1>4, <1>5, <1>6

\* Nor does an action that sorts the hands lose a card.
LEMMA UseIInv == IInv /\ Use => IInv'
  <1> SUFFICES ASSUME IInv, Use PROVE IInv'
    OBVIOUS
  <1> USE DEF IInv, Use, modeVars
  <1>1. Whole(curdeal')
    BY SortedWhole DEF CurdealOK
  <1>2. TypeOK'
    BY <1>1, WholeType DEF TypeOK
  <1>3. PackOnto'
    BY DEF PackOnto
  <1>4. SwapOK'
    BY DEF SwapOK
  <1>5. CurdealOK'
    BY <1>1 DEF CurdealOK
  <1>. QED
    BY <1>2, <1>3, <1>4, <1>5

\* The invariant is inductive.
LEMMA StepIInv == IInv /\ [Next]_vars => IInv'
  <1> SUFFICES ASSUME IInv, [Next]_vars PROVE IInv'
    OBVIOUS
  <1>1. ASSUME UNCHANGED vars PROVE IInv'
    BY <1>1 DEF IInv, vars, modeVars, TypeOK, PackOnto, SwapOK, CurdealOK, Whole
  <1>2. ASSUME NEW j \in Draws, ShuffleStep(j) PROVE IInv'
    BY <1>2, ShuffleStepIInv
  <1>. QED
    BY <1>1, <1>2, StartShuffleIInv, StartPredealIInv, ShuffleEndsIInv,
       SwapDealIInv, UseIInv DEF Next

\* With it every deal that is handed on is whole.
LEMMA IInvEveryCard == IInv => EveryCardOnce
  <1> SUFFICES ASSUME IInv, pc = "dealt"
               PROVE  /\ Range(curdeal) = Card
                      /\ DealMode = "predeal" =>
                           \A s \in Predealt : \E r \in HandSlots(s \div HandSize) :
                              curdeal[r] = Stacked[s]
    BY DEF EveryCardOnce
  <1>1. Whole(curdeal)
    BY DEF IInv, CurdealOK
  <1>2. Range(curdeal) = Card
    BY <1>1 DEF Range, Whole
  <1>3. ASSUME DealMode = "predeal", NEW s \in Predealt
        PROVE  \E r \in HandSlots(s \div HandSize) : curdeal[r] = Stacked[s]
    <2>1. curdeal[s] = Stacked[s]
      BY <1>3 DEF IInv, CurdealOK
    <2>2. s \in HandSlots(s \div HandSize)
      BY SlotHand DEF Predealt
    <2>. QED
      BY <2>1, <2>2
  <1>. QED
    BY <1>2, <1>3

-----------------------------------------------------------------------------
\* The indices deal_cards() and Shuffle() keep stay within the arrays they
\* index, swapindex within the cases of swap_hands().
THEOREM TypeCorrect == Spec => []TypeOK
  <1>1. IInv => TypeOK
    BY DEF IInv
  <1>. QED
    BY <1>1, InitIInv, StepIInv, PTL DEF Spec

\* Every deal handed to analyze() has every card of the pack, and the predealt
\* cards where they were put, whatever was dealt, swapped and sorted before.
THEOREM EveryCard == Spec => []EveryCardOnce
  BY InitIInv, StepIInv, IInvEveryCard, PTL DEF Spec

-----------------------------------------------------------------------------
(* Groups of swapped deals. *)

\* Whose hand of the first deal seat p has in the n-th.
Arrangement == << <<1, 2, 3>>, <<3, 2, 1>>, <<3, 1, 2>>,
                  <<1, 3, 2>>, <<2, 3, 1>>, <<2, 1, 3>> >>

From(n, p) == IF p = 0 THEN 0 ELSE Arrangement[n][p]

\* The deals of a group are the first with its hands so arranged, one for each
\* value of swapindex.
GroupOK ==
  DealMode = "swap" /\ pc # "shuffle" /\ group # << >> =>
     /\ group \in Seq([Seat -> SUBSET Card])
     /\ \A n \in 1 .. Len(group) : \A p \in Seat : group[n][p] = group[1][From(n, p)]
     /\ \A p, q \in Seat : group[1][p] = group[1][q] => p = q
     /\ Hands(curdeal) = group[Len(group)]
     /\ \/ swapping = 2 /\ Len(group) = 1 /\ swapindex = 1
        \/ swapping = 2 /\ Len(group) = 2 /\ swapindex = 0
        \/ swapping = 3 /\ Len(group) \in 1 .. 5 /\ swapindex = Len(group)
        \/ swapping = 3 /\ Len(group) = 6 /\ swapindex = 0

\* A group starts empty.
GroupStarts ==
  DealMode = "swap" => /\ pc = "shuffle" => group = << >>
                       /\ pc = "dealt" => group # << >>
                       /\ group = << >> => swapindex = 0

\* The six arrangements are arrangements, and differ.
LEMMA Arrangements ==
  ASSUME NEW n \in 1 .. 6
  PROVE  /\ From(n, 0) = 0
         /\ \A p \in Seat : From(n, p) \in Seat
         /\ \A q \in Seat : \E p \in Seat : From(n, p) = q
         /\ \A m \in 1 .. 6 : (\A p \in Seat : From(m, p) = From(n, p)) => m = n
  <1> USE DEF Arrangement, From
  <1>1. Seat = {0, 1, 2, 3} /\ 1 .. 6 = {1, 2, 3, 4, 5, 6}
    BY DEF Seat
  <1>2. \A p \in Seat : From(n, p) \in Seat
    BY <1>1
  <1>3. \A q \in Seat : \E p \in Seat : From(n, p) = q
    BY <1>1
  <1>4. ASSUME NEW m \in 1 .. 6, From(m, 1) = From(n, 1), From(m, 2) = From(n, 2)
        PROVE  m = n
    BY <1>1, <1>4
  <1>. QED
    BY <1>1, <1>2, <1>3, <1>4

\* Each follows from the one before by the swap for its swapindex.
LEMMA NextArrangement ==
  /\ \A n \in {1, 4} : /\ From(n + 1, 1) = From(n, 3) /\ From(n + 1, 3) = From(n, 1)
                       /\ From(n + 1, 2) = From(n, 2)
  /\ \A n \in {2, 5} : /\ From(n + 1, 2) = From(n, 3) /\ From(n + 1, 3) = From(n, 2)
                       /\ From(n + 1, 1) = From(n, 1)
  /\ From(4, 1) = From(3, 2) /\ From(4, 2) = From(3, 1) /\ From(4, 3) = From(3, 3)
  /\ \A n \in Nat : From(n, 0) = 0
  BY DEF From, Arrangement

\* swap2() exchanges two hands and leaves the others.
LEMMA Swap2Hands ==
  ASSUME NEW d, NEW p1 \in Seat, NEW p2 \in Seat, p1 < p2
  PROVE  LET h == Hands(Swap2(d, p1, p2))
         IN  /\ h[p1] = Hands(d)[p2] /\ h[p2] = Hands(d)[p1]
             /\ \A q \in Seat : q # p1 /\ q # p2 => h[q] = Hands(d)[q]
  <1> DEFINE e == Swap2(d, p1, p2)
             m == (p2 - p1) * HandSize
  <1>1. /\ \A s \in HandSlots(p1) : s + m \in HandSlots(p2)
        /\ \A s \in HandSlots(p2) : s - m \in HandSlots(p1)
        /\ m \in Int
    <2>1. \/ (p1 = 0 /\ p2 = 1) \/ (p1 = 0 /\ p2 = 2) \/ (p1 = 0 /\ p2 = 3)
          \/ (p1 = 1 /\ p2 = 2) \/ (p1 = 1 /\ p2 = 3) \/ (p1 = 2 /\ p2 = 3)
      BY DEF Seat
    <2> USE SizeAssumption DEF HandSlots
    <2>2. CASE p1 = 0 /\ p2 = 1
      BY <2>2
    <2>3. CASE p1 = 0 /\ p2 = 2
      BY <2>3
    <2>4. CASE p1 = 0 /\ p2 = 3
      BY <2>4
    <2>5. CASE p1 = 1 /\ p2 = 2
      BY <2>5
    <2>6. CASE p1 = 1 /\ p2 = 3
      BY <2>6
    <2>7. CASE p1 = 2 /\ p2 = 3
      BY <2>7
    <2>. QED
      BY <2>1, <2>2, <2>3, <2>4, <2>5, <2>6, <2>7
  <1>2. \A q, r \in Seat : q # r => HandSlots(q) \cap HandSlots(r) = {}
    BY InHand
  <1>3. \A q \in Seat : HandSlots(q) \subseteq Slot /\ HandSlots(q) \subseteq Int
    BY InHand, Slots
  <1>4. p1 # p2
    BY DEF Seat
  <1>5. \A s \in HandSlots(p1) : e[s] = d[s + m]
    BY <1>2, <1>3, <1>4 DEF Swap2
  <1>6. \A s \in HandSlots(p2) : e[s] = d[s - m]
    BY <1>2, <1>3, <1>4 DEF Swap2
  <1>7. \A q \in Seat : q # p1 /\ q # p2 => \A s \in HandSlots(q) : e[s] = d[s]
    BY <1>2, <1>3 DEF Swap2
  <1>8. \A q \in Seat : /\ Hands(e)[q] = {e[s] : s \in HandSlots(q)}
                        /\ Hands(d)[q] = {d[s] : s \in HandSlots(q)}
    BY DEF Hands
  <1> HIDE DEF e, m
  <1>9. Hands(e)[p1] = Hands(d)[p2]
    <2>1. \A s \in HandSlots(p2) : s - m \in HandSlots(p1) /\ (s - m) + m = s
      BY <1>1, <1>3
    <2>2. {e[s] : s \in HandSlots(p1)} = {d[s] : s \in HandSlots(p2)}
      BY <1>1, <1>5, <2>1
    <2>. QED
      BY <1>8, <2>2
  <1>10. Hands(e)[p2] = Hands(d)[p1]
    <2>1. \A s \in HandSlots(p1) : s + m \in HandSlots(p2) /\ (s + m) - m = s
      BY <1>1, <1>3
    <2>2. {e[s] : s \in HandSlots(p2)} = {d[s] : s \in HandSlots(p1)}
      BY <1>1, <1>6, <2>1
    <2>. QED
      BY <1>8, <2>2
  <1>11. ASSUME NEW q \in Seat, q # p1, q # p2 PROVE Hands(e)[q] = Hands(d)[q]
    <2>1. \A s \in HandSlots(q) : e[s] = d[s]
      BY <1>7, <1>11
    <2>2. {e[s] : s \in HandSlots(q)} = {d[s] : s \in HandSlots(q)}
      BY <2>1
    <2>. QED
      BY <1>8, <2>2
  <1>. QED
    BY <1>9, <1>10, <1>11 DEF e

\* The hands of a deal differ, and are sets of cards.
LEMMA HandsDiffer ==
  ASSUME NEW d, Whole(d)
  PROVE  /\ Hands(d) \in [Seat -> SUBSET Card]
         /\ \A p, q \in Seat : Hands(d)[p] = Hands(d)[q] => p = q
  <1>1. Hands(d) \in [Seat -> SUBSET Card]
    <2>1. \A p \in Seat : {d[s] : s \in HandSlots(p)} \in SUBSET Card
      BY HandSlotsCount DEF Whole
    <2>. QED
      BY <2>1 DEF Hands
  <1>2. ASSUME NEW p \in Seat, NEW q \in Seat, Hands(d)[p] = Hands(d)[q]
        PROVE  p = q
    <2>1. p * HandSize \in HandSlots(p)
      <3>1. 0 \in 0 .. HandSize - 1
        BY SizeAssumption
      <3>2. p * HandSize + 0 \in HandSlots(p)
        BY <3>1, PlaceSlot
      <3>3. p * HandSize \in Int
        BY SizeAssumption DEF Seat
      <3>. QED
        BY <3>2, <3>3
    <2>2. PICK r \in HandSlots(q) : d[r] = d[p * HandSize]
      BY <1>2, <2>1 DEF Hands
    <2>3. r = p * HandSize
      BY <2>1, <2>2, InHand, WholeOnce
    <2>. QED
      BY <2>1, <2>2, <2>3, InHand
  <1>. QED
    BY <1>1, <1>2

\* A shuffled deal is the first of its group.
LEMMA ShuffleEndsGroup ==
  ASSUME IInv, GroupOK, GroupStarts, ShuffleEnds
  PROVE  GroupOK' /\ GroupStarts'
  <1>1. SUFFICES ASSUME DealMode = "swap" PROVE GroupOK'
    <2>1. GroupStarts'
      BY DEF ShuffleEnds, GroupStarts
    <2>2. DealMode' = DealMode
      BY DEF ShuffleEnds, modeVars
    <2>. QED
      BY <2>1, <2>2 DEF GroupOK
  <1>2. Whole(curdeal') /\ curdeal' = curdeal
    BY <1>1 DEF IInv, CurdealOK, ShuffleEnds
  <1>3. group' = <<Hands(curdeal')>>
    BY DEF ShuffleEnds
  <1>4. \/ swapping' = 2 /\ swapindex' = 1
        \/ swapping' = 3 /\ swapindex' = 1
    BY <1>1 DEF IInv, SwapOK, ShuffleEnds, NextSwap, modeVars, GroupStarts
  <1>5. \A p \in Seat : From(1, p) = p
    BY DEF From, Arrangement, Seat
  <1>. QED
    BY <1>2, <1>3, <1>4, <1>5, HandsDiffer DEF GroupOK

\* A swapped deal is the next arrangement of its group.
LEMMA SwapDealGroup ==
  ASSUME IInv, GroupOK, GroupStarts, SwapDeal
  PROVE  GroupOK' /\ GroupStarts'
  <1> DEFINE n == Len(group)
             h == Hands(curdeal')
  <1>1. DealMode = "swap" /\ swapindex # 0 /\ pc = "loop" /\ group # << >>
    BY DEF SwapDeal, GroupStarts
  <1>2. /\ group \in Seq([Seat -> SUBSET Card])
        /\ \A k \in 1 .. n : \A p \in Seat : group[k][p] = group[1][From(k, p)]
        /\ \A p, q \in Seat : group[1][p] = group[1][q] => p = q
        /\ Hands(curdeal) = group[n]
        /\ \/ swapping = 2 /\ n = 1 /\ swapindex = 1
           \/ swapping = 3 /\ n \in 1 .. 5 /\ swapindex = n
    BY <1>1 DEF GroupOK
  <1>3. Whole(curdeal') /\ group' = Append(group, h) /\ swapping' = swapping
    BY <1>1, SwapDealIInv DEF IInv, CurdealOK, SwapDeal, modeVars
  <1>4. h \in [Seat -> SUBSET Card]
    BY <1>3, HandsDiffer
  <1>5. n \in 1 .. 5 /\ swapindex = n
    BY <1>2
  <1>6. \A p \in Seat : h[p] = group[1][From(n + 1, p)]
    <2>1. \A p \in Seat : Hands(curdeal)[p] = group[1][From(n, p)]
      BY <1>2, <1>5
    <2>2. 0 \in Seat /\ 1 \in Seat /\ 2 \in Seat /\ 3 \in Seat
          /\ \A p \in Seat : p = 0 \/ p = 1 \/ p = 2 \/ p = 3
      BY DEF Seat
    <2>3. /\ Hands(curdeal)[0] = group[1][0] /\ n \in Nat /\ n + 1 \in Nat
          /\ Hands(curdeal)[1] = group[1][From(n, 1)]
          /\ Hands(curdeal)[2] = group[1][From(n, 2)]
          /\ Hands(curdeal)[3] = group[1][From(n, 3)]
      BY <1>5, <2>1, <2>2, NextArrangement
    <2>4. CASE n \in {1, 4}
      <3>1. curdeal' = Swap2(curdeal, 1, 3)
        BY <1>5, <2>4 DEF SwapDeal, SwapHands
      <3>2. h = Hands(Swap2(curdeal, 1, 3))
        BY <3>1
      <3> HIDE DEF h
      <3>3. /\ h[1] = Hands(curdeal)[3] /\ h[3] = Hands(curdeal)[1]
            /\ \A q \in Seat : q # 1 /\ q # 3 => h[q] = Hands(curdeal)[q]
        <4>1. 1 \in Seat /\ 3 \in Seat /\ 1 < 3
          BY <2>2
        <4>. QED
          BY <3>2, <4>1, Swap2Hands
      <3>4. h[0] = Hands(curdeal)[0] /\ h[2] = Hands(curdeal)[2]
        BY <2>2, <3>3
      <3>5. /\ From(n + 1, 0) = 0 /\ From(n + 1, 1) = From(n, 3)
            /\ From(n + 1, 2) = From(n, 2) /\ From(n + 1, 3) = From(n, 1)
        BY <2>3, <2>4, NextArrangement
      <3>6. /\ h[0] = group[1][From(n + 1, 0)] /\ h[1] = group[1][From(n + 1, 1)]
            /\ h[2] = group[1][From(n + 1, 2)] /\ h[3] = group[1][From(n + 1, 3)]
        BY <2>3, <3>3, <3>4, <3>5
      <3>. QED
        BY <2>2, <3>6
    <2>5. CASE n \in {2, 5}
      <3>1. curdeal' = Swap2(curdeal, 2, 3)
        BY <1>5, <2>5 DEF SwapDeal, SwapHands
      <3>2. h = Hands(Swap2(curdeal, 2, 3))
        BY <3>1
      <3> HIDE DEF h
      <3>3. /\ h[2] = Hands(curdeal)[3] /\ h[3] = Hands(curdeal)[2]
            /\ \A q \in Seat : q # 2 /\ q # 3 => h[q] = Hands(curdeal)[q]
        <4>1. 2 \in Seat /\ 3 \in Seat /\ 2 < 3
          BY <2>2
        <4>. QED
          BY <3>2, <4>1, Swap2Hands
      <3>4. h[0] = Hands(curdeal)[0] /\ h[1] = Hands(curdeal)[1]
        BY <2>2, <3>3
      <3>5. /\ From(n + 1, 0) = 0 /\ From(n + 1, 1) = From(n, 1)
            /\ From(n + 1, 2) = From(n, 3) /\ From(n + 1, 3) = From(n, 2)
        BY <2>3, <2>5, NextArrangement
      <3>6. /\ h[0] = group[1][From(n + 1, 0)] /\ h[1] = group[1][From(n + 1, 1)]
            /\ h[2] = group[1][From(n + 1, 2)] /\ h[3] = group[1][From(n + 1, 3)]
        BY <2>3, <3>3, <3>4, <3>5
      <3>. QED
        BY <2>2, <3>6
    <2>6. CASE n = 3
      <3>1. curdeal' = Swap2(curdeal, 1, 2)
        BY <1>5, <2>6 DEF SwapDeal, SwapHands
      <3>2. h = Hands(Swap2(curdeal, 1, 2))
        BY <3>1
      <3> HIDE DEF h
      <3>3. /\ h[1] = Hands(curdeal)[2] /\ h[2] = Hands(curdeal)[1]
            /\ \A q \in Seat : q # 1 /\ q # 2 => h[q] = Hands(curdeal)[q]
        <4>1. 1 \in Seat /\ 2 \in Seat /\ 1 < 2
          BY <2>2
        <4>. QED
          BY <3>2, <4>1, Swap2Hands
      <3>4. h[0] = Hands(curdeal)[0] /\ h[3] = Hands(curdeal)[3]
        BY <2>2, <3>3
      <3>5. /\ From(n + 1, 0) = 0 /\ From(n + 1, 1) = From(n, 2)
            /\ From(n + 1, 2) = From(n, 1) /\ From(n + 1, 3) = From(n, 3)
        BY <2>3, <2>6, NextArrangement
      <3>6. /\ h[0] = group[1][From(n + 1, 0)] /\ h[1] = group[1][From(n + 1, 1)]
            /\ h[2] = group[1][From(n + 1, 2)] /\ h[3] = group[1][From(n + 1, 3)]
        BY <2>3, <3>3, <3>4, <3>5
      <3>. QED
        BY <2>2, <3>6
    <2>. QED
      BY <1>5, <2>4, <2>5, <2>6
  <1> HIDE DEF h
  <1>7. /\ group' \in Seq([Seat -> SUBSET Card]) /\ Len(group') = n + 1
        /\ group'[n + 1] = h /\ \A k \in 1 .. n : group'[k] = group[k]
        /\ group' # << >>
    BY <1>2, <1>3, <1>4
  <1>8. group'[1] = group[1]
    BY <1>5, <1>7
  <1>9. \A k \in 1 .. Len(group') : \A p \in Seat :
           group'[k][p] = group'[1][From(k, p)]
    BY <1>2, <1>5, <1>6, <1>7, <1>8
  <1>10. \/ swapping' = 2 /\ Len(group') = 2 /\ swapindex' = 0
         \/ swapping' = 3 /\ Len(group') \in 1 .. 5 /\ swapindex' = Len(group')
         \/ swapping' = 3 /\ Len(group') = 6 /\ swapindex' = 0
    <2>1. swapindex' = NextSwap /\ Len(group') = n + 1 /\ swapping' = swapping
      BY <1>3, <1>7 DEF SwapDeal
    <2>2. CASE swapping = 2 /\ n = 1 /\ swapindex = 1
      BY <2>1, <2>2 DEF NextSwap
    <2>3. CASE swapping = 3 /\ n \in 1 .. 4 /\ swapindex = n
      BY <2>1, <2>3 DEF NextSwap
    <2>4. CASE swapping = 3 /\ n = 5 /\ swapindex = n
      BY <2>1, <2>4 DEF NextSwap
    <2>. QED
      BY <1>2, <2>2, <2>3, <2>4
  <1>11. Hands(curdeal') = group'[Len(group')]
    BY <1>7 DEF h
  <1>12. pc' = "dealt"
    BY DEF SwapDeal
  <1>. QED
    BY <1>2, <1>7, <1>8, <1>9, <1>10, <1>11, <1>12 DEF GroupOK, GroupStarts

\* Sorting the hands does not change what a deal is in its group, and a new
\* shuffle starts a new one.
LEMMA StepGroup ==
  ASSUME IInv, GroupOK, GroupStarts, [Next]_vars
  PROVE  GroupOK' /\ GroupStarts'
  <1>1. CASE StartShuffle
    BY <1>1 DEF StartShuffle, GroupOK, GroupStarts, modeVars
  <1>2. CASE StartPredeal
    BY <1>2 DEF StartPredeal, GroupOK, GroupStarts, modeVars
  <1>3. ASSUME NEW j \in Draws, ShuffleStep(j) PROVE GroupOK' /\ GroupStarts'
    BY <1>3 DEF ShuffleStep, GroupOK, GroupStarts, modeVars
  <1>4. CASE Use
    <2>1. DealMode = "swap" => Hands(curdeal') = Hands(curdeal)
      BY <1>4, SortedHands DEF Use, IInv, CurdealOK
    <2>2. GroupStarts'
      BY <1>4 DEF Use, GroupStarts, modeVars
    <2>3. GroupOK'
      BY <1>4, <2>1 DEF Use, GroupOK, modeVars
    <2>. QED
      BY <2>2, <2>3
  <1>5. CASE UNCHANGED vars
    <2>1. Hands(curdeal') = Hands(curdeal)
      BY <1>5 DEF vars
    <2>. QED
      BY <1>5, <2>1 DEF vars, modeVars, GroupOK, GroupStarts
  <1>. QED
    BY <1>1, <1>2, <1>3, <1>4, <1>5, ShuffleEndsGroup, SwapDealGroup DEF Next

\* So a group never shows an arrangement twice, and at its end all of them.
LEMMA GroupEveryArrangement ==
  ASSUME GroupOK, GroupStarts
  PROVE  EveryArrangementOnce
  <1> SUFFICES ASSUME pc = "dealt", DealMode = "swap", group # << >>
               PROVE  /\ \A m, n \in DOMAIN group : group[m] = group[n] => m = n
                      /\ \A n \in DOMAIN group :
                            /\ group[n][0] = group[1][0]
                            /\ swapping = 2 => group[n][2] = group[1][2]
                            /\ {group[n][p] : p \in Seat} = {group[1][p] : p \in Seat}
                      /\ swapindex = 0 => Len(group) = (IF swapping = 2 THEN 2 ELSE 6)
    BY DEF EveryArrangementOnce, GroupStarts
  <1>1. /\ group \in Seq([Seat -> SUBSET Card])
        /\ \A n \in 1 .. Len(group) : \A p \in Seat : group[n][p] = group[1][From(n, p)]
        /\ \A p, q \in Seat : group[1][p] = group[1][q] => p = q
    BY DEF GroupOK
  <1>2. /\ swapindex = 0 => Len(group) = (IF swapping = 2 THEN 2 ELSE 6)
        /\ Len(group) \in 1 .. 6 /\ swapping = 2 => Len(group) \in 1 .. 2
        /\ Len(group) \in 1 .. 6
    BY DEF GroupOK
  <1>3. DOMAIN group = 1 .. Len(group) /\ DOMAIN group \subseteq 1 .. 6
    BY <1>1, <1>2
  <1>4. ASSUME NEW m \in DOMAIN group, NEW n \in DOMAIN group, group[m] = group[n]
        PROVE  m = n
    <2>1. ASSUME NEW p \in Seat
          PROVE  /\ From(m, p) \in Seat /\ From(n, p) \in Seat
                 /\ group[1][From(m, p)] = group[1][From(n, p)]
      <3>1. group[m][p] = group[1][From(m, p)] /\ group[n][p] = group[1][From(n, p)]
        BY <1>1, <1>3
      <3>2. m \in 1 .. 6 /\ n \in 1 .. 6
        BY <1>3
      <3>3. From(m, p) \in Seat /\ From(n, p) \in Seat
        BY <3>2, Arrangements
      <3>. QED
        BY <1>4, <3>1, <3>3
    <2>2. \A p \in Seat : From(m, p) = From(n, p)
      BY <1>1, <2>1
    <2>. QED
      BY <1>3, <2>2, Arrangements
  <1>5. ASSUME NEW n \in DOMAIN group
        PROVE  /\ group[n][0] = group[1][0]
               /\ swapping = 2 => group[n][2] = group[1][2]
               /\ {group[n][p] : p \in Seat} = {group[1][p] : p \in Seat}
    <2>1. \A p \in Seat : group[n][p] = group[1][From(n, p)]
      BY <1>1, <1>3
    <2>2. 0 \in Seat /\ 2 \in Seat
      BY DEF Seat
    <2>3. group[n][0] = group[1][0]
      BY <1>3, <2>1, <2>2, Arrangements
    <2>4. ASSUME swapping = 2 PROVE group[n][2] = group[1][2]
      <3>1. n \in 1 .. 2
        BY <1>2, <1>3, <2>4
      <3>2. From(n, 2) = 2
        BY <3>1 DEF From, Arrangement
      <3>. QED
        BY <2>1, <2>2, <3>2
    <2>5. {group[n][p] : p \in Seat} = {group[1][p] : p \in Seat}
      <3>1. /\ \A p \in Seat : From(n, p) \in Seat
            /\ \A q \in Seat : \E p \in Seat : From(n, p) = q
        BY <1>3, Arrangements
      <3>. QED
        BY <2>1, <3>1
    <2>. QED
      BY <2>3, <2>4, <2>5
  <1>. QED
    BY <1>2, <1>4, <1>5

\* Before the next shuffle a group of swapped deals shows each arrangement of
\* the hands that may change places, once, North's staying: two for -x 2, six
\* for -x 3, and whatever the actions sort in between.
THEOREM EveryArrangement == Spec => []EveryArrangementOnce
  <1>1. Init => GroupOK /\ GroupStarts
    BY DEF Init, GroupOK, GroupStarts
  <1>. QED
    BY <1>1, InitIInv, StepIInv, StepGroup, GroupEveryArrangement, PTL DEF Spec

-----------------------------------------------------------------------------
(* Cards and seats. *)

\* A card's field is its place in the full pack, and the card read from a
\* field is the one of that place.
LEMMA CardPlace ==
  ASSUME NEW c \in Card
  PROVE  /\ zcard(c) = c
         /\ MAKECARD(3 - (c \div HandSize), HandSize - 1 - (c % HandSize)) = c
  <1>1. PICK p \in Seat, k \in 0 .. HandSize - 1 : c = p * HandSize + k
    BY SlotPlace DEF Card
  <1>2. c \div HandSize = p /\ c % HandSize = k
    BY <1>1, PlaceSlot
  <1>3. p \in Int /\ k \in Int /\ HandSize \in Int
    BY SizeAssumption DEF Seat
  <1>4. 3 - (3 - p) = p /\ HandSize - 1 - (HandSize - 1 - k) = k
    BY <1>3
  <1>5. zcard(c) = HandSize * p + k
    BY <1>2, <1>4 DEF zcard, zsuit, zrpos, C_SUIT, C_RANK
  <1>6. HandSize * p = p * HandSize
    <2> USE SizeAssumption DEF Seat
    <2>1. CASE p = 0
      BY <2>1
    <2>2. CASE p = 1
      BY <2>2
    <2>3. CASE p = 2
      BY <2>3
    <2>4. CASE p = 3
      BY <2>4
    <2>. QED
      BY <2>1, <2>2, <2>3, <2>4
  <1>7. MAKECARD(3 - p, HandSize - 1 - k) = p * HandSize + k
    BY <1>4 DEF MAKECARD
  <1>. QED
    BY <1>1, <1>2, <1>5, <1>6, <1>7

\* The two numberings of the seats translate into each other.
LEMMA SeatNumbers ==
  ASSUME NEW p \in Seat
  PROVE  /\ zseat(p) \in Seat /\ SeatOf(zseat(p)) = p /\ SeatOf(p) \in Seat
         /\ zseat(SeatOf(p)) = p /\ (p + 1) % 4 = zseat(p)
         /\ zseat(p) = 0 => p = 3
  <1> USE DEF Seat, zseat, SeatOf
  <1>1. CASE p = 0
    BY <1>1
  <1>2. CASE p = 1
    BY <1>2
  <1>3. CASE p = 2
    BY <1>3
  <1>4. CASE p = 3
    BY <1>4
  <1>. QED
    BY <1>1, <1>2, <1>3, <1>4

-----------------------------------------------------------------------------
(* Deals. *)

\* In the record of a deal the field of a card has the seat that holds it, and
\* nobody else's.
LEMMA Packed ==
  ASSUME NEW d, Whole(d), NEW old, NEW k \in Slot
  PROVE  LET zd == dl52_to_zrd_dl(d, old)
         IN  /\ \E p \in Seat : k \in Hands(d)[p] /\ zd[k] = zseat(p)
             /\ \A p \in Seat : zd[k] = zseat(p) <=> k \in Hands(d)[p]
  <1> DEFINE zd == dl52_to_zrd_dl(d, old)
             p == (CHOOSE s \in Slot : zcard(d[s]) = k) \div HandSize
  <1>1. PICK r \in Slot : d[r] = k
    BY DEF Whole, Card
  <1>2. \A s \in Slot : zcard(d[s]) = d[s]
    BY CardPlace DEF Whole
  <1>3. \A s \in Slot : zcard(d[s]) = k => s = r
    BY <1>1, <1>2, WholeOnce
  <1>4. (CHOOSE s \in Slot : zcard(d[s]) = k) = r
    BY <1>1, <1>2, <1>3
  <1>5. zd[k] = zseat(r \div HandSize)
    BY <1>1, <1>2, <1>4 DEF dl52_to_zrd_dl
  <1>6. r \div HandSize \in Seat /\ r \in HandSlots(r \div HandSize)
    BY SlotHand
  <1>7. k \in Hands(d)[r \div HandSize]
    BY <1>1, <1>6 DEF Hands
  <1>8. ASSUME NEW q \in Seat, k \in Hands(d)[q] PROVE q = r \div HandSize
    <2>1. PICK s \in HandSlots(q) : d[s] = k
      BY <1>8 DEF Hands
    <2>2. s \in Slot /\ s \div HandSize = q
      BY InHand
    <2>. QED
      BY <1>1, <2>1, <2>2, WholeOnce
  <1>9. ASSUME NEW q \in Seat, zd[k] = zseat(q) PROVE q = r \div HandSize
    BY <1>5, <1>6, <1>9, SeatNumbers
  <1>. QED
    BY <1>5, <1>6, <1>7, <1>8, <1>9

\* So the hands can be read off the record.
LEMMA FieldsOfHand ==
  ASSUME NEW d, Whole(d), NEW old, NEW p \in Seat, NEW k \in Hands(d)[p]
  PROVE  LET zd == dl52_to_zrd_dl(d, old)
         IN  FieldSlot(zd, k) = p * HandSize + Rank(Hands(d)[p], k)
  <1> DEFINE zd == dl52_to_zrd_dl(d, old)
  <1>1. Hands(d)[p] \subseteq Slot
    BY HandCards DEF Card
  <1>2. zd[k] = zseat(p)
    BY <1>1, Packed
  <1>3. {b \in Slot : b < k /\ zd[b] = zd[k]} = {b \in Hands(d)[p] : b < k}
    <2>1. \A b \in Slot : zd[b] = zseat(p) <=> b \in Hands(d)[p]
      BY Packed
    <2> HIDE DEF zd
    <2>. QED
      BY <1>1, <1>2, <2>1
  <1>4. SeatOf(zd[k]) = p
    BY <1>2, SeatNumbers
  <1> HIDE DEF zd
  <1>5. FieldSlot(zd, k) = p * HandSize + Rank(Hands(d)[p], k)
    BY <1>3, <1>4 DEF FieldSlot, Rank
  <1>. QED
    BY <1>5 DEF zd

\* Decoding the record of a deal sorts the deal.
LEMMA DecodedSorted ==
  ASSUME NEW d, Whole(d), NEW old
  PROVE  zrd_decode_deal(dl52_to_zrd_dl(d, old)) = Sorted(d)
  <1> DEFINE zd == dl52_to_zrd_dl(d, old)
             e == zrd_decode_deal(zd)
  <1>1. ASSUME NEW s \in Slot PROVE e[s] = Sorted(d)[s]
    <2> DEFINE put == {k \in Slot : FieldSlot(zd, k) = s}
               c == Sorted(d)[s]
    <2>1. /\ s \div HandSize \in Seat
          /\ c \in Hands(d)[s \div HandSize]
          /\ Rank(Hands(d)[s \div HandSize], c) = s % HandSize
      BY SlotHand, SortedPlace
    <2>2. c \in Card
      BY <2>1, HandCards
    <2>3. FieldSlot(zd, c) = s
      <3>1. FieldSlot(zd, c) = (s \div HandSize) * HandSize + (s % HandSize)
        BY <2>1, FieldsOfHand
      <3>2. PICK p \in Seat, k \in 0 .. HandSize - 1 : s = p * HandSize + k
        BY SlotPlace
      <3>3. s \div HandSize = p /\ s % HandSize = k
        BY <3>2, PlaceSlot
      <3>. QED
        BY <3>1, <3>2, <3>3
    <2>4. ASSUME NEW k \in put PROVE k = c
      <3>1. PICK p \in Seat : k \in Hands(d)[p]
        BY Packed
      <3>2. s = p * HandSize + Rank(Hands(d)[p], k)
        BY <3>1, FieldsOfHand
      <3>3. s \div HandSize = p /\ s % HandSize = Rank(Hands(d)[p], k)
        BY <3>1, <3>2, RankSlot
      <3>. QED
        BY <3>1, <3>3, SortedPlace
    <2>5. put = {c}
      BY <2>2, <2>3, <2>4 DEF Card
    <2>6. c \in Int
      BY <2>2, Slots DEF Card
    <2>7. (CHOOSE k \in put : \A b \in put : b <= k) = c
      <3> HIDE DEF put, c
      <3>. QED
        BY <2>5, <2>6
    <2>8. MAKECARD(3 - (c \div HandSize), HandSize - 1 - (c % HandSize)) = c
      BY <2>2, CardPlace
    <2>9. e[s] = LET n == CHOOSE k \in put : \A b \in put : b <= k
                 IN  IF put = {} THEN NoCard
                     ELSE MAKECARD(3 - (n \div HandSize), HandSize - 1 - (n % HandSize))
      <3> HIDE DEF zd
      <3>. QED
        BY DEF zrd_decode_deal
    <2> HIDE DEF put, c, e
    <2>10. e[s] = c
      BY <2>5, <2>7, <2>8, <2>9
    <2>. QED
      BY <2>10 DEF c
  <1>2. e = [s \in Slot |-> e[s]]
    <2> DEFINE F(s) ==
                 LET put == {k \in Slot : FieldSlot(zd, k) = s}
                     n   == CHOOSE k \in put : \A b \in put : b <= k
                 IN  IF put = {} THEN NoCard
                     ELSE MAKECARD(3 - (n \div HandSize), HandSize - 1 - (n % HandSize))
    <2>1. e = [s \in Slot |-> F(s)]
      BY DEF zrd_decode_deal
    <2> HIDE DEF F, e
    <2>. QED
      BY <2>1
  <1>3. Sorted(d) = [s \in Slot |-> Sorted(d)[s]]
    BY SortedWhole DEF Whole
  <1> HIDE DEF e
  <1>4. e = Sorted(d)
    BY <1>1, <1>2, <1>3
  <1>. QED
    BY <1>4 DEF e

\* West would have to hold one card too many.
LEMMA NoHeader ==
  ASSUME NEW d, Whole(d), NEW old, NEW zt
  PROVE  ~IsHeader([zd |-> dl52_to_zrd_dl(d, old), zt |-> zt])
  <1> DEFINE zd == dl52_to_zrd_dl(d, old)
             first == 0 .. HandSize
             hand == Hands(d)[3]
  <1>1. SUFFICES ASSUME \A k \in first : zd[k] = 0 PROVE FALSE
    BY DEF IsHeader
  <1>2. HandSize \in Nat /\ first \subseteq Slot
    BY SizeAssumption DEF Slot, N
  <1>3. first \subseteq hand
    <2>1. ASSUME NEW k \in first PROVE k \in hand
      <3>1. PICK p \in Seat : k \in Hands(d)[p] /\ zd[k] = zseat(p)
        BY <1>2, Packed
      <3>2. p = 3
        BY <1>1, <3>1, SeatNumbers
      <3>. QED
        BY <3>1, <3>2
    <2>. QED
      BY <2>1
  <1>4. IsFiniteSet(hand) /\ Cardinality(hand) = HandSize
    BY HandCards DEF Seat
  <1>5. IsFiniteSet(first) /\ Cardinality(first) = HandSize + 1
    BY <1>2, FS_Interval
  <1>6. Cardinality(first) <= Cardinality(hand)
    <2> HIDE DEF first, hand
    <2>. QED
      BY <1>3, <1>4, FS_Subset
  <1>. QED
    BY <1>2, <1>4, <1>5, <1>6

\* Tricks fit in four bits, and come back to the seat and strain they are for.
LEMMA TricksBack ==
  ASSUME NEW t \in TrickTables
  PROVE  zrdTricks_to_dl52Tricks(dl52Tricks_to_zrdTricks(t)) = t
  <1> DEFINE zt == dl52Tricks_to_zrdTricks(t)
             u == zrdTricks_to_dl52Tricks(zt)
  <1>1. t \in [Seat -> [Strain -> 0 .. HandSize]] /\ HandSize <= 15 /\ HandSize \in Nat
    BY TricksAssumption, SizeAssumption
  <1>2. ASSUME NEW p \in Seat, NEW s \in Strain PROVE u[p][s] = t[p][s]
    <2>1. zstrain(s) \in Strain /\ zstrain(zstrain(s)) = s
      BY DEF Strain, zstrain
    <2>2. u[p][s] = zt[zstrain(s)][zseat(p)]
      BY SeatNumbers DEF zrdTricks_to_dl52Tricks
    <2>3. zt[zstrain(s)][zseat(p)] = t[SeatOf(zseat(p))][zstrain(zstrain(s))] % 16
      BY <2>1, SeatNumbers DEF dl52Tricks_to_zrdTricks
    <2>4. t[p][s] \in 0 .. 15
      BY <1>1
    <2>. QED
      BY <2>1, <2>2, <2>3, <2>4, SeatNumbers
  <1>3. u = [p \in Seat |-> [s \in Strain |-> u[p][s]]]
    BY DEF zrdTricks_to_dl52Tricks
  <1>4. t = [p \in Seat |-> [s \in Strain |-> t[p][s]]]
    BY <1>1
  <1> HIDE DEF u
  <1>5. u = t
    BY <1>2, <1>3, <1>4
  <1>. QED
    BY <1>5 DEF u

-----------------------------------------------------------------------------
(* The invariant. *)

LInv == IInv /\ ReadsBack

\* Nothing is written at first.
LEMMA InitLInv == LibInit => LInv
  BY InitIInv DEF LibInit, LInv, ReadsBack

\* Writing a deal makes its record.
LEMMA WriteDealLInv == LInv /\ WriteDeal => LInv'
  <1> SUFFICES ASSUME LInv, WriteDeal PROVE LInv'
    OBVIOUS
  <1>1. IInv'
    BY UseIInv DEF LInv, WriteDeal
  <1>2. Whole(curdeal')
    BY SortedWhole DEF LInv, IInv, CurdealOK, WriteDeal, Use
  <1>3. PICK t \in TrickTables :
           /\ zrd_rec' = [zd |-> dl52_to_zrd_dl(curdeal', zrd_rec.zd),
                          zt |-> dl52Tricks_to_zrdTricks(t)]
           /\ written' = <<Hands(curdeal'), t>>
    BY DEF WriteDeal
  <1>4. ~IsHeader(zrd_rec')
    BY <1>2, <1>3, NoHeader
  <1>5. Hands(zrd_decode_deal(zrd_rec'.zd)) = written'[1]
    <2>1. zrd_decode_deal(dl52_to_zrd_dl(curdeal', zrd_rec.zd)) = Sorted(curdeal')
      BY <1>2, DecodedSorted
    <2>2. Hands(Sorted(curdeal')) = Hands(curdeal')
      BY <1>2, SortedHands
    <2>. QED
      BY <1>3, <2>1, <2>2
  <1>6. zrdTricks_to_dl52Tricks(zrd_rec'.zt) = written'[2]
    BY <1>3, TricksBack
  <1>. QED
    BY <1>1, <1>4, <1>5, <1>6 DEF LInv, ReadsBack

\* The invariant is inductive.
LEMMA StepLInv == LInv /\ [LibNext]_<<vars, libVars>> => LInv'
  <1> SUFFICES ASSUME LInv, [LibNext]_<<vars, libVars>> PROVE LInv'
    OBVIOUS
  <1>1. ASSUME DealOnly PROVE LInv'
    <2>1. IInv'
      BY <1>1, StepIInv DEF LInv, DealOnly
    <2>. QED
      BY <1>1, <2>1 DEF LInv, DealOnly, libVars, ReadsBack, IsHeader
  <1>2. ASSUME UNCHANGED <<vars, libVars>> PROVE LInv'
    <2>1. IInv'
      BY <1>2, StepIInv DEF LInv
    <2>. QED
      BY <1>2, <2>1 DEF LInv, libVars, ReadsBack, IsHeader
  <1>. QED
    BY <1>1, <1>2, WriteDealLInv DEF LibNext

-----------------------------------------------------------------------------
\* What -L reads from a record is the deal -Z wrote there, hands and tricks,
\* and never a header, whatever deals zrd_write()'s record held before.
THEOREM RoundTrip == LibSpec => []ReadsBack
  <1>1. LInv => ReadsBack
    BY DEF LInv
  <1>. QED
    BY <1>1, InitLInv, StepLInv, PTL DEF LibSpec

\* Writing deals does not disturb the dealing of them.
THEOREM LibEveryCard == LibSpec => []EveryCardOnce
  <1>1. LInv => EveryCardOnce
    BY IInvEveryCard DEF LInv
  <1>. QED
    BY <1>1, InitLInv, StepLInv, PTL DEF LibSpec
=============================================================================
