------------------------------ MODULE BiasDeal ------------------------------
(***************************************************************************)
(* make_bias_deal(): a random deal in which some hands have suits of given *)
(* lengths.  The cards asked for are drawn first; then the hands with such *)
(* suits are filled, the tightest first, with cards of suits of which they *)
(* ask nothing; then the others get what is left.  An attempt that runs    *)
(* out of such cards is given up, and the main loop makes another.         *)
(*                                                                         *)
(* There are as many suits as hands and as many cards in each.             *)
(***************************************************************************)
EXTENDS Integers, FiniteSets, Functions

CONSTANTS
    Hands,          \* 4
    HandSize,       \* 13
    ExgGap,         \* exg_gap (5)
    Biases,         \* the bias_suits the input file may ask for
    NoCard

N    == Hands * HandSize
Hand == 0 .. Hands - 1
Suit == Hand
Slot == 0 .. N - 1
Card == Slot                        \* asc_pack: suit by suit
CardSuit(c) == c \div HandSize
Begin(h)    == h * HandSize         \* bias_beg_pos, of a hand or of a suit
End(h)      == (h + 1) * HandSize   \* bias_end_pos
NoPack      == [k \in Slot |-> NoCard]

\* Cards a hand must have of a suit: TRUNCZ(bias_suits[h][s]).
Need(bias, h, s) == IF bias[h][s] > 0 THEN bias[h][s] ELSE 0

\* The first k values of f, added up as the code does: one after the other.
SumOf(f, k) ==
    LET sum[n \in 0 .. k] == IF n = 0 THEN 0 ELSE sum[n - 1] + f[n - 1]
    IN  sum[k]

HandNeeds(bias, h) == [s \in Suit |-> Need(bias, h, s)]
SuitNeeds(bias, s) == [h \in Hand |-> Need(bias, h, s)]
BiasLen(bias, h) == SumOf(HandNeeds(bias, h), Hands)
BiasTot(bias, s) == SumOf(SuitNeeds(bias, s), Hands)

BIG_XS == 999
NO_XS  == 99

\* The two marks in bias_hand_xs are no excess a hand can have.
ASSUME SizeAssumption ==
    /\ Hands \in Nat \ {0} /\ HandSize \in Nat \ {0} /\ ExgGap \in Nat \ {0}
    /\ N <= NO_XS

\* What bias_deal() in the parser lets through: -1 for a suit not spoken of.
ASSUME BiasAssumption ==
    /\ NoCard \notin Card
    /\ \A bias \in Biases :
          /\ bias \in [Hand -> [Suit -> -1 .. HandSize]]
          /\ \A h \in Hand : BiasLen(bias, h) <= HandSize
          /\ \A s \in Suit : BiasTot(bias, s) <= HandSize

VARIABLES
    bias_suits,
    bias_suit_left, \* cards of a suit not yet in bias_pack
    bias_hand_xs,   \* how many more cards than it needs a hand can draw from
    bias_src,       \* the pack the suits are drawn from
    bias_pack,      \* slot -> card, the deal in the making
    small_pack,     \* place -> card, what choose_bias_cards() left
    small_pack_sz,
    pc,
    i,              \* the suit to draw from; the turn of fill_bias_hands()
    h,              \* the hand to fill
    dst_pos, src_pos

biasVars == <<bias_suits, bias_suit_left, bias_hand_xs>>
packVars == <<bias_src, bias_pack, small_pack, small_pack_sz>>
vars == <<biasVars, packVars, pc, i, h, dst_pos, src_pos>>

-----------------------------------------------------------------------------
Biased(g) == \E s \in Suit : bias_suits[g][s] # -1

\* bias_excess() of a hand to be filled, for what is left of the suits.
Excess(g, left) ==
    SumOf([s \in Suit |-> IF bias_suits[g][s] = -1 THEN left[s] ELSE 0], Hands)
        - (HandSize - BiasLen(bias_suits, g))

\* min_idx(): the first of the smallest.
MinIdx(val) ==
    CHOOSE g \in Hand : /\ \A k \in Hand : val[g] <= val[k]
                        /\ \A k \in Hand : k < g => val[g] < val[k]

\* Shuffle(): any order of the places lo to hi - 1.
Shuffles(f, lo, hi) ==
    {[k \in DOMAIN f |-> IF k \in DOMAIN p THEN f[p[k]] ELSE f[k]] :
        p \in Surjection(lo .. hi - 1, lo .. hi - 1)}

Init ==
    /\ bias_suits \in Biases
    /\ bias_suit_left = [s \in Suit |-> HandSize]
    /\ bias_hand_xs = [g \in Hand |-> BIG_XS]
    /\ bias_src = NoPack /\ bias_pack = NoPack /\ small_pack = NoPack
    /\ small_pack_sz = 0
    /\ pc = "loop"
    /\ i = 0 /\ h = 0 /\ dst_pos = 0 /\ src_pos = 0

\* re_init_bias_vars().
StartDeal ==
    /\ pc \in {"loop", "failed", "dealt"}
    /\ bias_suit_left' = [s \in Suit |-> HandSize - BiasTot(bias_suits, s)]
    /\ bias_hand_xs' =
           [g \in Hand |->
               IF Biased(g) THEN Excess(g, bias_suit_left') ELSE BIG_XS]
    /\ bias_src' = [k \in Slot |-> k]
    /\ bias_pack' = NoPack /\ small_pack' = NoPack
    /\ pc' = "choose" /\ i' = 0
    /\ h' = 0 /\ dst_pos' = 0 /\ src_pos' = 0
    /\ UNCHANGED <<bias_suits, small_pack_sz>>

-----------------------------------------------------------------------------
(* choose_bias_cards(): from the shuffled suit i, to each hand what it must *)
(* have, after the cards of the suits before it.                            *)

HandPos(g) ==
    Begin(g) + SumOf(HandNeeds(bias_suits, g), i)
SuitPos(g) ==
    Begin(i) + SumOf(SuitNeeds(bias_suits, i), g)

Taken(src) ==
    [k \in Slot |-> IF k - Begin(i) \in 0 .. BiasTot(bias_suits, i) - 1
                    THEN NoCard ELSE src[k]]

ChooseSuit ==
    /\ pc = "choose" /\ i \in Suit
    /\ \E src \in (IF BiasTot(bias_suits, i) > 0
                   THEN Shuffles(bias_src, Begin(i), End(i)) ELSE {bias_src}) :
          /\ bias_pack' =
                [d \in Slot |->
                    LET g == d \div HandSize
                    IN  IF d - HandPos(g) \in 0 .. Need(bias_suits, g, i) - 1
                        THEN src[SuitPos(g) + (d - HandPos(g))]
                        ELSE bias_pack[d]]
          /\ bias_src' = Taken(src)
    /\ i' = i + 1
    /\ UNCHANGED <<biasVars, small_pack,
                   small_pack_sz, pc, h, dst_pos, src_pos>>

Cards(pack) == {k \in Slot : pack[k] # NoCard}

\* How many members of S are before k.
Rank(S, k) == Cardinality({m \in S : m < k})

\* compress_pack(), and the copy of bias_src: the cards in order, from place 0.
Compress(pack) ==
    [n \in Slot |->
        IF n < Cardinality(Cards(pack))
        THEN pack[CHOOSE k \in Cards(pack) : Rank(Cards(pack), k) = n]
        ELSE NoCard]

\* What is left becomes small_pack, and is shuffled.
ShuffleRest ==
    /\ pc = "choose" /\ i \notin Suit
    /\ small_pack_sz' = Cardinality(Cards(bias_src))
    /\ small_pack' \in Shuffles(Compress(bias_src), 0, small_pack_sz')
    /\ i' = 0
    /\ pc' = "pick"
    /\ UNCHANGED <<biasVars, bias_src, bias_pack, h, dst_pos, src_pos>>

-----------------------------------------------------------------------------
(* fill_bias_hands() *)

SkipHand ==
    /\ pc = "pick" /\ i \in Hand /\ ~Biased(i)
    /\ i' = i + 1
    /\ UNCHANGED <<biasVars, packVars, pc, h, dst_pos, src_pos>>

\* The hand with least to spare, from the slot after the cards it has.  The
\* assertion looks at that slot; past the last slot it reads what is there.
PickHand ==
    /\ pc = "pick" /\ i \in Hand /\ Biased(i)
    /\ h' = MinIdx(bias_hand_xs)
    /\ dst_pos' = Begin(h') + BiasLen(bias_suits, h')
    /\ \/ dst_pos' = N /\ pc' \in {"fill", "abort"}
       \/ dst_pos' < N /\ pc' = IF bias_pack[dst_pos'] = NoCard
                               THEN "fill" ELSE "abort"
    /\ UNCHANGED <<biasVars, packVars, i, src_pos>>

\* Deviation: a hand that must be void takes cards of the suit.
Fits_Voids(k) ==
    /\ k \in src_pos .. small_pack_sz - 1
    /\ small_pack[k] # NoCard
    /\ bias_suits[h][CardSuit(small_pack[k])] <= 0

\* The places choose_nobias_card() stops at: a card in a suit the hand says
\* nothing of.
Fits(k) ==
    /\ k \in src_pos .. small_pack_sz - 1
    /\ small_pack[k] # NoCard
    /\ bias_suits[h][CardSuit(small_pack[k])] = -1

\* Deviation: the card in the place a card is moved to is not saved.
Exg_Lost(j) ==
    IF j = src_pos THEN [small_pack EXCEPT ![src_pos] = NoCard]
    ELSE IF src_pos < small_pack_sz - ExgGap
    THEN [small_pack EXCEPT ![src_pos + ExgGap] = small_pack[src_pos],
                            ![src_pos] = NoCard]
    ELSE [small_pack EXCEPT ![j] = small_pack[src_pos], ![src_pos] = NoCard]

\* exg_cards(), and the mark choose_nobias_card() leaves at src_pos: a card
\* passed over there makes room, to a place ExgGap on when there is one.
Exg(j) ==
    IF j = src_pos THEN [small_pack EXCEPT ![src_pos] = NoCard]
    ELSE IF src_pos < small_pack_sz - ExgGap
    THEN [small_pack EXCEPT ![j] = small_pack[src_pos + ExgGap],
                            ![src_pos + ExgGap] = small_pack[src_pos],
                            ![src_pos] = NoCard]
    ELSE [small_pack EXCEPT ![j] = small_pack[src_pos], ![src_pos] = NoCard]

PlaceCard ==
    /\ pc = "fill" /\ dst_pos < End(h)
    /\ \E j \in Slot :
          /\ Fits(j) /\ \A k \in Slot : Fits(k) => j <= k
          /\ small_pack' = Exg(j)
          /\ bias_pack' = [bias_pack EXCEPT ![dst_pos] = small_pack[j]]
          /\ bias_suit_left' =
                [bias_suit_left EXCEPT ![CardSuit(small_pack[j])] = @ - 1]
    /\ dst_pos' = dst_pos + 1 /\ src_pos' = src_pos + 1
    /\ UNCHANGED <<bias_suits, bias_hand_xs, bias_src, small_pack_sz, pc, i, h>>

\* DL_ERR_BIAS: no card left that the hand may take.
GiveUp ==
    /\ pc = "fill" /\ dst_pos < End(h)
    /\ \A k \in Slot : ~Fits(k)
    /\ pc' = "failed"
    /\ UNCHANGED <<biasVars, packVars, i, h, dst_pos, src_pos>>

\* Deviation: what the other hands have to spare is not worked out again.
NewExcess_Stale == [bias_hand_xs EXCEPT ![h] = NO_XS]

NewExcess ==
    [g \in Hand |->
        IF g = h THEN NO_XS
        ELSE IF bias_hand_xs[g] < N THEN Excess(g, bias_suit_left)
        ELSE bias_hand_xs[g]]

\* The cards left are shuffled again, in the first two turns.
HandFilled ==
    /\ pc = "fill" /\ dst_pos >= End(h)
    /\ bias_hand_xs' = NewExcess
    /\ small_pack' \in (IF i < 2
                        THEN Shuffles(small_pack, src_pos, small_pack_sz)
                        ELSE {small_pack})
    /\ i' = i + 1
    /\ pc' = "pick"
    /\ UNCHANGED <<bias_suits, bias_suit_left, bias_src, bias_pack,
                   small_pack_sz, h, dst_pos, src_pos>>

FreeSlots == {d \in Slot : ~Biased(d \div HandSize)}

\* fill_unbias_hands(): the cards left, shuffled, to the other hands in order;
\* the deal becomes curdeal.
FillUnbiased ==
    /\ pc = "pick" /\ i \notin Hand
    /\ small_pack_sz' = Cardinality(Cards(small_pack))
    /\ small_pack' \in Shuffles(Compress(small_pack), 0, small_pack_sz')
    /\ bias_pack' =
          [d \in Slot |->
              IF d \in FreeSlots
              THEN small_pack'[Rank(FreeSlots, d)]
              ELSE bias_pack[d]]
    /\ src_pos' = small_pack_sz'
    /\ pc' = "dealt"
    /\ UNCHANGED <<biasVars, bias_src, i, h, dst_pos>>

Next ==
    \/ StartDeal \/ ChooseSuit \/ ShuffleRest
    \/ SkipHand \/ PickHand \/ PlaceCard \/ GiveUp \/ HandFilled
    \/ FillUnbiased

Spec == Init /\ [][Next]_vars

-----------------------------------------------------------------------------
Filling == pc \in {"pick", "fill", "failed"}

Unused == {k \in src_pos .. small_pack_sz - 1 : small_pack[k] # NoCard}

\* While the hands are filled, with cards passed over and moved about in
\* small_pack, every card is in one place, in bias_pack or among those left;
\* and a deal that is done has all of them.
EveryCardOnce ==
    /\ Filling => /\ {bias_pack[d] : d \in Cards(bias_pack)}
                       \cup {small_pack[k] : k \in Unused} = Card
                  /\ Cardinality(Cards(bias_pack)) + Cardinality(Unused) = N
    /\ pc = "dealt" => {bias_pack[d] : d \in Slot} = Card

HandSuit(g, s) ==
    {d \in Begin(g) .. End(g) - 1 : CardSuit(bias_pack[d]) = s}

\* Every deal made has, in every hand, just the lengths asked for, voids
\* included, whatever hands were filled before it.
BiasMet ==
    pc = "dealt" =>
        \A g \in Hand, s \in Suit :
            bias_suits[g][s] # -1 =>
                Cardinality(HandSuit(g, s)) = bias_suits[g][s]

\* bias_suit_left, from which the hands' excesses are worked out, is what is
\* left of each suit; and an attempt is given up only when the hand that was
\* to be filled was short of cards when it was picked.
GivesUpOnlyShort ==
    /\ Filling => \A s \in Suit :
          bias_suit_left[s] =
              Cardinality({k \in Unused : CardSuit(small_pack[k]) = s})
    /\ pc = "failed" => bias_hand_xs[h] < 0
=============================================================================
