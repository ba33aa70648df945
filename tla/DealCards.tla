----------------------------- MODULE DealCards -----------------------------
(***************************************************************************)
(* deal_cards(): how curdeal comes to hold a deal when it is shuffled, has *)
(* some cards predealt, or is the previous deal with hands swapped.        *)
(*                                                                         *)
(* curdeal persists from deal to deal: a shuffle works on what the deal    *)
(* before left there, which the actions may have sorted hand by hand; so   *)
(* does small_pack, the cards that are not predealt.                       *)
(***************************************************************************)
EXTENDS Integers, FiniteSets, Sequences, Functions

CONSTANTS
    HandSize,       \* cards in a hand (13)
    Stacked,        \* stacked_pack when cards are predealt: slot -> card;
                    \* sortDeal() has put the free slots of a hand first
    Modes,          \* which of DEF_MODE, PREDEAL_MODE and SWAP_MODE
    NoCard,
    Draws,          \* bound: what gen_rand_slot() may return, when in range
    MaxShuffles     \* bound: shuffles

N    == 4 * HandSize
Slot == 0 .. N - 1
Card == Slot                        \* numbered in the order of fullpack
Seat == 0 .. 3                      \* North, East, South, West
HandSlots(p) == p * HandSize .. (p + 1) * HandSize - 1

Predealt == {c \in Slot : Stacked[c] # NoCard}
Kept     == {Stacked[i] : i \in Predealt}

ASSUME SizeAssumption == HandSize \in Nat \ {0} /\ MaxShuffles \in Nat

ASSUME DrawsAssumption == 0 \in Draws /\ Draws \subseteq Slot

ASSUME StackedAssumption ==
    /\ NoCard \notin Card
    /\ Stacked \in [Slot -> Card \cup {NoCard}]
    /\ \A i, j \in Predealt : Stacked[i] = Stacked[j] => i = j
    /\ Modes \subseteq {"def", "predeal", "swap"}

VARIABLES
    DealMode,
    swapping,       \* -x 2 or -x 3: hands to swap
    curdeal,        \* slot -> card
    small_pack,     \* place -> card, the cards that are not predealt
    swapindex,      \* how far a group of swapped deals has come
    pc,
    i,              \* Shuffle()'s index
    shuffles,       \* shuffles begun
    group           \* history: the deals since the last shuffle, as hands

modeVars == <<DealMode, swapping>>
vars == <<modeVars, curdeal, small_pack, swapindex, pc, i, shuffles, group>>

-----------------------------------------------------------------------------
Small == Cardinality(Card \ Kept)   \* small_size

\* The n-th of the cards left over, in the order of fullpack.
Left(n) == CHOOSE c \in Card \ Kept :
              Cardinality({d \in Card \ Kept : d < c}) = n

Init ==
    /\ DealMode \in Modes
    /\ swapping \in (IF DealMode = "swap" THEN {2, 3} ELSE {0})
    /\ curdeal = IF DealMode = "predeal" THEN Stacked ELSE [s \in Slot |-> s]
    /\ small_pack = [n \in 0 .. Small - 1 |-> Left(n)]
    /\ swapindex = 0
    /\ pc = "loop"
    /\ i = 0
    /\ shuffles = 0
    /\ group = << >>

Exchange(f, a, b) == [f EXCEPT ![a] = f[b], ![b] = f[a]]

Hands(d) == [p \in Seat |-> {d[s] : s \in HandSlots(p)}]

\* swap2(): two hands change places, card by card.
Swap2(d, p1, p2) ==
    [s \in Slot |->
        CASE s \in HandSlots(p1) -> d[s + (p2 - p1) * HandSize]
          [] s \in HandSlots(p2) -> d[s - (p2 - p1) * HandSize]
          [] OTHER               -> d[s]]

\* Deviation: the third swap is the one of the first deal.
SwapHands_Repeat(d) ==
    CASE swapindex \in {1, 3, 4} -> Swap2(d, 1, 3)
      [] swapindex \in {2, 5}    -> Swap2(d, 2, 3)

SwapHands(d) ==
    CASE swapindex \in {1, 4} -> Swap2(d, 1, 3)
      [] swapindex \in {2, 5} -> Swap2(d, 2, 3)
      [] swapindex = 3        -> Swap2(d, 1, 2)

NextSwap ==
    IF \/ swapping = 2 /\ swapindex + 1 > 1
       \/ swapping = 3 /\ swapindex + 1 > 5
    THEN 0 ELSE swapindex + 1

\* merge_deal(): the shuffled cards go to the free slots, in order.
Merge(d) ==
    [s \in Slot |->
        IF d[s] # NoCard THEN d[s]
        ELSE small_pack[Cardinality({r \in Slot : r < s /\ d[r] = NoCard})]]

-----------------------------------------------------------------------------
StartShuffle ==
    /\ pc = "loop" /\ shuffles < MaxShuffles
    /\ DealMode \in {"def", "swap"} /\ swapindex = 0
    /\ i' = N - 1
    /\ shuffles' = shuffles + 1
    /\ group' = << >>
    /\ pc' = "shuffle"
    /\ UNCHANGED <<modeVars, curdeal, small_pack, swapindex>>

StartPredeal ==
    /\ pc = "loop" /\ shuffles < MaxShuffles
    /\ DealMode = "predeal"
    /\ curdeal' = Stacked
    /\ i' = Small - 1
    /\ shuffles' = shuffles + 1
    /\ group' = << >>
    /\ pc' = "shuffle"
    /\ UNCHANGED <<modeVars, small_pack, swapindex>>

\* Deviation: the card drawn is put in place, the one it replaces is lost.
ShuffleStep_Copy(j) ==
    /\ pc = "shuffle" /\ i > 0
    /\ j <= i
    /\ IF DealMode = "predeal"
       THEN /\ small_pack' = [small_pack EXCEPT ![i] = small_pack[j]]
            /\ UNCHANGED curdeal
       ELSE /\ curdeal' = [curdeal EXCEPT ![i] = curdeal[j]]
            /\ UNCHANGED small_pack
    /\ i' = i - 1
    /\ UNCHANGED <<modeVars, swapindex, pc, shuffles, group>>

\* One turn of Shuffle()'s loop: j is gen_rand_slot(i + 1).
ShuffleStep(j) ==
    /\ pc = "shuffle" /\ i > 0
    /\ j <= i
    /\ IF DealMode = "predeal"
       THEN /\ small_pack' = Exchange(small_pack, i, j)
            /\ UNCHANGED curdeal
       ELSE /\ curdeal' = Exchange(curdeal, i, j)
            /\ UNCHANGED small_pack
    /\ i' = i - 1
    /\ UNCHANGED <<modeVars, swapindex, pc, shuffles, group>>

ShuffleEnds ==
    /\ pc = "shuffle" /\ i <= 0
    /\ curdeal' = IF DealMode = "predeal" THEN Merge(curdeal) ELSE curdeal
    /\ swapindex' = IF DealMode = "swap" THEN NextSwap ELSE 0
    /\ group' = <<Hands(curdeal')>>
    /\ pc' = "dealt"
    /\ UNCHANGED <<modeVars, small_pack, i, shuffles>>

SwapDeal ==
    /\ pc = "loop"
    /\ DealMode = "swap" /\ swapindex # 0
    /\ curdeal' = SwapHands(curdeal)
    /\ swapindex' = NextSwap
    /\ group' = Append(group, Hands(curdeal'))
    /\ pc' = "dealt"
    /\ UNCHANGED <<modeVars, small_pack, i, shuffles>>

\* sortDeal(): every hand from the first card of the pack to the last.
Sorted(d) ==
    [s \in Slot |->
        LET hand == Hands(d)[s \div HandSize]
        IN  CHOOSE c \in hand :
                Cardinality({b \in hand : b < c}) = s % HandSize]

\* The deal does not meet the condition, or action() sorts it first of all.
Use ==
    /\ pc = "dealt"
    /\ curdeal' \in {curdeal, Sorted(curdeal)}
    /\ pc' = "loop"
    /\ UNCHANGED <<modeVars, small_pack, swapindex, i, shuffles, group>>

Next ==
    \/ StartShuffle \/ StartPredeal
    \/ \E j \in Draws : ShuffleStep(j)
    \/ ShuffleEnds \/ SwapDeal \/ Use

Spec == Init /\ [][Next]_vars

-----------------------------------------------------------------------------
TypeOK ==
    /\ DealMode \in Modes /\ swapping \in {0, 2, 3}
    /\ curdeal \in [Slot -> Card \cup {NoCard}]
    /\ small_pack \in [0 .. Small - 1 -> Card \ Kept]
    /\ swapindex \in 0 .. 5
    /\ pc \in {"loop", "shuffle", "dealt"}
    /\ i \in -1 .. N - 1
    /\ shuffles \in 0 .. MaxShuffles

\* However many deals have gone before and whatever the actions did to them,
\* the deal handed to analyze() has every card of the pack, and so each once,
\* and a predealt card is in the hand it was given to.
EveryCardOnce ==
    pc = "dealt" =>
        /\ Range(curdeal) = Card
        /\ DealMode = "predeal" =>
              \A s \in Predealt : \E r \in HandSlots(s \div HandSize) :
                  curdeal[r] = Stacked[s]

\* A group of swapped deals shows every arrangement of the hands that may
\* change places, each once, before the next shuffle: the 2 of East's and
\* West's, the 6 of East's, South's and West's.  North's hand stays.
EveryArrangementOnce ==
    pc = "dealt" /\ DealMode = "swap" =>
        /\ \A m, n \in DOMAIN group : group[m] = group[n] => m = n
        /\ \A n \in DOMAIN group :
              /\ group[n][0] = group[1][0]
              /\ swapping = 2 => group[n][2] = group[1][2]
              /\ {group[n][p] : p \in Seat} = {group[1][p] : p \in Seat}
        /\ swapindex = 0 => Len(group) = (IF swapping = 2 THEN 2 ELSE 6)
=============================================================================
