------------------------------ MODULE Scoring ------------------------------
(***************************************************************************)
(* deal_scorelib.c: the score of a contract, and a difference in IMPs, as  *)
(* evaltree() and evalcontract use them; and the laws they should follow.  *)
(***************************************************************************)
EXTENDS Integers, FiniteSets

SUIT_DIAMOND == 1
SUIT_HEART   == 2
SUIT_SPADE   == 3
SUIT_NT      == 4

Vul     == {0, 1}
Dbl     == 0 .. 2
Strain  == 0 .. SUIT_NT
Level   == 1 .. 7
Taken   == 0 .. 13

-----------------------------------------------------------------------------
(* The code's arithmetic. *)

\* The lexer's encoding of z[1-7][CDHSN][x]{0,2}.
make_contract(level, strain, dbl) == level * 5 + strain + 40 * dbl

\* Penalty for doubled undertricks.
undertricks(utricks, vul, dbl) ==
    IF vul = 1 THEN -((300 * utricks - 100) * dbl)
    ELSE IF utricks <= 3 THEN -((200 * utricks - 100) * dbl)
    ELSE -((300 * utricks - 400) * dbl)

PerTrick(strain) == IF strain >= SUIT_HEART THEN 30 ELSE 20

trickscore(strain, tricks) ==
    PerTrick(strain) * (tricks - 6) + (IF strain = SUIT_NT THEN 10 ELSE 0)

\* Deviation: four of a minor counts as game.
IsGame_Minor4(strain, level) ==
    \/ strain = SUIT_NT /\ level >= 3
    \/ strain < SUIT_NT /\ level >= 4

IsGame(strain, level) ==
    \/ strain = SUIT_NT /\ level >= 3
    \/ strain \in {SUIT_HEART, SUIT_SPADE} /\ level >= 4
    \/ strain <= SUIT_DIAMOND /\ level >= 5

SlamBonus(vul, level) ==
    CASE level = 6 -> 500 + 250 * vul
      [] level = 7 -> 1000 + 500 * vul
      [] OTHER     -> 0

undbled_score(vul, strain, level, tricks) ==
    IF tricks < 6 + level
    THEN -50 * (1 + vul) * (6 + level - tricks)
    ELSE trickscore(strain, tricks) + 50
         + (IF IsGame(strain, level) THEN 250 + 200 * vul ELSE 0)
         + SlamBonus(vul, level)

\* A doubled contract made on the nose.
dbled_making(dbl, vul, strain, ctricks) ==
    LET t0 == trickscore(strain, ctricks) * (IF dbl = 1 THEN 2 ELSE 4)
    IN  t0 + (IF t0 >= 100 THEN 300 + vul * 200 ELSE 50)
           + 50 * dbl + SlamBonus(vul, ctricks - 6)

Overtricks(n, vul, dbl) == n * 100 * (1 + vul) * dbl

calc_score(vul, dbl, strain, level, tricks) ==
    LET ctricks == 6 + level
    IN  IF dbl = 0 THEN undbled_score(vul, strain, level, tricks)
        ELSE IF ctricks > tricks THEN undertricks(ctricks - tricks, vul, dbl)
        ELSE dbled_making(dbl, vul, strain, ctricks)
             + Overtricks(tricks - ctricks, vul, dbl)

score(vul, coded, tricks) ==
    LET t0 == coded % 40
    IN  calc_score(vul, coded \div 40, t0 % 5, t0 \div 5, tricks)

\* As the source has it: a minus sign begins the table's second line.
IMP_tbl == <<10, 40, 80, 120, 160, 210, 260, 310, 360, 410, 490, 590,
             -740, 890, 1090, 1190, 1490, 1740, 1990, 2240, 2490, 2990, 3490,
             3990>>

AbsVal(n) == IF n < 0 THEN -n ELSE n

\* The first place in the table that the difference does not exceed.
imps(diff) ==
    LET fits == {i \in 0 .. 23 : IMP_tbl[i + 1] >= AbsVal(diff)}
        i    == IF fits = {} THEN 24
                ELSE CHOOSE k \in fits : \A l \in fits : k <= l
    IN  IF diff < 0 THEN -i ELSE i

-----------------------------------------------------------------------------
(* Law 77 of duplicate bridge, stated once for every contract. *)

\* Points of the tricks bid: they alone decide between part score and game.
Bid(n) ==
    (20 * n.level + (IF n.strain >= SUIT_HEART THEN 10 * n.level ELSE 0)
                  + (IF n.strain = SUIT_NT THEN 10 ELSE 0)) * 2^n.dbl

Over(n) == n.tricks - 6 - n.level

OverPoints(n) ==
    IF n.dbl = 0 THEN Over(n) * (IF n.strain >= SUIT_HEART THEN 30 ELSE 20)
    ELSE Over(n) * n.dbl * (IF n.vul = 1 THEN 200 ELSE 100)

Bonus(n) ==
    (IF Bid(n) < 100 THEN 50 ELSE IF n.vul = 1 THEN 500 ELSE 300)
    + (CASE n.level < 6 -> 0
         [] n.level = 6 -> (IF n.vul = 1 THEN 750 ELSE 500)
         [] n.level = 7 -> (IF n.vul = 1 THEN 1500 ELSE 1000))
    + 50 * n.dbl

\* Penalty of the k-th undertrick.
Penalty(n, k) ==
    IF n.dbl = 0 THEN (IF n.vul = 1 THEN 100 ELSE 50)
    ELSE n.dbl * (IF k = 1 THEN (IF n.vul = 1 THEN 200 ELSE 100)
                  ELSE IF n.vul = 0 /\ k \in {2, 3} THEN 200 ELSE 300)

Down(n) ==
    LET sum[k \in 0 .. 13] == IF k = 0 THEN 0 ELSE sum[k - 1] + Penalty(n, k)
    IN  sum[6 + n.level - n.tricks]

Law77(n) ==
    IF Over(n) >= 0 THEN Bid(n) + OverPoints(n) + Bonus(n) ELSE -Down(n)

=============================================================================
