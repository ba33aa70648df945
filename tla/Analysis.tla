------------------------------ MODULE Analysis ------------------------------
(***************************************************************************)
(* What the tree of an expression reads: the parser numbers the shape      *)
(* statements and marks the distributions they cover, and sets the point   *)
(* table; analyze() goes through the cards of a hand in the order dealt.   *)
(*                                                                         *)
(* A mask is the set of its bits.  The hand is followed in one suit, for   *)
(* suits meet only in totals; for shapes lengths alone count.              *)
(***************************************************************************)
EXTENDS Integers, FiniteSets, Sequences, Functions

CONSTANTS
    ShapeList,      \* what a shape statement may list
    Tables,         \* values a pointcount statement may give, ace first
    FirstShape,     \* shape statements before these, matching no hand
    MaxShapes,      \* bound on those that follow
    Ranks           \* ranks the suit may hold, of 0 .. 12

X == -1

\* The places of the x's of a shape, four lengths S H D C with x for any, and the
\* cards the lengths given leave.
Xs(s) == {k \in 1 .. 4 : s[k] = X}
Left(s) == LET Known(n) == IF n = X THEN 0 ELSE n
           IN  13 - (Known(s[1]) + Known(s[2]) + Known(s[3]) + Known(s[4]))

\* The shapes insertshape() takes: the others end the program.
Shape == {s \in [1 .. 4 -> {X} \cup 0 .. 13] :
              Left(s) >= 0 /\ (Xs(s) = {} => Left(s) = 0)}

\* An element of a list: taken away or not, in any order of the suits or not.
Element == [neg : BOOLEAN, any : BOOLEAN, shape : Shape]

ASSUME AnalysisAssumption ==
    /\ ShapeList \subseteq Seq(Element)
    /\ Tables \subseteq Seq(Int)
    /\ FirstShape \in Nat /\ MaxShapes \in Nat
    /\ Ranks \subseteq 0 .. 12

VARIABLES
    pc,             \* "parse", "deal" or "done"
    distrbitmaps,   \* lengths of C, D, H, S -> mask
    shapeno,
    points,         \* rank -> points of a high card
    hs,             \* struct handstat, of the suit
    shapes, held    \* history: shape statements; ranks dealt

analysisVars == <<pc, distrbitmaps, shapeno, points, hs, shapes, held>>

-----------------------------------------------------------------------------
(* Shapes. *)

Perms == Bijection(1 .. 4, 1 .. 4)
Lengths == {l \in [1 .. 4 -> 0 .. 13] : l[1] + l[2] + l[3] + l[4] = 13}

\* The leftmost x is filled in: the only one with what is left, one of several
\* with anything up to that.
fillx(s) ==
    LET i == CHOOSE k \in Xs(s) : \A l \in Xs(s) : k <= l
    IN  IF Xs(s) = {} THEN {s}
        ELSE {[s EXCEPT ![i] = j] :
                  j \in IF Cardinality(Xs(s)) = 1 THEN {Left(s)} ELSE 0 .. Left(s)}

\* insertshape() calls itself once for each x, so four times deep at most.
Four(s) ==
    LET two   == UNION {fillx(t) : t \in fillx(s)}
        three == UNION {fillx(t) : t \in two}
    IN  UNION {fillx(t) : t \in three}

\* The orders of the suits it goes through.
Orders(any) == IF any THEN Perms ELSE {[k \in 1 .. 4 |-> k]}

\* The distributions, C D H S, one element of a list covers.
insertshape(s, any) ==
    {<<t[p[4]], t[p[3]], t[p[2]], t[p[1]]>> : t \in Four(s), p \in Orders(any)}

\* Deviation: an element with a minus sign takes away what it does not cover.
setshapebit_Rest(maps, e, bit) ==
    LET covered == insertshape(e.shape, e.any)
    IN  [l \in DOMAIN maps |->
            IF e.neg /\ l \notin covered THEN maps[l] \ {bit}
            ELSE IF ~e.neg /\ l \in covered THEN maps[l] \cup {bit} ELSE maps[l]]

setshapebit(maps, e, bit) ==
    LET covered == insertshape(e.shape, e.any)
    IN  [l \in DOMAIN maps |->
            IF l \notin covered THEN maps[l]
            ELSE IF e.neg THEN maps[l] \ {bit} ELSE maps[l] \cup {bit}]

\* The elements of a list in turn.
setshapebits(maps, list, bit) ==
    LET after[n \in 0 .. Len(list)] ==
            IF n = 0 THEN maps ELSE setshapebit(after[n - 1], list[n], bit)
    IN  after[Len(list)]

\* A shape node; the thirty-second statement ends the program.
ShapeStatement ==
    /\ pc = "parse"
    /\ shapeno < FirstShape + MaxShapes
    /\ \E list \in ShapeList :
          /\ shapes' = Append(shapes, list)
          /\ distrbitmaps' = setshapebits(distrbitmaps, list, shapeno)
    /\ shapeno' = shapeno + 1
    /\ pc' = IF shapeno + 1 >= 32 THEN "done" ELSE pc
    /\ UNCHANGED <<points, hs, held>>

\* hs_bits is a short: bits from the sixteenth on are lost, and if it has the
\* sixteenth it counts as having all those above.
ToShort(bits) ==
    {b \in bits : b < 15} \cup (IF 15 \in bits THEN 15 .. 31 ELSE {})

hs_bits(l) == ToShort(distrbitmaps[l])

EvalShape(l, bit) == bit \in hs_bits(l)

-----------------------------------------------------------------------------
(* Points and top cards. *)

\* clearpointcount(), then the values from the ace down.
PointCount ==
    /\ pc = "parse"
    /\ \E vals \in Tables :
          points' = [r \in 0 .. 12 |->
                        IF 13 - r <= Len(vals) THEN vals[13 - r] ELSE 0]
    /\ UNCHANGED <<pc, distrbitmaps, shapeno, hs, shapes, held>>

idxControls(r) == CASE r = 12 -> 2 [] r = 11 -> 1 [] OTHER -> 0

LTC_VOID_WEIGHT == 128
idxLTCwts(r) == CASE r = 12 -> 64 [] r = 11 -> 32 [] r = 10 -> 16
                  [] r = 9 -> 8 [] r = 8 -> 4 [] OTHER -> 1

init_tops == <<LTC_VOID_WEIGHT, LTC_VOID_WEIGHT, LTC_VOID_WEIGHT>>

\* Deviation: the second card is not moved down.
upd_topcards_KeepThird(t, w) ==
    IF t[1] = LTC_VOID_WEIGHT THEN <<w, t[2], t[3]>>
    ELSE IF t[1] < w THEN <<w, t[1], t[3]>>
    ELSE IF t[2] = LTC_VOID_WEIGHT THEN <<t[1], w, t[3]>>
    ELSE IF t[2] < w THEN <<t[1], w, t[3]>>
    ELSE IF t[3] = LTC_VOID_WEIGHT \/ t[3] < w THEN <<t[1], t[2], w>>
    ELSE t

\* Sorted in, with the void's weight, more than any, for an empty place.
upd_topcards(t, w) ==
    IF t[1] = LTC_VOID_WEIGHT THEN <<w, t[2], t[3]>>
    ELSE IF t[1] < w THEN <<w, t[1], t[2]>>
    ELSE IF t[2] = LTC_VOID_WEIGHT THEN <<t[1], w, t[3]>>
    ELSE IF t[2] < w THEN <<t[1], w, t[2]>>
    ELSE IF t[3] = LTC_VOID_WEIGHT \/ t[3] < w THEN <<t[1], t[2], w>>
    ELSE t

\* The sum of three weights tells which cards they are: half losers times 100,
\* and whole losers.
countltc(t) ==
    LET w == t[1] + t[2] + t[3]
    IN  CASE w \in {384, 320, 224, 112} -> <<0, 0>>
          [] w \in {288, 208, 104, 88} -> <<50, 1>>
          [] w \in {49, 52, 56, 81, 84, 97, 100, 161, 164, 168, 176, 193, 196,
                    200, 257, 260, 264, 272} -> <<100, 1>>
          [] w \in {44, 76} -> <<150, 2>>
          [] w \in {25, 28, 34, 37, 41, 66, 69, 73, 130, 133, 137, 140, 145,
                    148, 152} -> <<200, 2>>
          [] w \in {18, 21} -> <<250, 2>>
          [] w \in {3, 6, 10, 13} -> <<300, 3>>

Analyze ==
    /\ pc = "parse" /\ pc' = "deal"
    /\ hs' = [length |-> 0, points |-> 0, control |-> 0, topcards |-> init_tops]
    /\ held' = {}
    /\ UNCHANGED <<distrbitmaps, shapeno, points, shapes>>

\* The next card of the hand that is in the suit.
NextCard ==
    /\ pc = "deal"
    /\ \E r \in Ranks \ held :
          /\ hs' = [length   |-> hs.length + 1,
                    points   |-> hs.points + points[r],
                    control  |-> hs.control + idxControls(r),
                    topcards |-> upd_topcards(hs.topcards, idxLTCwts(r))]
          /\ held' = held \cup {r}
    /\ UNCHANGED <<pc, distrbitmaps, shapeno, points, shapes>>

\* The hand is dealt: what is asked of it is up to evaltree().
Dealt ==
    /\ pc = "deal" /\ pc' = "done"
    /\ UNCHANGED <<distrbitmaps, shapeno, points, hs, shapes, held>>

AnalysisInit ==
    /\ pc = "parse"
    /\ distrbitmaps = [l \in Lengths |-> {}]
    /\ shapeno = FirstShape
    /\ points = [r \in 0 .. 12 |-> IF r < 9 THEN 0 ELSE r - 8]
    /\ hs = [length |-> 0, points |-> 0, control |-> 0, topcards |-> init_tops]
    /\ shapes = <<>> /\ held = {}

AnalysisNext == ShapeStatement \/ PointCount \/ Analyze \/ NextCard \/ Dealt

AnalysisSpec == AnalysisInit /\ [][AnalysisNext]_analysisVars

-----------------------------------------------------------------------------
(* Properties. *)

\* An element covers the distributions that have its lengths in its suits, or
\* with "any" in some order of the suits.
Covers(e, l) ==
    \E p \in IF e.any THEN Perms ELSE {[k \in 1 .. 4 |-> 5 - k]} :
        \A k \in 1 .. 4 : e.shape[k] \in {X, l[p[k]]}

\* A hand meets a shape statement when the last element of its list that covers
\* the hand has no minus sign, whatever other shape statements say.
ShapeMeans ==
    pc = "parse" => \A k \in 1 .. Len(shapes) : \A l \in Lengths :
        LET covering == {j \in 1 .. Len(shapes[k]) : Covers(shapes[k][j], l)}
        IN  EvalShape(l, FirstShape + k - 1) <=>
               /\ covering # {}
               /\ ~shapes[k][CHOOSE j \in covering : \A i \in covering : i <= j].neg

\* Losers are the ace, king and queen missing, as far as the suit is long
\* enough; half losers take off or add half for the holdings named.  Neither
\* depends on the order of the cards.
LosersByHolding ==
    pc = "deal" =>
        LET n == Cardinality(held)
            tops == {r \in {12, 11, 10} : 12 - r < n}
            losers == Cardinality(tops \ held)
            A == 12 \in held  K == 11 \in held  Q == 10 \in held
            J == 9 \in held   T == 8 \in held
            less == \/ n = 1 /\ K
                    \/ n = 2 /\ A /\ Q
                    \/ n >= 3 /\ A /\ J /\ (K # Q)
                    \/ n >= 3 /\ (A # K) /\ ~Q /\ J /\ T
            more == n >= 3 /\ ~A /\ ~K /\ Q /\ ~J
        IN  /\ countltc(hs.topcards)[2] = losers
            /\ countltc(hs.topcards)[1] =
                   100 * losers + (IF less THEN -50 ELSE IF more THEN 50 ELSE 0)
=============================================================================
