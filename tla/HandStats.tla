------------------------------ MODULE HandStats ------------------------------
(***************************************************************************)
(* What every metric of DealerServer builds on: the statistics analyze()   *)
(* puts in a struct handstat, short honors, other scales of honor points,  *)
(* roundings, misfits, and analyze_side(), which chooses the trump suit    *)
(* and the declarer of two hands.                                          *)
(*                                                                         *)
(* A hand is [suit -> set of ranks]; both are numbered as in the code, and *)
(* so are the two hands of a side.  Floats are integers in hundredths: the *)
(* code's are whole multiples of a quarter, so nothing is lost.            *)
(***************************************************************************)
EXTENDS Integers, Sequences, FiniteSets, SequencesExt

CLUBS == 0
DIAMONDS == 1
HEARTS == 2
SPADES == 3
Suits == CLUBS .. SPADES
Hands == 0 .. 1

EIGHT == 6
NINE == 7
TEN == 8
JACK == 9
QUEEN == 10
KING == 11
ACE == 12

BERGEN == 0
BISSEL == 1
DKP == 2
GOREN == 3
KAPLAN == 4
KARPIN == 5
KARP_B == 6
KnR == 7
LAR == 8
LAR_B == 9
PAV == 10
SHEINW == 11
ZARBAS == 12
ZARADV == 13
ROTH == 14
Metrics == BERGEN .. ROTH

-----------------------------------------------------------------------------
(* Small arithmetic of C. *)

Larger(a, b) == IF a >= b THEN a ELSE b
Smaller(a, b) == IF a <= b THEN a ELSE b
If(b, n) == IF b THEN n ELSE 0

Sum4(F(_)) == F(CLUBS) + F(DIAMONDS) + F(HEARTS) + F(SPADES)
Count(P(_)) == Cardinality({s \in Suits : P(s)})

\* A float made an int drops its fraction; round() goes to the nearest, halves
\* away from zero.
Trunc(v) == IF v >= 0 THEN v \div 100 ELSE -((-v) \div 100)
Round(v) == IF v >= 0 THEN (v + 50) \div 100 ELSE -((50 - v) \div 100)

\* Pavlicek's: up from above 55, and from 45 with twelve points of body.
Pav_round(v, body) ==
    LET r == v - 100 * Trunc(v)
    IN  Trunc(v) + If(r > 55 \/ (r >= 45 /\ body >= 12), 1)

-----------------------------------------------------------------------------
(* struct handstat *)

hs_length(h, s) == Cardinality(h[s])
hs_points(h, s) == 4 * If(ACE \in h[s], 1) + 3 * If(KING \in h[s], 1)
                   + 2 * If(QUEEN \in h[s], 1) + If(JACK \in h[s], 1)
hs_totalpoints(h) == LET P(s) == hs_points(h, s) IN Sum4(P)
hs_totalcontrol(h) == LET P(s) == 2 * If(ACE \in h[s], 1) + If(KING \in h[s], 1)
                      IN  Sum4(P)
square_hand(h) == \A s \in Suits : hs_length(h, s) \in {3, 4}

\* Cards of one rank in a hand, and of the highest n ranks in a suit.
hs_counts(h, r) == LET P(s) == r \in h[s] IN Count(P)
Top(h, s, n) == Cardinality(h[s] \cap {r \in EIGHT .. ACE : r > ACE - n})

\* Suits of a hand of some length, and its shortest and longest.
OfLength(h, n) == LET P(s) == hs_length(h, s) = n IN Count(P)

Pav_body_val(h) ==
    3 * hs_counts(h, TEN) + 2 * hs_counts(h, NINE) + hs_counts(h, EIGHT)

-----------------------------------------------------------------------------
(* Short honors: hundredths of a point taken off a singleton A K Q J T, and
   off a doubleton AK AQ AJ AT Ax KQ KJ KT Kx QJ QT Qx JT Jx Tx. *)

stiff_H_adj(m) ==
    CASE m = BERGEN            -> <<-50, -100, -100, -100, 0>>
      [] m = BISSEL            -> <<0, -100, -100, 0, 0>>
      [] m \in {GOREN, PAV}    -> <<0, -200, -200, -100, 0>>
      [] m = KAPLAN            -> <<0, 0, -200, -100, 0>>
      [] m \in {KARPIN, LAR, SHEINW, ROTH} -> <<0, -100, -100, -100, 0>>
      [] m \in {KARP_B, LAR_B} -> <<0, -100, -100, -75, -25>>
      [] m \in {ZARBAS, ZARADV} -> <<-100, -100, -100, -100, 0>>

dbl_HH_adj(m) ==
    CASE m = BERGEN ->
           <<0, 0, -50, 0, 0, -50, -50, 0, 0, -100, -100, -100, -100, -100, 0>>
      [] m = BISSEL -> <<0, 0, 0, 0, 0, 0, 0, 0, 0, -100, -100, -100, 0, 0, 0>>
      [] m \in {GOREN, SHEINW} ->
           <<0, 0, 0, 0, 0, 0, 0, 0, 0, -100, -100, -100, -100, -100, 0>>
      [] m = KAPLAN -> <<0, 0, 0, 0, 0, 0, 0, 0, 0, -100, 0, 0, 0, 0, 0>>
      [] m \in {KARPIN, PAV, ROTH} ->
           <<0, 0, 0, 0, 0, -100, -100, 0, 0, -100, -100, -100, -100, -100, 0>>
      [] m = KARP_B ->
           <<-100, -100, -50, 0, 0, -100, 0, 0, 0, -100, -100, -100, -100, -75, -25>>
      [] m = LAR -> <<0, 0, 0, 0, 0, -100, 0, 0, 0, -100, 0, 0, 0, 0, 0>>
      [] m = LAR_B ->
           <<0, -50, -25, 0, 0, 0, 0, 0, 0, -25, -25, -50, -50, -75, -25>>
      [] m \in {ZARBAS, ZARADV} ->
           <<0, 0, -100, 0, 0, -100, -100, 0, 0, -100, -100, -100, -100, -100, 0>>

\* 1 for an ace .. 5 for a ten, 6 for a spot card.
Place(r) == IF r >= TEN THEN 13 - r ELSE 6

\* What the rows of two tables have for a suit of one card or two; the column
\* of a pair: the pairs a higher honor leads come before it.
lookup_stiff(row, r) == IF Place(r) = 6 THEN 0 ELSE row[Place(r)]
lookup_HH(row, r1, r2) ==
    LET i == Place(r1)  off == <<0, 5, 9, 12, 14>>
    IN  IF i = 6 THEN 0 ELSE row[off[i] + Place(r2) - i]
lookup(h, s, stiff, dbl) ==
    LET r1 == Max(h[s])
    IN  IF h[s] = {r1} THEN lookup_stiff(stiff, r1)
        ELSE lookup_HH(dbl, r1, Max(h[s] \ {r1}))

shortHon_adj(h, s, m) ==
    IF hs_length(h, s) \notin {1, 2} THEN 0
    ELSE lookup(h, s, stiff_H_adj(m), dbl_HH_adj(m))

\* Honor points on another scale, whole ones for Kleinman, hundredths for the
\* two bumwraps; Larsson's adds to honors that protect each other.
hcp_val(m) == IF m = DKP THEN <<13, 9, 5, 2, 0>> ELSE <<425, 300, 175, 75, 25>>

calc_alt_hcp(h, s, m) ==
    LET v == hcp_val(m)
        Syn(card, beside) == card \in h[s] /\ beside \cap h[s] # {}
    IN  If(ACE \in h[s], v[1]) + If(KING \in h[s], v[2]) + If(QUEEN \in h[s], v[3])
        + If(JACK \in h[s], v[4]) + If(TEN \in h[s], v[5])
        + (IF m = LAR_B /\ hs_length(h, s) >= 3
           THEN If(Syn(QUEEN, {ACE, KING}), 50) + If(Syn(JACK, {QUEEN, TEN}), 25)
                + If(Syn(TEN, {JACK, NINE}), 25)
           ELSE 0)

-----------------------------------------------------------------------------
(* Sorting suits, by pairs <<length, suit>>. *)

didxsort4(v) ==
    LET two == IF v[2][1] > v[1][1] THEN <<v[2], v[1]>> ELSE <<v[1], v[2]>>
        a == two[1]  b == two[2]
        three == IF v[3][1] > a[1] THEN <<v[3], a, b>>
                 ELSE IF v[3][1] > b[1] THEN <<a, v[3], b>> ELSE <<a, b, v[3]>>
        x == three[1]  y == three[2]  z == three[3]
    IN  IF v[4][1] >= x[1] THEN <<v[4], x, y, z>>
        ELSE IF v[4][1] >= y[1] THEN <<x, v[4], y, z>>
        ELSE IF v[4][1] > z[1] THEN <<x, y, v[4], z>> ELSE <<x, y, z, v[4]>>

\* Suits of the same length, higher first.
rank2sids(v, i) ==
    IF v[i][2] < v[i + 1][2] THEN [v EXCEPT ![i] = v[i + 1], ![i + 1] = v[i]] ELSE v
rank3sids(v, i) == rank2sids(rank2sids(rank2sids(v, i), i + 1), i)

\* Deviation: suits of the same length stay as didxsort4() left them.
rank_sorted_ids_AsFound(v) == v

rank_sorted_ids(v) ==
    CASE v[1][1] = v[2][1] /\ v[1][1] = v[3][1] -> rank3sids(v, 1)
      [] v[1][1] = v[2][1] /\ v[1][1] # v[3][1] /\ v[3][1] = v[4][1] ->
             rank2sids(rank2sids(v, 1), 3)
      [] v[1][1] # v[2][1] /\ v[2][1] = v[3][1] /\ v[2][1] = v[4][1] -> rank3sids(v, 2)
      [] v[1][1] # v[2][1] /\ v[2][1] = v[3][1] /\ v[2][1] # v[4][1] -> rank2sids(v, 2)
      [] v[1][1] # v[2][1] /\ v[2][1] # v[3][1] /\ v[3][1] = v[4][1] -> rank2sids(v, 3)
      [] OTHER -> v

Sorted(len) == rank_sorted_ids(didxsort4([i \in 1 .. 4 |-> <<len[i - 1], i - 1>>]))

-----------------------------------------------------------------------------
(* The side: trump suit and declarer. *)

ISMAJOR(s) == s >= HEARTS

Uneven(phs, s) == LET d == hs_length(phs[0], s) - hs_length(phs[1], s)
                  IN  Larger(d, -d)
SidePoints(phs, s) == hs_points(phs[0], s) + hs_points(phs[1], s)

picksuit(x, y, phs) ==
    IF ISMAJOR(x) # ISMAJOR(y) THEN (IF ISMAJOR(x) THEN x ELSE y)
    ELSE IF SidePoints(phs, x) <= SidePoints(phs, y) THEN x ELSE y

\* Among fits of seven cards a 5-2, none if there is none.
choose_7fit(fits, phs) ==
    LET s0 == fits[1][2]  s1 == fits[2][2]  s2 == fits[3][2]
        F(s) == Uneven(phs, s) = 3
    IN  CASE F(s0) /\ F(s1) /\ F(s2) -> picksuit(s0, picksuit(s1, s2, phs), phs)
          [] F(s0) /\ F(s1) /\ ~F(s2) -> picksuit(s0, s1, phs)
          [] F(s0) /\ ~F(s1) /\ F(s2) -> picksuit(s0, s2, phs)
          [] ~F(s0) /\ F(s1) /\ F(s2) -> picksuit(s1, s2, phs)
          [] F(s0) /\ ~F(s1) /\ ~F(s2) -> s0
          [] ~F(s0) /\ F(s1) /\ ~F(s2) -> s1
          [] ~F(s0) /\ ~F(s1) /\ F(s2) -> s2
          [] OTHER -> -1

\* Of two longest fits a major, then the more even, then the weaker.
choose_fit(fits, phs) ==
    LET s0 == fits[1][2]  s1 == fits[2][2]
    IN  IF ISMAJOR(s0) # ISMAJOR(s1) THEN (IF ISMAJOR(s0) THEN s0 ELSE s1)
        ELSE IF Uneven(phs, s0) # Uneven(phs, s1)
             THEN (IF Uneven(phs, s0) < Uneven(phs, s1) THEN s0 ELSE s1)
        ELSE IF SidePoints(phs, s0) <= SidePoints(phs, s1) THEN s0 ELSE s1

BestFit(fits, phs) ==
    IF fits[1][1] > fits[2][1] THEN fits[1][2]
    ELSE IF fits[1][1] = 7 THEN choose_7fit(fits, phs)
    ELSE choose_fit(fits, phs)

\* Deviation: with trumps the same length the first hand declares.
SetDeclarer_First(t_len, phs) == IF t_len[0] >= t_len[1] THEN 0 ELSE 1

SetDeclarer(t_len, phs) ==
    IF t_len[0] # t_len[1] THEN (IF t_len[0] > t_len[1] THEN 0 ELSE 1)
    ELSE IF hs_totalpoints(phs[0]) >= hs_totalpoints(phs[1]) THEN 0 ELSE 1

\* The struct UEsidestat of two hands: t_suit is -1, and t_fitlen 7, when there
\* is neither an eight card fit nor a 5-2.
analyze_side(phs) ==
    LET fits == Sorted([s \in Suits |-> hs_length(phs[0], s) + hs_length(phs[1], s)])
        t == BestFit(fits, phs)
        t_len == [h \in Hands |-> IF t < 0 THEN 0 ELSE hs_length(phs[h], t)]
        decl == SetDeclarer(t_len, phs)
    IN  [phs |-> phs, t_suit |-> t,
         t_fitlen |-> IF t < 0 THEN 7 ELSE t_len[0] + t_len[1], t_len |-> t_len,
         fits |-> fits,
         sorted |-> [h \in Hands |-> Sorted([s \in Suits |-> hs_length(phs[h], s)])],
         decl_h |-> decl, dummy_h |-> 1 - decl,
         pav_body |-> [h \in Hands |-> Pav_body_val(phs[h])]]

\* Length of the k-th longest suit of a hand of the side.
sorted_slen(ss, h, k) == ss.sorted[h][k][1]
Shortest(ss, h) == sorted_slen(ss, h, 4)
Fit(ss) == ss.t_fitlen >= 8

\* Points of a fit: support to dummy and something else to declarer, but with
\* trumps the same length support to both.  df_val + fn_val of struct FitPoints,
\* out of df[h] and fn[h].
Do_Df_Fn_pts(ss, df, fn) ==
    [h \in Hands |->
        IF ~Fit(ss) THEN 0
        ELSE IF h = ss.dummy_h \/ ss.t_len[0] = ss.t_len[1] THEN df[h]
        ELSE fn[h]]

-----------------------------------------------------------------------------
(* Misfits: shortness opposite length. *)

ShortHand(phs, s) == IF hs_length(phs[0], s) >= hs_length(phs[1], s) THEN 1 ELSE 0

\* 0 for none, else the length of the long hand, at most 5.
mf_type(phs, s) ==
    LET sh == ShortHand(phs, s)  long == hs_length(phs[1 - sh], s)
    IN  IF hs_length(phs[sh], s) <= 1 /\ long >= 3 THEN Smaller(long, 5) ELSE 0

Misfit(phs, n) == \E s \in Suits : mf_type(phs, s) >= n
=============================================================================
