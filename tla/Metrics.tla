------------------------------- MODULE Metrics -------------------------------
(***************************************************************************)
(* The metrics of DealerServer that count honors, length and shortness:    *)
(* Bergen, Bissell, Kleinman, Goren, Kaplan, Karpin, Larsson, Pavlicek,    *)
(* Sheinwold, Roth and Zar.  A metric takes the side as analyze_side()     *)
(* leaves it and gives the points of the two hands in notrump and in the   *)
(* best fit, as struct UserEvals_st has them; a side has the sum of its    *)
(* hands.  Hundredths stand for floats, as in HandStats.                   *)
(***************************************************************************)
EXTENDS HandStats

-----------------------------------------------------------------------------
(* Shared by the metrics. *)

Sum2(p) == p[0] + p[1]
Plus(p, q) == [h \in Hands |-> p[h] + q[h]]

UserEvals(nt, bf, misc) == [nt |-> nt, bf |-> bf, misc |-> misc]

\* Hundredths for who wants them: the best fit, then notrump.
Raw(nt, bf) == <<Sum2(bf), bf[0], bf[1], Sum2(nt), nt[0], nt[1]>>

hcp_adj(h, m) == LET A(s) == shortHon_adj(h, s, m) IN Sum4(A)
alt_hcp(h, m) == LET A(s) == calc_alt_hcp(h, s, m) IN Sum4(A)

\* A point for every card over n in a suit, up to max.
LengthOver(h, n, max) ==
    LET P(s) == Smaller(Larger(hs_length(h, s) - n, 0), max) IN Sum4(P)

\* v is <<for a void, for a singleton, for a doubleton>>.
ShortPoints(len, v) == IF len <= 2 THEN v[len + 1] ELSE 0
ShortSuits(h, v) == LET P(s) == ShortPoints(hs_length(h, s), v) IN Sum4(P)
SideShorts(ss, h, v) ==
    LET P(s) == If(s # ss.t_suit, ShortPoints(hs_length(ss.phs[h], s), v)) IN Sum4(P)

-----------------------------------------------------------------------------
(* Kaplan *)

HfKAP(ss, h) ==
    LET P(s) == IF hs_length(ss.phs[1 - h], s) < 4 THEN 0
                ELSE If(ss.phs[h][s] = {QUEEN}, 2) + If(ss.phs[h][s] = {JACK}, 1)
    IN  Sum4(P)

DfitKAP(ss, h) == If(ss.t_len[h] > 2, SideShorts(ss, h, <<3, 2, 1>>))

kaplan_calc(ss) ==
    LET nt == [h \in Hands |-> hs_totalpoints(ss.phs[h])
                  + Pav_round(hcp_adj(ss.phs[h], KAPLAN), ss.pav_body[h])
                  + LengthOver(ss.phs[h], 4, 9) + HfKAP(ss, h)]
        df == [h \in Hands |-> If(Fit(ss), DfitKAP(ss, h))]
    IN  UserEvals(nt, Plus(nt, df), <<>>)

-----------------------------------------------------------------------------
(* Bissell *)

SuitBIS(h, s) ==
    LET honor(r) == If(r \in h[s],
                       Larger(0, 3 - Cardinality((r + 1) .. ACE \ h[s])))
        len == hs_length(h, s)
        hon == honor(ACE) + honor(KING) + honor(QUEEN) + honor(JACK) + honor(TEN)
        lpts == IF len > 4 THEN 3 * (len - 4) ELSE If(len = 4, 1)
    IN  Smaller(300 * len,
                Larger(0, 100 * hon + shortHon_adj(h, s, BISSEL)) + 100 * lpts)

bissell_calc(ss) ==
    LET Flat(h) == square_hand(h) \/ OfLength(h, 4) = 3
                   \/ (OfLength(h, 4) = 2 /\ OfLength(h, 0) = 0)
        Pts(h) == LET P(s) == SuitBIS(h, s) IN Sum4(P) - If(Flat(h), 100)
        nt == [h \in Hands |-> Pav_round(Pts(ss.phs[h]), ss.pav_body[h])]
    IN  UserEvals(nt, nt, <<>>)

-----------------------------------------------------------------------------
(* Karpin, with whole points and with bumwraps. *)

DfitKAR(ss) ==
    [h \in Hands |->
        CASE ss.t_len[h] < 3 -> 0
          [] ss.t_len[h] = 3 -> SideShorts(ss, h, <<2, 1, 0>>)
          [] OTHER           -> SideShorts(ss, h, <<3, 2, 1>>)]

FnKAR(ss) ==
    [h \in Hands |->
        CASE ss.t_len[h] < 5 -> 0
          [] ss.t_len[h] = 5 -> SideShorts(ss, h, <<2, 1, 0>>)
          [] OTHER           -> SideShorts(ss, h, <<3, 2, 1>>)]

karpin_calc(ss) ==
    LET nt == [h \in Hands |-> hs_totalpoints(ss.phs[h])
                  + Round(hcp_adj(ss.phs[h], KARPIN)) + LengthOver(ss.phs[h], 4, 9)]
    IN  UserEvals(nt, Plus(nt, Do_Df_Fn_pts(ss, DfitKAR(ss), FnKAR(ss))), <<>>)

karpb_calc(ss) ==
    LET hon == [h \in Hands |-> alt_hcp(ss.phs[h], KARP_B) + hcp_adj(ss.phs[h], KARP_B)]
        lpts == [h \in Hands |-> LengthOver(ss.phs[h], 4, 9)]
        dffn == Do_Df_Fn_pts(ss, DfitKAR(ss), FnKAR(ss))
        nt == [h \in Hands |-> Pav_round(hon[h], ss.pav_body[h]) + lpts[h]]
        raw == [h \in Hands |-> hon[h] + 100 * lpts[h]]
    IN  UserEvals(nt, Plus(nt, dffn), Raw(raw, [h \in Hands |-> raw[h] + 100 * dffn[h]]))

-----------------------------------------------------------------------------
(* Kleinman's little jack points *)

AdjDKP(h, s) ==
    LET len == hs_length(h, s)  tops == Top(h, s, 4)
    IN  -If(\/ tops = len /\ len > 0
            \/ QUEEN \in h[s] /\ len = 2
            \/ JACK \in h[s] /\ tops = 1 /\ len <= 3, 1)

SynDKP(h, s) ==
    LET tops == Top(h, s, 4)  nine == NINE \in h[s]
    IN  If(KING \in h[s] /\ ACE \in h[s], 1)
        + If(QUEEN \in h[s] /\ Top(h, s, 2) > 0, 1)
        + If(JACK \in h[s] /\ Top(h, s, 2) > 0, 1)
        + If(TEN \in h[s],
             IF tops >= 2 \/ (tops = 1 /\ nine) THEN 2
             ELSE If(tops = 1 \/ (nine /\ hs_length(h, s) > 2), 1))

DfitDKP(ss) ==
    [h \in Hands |->
        CASE ss.t_len[h] < 3 -> 0
          [] ss.t_len[h] = 3 -> ShortPoints(Shortest(ss, h), <<3, 2, 1>>)
          [] OTHER           -> ShortPoints(Shortest(ss, h), <<5, 3, 1>>)]

NoPoints == [h \in Hands |-> 0]

LJP(h) == LET P(s) == AdjDKP(h, s) + SynDKP(h, s)
          IN  alt_hcp(h, DKP) + Sum4(P) - If(square_hand(h), 2)

\* Deviation: a bad hand may have fewer than no points.
NTptsDKP_Unbounded(h) == (LJP(h) + 1) \div 3 + LengthOver(h, 4, 3)

NTptsDKP(h) == Larger(0, (LJP(h) + 1) \div 3 + LengthOver(h, 4, 3))

dkp_calc(ss) ==
    LET nt == [h \in Hands |-> NTptsDKP(ss.phs[h])]
    IN  UserEvals(nt, Plus(nt, Do_Df_Fn_pts(ss, DfitDKP(ss), NoPoints)), <<>>)

-----------------------------------------------------------------------------
(* Larsson, with whole points and with bumwraps. *)

\* Suits with two of the top four honors, one of them an ace or a king.
SynLAR(h) ==
    LET Works(s) == hs_length(h, s) >= 3 /\ Top(h, s, 2) >= 1 /\ Top(h, s, 4) >= 2
    IN  Larger(0, Smaller(Count(Works) - 1, 2))

DfitLAR(ss) ==
    [h \in Hands |->
        IF ss.t_fitlen < 9 \/ ss.t_len[h] <= 2 THEN 0
        ELSE ShortPoints(Shortest(ss, h), IF ss.t_len[h] = 3 THEN <<3, 2, 1>> ELSE <<5, 3, 1>>)]

\* The nines of hand 1 are counted on top of those of hand 0.
BodyLAR(ss, h) ==
    LET nines == hs_counts(ss.phs[0], NINE) + If(h = 1, hs_counts(ss.phs[1], NINE))
        tens == hs_counts(ss.phs[h], TEN)
    IN  If(tens >= 2 \/ (tens = 1 /\ nines >= 2), 1)

SynLengthLAR(h) == SynLAR(h) + LengthOver(h, 5, 3)

lar_calc(ss) ==
    LET nt == [h \in Hands |-> hs_totalpoints(ss.phs[h])
                  + Round(hcp_adj(ss.phs[h], LAR)) + BodyLAR(ss, h)
                  + SynLengthLAR(ss.phs[h])]
    IN  UserEvals(nt, Plus(nt, Do_Df_Fn_pts(ss, DfitLAR(ss), NoPoints)), <<>>)

lar_b_calc(ss) ==
    LET hon == [h \in Hands |-> alt_hcp(ss.phs[h], LAR_B) + hcp_adj(ss.phs[h], LAR_B)]
        rest == [h \in Hands |-> SynLengthLAR(ss.phs[h])]
        dffn == Do_Df_Fn_pts(ss, DfitLAR(ss), NoPoints)
        nt == [h \in Hands |-> Pav_round(hon[h], ss.pav_body[h]) + rest[h]]
        raw == [h \in Hands |-> hon[h] + 100 * rest[h]]
    IN  UserEvals(nt, Plus(nt, dffn), Raw(raw, [h \in Hands |-> raw[h] + 100 * dffn[h]]))

-----------------------------------------------------------------------------
(* Bergen *)

SynBERG(h, s) == If(hs_length(h, s) >= 4 /\ Top(h, s, 5) >= 3, 1)

Adjust3(h) ==
    LET n == hs_counts(h, TEN) + hs_counts(h, ACE)
             - hs_counts(h, QUEEN) - hs_counts(h, JACK)
    IN  CASE n <= -6 -> -2 [] n \in -5 .. -3 -> -1
          [] n >= 6 -> 2 [] n \in 3 .. 5 -> 1 [] OTHER -> 0

Hf_ptsBERG(ss, h) ==
    LET Helps(s) ==
            LET long == hs_length(ss.phs[1 - h], s)  all == hs_length(ss.phs[h], s) + long
            IN  hs_points(ss.phs[h], s) \in 1 .. 3 /\ (all >= 8 \/ (long >= 5 /\ all >= 7))
    IN  Smaller(Count(Helps), 2)

DfitBERG(ss) ==
    [h \in Hands |->
        LET t == ss.t_len[h]
        IN  If(t > 2, SideShorts(ss, h, <<t, IF t = 3 THEN 2 ELSE 3, 1>>))]

Fn_ptsBERG(ss) ==
    [h \in Hands |->
        LET t == ss.t_len[h]
        IN  If(t >= 5, 1 + 2 * (t - 5)) + ShortSuits(ss.phs[h], <<3, 2, 0>>)
            + If(OfLength(ss.phs[h], 2) >= 2, 1)]

bergen_calc(ss) ==
    LET lpts(h) == LengthOver(ss.phs[h], 4, 9)
        Start(h) ==
            LET hand == ss.phs[h]
                Syn(s) == SynBERG(hand, s)
            IN  Larger(0, Round(100 * hs_totalpoints(hand) + hcp_adj(hand, BERGEN))
                          + Sum4(Syn) + lpts(h) + Adjust3(hand) - If(square_hand(hand), 1))
        start == [h \in Hands |-> Start(h)]
        dffn == Do_Df_Fn_pts(ss, DfitBERG(ss), Fn_ptsBERG(ss))
    IN  UserEvals([h \in Hands |-> IF Misfit(ss.phs, 4) THEN Larger(0, start[h] - lpts(h))
                                   ELSE start[h]],
                  [h \in Hands |-> start[h] + Hf_ptsBERG(ss, h) + dffn[h]], <<>>)

-----------------------------------------------------------------------------
(* Sheinwold.  Declarer's and dummy's points are not those of Do_Df_Fn_pts:
   with trumps the same length only dummy has support. *)

\* What short honors lose, and a queen or jack alone in a suit without a fit.
AdjSHEINW(ss, h, s) ==
    LET hand == ss.phs[h]
        Alone(card, n) == card \in hand[s] /\ hand[s] \cap ((ACE - n + 1) .. ACE) \subseteq {card}
    IN  IF hs_length(hand, s) >= 3 /\ hs_length(hand, s) + hs_length(ss.phs[1 - h], s) < 8
        THEN -If(Alone(QUEEN, 4) \/ Alone(JACK, 4), 50)
        ELSE shortHon_adj(hand, s, SHEINW)

DfitSHEINW(ss, h) ==
    CASE ss.t_len[h] <= 2 -> 0
      [] ss.t_len[h] = 3 -> SideShorts(ss, h, <<4, 2, 0>>)
      [] OTHER           -> SideShorts(ss, h, <<5, 3, 1>>)

\* A point for five trumps and two for each over five, of declarer.
TrumpLength(ss, h) == If(ss.t_len[h] >= 5, 2 * ss.t_len[h] - 9)

Fn_ptsSHEINW(ss, h) ==
    LET P(s) ==
            LET len == hs_length(ss.phs[h], s)
            IN  IF s = ss.t_suit \/ len < 5 THEN 0
                ELSE If(Top(ss.phs[h], s, 4) = 4, 1)
                     + If(hs_length(ss.phs[1 - h], s) >= 3, 2 * len - 9)
    IN  TrumpLength(ss, h) + Sum4(P)

Hf_ptsSHEINW(ss) ==
    LET du == ss.phs[ss.dummy_h]  dc == ss.phs[ss.decl_h]
        Minor(hand) == hs_points(hand, ss.t_suit) <= 3
                       /\ hand[ss.t_suit] \cap {QUEEN, JACK} # {}
        Helps(s) == /\ s # ss.t_suit /\ hs_length(dc, s) >= 4
                    /\ hs_length(du, s) >= 2 /\ du[s] \cap {ACE, KING, QUEEN} = {QUEEN}
    IN  If(Minor(du), 1) + If(Minor(dc), 1) + Count(Helps)

sheinw_calc(ss) ==
    LET dpts(h) == ShortSuits(ss.phs[h], <<3, 2, 1>>)
        Start(h) ==
            LET Adj(s) == AdjSHEINW(ss, h, s)
                hon == 100 * hs_totalpoints(ss.phs[h]) + Sum4(Adj)
                aces == hs_counts(ss.phs[h], ACE)
            IN  Larger(0, Round(hon) + If(aces >= 3, 1) - If(aces = 0 /\ hon >= 1100, 1))
        start == [h \in Hands |-> Start(h)]
        \* Fn of declarer, Hf of dummy: they count in notrump too.
        more == [h \in Hands |-> IF ~Fit(ss) THEN 0
                                 ELSE IF h = ss.decl_h THEN Fn_ptsSHEINW(ss, h)
                                 ELSE Hf_ptsSHEINW(ss)]
    IN  UserEvals(Plus(start, more),
                  [h \in Hands |-> start[h] + more[h]
                      + (IF Fit(ss) /\ h = ss.dummy_h THEN DfitSHEINW(ss, h) ELSE dpts(h))],
                  <<>>)

-----------------------------------------------------------------------------
(* Goren *)

DfitGOREN(ss, h) ==
    CASE ss.t_len[h] < 3 -> 0
      [] ss.t_len[h] = 3 -> If(Shortest(ss, h) = 0, 1)
      [] OTHER           -> SideShorts(ss, h, <<2, 1, 0>>)

Hf_ptsGOREN(ss, h) == If(hs_points(ss.phs[h], ss.t_suit) \in 1 .. 3, 1)

\* An aceless hand loses nothing: the notrump points that decide it are still
\* zero when they are looked at.
goren_calc(ss) ==
    LET hon(h) == Round(100 * hs_totalpoints(ss.phs[h]) + hcp_adj(ss.phs[h], GOREN))
                  + If(hs_counts(ss.phs[h], ACE) = 4, 1)
        square(h) == If(square_hand(ss.phs[h]), 1)
        Suit(h) ==
            LET pts == hon(h) + ShortSuits(ss.phs[h], <<3, 2, 1>>)
            IN  IF ~Fit(ss)
                THEN IF Misfit(ss.phs, 4) THEN hon(h) ELSE pts
                ELSE IF h = ss.decl_h THEN pts + TrumpLength(ss, h)
                ELSE pts + DfitGOREN(ss, h) - square(h) + Hf_ptsGOREN(ss, h)
    IN  UserEvals([h \in Hands |-> Larger(0, hon(h) - square(h))],
                  [h \in Hands |-> Larger(0, Suit(h))], <<>>)

-----------------------------------------------------------------------------
(* Pavlicek *)

DfitPAV(ss, h) == If(ss.t_len[h] > 3, ShortSuits(ss.phs[h], <<2, 1, 0>>))

\* With four trumps declarer counts a point less.
LessWithFour(t, n) == IF t = 4 /\ n > 0 THEN n - 1 ELSE n

\* Side suits count from the fourth card.  With four trumps a point comes off
\* the sum at every suit, the trump suit too, and once more in the end.
Fn_ptsPAV(ss, h) ==
    LET t == ss.t_len[h]
        Add(n, s) == LessWithFour(t, n + If(s # ss.t_suit, Larger(0, hs_length(ss.phs[h], s) - 3)))
    IN  2 * Larger(0, t - 5) + If(ss.t_fitlen >= 9, 1)
        + LessWithFour(t, Add(Add(Add(Add(0, CLUBS), DIAMONDS), HEARTS), SPADES))

\* The hand whose five card suit is worth a point in notrump.
NTDummyPAV(ss) == IF hs_totalpoints(ss.phs[0]) <= hs_totalpoints(ss.phs[1]) THEN 0 ELSE 1

pav_calc(ss) ==
    LET Start(h) ==
            Larger(0, Round(100 * hs_totalpoints(ss.phs[h]) + hcp_adj(ss.phs[h], PAV))
                      + (hs_counts(ss.phs[h], ACE) + hs_counts(ss.phs[h], TEN)) \div 4)
        lpts(h) == If(h = NTDummyPAV(ss) /\ \E s \in Suits : hs_length(ss.phs[h], s) >= 5, 1)
        dpts(h) == ShortSuits(ss.phs[h], <<3, 2, 1>>)
        Poor(h) == /\ square_hand(ss.phs[h]) /\ hs_counts(ss.phs[h], ACE) = 0
                   /\ ss.t_len[h] < 4
        \* Points of shortness opposite a suit of four or more.
        Wasted(h) ==
            LET P(s) == If(mf_type(ss.phs, s) > 3 /\ ShortHand(ss.phs, s) = h,
                           ShortPoints(hs_length(ss.phs[h], s), <<3, 2, 1>>))
            IN  Sum4(P)
        Suit(h) == IF ~Fit(ss) THEN Start(h) + dpts(h) - Wasted(h)
                   ELSE IF h = ss.decl_h THEN Start(h) + dpts(h) + Fn_ptsPAV(ss, h)
                   ELSE Start(h) + dpts(h) + DfitPAV(ss, h) - If(Poor(h), 1)
    IN  UserEvals([h \in Hands |-> Start(h) + lpts(h)], [h \in Hands |-> Suit(h)], <<>>)

-----------------------------------------------------------------------------
(* Roth *)

RS_NONE == 0
RS_WKMAJ == 1
RS_GOOD == 2
RS_RELBL == 3
RS_SSS == 4

\* The masks of three top cards are compared with the weight of the third one
\* and never reached.
rothSuitType(h, s) ==
    LET len == hs_length(h, s)
        weak == If(len >= 6 /\ ISMAJOR(s), RS_WKMAJ)
    IN  CASE len = 6 /\ Top(h, s, 5) >= 4 -> RS_SSS
          [] len = 6 /\ Top(h, s, 5) < 4 /\ Top(h, s, 4) >= 3 -> RS_RELBL
          [] len >= 7 /\ (Top(h, s, 4) >= 3 \/ {ACE, KING, TEN} \subseteq h[s]) -> RS_SSS
          [] OTHER -> IF len < 5 \/ Top(h, s, 3) < 2 THEN weak
                      ELSE IF len >= 7 THEN RS_RELBL ELSE RS_GOOD

LptsROTH(h, s) ==
    IF rothSuitType(h, s) < RS_WKMAJ THEN 0
    ELSE Smaller(2, Larger(0, hs_length(h, s) - 5))

DfitROTH(ss) ==
    LET hand == ss.phs[ss.dummy_h]
        t == ss.t_len[ss.dummy_h]
        inc == CASE t = 4 -> 1 [] t = 5 -> 2 [] OTHER -> 0
        side == Suits \ {ss.t_suit}
    IN  IF t < 3 THEN 0
        ELSE ShortSuits(hand, <<3, 2, 1>>)
             + (IF t = 3 THEN 0
                ELSE inc * Cardinality({s \in side : hs_length(hand, s) < 2})
                     + If(\E s \in side : hs_length(hand, s) = 2, 1))

\* rhand[h]: the best of the hand's suits, whichever they are.
Best4(p) == Max({p[s] : s \in Suits})

RothHand(ss, h) ==
    LET hand == ss.phs[h]
        type == [s \in Suits |-> rothSuitType(hand, s)]
        lpts == [s \in Suits |-> LptsROTH(hand, s)]
        lptsNT == [s \in Suits |-> If(type[s] >= RS_GOOD, lpts[s])]
        Adj(s) == Trunc(shortHon_adj(hand, s, ROTH))
        Supported(s) == hs_length(hand, s) = 5 /\ type[s] >= RS_GOOD
                        /\ hs_length(ss.phs[1 - h], s) >= 2
    IN  [type |-> Best4(type), hcp |-> hs_totalpoints(hand), hcp_adj |-> Sum4(Adj),
         Aces |-> If(hs_counts(hand, ACE) = 4, 1), Dpts |-> ShortSuits(hand, <<3, 2, 1>>),
         Lpts |-> Best4(lpts), LptsNT |-> Best4(lptsNT),
         FN_ptsNT |-> If(Best4(lptsNT) = 0 /\ \E s \in Suits : Supported(s), 1)]

FN_ptsROTH(ss) ==
    LET t == ss.t_len[ss.decl_h]
    IN  If(/\ Fit(ss) /\ t >= 5
           /\ rothSuitType(ss.phs[ss.decl_h], ss.t_suit) >= RS_WKMAJ, t - 4)

roth_calc(ss) ==
    LET rhand == [h \in Hands |-> RothHand(ss, h)]
        NT(r) == r.hcp + r.LptsNT + r.Aces
                 + (IF r.type = RS_SSS THEN r.LptsNT ELSE r.FN_ptsNT)
        Decl(r) == CASE r.type = RS_SSS -> r.Dpts + 2 * r.Lpts
                     [] r.type # RS_SSS /\ (r.type = RS_RELBL \/ Fit(ss)) ->
                            r.Dpts + r.Lpts + FN_ptsROTH(ss)
                     [] OTHER -> r.Lpts
        Suit(h) == rhand[h].hcp + rhand[h].hcp_adj + rhand[h].Aces
                   + (IF h = ss.decl_h THEN Decl(rhand[h])
                      ELSE If(Fit(ss), DfitROTH(ss)))
    IN  UserEvals([h \in Hands |-> NT(rhand[h])], [h \in Hands |-> Suit(h)], <<>>)

-----------------------------------------------------------------------------
(* Zar, basic and advanced.  Half the Zar points, rounded, are on the scale of
   the other metrics: the side's and the hands', for the best fit and again
   for notrump. *)

SynZAR(h) ==
    LET Holds(s) == hs_points(h, s) > 0
    IN  If(\/ hs_totalpoints(h) \in 11 .. 14 /\ Count(Holds) <= 2
           \/ hs_totalpoints(h) >= 14 /\ Count(Holds) <= 3, 1)

ZarEvals(ss, nt, bf) ==
    LET half(p) == [h \in Hands |-> Pav_round(50 * p[h], ss.pav_body[h])]
    IN  UserEvals(nt, bf, Raw(half(nt), half(bf)))

zarbas_calc(ss) ==
    LET Zar(h) ==
            LET hand == ss.phs[h]
            IN  Round(100 * hs_totalpoints(hand) + hcp_adj(hand, ZARBAS))
                + hs_totalcontrol(hand) + 2 * sorted_slen(ss, h, 1)
                + sorted_slen(ss, h, 2) - Shortest(ss, h) + SynZAR(hand)
        zar == [h \in Hands |-> Zar(h) + If(Zar(h) = 25 /\ hs_length(ss.phs[h], SPADES) >= 4, 1)]
    IN  ZarEvals(ss, zar, zar)

Fn_ptsZar(ss) ==
    LET fits == {hs_length(ss.phs[0], s) + hs_length(ss.phs[1], s) : s \in Suits \ {ss.t_suit}}
    IN  If(Max(fits) >= 8, 1) + If(Max(fits) > 8, 1)

\* The hand that has honors opposite the other's suit: the shorter, the one
\* with fewer honors, the weaker.
HfHandZar(phs, s) ==
    LET h(v) == IF v[0] > v[1] THEN 1 ELSE 0
        len == [i \in Hands |-> hs_length(phs[i], s)]
        hon == [i \in Hands |-> Top(phs[i], s, 5)]
    IN  IF len[0] # len[1] THEN h(len) ELSE IF hon[0] # hon[1] THEN h(hon)
        ELSE h([i \in Hands |-> hs_points(phs[i], s)])

\* Of every hand the best two suits count; what short honors lost is given back.
Hf_ptsZar(ss) ==
    LET Pts(h, s) ==
            IF (\A i \in Hands : hs_length(ss.phs[i], s) < 4) \/ HfHandZar(ss.phs, s) # h
            THEN 0
            ELSE Smaller(2, Top(ss.phs[h], s, 5)) - Trunc(shortHon_adj(ss.phs[h], s, ZARBAS))
    IN  [h \in Hands |-> Max({Pts(h, p[1]) + Pts(h, p[2]) :
                                 p \in {q \in Suits \X Suits : q[1] # q[2]}})]

\* With eight trumps dummy's ruffs are counted in declarer's shortest suit.
DfitZAR(ss) ==
    LET du == ss.dummy_h  dc == ss.decl_h
        t == ss.t_len
        excess(h) == Larger(0, t[h] - (IF h = dc THEN 5 ELSE 3))
    IN  [h \in Hands |->
           CASE ss.t_fitlen > 8 -> excess(h) * (3 - Shortest(ss, h))
             [] /\ ss.t_fitlen = 8 /\ h = du
                /\ t[du] >= 3 /\ t[du] - Shortest(ss, dc) >= 2 -> t[du] - Shortest(ss, dc)
             [] OTHER -> 0]

\* The points of a second fit go to hand 1.
zaradv_calc(ss) ==
    LET zar == zarbas_calc(ss).nt
        Fn == [h \in Hands |-> If(h = 1, Fn_ptsZar(ss))]
    IN  ZarEvals(ss, zar, Plus(zar, Plus(Fn, Plus(Hf_ptsZar(ss), DfitZAR(ss)))))
=============================================================================
