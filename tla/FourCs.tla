-------------------------------- MODULE FourCs --------------------------------
(***************************************************************************)
(* Kaplan and Rubens' "four C's", twice: eval_cccc() of dealer, for the    *)
(* cccc() and quality() of an input file, and KnR_pts_all() of             *)
(* DealerServer, a copy of it, on which knr_calc() builds the points of a  *)
(* fit and of a misfit.  All in hundredths.                                *)
(***************************************************************************)
EXTENDS Metrics

Honors(h, s, set) == Cardinality(h[s] \cap set)
AKQ == {ACE, KING, QUEEN}
AKQJ == {ACE, KING, QUEEN, JACK}

\* A jack and a ten count for the higher honors they stand beside.
HonorPoints(h, s) ==
    LET len == hs_length(h, s)
        beside == h[s] \cap {ACE, KING} # {}
        akq == Honors(h, s, AKQ)  akqj == Honors(h, s, AKQJ)
        queen == CASE len = 1 -> 0
                   [] len = 2 -> IF beside THEN 50 ELSE 25
                   [] OTHER   -> IF beside THEN 100 ELSE 75
    IN  300 * If(ACE \in h[s], 1) + If(KING \in h[s], IF len = 1 THEN 50 ELSE 200)
        + If(QUEEN \in h[s], queen)
        + If(JACK \in h[s], CASE akq = 2 -> 50 [] akq = 1 -> 25 [] OTHER -> 0)
        + If(TEN \in h[s] /\ (akqj = 2 \/ (akqj = 1 /\ NINE \in h[s])), 25)

\* The points of a suit by its length; a long suit has its queen and jack.
suit_quality(h, s) ==
    LET len == hs_length(h, s)
        higher == Honors(h, s, AKQJ)
        noQ == QUEEN \notin h[s]  noJ == JACK \notin h[s]
        hons == 400 * If(ACE \in h[s], 1) + 300 * If(KING \in h[s], 1)
                + 200 * If(~noQ, 1) + 100 * If(~noJ, 1) + 50 * If(TEN \in h[s], 1)
        long == CASE len = 7 -> If(noQ \/ noJ, 100)
                  [] len = 8 -> IF noQ THEN 200 ELSE If(noJ, 100)
                  [] len >= 9 -> If(noQ, 200) + If(noJ, 100)
                  [] OTHER -> If(TEN \in h[s] /\ (higher > 1 \/ ~noJ), 50)
                              + If(/\ NINE \in h[s]
                                   /\ higher = 2 \/ h[s] \cap {EIGHT, TEN} # {}, 50)
    IN  ((hons + long) * len) \div 10

HandPoints(h) == LET P(s) == HonorPoints(h, s) + suit_quality(h, s) IN Sum4(P)
Shape(h) == ShortSuits(h, <<300, 200, 100>>)
Doubletons(h) == OfLength(h, 2) > 0
Shorter(h) == OfLength(h, 0) + OfLength(h, 1) > 0

eval_cccc(h) ==
    Larger(0, HandPoints(h) + Shape(h) - If(Doubletons(h), 100) - If(square_hand(h), 50))

-----------------------------------------------------------------------------
(* DealerServer *)

\* The first doubleton counts beside a shorter suit.
ShortPts(h) == Shape(h) - If(Doubletons(h) /\ ~Shorter(h), 100)

\* Deviation: the copy keeps the rule of the original.
KnR_pts_all_Strict(h) ==
    Larger(0, HandPoints(h) + Shape(h) - If(Doubletons(h), 100) - If(square_hand(h), 50))

KnR_pts_all(h) == Larger(0, HandPoints(h) + ShortPts(h) - If(square_hand(h), 50))

KnR_Round(body, pts) ==
    pts \div 100 + If(pts % 100 >= 60 \/ (pts % 100 >= 45 /\ body >= 12), 1)

\* What a fit adds to the points of shortness: to dummy's, then to declarer's.
KnR_Trump_fit(ss, h) ==
    LET pts == ShortPts(ss.phs[h])
        quarters == CASE ss.t_fitlen = 8 -> <<2, 1>>
                      [] ss.t_fitlen = 9 -> <<4, 2>>
                      [] OTHER -> <<4, 4>>
    IN  (pts * quarters[IF h = ss.dummy_h THEN 1 ELSE 2]) \div 4

\* Without a fit, shortness opposite a five card suit takes off all of the
\* side's, a 5-2 or not.
knr_calc(ss) ==
    LET tot == [h \in Hands |-> KnR_pts_all(ss.phs[h])]
        fit(h) == CASE Fit(ss) -> KnR_Trump_fit(ss, h)
                    [] ~Fit(ss) /\ Misfit(ss.phs, 5) -> -ShortPts(ss.phs[h])
                    [] OTHER -> 0
        final == [h \in Hands |-> Larger(0, tot[h] + fit(h))]
        Rounded(p) == [h \in Hands |-> KnR_Round(ss.pav_body[h], p[h])]
    IN  UserEvals(Rounded(tot), Rounded(final), Raw(tot, final))
=============================================================================
