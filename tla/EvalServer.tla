------------------------------ MODULE EvalServer ------------------------------
(***************************************************************************)
(* What DealerServer answers: userfunc() looks at the two hands of a side, *)
(* runs the metric or the set of metrics the tag asks for, and leaves the  *)
(* numbers in the 128 slots of the result area, where dealer reads the     *)
(* ones its input file names.  The area outlives queries and deals; its    *)
(* last two slots tell the trump suit and the length of the fit, or what   *)
(* the tag has put there.                                                  *)
(*                                                                         *)
(* The side is North and South's.  How a query gets here, and the reply    *)
(* back, is module UserEval.                                               *)
(***************************************************************************)
EXTENDS AltHCP

CONSTANT Deals      \* a sequence of pairs of hands

ASSUME DealsAssumption ==
    \A d \in DOMAIN Deals : \A h \in Hands :
        /\ \A s \in Suits : Deals[d][h][s] \subseteq 0 .. ACE
        /\ LET L(s) == hs_length(Deals[d][h], s) IN Sum4(L) = 13

NoTag == -1
All_UE == 40
AllAlt == 41
AllRaw == 42
MixKar == 50
MixLar == 51
Set88 == 88
TestTag == 99
Unknown == 70
Sets == {All_UE, AllAlt, AllRaw, MixKar, MixLar, Set88}
Tags == Metrics \cup AltMetrics \cup Sets \cup {TestTag, Unknown}

VARIABLES
    deal,       \* the one dealt
    tag,        \* the last query of this deal, NoTag before there is one
    res,        \* what it wrote, but for a metric's workings: slot i is res[i + 1]
    helpers     \* slots 126 and 127

vars == <<deal, tag, res, helpers>>

phs == Deals[deal]      \* the hands of the side

-----------------------------------------------------------------------------
(* The metrics *)

p_cfunc(m, ss) ==
    CASE m = BERGEN -> bergen_calc(ss)  [] m = BISSEL -> bissell_calc(ss)
      [] m = DKP    -> dkp_calc(ss)     [] m = GOREN  -> goren_calc(ss)
      [] m = KAPLAN -> kaplan_calc(ss)  [] m = KARPIN -> karpin_calc(ss)
      [] m = KARP_B -> karpb_calc(ss)   [] m = KnR    -> knr_calc(ss)
      [] m = LAR    -> lar_calc(ss)     [] m = LAR_B  -> lar_b_calc(ss)
      [] m = PAV    -> pav_calc(ss)     [] m = SHEINW -> sheinw_calc(ss)
      [] m = ZARBAS -> zarbas_calc(ss)  [] m = ZARADV -> zaradv_calc(ss)
      [] m = ROTH   -> roth_calc(ss)
      [] m \in AltMetrics -> alt_HCP_calc(ss, m)

\* A deal's side, and what UEv holds after each metric.
Side == [d \in DOMAIN Deals |-> analyze_side(Deals[d])]
UEv == [d \in DOMAIN Deals |-> [m \in Metrics \cup AltMetrics |-> p_cfunc(m, Side[d])]]

Zars == {ZARBAS, ZARADV}

Clamp(e) == [i \in DOMAIN e |-> Larger(0, e[i])]

\* Side, hand 0, hand 1 in notrump, then in the best fit.
Six(e) == <<Sum2(e.nt), e.nt[0], e.nt[1], Sum2(e.bf), e.bf[0], e.bf[1]>>

Fit2(ss) == <<ss.t_suit, ss.t_fitlen>>
Body2(ss) == <<ss.pav_body[0], ss.pav_body[1]>>

\* Most metrics end in it; no hand has less than nothing.
SaveUserVals(e) == Clamp(Six(e)) \o e.misc

-----------------------------------------------------------------------------
(* The sets, out of what every metric makes of the side: v[m] is UEv's. *)

\* Half the Zar points, for who takes the side's and the first hand's to be
\* those of the two hands.
HalfZar(e, i) == e.misc[i] + e.misc[i + 1]

Side88(e, m) ==
    CASE m = ZARBAS -> <<HalfZar(e, 1), HalfZar(e, 1)>>
      [] m = ZARADV -> <<HalfZar(e, 3), HalfZar(e, 1)>>
      [] OTHER -> <<Sum2(e.bf), Sum2(e.nt)>>

Each == 1 .. 15         \* the metrics, in their order, number i - 1

set88_calc(v) ==
    [i \in Each |-> Side88(v[i - 1], i - 1)[1]] \o [i \in Each |-> Side88(v[i - 1], i - 1)[2]]

Six40(e, m) ==
    IF m \notin Zars THEN Six(e)
    ELSE <<HalfZar(e, 1), e.misc[1], e.misc[2], HalfZar(e, 3), e.misc[3], e.misc[4]>>

\* Six slots a metric: the k-th of metric m's is 6 * m + k.
set40_calc(v) ==
    [i \in 1 .. 90 |-> LET m == (i - 1) \div 6 IN Six40(v[m], m)[((i - 1) % 6) + 1]]

cpy_KnR_vals(e) == <<Sum2(e.nt), e.nt[0], e.nt[1], e.misc[4], e.misc[5], e.misc[6]>>

set41_calc(v) ==
    [i \in 1 .. 48 |-> Six(v[HCPT050 + ((i - 1) \div 6)])[((i - 1) % 6) + 1]] \o cpy_KnR_vals(v[KnR])

WithRaw == <<KARP_B, KnR, LAR_B, ZARBAS, ZARADV>>
save_raw_pts(v) == [i \in 1 .. 10 |-> IF i <= 5 THEN v[WithRaw[i]].misc[1]
                                      ELSE v[WithRaw[i - 5]].misc[4]]

set42_calc(v) ==
    [i \in Each |-> Sum2(v[i - 1].bf)] \o [i \in Each |-> Sum2(v[i - 1].nt)]
    \o save_raw_pts(v)

FirstSix(v, m) == SubSeq(SaveUserVals(v[m]), 1, 6)

mixed_Karpin_calc(v, ss) ==
    FirstSix(v, KARPIN) \o FirstSix(v, KARP_B) \o Fit2(ss) \o Fit2(ss)

\* The suit and the length of Larsson's fit are never filled in.
mixed_Larsson_calc(v, ss) ==
    FirstSix(v, LAR) \o FirstSix(v, LAR_B) \o <<0, 0>> \o Fit2(ss)

\* Codes, to see that an input file picks the slot it means.
make_test_evals ==
    [i \in 1 .. 32 |-> -i]
    \o [i \in 1 .. 32 |-> 100 * (1 + (i - 1) \div 8) + ((i - 1) % 8)]
    \o [i \in 1 .. 32 |-> 1000 * (1 + (i - 1) \div 16) + ((i - 1) % 16)]
    \o [i \in 1 .. 32 |-> 1000 * (1 + (i - 1) \div 16)
                          + 100 * (1 + ((i - 1) % 16) \div 4) + ((i - 1) % 4)]

unk_reply(ss) == [i \in 1 .. 4 |-> -hs_points(ss.phs[0], i - 1)]

-----------------------------------------------------------------------------
(* The server *)

Reply(t, v, ss) ==
    CASE t \in Metrics \cup AltMetrics -> SaveUserVals(v[t])
      [] t = All_UE -> set40_calc(v)            [] t = AllAlt -> set41_calc(v)
      [] t = AllRaw -> set42_calc(v)            [] t = Set88 -> set88_calc(v)
      [] t = MixKar -> mixed_Karpin_calc(v, ss) [] t = MixLar -> mixed_Larsson_calc(v, ss)
      [] t = TestTag -> make_test_evals         [] t = Unknown -> unk_reply(ss)

Answer == [d \in DOMAIN Deals |-> [t \in Tags |-> Reply(t, UEv[d], Side[d])]]

\* Deviation: the sets leave the last slots as they are.
Helpers_Single(t, ss, old) ==
    CASE t \in AltMetrics \cup {AllAlt} -> Body2(ss)
      [] t = TestTag -> SubSeq(make_test_evals, 127, 128)
      [] t \in {KnR, Unknown} \cup Sets -> old
      [] OTHER -> Fit2(ss)

\* Four C's does not end in SaveUserVals, and says nothing of the fit.
Helpers(t, ss, old) ==
    CASE t \in AltMetrics \cup {AllAlt} -> Body2(ss)
      [] t = TestTag -> SubSeq(make_test_evals, 127, 128)
      [] t \in {KnR, Unknown} -> old
      [] OTHER -> Fit2(ss)

Init == deal \in DOMAIN Deals /\ tag = NoTag /\ res = <<>> /\ helpers = <<0, 0>>

NewDeal == deal' \in DOMAIN Deals /\ tag' = NoTag /\ res' = <<>> /\ UNCHANGED helpers

userfunc(t) ==
    /\ tag' = t
    /\ res' = Answer[deal][t]
    /\ helpers' = Helpers(t, Side[deal], helpers)
    /\ UNCHANGED deal

Query == \E t \in Tags : userfunc(t)

Next == NewDeal \/ Query

Spec == Init /\ [][Next]_vars
-----------------------------------------------------------------------------
(* Properties *)

\* The trump suit is the side's longest suit, of eight cards or a 5-2: a major
\* before a minor, then, of eight cards or more, the more even one, then the one
\* with fewer points.  There is none without such a suit, whatever the order in
\* which the code sorted and compared the four.
BestFitChosen ==
    LET len(s) == hs_length(phs[0], s) + hs_length(phs[1], s)
        longest == Max({len(s) : s \in Suits})
        long == {s \in Suits : len(s) = longest /\ (longest >= 8 \/ Uneven(phs, s) = 3)}
        right == IF \E s \in long : ISMAJOR(s) THEN {s \in long : ISMAJOR(s)} ELSE long
        even == {s \in right : \A r \in right : Uneven(phs, s) <= Uneven(phs, r)}
        t == Side[deal].t_suit
    IN  IF long = {} THEN t = -1 /\ Side[deal].t_fitlen = 7
        ELSE /\ t \in even
             /\ \A s \in even : SidePoints(phs, t) <= SidePoints(phs, s)
             /\ Side[deal].t_fitlen = longest

\* When the hands trade seats so do their points, as long as one of them is
\* stronger; not so for Larsson, whose second hand has the first one's nines
\* too, nor for Zar, which gives the second the points of another suit.
SeatsExchangeable ==
    (/\ tag \in (Metrics \cup AltMetrics) \ {LAR, ZARADV}
     /\ hs_totalpoints(phs[0]) # hs_totalpoints(phs[1])) =>
        \A d \in DOMAIN Deals :
            (\A h \in Hands : Deals[d][h] = phs[1 - h]) =>
                SubSeq(Answer[d][tag], 1, 6)
                    = <<res[1], res[3], res[2], res[4], res[6], res[5]>>

\* What the set asked for last has in common with single metrics' answers.
SetSays(own) ==
    LET at(i) == SubSeq(res, i + 1, i + 6)
        first(m) == SubSeq(own[m], 1, 6)
        known(m, e) == IF m = PAV THEN Clamp(e) ELSE e
    IN  CASE tag = All_UE -> \A m \in Metrics \ Zars : known(m, at(6 * m)) = first(m)
          [] tag = AllAlt ->
               /\ \A m \in AltMetrics : at(6 * (m - HCPT050)) = first(m)
               /\ at(48) = SubSeq(own[KnR], 1, 3) \o SubSeq(own[KnR], 10, 12)
          [] tag \in {AllRaw, Set88} ->
               /\ \A m \in IF tag = Set88 THEN Metrics \ Zars ELSE Metrics :
                      known(m, <<res[m + 1], res[m + 16]>>) = <<own[m][4], own[m][1]>>
               /\ tag = AllRaw => \A i \in 1 .. 5 :
                      res[30 + i] = own[WithRaw[i]][7] /\ res[35 + i] = own[WithRaw[i]][10]
          [] tag = MixKar -> at(0) = first(KARPIN) /\ at(6) = first(KARP_B)
          [] tag = MixLar -> at(0) = first(LAR) /\ at(6) = first(LAR_B)
          [] OTHER -> TRUE

\* A set tells of a metric what the metric's own tag would, in the slots it
\* promises: so no metric gives a hand less than nothing, since the sets do not
\* see to it; but for Pavlicek's, whose dummy with no points may lose one.
\* Zar's halves are left out in sets 40 and 88, which add up others.
SetsAgree == SetSays(Answer[deal])

\* The server's four C's are dealer's, for the same hand, but for the first
\* doubleton, which the server counts when there is a shorter suit beside it.
KnRAsCCCC ==
    tag = KnR => \A h \in Hands :
        res[11 + h] = eval_cccc(phs[h]) + If(Doubletons(phs[h]) /\ Shorter(phs[h]), 100)

\* Whoever asked for honors, length and shortness finds the suit and the length
\* of this deal's fit in the last two slots, though other tags keep other things
\* there and the area outlives the deal; four C's does not see to it.
FitSlotsCurrent ==
    tag \in (Metrics \ {KnR}) \cup {All_UE, AllRaw, MixKar, MixLar, Set88} =>
        /\ helpers[1] = Side[deal].t_suit
        /\ helpers[2] = Side[deal].t_fitlen
=============================================================================
