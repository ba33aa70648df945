-------------------------------- MODULE AltHCP --------------------------------
(***************************************************************************)
(* Eight other scales of high card points, tags 20 to 27 of DealerServer:  *)
(* a suit counts by its three highest cards, a short one from a table.  In *)
(* hundredths, as everywhere.                                              *)
(***************************************************************************)
EXTENDS FourCs

HCPT050 == 20
HCPA425 == 21
HCPAT475 == 22
BUMWRAP == 23
WOOLSEY == 24
AND5THS == 25
BWjgm == 26
OPCjgm == 27
AltMetrics == HCPT050 .. OPCjgm

\* A singleton A K Q J T; a doubleton in the order of dbl_HH_adj; the honors of
\* a longer suit.
alt_stiff_H_pts(m) ==
    CASE m = HCPT050  -> <<400, 200, 100, 0, 0>>
      [] m = HCPA425  -> <<425, 200, 100, 0, 0>>
      [] m = HCPAT475 -> <<450, 200, 100, 0, 0>>
      [] m = BUMWRAP  -> <<450, 200, 50, 0, 0>>
      [] m = WOOLSEY  -> <<450, 200, 75, 0, 0>>
      [] m = AND5THS  -> <<400, 180, 80, 0, 0>>
      [] m = BWjgm    -> <<425, 200, 75, 0, 0>>
      [] m = OPCjgm   -> <<425, 200, 50, 0, 0>>

alt_dbl_HH_pts(m) ==
    CASE m = HCPT050 ->
           <<700, 600, 500, 450, 400, 400, 325, 300, 300, 200, 150, 100, 0, 0, 0>>
      [] m = HCPA425 ->
           <<725, 625, 525, 425, 425, 400, 325, 300, 300, 200, 100, 100, 0, 0, 0>>
      [] m = HCPAT475 ->
           <<725, 625, 525, 475, 425, 400, 325, 300, 300, 200, 150, 100, 0, 0, 0>>
      [] m = BUMWRAP ->
           <<750, 600, 525, 475, 450, 350, 300, 300, 300, 125, 100, 75, 0, 0, 0>>
      [] m = WOOLSEY ->
           <<750, 625, 525, 450, 450, 375, 300, 300, 300, 150, 100, 75, 0, 0, 0>>
      [] m = AND5THS ->
           <<680, 580, 500, 440, 400, 360, 320, 280, 280, 180, 120, 80, 0, 0, 0>>
      [] m = BWjgm ->
           <<725, 600, 500, 450, 425, 375, 325, 300, 300, 150, 100, 75, 0, 0, 0>>
      [] m = OPCjgm ->
           <<625, 525, 475, 425, 425, 450, 325, 300, 300, 200, 150, 100, 50, 0, 0>>

alt_Hxx_pts(m) ==
    CASE m = HCPT050  -> <<400, 300, 200, 100, 50>>
      [] m = HCPA425  -> <<425, 300, 200, 100, 0>>
      [] m = HCPAT475 -> <<425, 300, 200, 100, 50>>
      [] m = BUMWRAP  -> <<450, 300, 150, 75, 25>>
      [] m = WOOLSEY  -> <<450, 300, 175, 75, 0>>
      [] m = AND5THS  -> <<400, 280, 180, 100, 40>>
      [] m = BWjgm    -> <<425, 300, 175, 75, 25>>
      [] m = OPCjgm   -> <<425, 300, 150, 50, 0>>

\* The honors among the three highest cards of a suit.
TopThree(cards) == {r \in cards : r >= TEN /\ Cardinality({q \in cards : q > r}) < 3}

\* What honors add to each other, by the honors among the three highest cards.
OPCjgmSyn(cards) ==
    LET top == TopThree(cards)
        ten == If(TEN \in cards, 100 + If(NINE \in cards, 50))
        nine == If(NINE \in cards, 50)
    IN  CASE top = AKQ -> 50 + (IF JACK \in cards THEN 50 + If(TEN \in cards, 100)
                                ELSE If(TEN \in cards, 75))
          [] top = {ACE, KING, JACK} -> 50 + ten
          [] top \in {{ACE, QUEEN, JACK}, {KING, QUEEN, JACK}} -> 100 + ten
          [] top \in {{ACE, QUEEN, TEN}, {KING, QUEEN, TEN}} -> 125
          [] top \in {{ACE, JACK, TEN}, {KING, JACK, TEN}} -> 150 + nine
          [] top = {QUEEN, JACK, TEN} -> 200 + nine
          [] top = {JACK, TEN} -> 150
          [] top = {QUEEN, JACK} -> 100
          [] top = {QUEEN, TEN} -> 75
          [] top \in {{ACE, QUEEN}, {ACE, JACK}, {KING, QUEEN}, {KING, JACK}} -> 50
          [] top \in {{ACE, KING, TEN}, {KING, TEN}} -> 25
          [] OTHER -> 0

\* Below the three highest a jack and a ten count beside AKQ, a ten beside AKJ.
Long_Hxx_pts(m, cards) ==
    LET v == alt_Hxx_pts(m)
        top == TopThree(cards)
        below == CASE top = AKQ -> {JACK, TEN} \cap cards
                   [] top = {ACE, KING, JACK} -> {TEN} \cap cards
                   [] OTHER -> {}
        counted == IF m = OPCjgm THEN top ELSE top \cup below
        Pts(r) == If(r \in counted, v[Place(r)])
    IN  Pts(ACE) + Pts(KING) + Pts(QUEEN) + Pts(JACK) + Pts(TEN)
        + (IF m = OPCjgm THEN OPCjgmSyn(cards) ELSE 0)

SuitAlt(m, h, s) ==
    CASE hs_length(h, s) = 0 -> 0
      [] hs_length(h, s) \in 1 .. 2 -> lookup(h, s, alt_stiff_H_pts(m), alt_dbl_HH_pts(m))
      [] OTHER -> Long_Hxx_pts(m, h[s])

\* Rounded for "notrump", hundredths for "best fit", and for whoever wants to
\* check the rounding the body and the suits.
alt_HCP_calc(ss, m) ==
    LET Suit(h, s) == SuitAlt(m, ss.phs[h], s)
        raw == [h \in Hands |-> LET P(s) == Suit(h, s) IN Sum4(P)]
        body == ss.pav_body
    IN  UserEvals([h \in Hands |-> Pav_round(raw[h], body[h])], raw,
                  <<body[0], body[1]>> \o [i \in 1 .. 8 |-> Suit((i - 1) \div 4, (i - 1) % 4)])
=============================================================================
