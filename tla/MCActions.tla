----------------------------- MODULE MCActions -----------------------------
(***************************************************************************)
(* Every run of up to five deals of four kinds, stopped anywhere, with one *)
(* action of each type: five deals take two groups of print, and values    *)
(* fall below, on, between and above the bounds of every table.  Board     *)
(* numbers cross from 16 to 17.                                            *)
(***************************************************************************)
EXTENDS Actions

MCDeal == 1 .. 4
MCExpr == {"x", "y"}
MCVal  == [x |-> <<0, 2, 3, 7>>, y |-> <<6, 2, -1, 4>>]

\* The deals make 13, 12, 10 and 6 tricks for north-south, fewer for
\* east-west, one fewer still in diamonds.
MCTrix == [d \in MCDeal |-> [c \in Seat |-> [s \in Strain |->
             <<13, 12, 10, 6>>[d] - (IF c \in {1, 3} THEN 5 ELSE 0)
                                  - (IF s = SUIT_DIAMOND THEN 1 ELSE 0)
                                  + (IF c = 3 THEN 1 ELSE 0)]]]

Mask(kind, seats) == [kind |-> kind, seats |-> seats, parvul |-> 1]
Par(v) == [kind |-> "par", seats |-> {}, parvul |-> 2^v]
Contract(side, l, s, x, v) ==
    [type |-> "evalcontract", side |-> side, vul |-> v,
     coded |-> make_contract(l, s, x)]

MCActionList == <<
    [type |-> "print", seats |-> {0, 3}],
    [type |-> "printcompact", expr |-> "none"],
    [type |-> "printoneline", expr |-> "y"],
    [type |-> "printes", exprs |-> <<"x", "y">>],
    [type |-> "printall"], [type |-> "printside", side |-> 1],
    [type |-> "printpbn"], [type |-> "export", seats |-> SideSeats(0)],
    [type |-> "csvrpt", terms |-> <<Mask("hands", {1, 2}), Mask("trix", {3}),
        Par(2), Par(4), [kind |-> "expr", expr |-> "x", seats |-> {},
                         parvul |-> 1]>>],
    [type |-> "average", expr |-> "x"],
    [type |-> "frequency", expr |-> "x", low |-> 1, high |-> 3],
    [type |-> "frequency2d", expr |-> "x", low |-> 1, high |-> 3,
     expr2 |-> "y", low2 |-> 2, high2 |-> 3],
    [type |-> "bktfreq", expr |-> "y", bkt |-> [Lo |-> 0, Hi |-> 5, Sz |-> 2]],
    [type |-> "bktfreq2d", expr |-> "x", bktd |-> [Lo |-> 2, Hi |-> 5, Sz |-> 3],
     expr2 |-> "y", bkta |-> [Lo |-> 0, Hi |-> 2, Sz |-> 2]],
    Contract(0, 2, SUIT_HEART, 0, 1), Contract(0, 4, SUIT_SPADE, 1, 0),
    Contract(1, 1, SUIT_NT, 0, 0), Contract(0, 3, SUIT_DIAMOND, 2, 1)>>

MCUnset == -1

MCGarbage == {0, 32767}
=============================================================================
