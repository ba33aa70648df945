----------------------------- MODULE MCDealCards ----------------------------
(***************************************************************************)
(* DealCards with hands of two cards, for every way of dealing, and the    *)
(* records the deals are written to.                                       *)
(***************************************************************************)
EXTENDS Library

CONSTANT none

\* North is predealt two cards, East and South one each: free and taken slots
\* alternate.
MCStacked == [s \in 0 .. 7 |-> CASE s = 0 -> 2 [] s = 1 -> 7 [] s = 3 -> 0
                                 [] s = 5 -> 5 [] OTHER -> none]
MCModes   == {"def", "predeal", "swap"}
MCDraws   == {0, 3}

\* No solution, and one in which all entries that may differ do.
MCTrickTables ==
    {[p \in Seat |-> [s \in Strain |-> 0]],
     [p \in Seat |-> [s \in Strain |-> IF s > p THEN 2 ELSE s % 2]]}
=============================================================================
