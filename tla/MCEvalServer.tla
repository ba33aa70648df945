---------------------------- MODULE MCEvalServer ----------------------------
(***************************************************************************)
(* Eighteen pairs of hands, and the same with the seats exchanged: three   *)
(* fits of eight cards, two 5-2, none, a misfit, a hand with nothing, fits *)
(* of nine, two of nine, of ten, a solid suit, a long one, hands of the    *)
(* same strength and of the same shape, strong sides and weak ones, short  *)
(* honors.                                                                 *)
(***************************************************************************)
EXTENDS EvalServer

\* Clubs, diamonds, hearts and spades, deuce 0 to ace 12.
Hand(c, d, h, s) == [i \in Suits |-> <<c, d, h, s>>[i + 1]]

Dealt == <<
    <<Hand({}, {10, 7, 4, 1}, {10, 9, 6, 0}, {12, 6, 5, 1, 0}),
      Hand({11, 9}, {12, 9, 6, 3}, {11, 7, 5, 1}, {9, 7, 2})>>,
    <<Hand({12, 6, 4, 0}, {9, 6}, {7, 6}, {8, 7, 4, 2, 0}),
      Hand({7, 5}, {11, 10, 5, 1, 0}, {12, 9, 5, 0}, {10, 6})>>,
    <<Hand({6, 5, 4, 0}, {9, 6}, {11, 1, 0}, {11, 10, 8, 2}),
      Hand({10, 8, 7}, {12, 11, 10, 7}, {9, 8, 6, 2}, {12, 4})>>,
    <<Hand({8, 1}, {10, 9, 8, 4, 0}, {10, 8, 7, 6, 2}, {0}),
      Hand({12, 7, 5, 3}, {11, 3}, {5, 0}, {12, 11, 10, 9, 5})>>,
    <<Hand({7, 6, 1}, {5, 1, 0}, {4, 3, 1}, {5, 3, 2, 0}),
      Hand({12, 10}, {12, 11, 10, 9, 7}, {10, 9, 7}, {11, 7, 6})>>,
    <<Hand({1}, {7, 5, 4, 2}, {11, 6, 5, 1}, {9, 7, 4, 2}),
      Hand({12, 2}, {11, 8, 6}, {8, 4, 3, 2}, {12, 10, 3, 0})>>,
    <<Hand({5, 2}, {12, 10, 8, 6, 5, 3, 2, 0}, {}, {6, 5, 2}),
      Hand({11, 8, 7, 6, 3, 0}, {7}, {11, 2}, {10, 8, 4, 0})>>,
    <<Hand({12, 9, 8, 4, 2, 0}, {11, 5, 4}, {12, 10, 3}, {0}),
      Hand({11, 7, 3, 1}, {10, 9, 8, 2}, {11, 7, 1, 0}, {3})>>,
    <<Hand({12, 3, 2, 1}, {12}, {7}, {12, 11, 8, 7, 3, 2, 0}),
      Hand({10, 7, 0}, {10, 9, 8, 4, 2, 0}, {10}, {10, 4, 1})>>,
    <<Hand({9, 1, 0}, {10, 2}, {12, 11, 2, 0}, {11, 8, 5, 1}),
      Hand({11, 7, 3}, {12, 11, 5, 1}, {6, 4}, {10, 9, 3, 0})>>,
    <<Hand({11, 1}, {11, 7, 6, 4}, {11, 9, 6}, {12, 11, 8, 6}),
      Hand({10, 9, 6, 5, 2, 0}, {8, 3, 1, 0}, {4}, {7, 2})>>,
    <<Hand({12, 7, 6, 0}, {4}, {9, 7}, {11, 10, 9, 8, 6, 3}),
      Hand({11, 10, 9, 5, 1}, {8, 7, 6}, {6, 4, 0}, {4, 1})>>,
    <<Hand({11, 7, 6, 4, 2}, {9}, {11, 10, 7, 0}, {12, 6, 1}),
      Hand({9, 8}, {8, 5, 2, 1, 0}, {9, 5, 2}, {9, 8, 5})>>,
    <<Hand({12, 1, 0}, {8, 7}, {6, 3, 0}, {12, 10, 9, 4, 0}),
      Hand({5, 3, 2}, {}, {11, 9, 8, 5, 4, 2}, {7, 6, 5, 3})>>,
    <<Hand({1, 0}, {6}, {12, 11, 10, 7, 6, 1, 0}, {12, 10, 8}),
      Hand({12, 11, 10, 9, 5}, {12, 11, 9, 2, 1, 0}, {8}, {1})>>,
    <<Hand({11}, {}, {6, 3}, {11, 10, 8, 7, 6, 5, 4, 3, 2, 0}),
      Hand({5, 3, 0}, {9, 8, 6, 5, 3, 2, 1}, {9, 8, 4}, {})>>,
    <<Hand({11, 7, 1}, {8, 1, 0}, {10, 2, 1, 0}, {12, 9, 5}),
      Hand({10, 3, 0}, {11, 7, 6}, {8, 7, 4, 3}, {7, 4, 0})>>,
    <<Hand({9, 6, 3}, {9, 7, 4, 0}, {12}, {12, 10, 5, 2, 1}),
      Hand({10, 7, 2, 0}, {12, 11, 10}, {11, 10}, {11, 9, 4, 0})>>>>

MCDeals == [i \in 1 .. 2 * Len(Dealt) |->
    LET d == Dealt[(i + 1) \div 2]
    IN  [h \in Hands |-> IF i % 2 = 1 THEN d[h + 1] ELSE d[2 - h]]]
=============================================================================
