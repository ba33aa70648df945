------------------------------ MODULE MCNodes ------------------------------
(***************************************************************************)
(* Two shape statements out of lists with x's, any, and elements taken     *)
(* away again; a suit of up to eight cards in every order; every contract, *)
(* doubling, vulnerability and number of tricks.                           *)
(***************************************************************************)
EXTENDS Nodes

Elem(neg, any, shape) == [neg |-> neg, any |-> any, shape |-> shape]

MCShapeList == {
    <<Elem(FALSE, FALSE, <<5, 4, 3, 1>>)>>,
    <<Elem(FALSE, TRUE, <<4, 3, 3, 3>>), Elem(FALSE, TRUE, <<4, 4, 3, 2>>),
      Elem(TRUE, FALSE, <<X, 4, X, X>>)>>,
    <<Elem(FALSE, FALSE, <<5, X, X, X>>), Elem(TRUE, TRUE, <<5, 5, X, X>>),
      Elem(FALSE, FALSE, <<X, 5, 0, X>>)>>,
    <<Elem(FALSE, TRUE, <<7, X, X, 0>>)>>}

MCTables == {<<4, 3, 2, 1, 0>>, <<6, 4, 2, 1>>}

MCRanks == {12, 11, 10, 9, 8, 7, 1, 0}
=============================================================================
