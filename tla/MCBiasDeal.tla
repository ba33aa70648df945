----------------------------- MODULE MCBiasDeal -----------------------------
(***************************************************************************)
(* BiasDeal with three hands of two cards, in three suits of two cards.    *)
(***************************************************************************)
EXTENDS BiasDeal

Row(a, b, c) == [s \in 0 .. 2 |-> IF s = 0 THEN a ELSE IF s = 1 THEN b ELSE c]
Matrix(p, q, r) == Row(p, q, r)    \* of rows
Free == Row(-1, -1, -1)

\* Two hands that compete for a suit; a void in each, which not every order of
\* filling meets; a hand that can never be filled; a hand that is known whole,
\* alone, with another, and the last.
MCTwo     == Matrix(Row(1, 0, -1), Free, Row(-1, 1, -1))
MCVoids   == Matrix(Row(0, -1, -1), Row(-1, 0, -1), Row(-1, -1, 0))
MCNever   == Matrix(Free, Row(1, -1, -1), Row(-1, 0, 0))
MCWhole   == Matrix(Row(1, 1, -1), Free, Free)
MCWhole2  == Matrix(Row(1, 1, -1), Row(-1, 1, -1), Free)
MCLast    == Matrix(Row(1, -1, -1), Free, Row(0, 0, 2))
MCNamed   == {MCTwo, MCVoids, MCNever, MCWhole, MCWhole2, MCLast}

\* And whatever else asks for one or two lengths.
MCPlace   == (0 .. 2) \X (0 .. 2)
MCPairs   ==
    {[g \in 0 .. 2 |-> [s \in 0 .. 2 |->
        IF <<g, s>> = a THEN m ELSE IF <<g, s>> = b THEN n ELSE -1]] :
            a \in MCPlace, b \in MCPlace, m \in 0 .. 2, n \in 0 .. 2}
MCBiases  ==
    MCNamed \cup {bias \in MCPairs : \A k \in 0 .. 2 : BiasLen(bias, k) <= 2
                                                 /\ BiasTot(bias, k) <= 2}
=============================================================================
