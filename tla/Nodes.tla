------------------------------- MODULE Nodes -------------------------------
(***************************************************************************)
(* The tree of an expression of the input file and its value: evaltree()   *)
(* goes through the tree and reads what Analysis gathered of the hand.     *)
(***************************************************************************)
EXTENDS Analysis, Scoring

VARIABLES
    tree, value     \* an expression evaluated, and its value

vars == <<analysisVars, tree, value>>

-----------------------------------------------------------------------------
(* evaltree() *)

Bool(b) == IF b THEN 1 ELSE 0

\* Division of C: towards zero.
Quot(a, b) == LET q == AbsVal(a) \div AbsVal(b) IN IF a * b < 0 THEN -q ELSE q

\* pt0 to pt9 (tens, c13, ...) read other counts of the same hand, as hcp reads
\* its points, and are left out.
RECURSIVE evaltree(_)
evaltree(t) ==
    CASE t.type = "number" -> t.int1
      [] t.type = "and" -> Bool(evaltree(t.leaf1) # 0 /\ evaltree(t.leaf2) # 0)
      [] t.type = "or" -> Bool(evaltree(t.leaf1) # 0 \/ evaltree(t.leaf2) # 0)
      [] t.type = "+" -> evaltree(t.leaf1) + evaltree(t.leaf2)
      [] t.type = "-" -> evaltree(t.leaf1) - evaltree(t.leaf2)
      [] t.type = "*" -> evaltree(t.leaf1) * evaltree(t.leaf2)
      [] t.type = "/" -> Quot(evaltree(t.leaf1), evaltree(t.leaf2))
      [] t.type = "%" -> LET a == evaltree(t.leaf1)
                             b == evaltree(t.leaf2) IN a - b * Quot(a, b)
      [] t.type = "==" -> Bool(evaltree(t.leaf1) = evaltree(t.leaf2))
      [] t.type = "!=" -> Bool(evaltree(t.leaf1) # evaltree(t.leaf2))
      [] t.type = "<" -> Bool(evaltree(t.leaf1) < evaltree(t.leaf2))
      [] t.type = "<=" -> Bool(evaltree(t.leaf1) <= evaltree(t.leaf2))
      [] t.type = ">" -> Bool(evaltree(t.leaf1) > evaltree(t.leaf2))
      [] t.type = ">=" -> Bool(evaltree(t.leaf1) >= evaltree(t.leaf2))
      [] t.type = "not" -> Bool(evaltree(t.leaf1) = 0)
      [] t.type = "if" -> IF evaltree(t.leaf1) # 0 THEN evaltree(t.leaf2)
                          ELSE evaltree(t.leaf3)
      [] t.type = "length" -> hs.length
      [] t.type = "hcp" -> hs.points
      [] t.type = "control" -> hs.control
      [] t.type = "hascard" -> Bool(t.int1 \in held)
      [] t.type = "loser" -> countltc(hs.topcards)[2]
      [] t.type = "ltc" -> countltc(hs.topcards)[1]
      [] t.type = "score" -> score(t.int1, t.int2, evaltree(t.leaf1))
      [] t.type = "imps" -> imps(evaltree(t.leaf1))

Number(n) == [type |-> "number", int1 |-> n]
Leaf(type) == [type |-> type]
Binary(type, a, b) == [type |-> type, leaf1 |-> a, leaf2 |-> b]

\* The value of a contract made with so many tricks, and what the difference
\* to the same result in the other vulnerability is worth.
ScoreTree(n) ==
    [type |-> "score", int1 |-> n.vul, int2 |-> make_contract(n.level, n.strain, n.dbl),
     leaf1 |-> Binary("+", Number(6), Binary("-", Number(n.tricks), Number(6)))]

ImpsTree(n) ==
    [type |-> "imps", leaf1 |-> Binary("-", ScoreTree(n), ScoreTree([n EXCEPT !.vul = 1 - n.vul]))]

\* Trees of cards are evaluated when the suit is dealt, those of a score at once.
Evaluate ==
    /\ Dealt
    /\ \/ \E type \in {"length", "hcp", "control", "loser", "ltc"} :
             tree' = Leaf(type)
       \/ \E r \in Ranks :
             tree' = [type |-> "if", leaf1 |-> [type |-> "hascard", int1 |-> r],
                      leaf2 |-> Binary("/", Number(-7), Number(2)),
                      leaf3 |-> Binary("%", Number(-7), Number(2))]
       \/ /\ held = {} /\ shapes = <<>>
          /\ \E n \in [level : Level, strain : Strain, dbl : Dbl, vul : Vul,
                       tricks : Taken] : tree' \in {ScoreTree(n), ImpsTree(n)}
    /\ value' = evaltree(tree')

Init == AnalysisInit /\ tree = Number(0) /\ value = 0

Next ==
    \/ /\ ShapeStatement \/ PointCount \/ Analyze \/ NextCard
       /\ UNCHANGED <<tree, value>>
    \/ Evaluate

Spec == Init /\ [][Next]_vars

-----------------------------------------------------------------------------
(* Properties. *)

\* A score node follows Law 77, for every contract and number of tricks, and an
\* imps node turns a difference into IMPs that change sign with it and never
\* fall as it grows.
ScoreByTheLaws ==
    pc = "done" =>
        /\ tree.type = "score" =>
               LET t == tree.int2 % 40
               IN  value = Law77([vul |-> tree.int1, level |-> t \div 5,
                                  strain |-> t % 5, dbl |-> tree.int2 \div 40,
                                  tricks |-> evaltree(tree.leaf1)])
        /\ tree.type = "imps" =>
               LET d == evaltree(tree.leaf1)
               IN  value = -imps(-d) /\ \A s \in {10, 50, 300} : imps(d + s) >= value
=============================================================================
