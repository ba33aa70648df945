------------------------------ MODULE Actions ------------------------------
(***************************************************************************)
(* The actions of an input file: action() runs the list for every deal     *)
(* that meets the condition, cleanup_action() walks it once more at the    *)
(* end of the run (dealaction_subs.c, deal_bktfreq_subs.c).                *)
(*                                                                         *)
(* A deal is a model value; Val and Trix say what expressions are worth    *)
(* and what tricks are made on it.  Layout and titles are left out; what   *)
(* a line shows, and under which board number, is not.                     *)
(***************************************************************************)
EXTENDS Scoring, Sequences, SequencesExt

CONSTANTS
    Deal,           \* kinds of deal
    Expr,           \* expressions
    Val,            \* expression -> deal -> its value
    Trix,           \* deal -> compass -> strain -> tricks
    ActionList,     \* the actions, as the parser built them
    maxproduce,
    boardoffset,    \* startboard - 1
    maxdealer,      \* who deals, or -1
    maxvuln,        \* who is vulnerable, or -1
    par_vuln,       \* -P
    quiet,
    Garbage         \* what an uninitialised int may hold

Seat == 0 .. 3                      \* North, East, South, West
SIDE_NS == 0

ASSUME ActionsAssumption ==
    /\ Val \in [Expr -> [Deal -> Int]]
    /\ Trix \in [Deal -> [Seat -> [Strain -> Taken]]]
    /\ maxproduce \in Nat /\ boardoffset \in Nat \cup {-1}
    /\ maxdealer \in Seat \cup {-1} /\ maxvuln \in Seat \cup {-1}
    /\ par_vuln \in Seat /\ quiet \in BOOLEAN /\ Garbage \subseteq Int

\* A term of csvrpt or printrpt.
TermOK(t) ==
    /\ t.kind \in {"expr", "hands", "trix", "par"}
    /\ t.kind = "expr" => t.expr \in Expr
    /\ t.seats \subseteq Seat
    /\ t.parvul \in {1, 2, 4, 8, 16}

BktOK(b) == {b.Lo, b.Hi, b.Sz} \subseteq Int /\ b.Lo <= b.Hi /\ b.Sz > 0

\* The parser does not look at the bounds of a table: that they are in order,
\* and that buckets have a size, is up to who writes the input file.
ActionOK(a) ==
    CASE a.type \in {"print", "export"} -> a.seats \subseteq Seat
      [] a.type \in {"printcompact", "printoneline", "printall", "printpbn"} -> TRUE
      [] a.type = "printes" -> \A n \in DOMAIN a.exprs : a.exprs[n] \in Expr
      [] a.type = "printside" -> a.side \in {0, 1}
      [] a.type \in {"csvrpt", "printrpt"} ->
            \A n \in DOMAIN a.terms : TermOK(a.terms[n])
      [] a.type = "average" -> a.expr \in Expr
      [] a.type = "frequency" ->
            a.expr \in Expr /\ {a.low, a.high} \subseteq Int /\ a.low <= a.high
      [] a.type = "frequency2d" ->
            /\ {a.expr, a.expr2} \subseteq Expr
            /\ {a.low, a.high, a.low2, a.high2} \subseteq Int
            /\ a.low <= a.high /\ a.low2 <= a.high2
      [] a.type = "bktfreq" -> a.expr \in Expr /\ BktOK(a.bkt)
      [] a.type = "bktfreq2d" ->
            {a.expr, a.expr2} \subseteq Expr /\ BktOK(a.bktd) /\ BktOK(a.bkta)
      [] a.type = "evalcontract" ->
            /\ a.side \in {0, 1} /\ a.vul \in Vul
            /\ \E l \in Level, s \in Strain, x \in Dbl :
                   a.coded = make_contract(l, s, x)
      [] OTHER -> FALSE

ASSUME ListAssumption ==
    /\ ActionList \in Seq(Range(ActionList))
    /\ \A k \in DOMAIN ActionList : ActionOK(ActionList[k])

\* "startboard 0", which the scanner lets through, makes a board 0; printpbn()
\* looks its dealer and vulnerability up at place -1 unless the file sets both.
ASSUME BoardAssumption ==
    boardoffset = -1 /\ ~quiet /\ ~ {maxdealer, maxvuln} \subseteq Seat =>
        \A k \in DOMAIN ActionList : ActionList[k].type # "printpbn"

VARIABLES
    pc,             \* "deal", "act" or "cleanup", "done"
    nprod,
    curdeal,
    item,           \* which action of the list
    acu,            \* the counters of each action
    deallist,       \* deals saved by print
    out,            \* what was printed during the run
    report,         \* what each action showed at the end
    hist            \* history: the deals produced

vars == <<pc, nprod, curdeal, item, acu, deallist, out, report, hist>>

-----------------------------------------------------------------------------
(* The parser's share. *)

\* bktfreq: data buckets, one for less and one for more.
Num(b) == 3 + (b.Hi - b.Lo) \div b.Sz

\* evalcontract: the lexer's number taken apart.
dbl(a)    == a.coded \div 40
strain(a) == a.coded % 5
level(a)  == (a.coded % 40) \div 5

SideSeats(side) == {side, side + 2}

Zeros(n) == [i \in 0 .. n - 1 |-> 0]

\* setup_action() and the memory calloc() clears.
Empty(a) ==
    CASE a.type = "average"      -> [count |-> 0, sum |-> 0, sqsum |-> 0]
      [] a.type = "frequency"    -> [uflow |-> 0, oflow |-> 0,
                                     freqs |-> Zeros(a.high - a.low + 1)]
      [] a.type = "frequency2d"  -> Zeros((a.high - a.low + 3)
                                          * (a.high2 - a.low2 + 3))
      [] a.type = "bktfreq"      -> Zeros(Num(a.bkt))
      [] a.type = "bktfreq2d"    -> Zeros(Num(a.bktd) * Num(a.bkta))
      [] a.type = "evalcontract" -> Zeros(14)
      [] OTHER                   -> << >>

Init ==
    /\ pc = "deal" /\ nprod = 0 /\ item = 0
    /\ curdeal \in Deal
    /\ acu = [k \in DOMAIN ActionList |-> Empty(ActionList[k])]
    /\ deallist = << >> /\ out = << >> /\ hist = << >>
    /\ report = [k \in DOMAIN ActionList |-> << >>]

-----------------------------------------------------------------------------
(* Producing deals. *)

\* The next deal that meets the condition; those that do not leave no trace.
Produce ==
    /\ pc = "deal" /\ nprod < maxproduce
    /\ curdeal' \in Deal
    /\ nprod' = nprod + 1
    /\ hist' = Append(hist, curdeal')
    /\ pc' = "act" /\ item' = 1
    /\ UNCHANGED <<acu, deallist, out, report>>

\* maxproduce or maxgenerate is reached, or the library is at its end.
EndOfRun ==
    /\ pc = "deal"
    /\ pc' = "cleanup" /\ item' = 1
    /\ UNCHANGED <<nprod, curdeal, acu, deallist, out, report, hist>>

A == ActionList[item]
Does(phase, types) ==
    pc = phase /\ item \in DOMAIN ActionList /\ A.type \in types
Value(e) == Val[e][curdeal]

Acting(types) ==
    /\ Does("act", types)
    /\ item' = item + 1
    /\ UNCHANGED <<pc, nprod, curdeal, report, hist>>

Show(line) == out' = Append(out, [item |-> item, prod |-> nprod, line |-> line])

\* printcompact() and printoneline(): the four hands, and an expression.
PrintCompact ==
    /\ Acting({"printcompact", "printoneline"})
    /\ Show([hands |-> <<0, 1, 2, 3>>, deal |-> curdeal,
             values |-> IF A.expr \in Expr THEN <<Value(A.expr)>> ELSE << >>])
    /\ UNCHANGED <<acu, deallist>>

PrintES ==
    /\ Acting({"printes"})
    /\ Show([values |-> [n \in DOMAIN A.exprs |-> Value(A.exprs[n])]])
    /\ UNCHANGED <<acu, deallist>>

\* printdeal() and printside(): south or west on the left.
PrintBoard ==
    /\ Acting({"printall", "printside"})
    /\ Show([board |-> nprod + boardoffset, deal |-> curdeal,
             hands |-> IF A.type = "printall" THEN <<0, 1, 2, 3>>
                       ELSE IF A.side = SIDE_NS THEN <<2, 0>> ELSE <<3, 1>>])
    /\ UNCHANGED <<acu, deallist>>

board_vul == <<0, 1, 2, 3, 1, 2, 3, 0, 2, 3, 0, 1, 3, 0, 1, 2>>

PbnDealer(board) == IF maxdealer \in Seat THEN maxdealer ELSE (board - 1) % 4

PbnVul(board) ==
    IF maxvuln \in Seat THEN maxvuln ELSE board_vul[((board - 1) % 16) + 1]

PrintPBN ==
    /\ Acting({"printpbn"})
    /\ IF quiet THEN UNCHANGED out
       ELSE LET board == nprod + boardoffset
            IN  Show([board |-> board, deal |-> curdeal,
                      hands |-> <<0, 1, 2, 3>>,
                      dealer |-> PbnDealer(board), vul |-> PbnVul(board)])
    /\ UNCHANGED <<acu, deallist>>

\* Side52_export() and Hand52_export().
Export ==
    /\ Acting({"export"})
    /\ Show([hands |-> SetToSortSeq(A.seats, <), deal |-> curdeal])
    /\ UNCHANGED <<acu, deallist>>

unmask(m) ==
    CASE m = 1 -> 0 [] m = 2 -> 1 [] m = 4 -> 2 [] m = 8 -> 3 [] m = 16 -> 4

\* One term of a report line: hands north first, tricks clubs to no trumps.
CsvTerm(t) ==
    LET seats == SetToSortSeq(t.seats, <)
        vul   == unmask(t.parvul)
    IN  CASE t.kind = "expr"  -> [value |-> Value(t.expr)]
          [] t.kind = "hands" -> [hands |-> seats, deal |-> curdeal]
          [] t.kind = "trix"  ->
                [trix |-> [n \in DOMAIN seats |->
                             [s \in Strain |-> Trix[curdeal][seats[n]][s]]]]
          [] t.kind = "par"   ->
                [par |-> curdeal, vul |-> IF vul \in Seat THEN vul
                                          ELSE par_vuln]

CsvRpt ==
    /\ Acting({"csvrpt", "printrpt"})
    /\ Show([terms |-> [n \in DOMAIN A.terms |-> CsvTerm(A.terms[n])]])
    /\ UNCHANGED <<acu, deallist>>

\* deallist[nprod-1]; a second print saves it there again.
SaveDeal ==
    /\ Acting({"print"})
    /\ deallist' = [n \in 1 .. nprod |->
                       IF n < nprod THEN deallist[n] ELSE curdeal]
    /\ UNCHANGED <<acu, out>>

Count(new) ==
    /\ acu' = [acu EXCEPT ![item] = new]
    /\ UNCHANGED <<deallist, out>>

Bump(cells, n) == [cells EXCEPT ![n] = @ + 1]

Average ==
    /\ Acting({"average"})
    /\ LET v == Value(A.expr)
           c == acu[item]
       IN  Count([count |-> c.count + 1, sum |-> c.sum + v,
                  sqsum |-> c.sqsum + v * v])

Frequency ==
    /\ Acting({"frequency"})
    /\ LET v == Value(A.expr)
           c == acu[item]
       IN  Count(CASE v < A.low  -> [c EXCEPT !.uflow = @ + 1]
                   [] v > A.high -> [c EXCEPT !.oflow = @ + 1]
                   [] OTHER      -> [c EXCEPT !.freqs = Bump(@, v - A.low)])

\* Where a value goes in one direction of a two-way table.
Line(v, low, high) ==
    IF v > high THEN high - low + 2
    ELSE IF v - low + 1 < 0 THEN 0 ELSE v - low + 1

\* Deviation: the row is multiplied by the number of rows.
Cell2D_Rows(a, v, v2) ==
    (a.high - a.low + 3) * Line(v, a.low, a.high) + Line(v2, a.low2, a.high2)

Cell2D(a, v, v2) ==
    (a.high2 - a.low2 + 3) * Line(v, a.low, a.high) + Line(v2, a.low2, a.high2)

Frequency2D ==
    /\ Acting({"frequency2d"})
    /\ Count(Bump(acu[item], Cell2D(A, Value(A.expr), Value(A.expr2))))

\* upd_bkt1D()
upd_bkt1D(v, b) ==
    CASE v < b.Lo                          -> 0
      [] v >= b.Lo + (Num(b) - 2) * b.Sz   -> Num(b) - 1
      [] OTHER                             -> 1 + (v - b.Lo) \div b.Sz

\* find_bkt_id() looks for the top bucket one size later, to the same effect.
find_bkt_id(v, b) ==
    CASE v < b.Lo                          -> 0
      [] v >= b.Lo + (Num(b) - 1) * b.Sz   -> Num(b) - 1
      [] OTHER                             -> 1 + (v - b.Lo) \div b.Sz

Bktfreq ==
    /\ Acting({"bktfreq"})
    /\ Count(Bump(acu[item], upd_bkt1D(Value(A.expr), A.bkt)))

Bktfreq2D ==
    /\ Acting({"bktfreq2d"})
    /\ Count(Bump(acu[item], find_bkt_id(Value(A.expr), A.bktd) * Num(A.bkta)
                             + find_bkt_id(Value(A.expr2), A.bkta)))

\* evalcontract(): south plays for north-south, west for east-west.
EvalContract ==
    /\ Acting({"evalcontract"})
    /\ LET declarer == IF A.side = SIDE_NS THEN 2 ELSE 3
       IN  Count(Bump(acu[item], Trix[curdeal][declarer][strain(A)]))

ActionsDone ==
    /\ pc = "act" /\ item = Len(ActionList) + 1
    /\ pc' = "deal"
    /\ UNCHANGED <<nprod, curdeal, item, acu, deallist, out, report, hist>>

-----------------------------------------------------------------------------
(* cleanup_action() *)

\* Sum of f over i .. j.
SumTo(f, i, j) ==
    LET sum[k \in i - 1 .. j] == IF k < i THEN 0 ELSE sum[k - 1] + f[k]
    IN  sum[j]

Reporting(types, what) ==
    /\ Does("cleanup", types)
    /\ report' = [report EXCEPT ![item] = what]
    /\ item' = item + 1
    /\ UNCHANGED <<pc, nprod, curdeal, acu, deallist, out, hist>>

ShowNothing ==
    Reporting({"printall", "printcompact", "printpbn", "printside",
               "printoneline", "printes", "export", "csvrpt", "printrpt"},
              << >>)

Smaller(m, n) == IF m < n THEN m ELSE n

\* Deviation: the number of a group of four starts again from the run's first.
printhands_Group(first, seat, nhands) ==
    [n \in 1 .. nhands |-> [board |-> boardoffset + n, seat |-> seat,
                            deal |-> deallist[first + n]]]

\* Up to four boards side by side, deallist[first] on.
printhands(first, seat, nhands) ==
    [n \in 1 .. nhands |-> [board |-> first + boardoffset + n, seat |-> seat,
                            deal |-> deallist[first + n]]]

\* A page for a player, four boards across: the n-th one is in the group that
\* begins after the last multiple of four before it.
Page(seat) ==
    [n \in 1 .. nprod |->
        LET first == 4 * ((n - 1) \div 4)
        IN  printhands(first, seat, Smaller(4, nprod - first))[n - first]]

ShowPrint ==
    Reporting({"print"}, [seat \in A.seats |-> Page(seat)])

\* Mean and variance as numerator and denominator.
ShowAverage ==
    Reporting({"average"},
              LET c == acu[item]
                  n == IF c.count > 1 THEN c.count - 1 ELSE 1
              IN  [mean |-> <<c.sum, c.count>>,
                   var  |-> <<c.sqsum * c.count - c.sum * c.sum, c.count * n>>,
                   size |-> c.count])

\* A one-way table; low and high are printed when they are not zero.
OneWay(low, names, counts, high) ==
    [low |-> low, high |-> high, names |-> names, counts |-> counts,
     total |-> low + SumTo(counts, 1, Len(names)) + high]

ShowFrequency ==
    Reporting({"frequency"},
              LET c == acu[item]
                  rows == A.high - A.low + 1
              IN  OneWay(c.uflow, [i \in 1 .. rows |-> A.low + i - 1],
                         [i \in 1 .. rows |-> c.freqs[i - 1]], c.oflow))

\* fill_bkt_names(), the buckets between low and high.
bkt_names(b) == [i \in 1 .. Num(b) - 2 |-> b.Lo + (i - 1) * b.Sz]

\* show_freq1D()
ShowBktfreq ==
    Reporting({"bktfreq"},
              LET c == acu[item]
                  oflow == Num(A.bkt) - 1
              IN  OneWay(c[0], bkt_names(A.bkt), [i \in 1 .. oflow - 1 |-> c[i]],
                         c[oflow]))

\* A two-way table with its sums: row and column 0 are low, the last are high.
TwoWay(c, down, across) ==
    LET rows == Len(down) + 1
        cols == Len(across) + 1
        cell(i, j) == c[(cols + 1) * i + j]
        sumrow == [i \in 0 .. rows |->
                      SumTo([j \in 0 .. cols |-> cell(i, j)], 0, cols)]
        sumcol == [j \in 0 .. cols |->
                      SumTo([i \in 0 .. rows |-> cell(i, j)], 0, rows)]
    IN  [down |-> down, across |-> across,
         cells |-> [i \in 0 .. rows |-> [j \in 0 .. cols |-> cell(i, j)]],
         sumrow |-> sumrow, sumcol |-> sumcol,
         sumtot |-> SumTo(sumrow, 0, rows)]

ShowFrequency2D ==
    Reporting({"frequency2d"},
              TwoWay(acu[item],
                     [i \in 1 .. A.high - A.low + 1 |-> i + A.low - 1],
                     [j \in 1 .. A.high2 - A.low2 + 1 |-> j + A.low2 - 1]))

\* show_freq2D()
ShowBktfreq2D ==
    Reporting({"bktfreq2d"},
              TwoWay(acu[item], bkt_names(A.bktd), bkt_names(A.bkta)))

game_lvl(s) == IF s > SUIT_SPADE THEN 3 ELSE IF s > SUIT_DIAMOND THEN 4 ELSE 5

\* What bidding l in strain s loses against bidding `to', when t tricks make.
ImpsLost(a, to, t) ==
    imps(undbled_score(a.vul, strain(a), to, t)
         - undbled_score(a.vul, strain(a), level(a), t))

\* Deviation: games are counted from one trick too few.
MissedGames_From(a) ==
    IF level(a) < game_lvl(strain(a)) THEN game_lvl(strain(a)) + 5 .. 13 ELSE {}

\* The numbers of tricks that make a missed game.
MissedGames(a) ==
    IF level(a) < game_lvl(strain(a)) THEN game_lvl(strain(a)) + 6 .. 13 ELSE {}

\* What showevalcontract() makes of the deals counted by tricks.
Figures(a, trix, slams) ==
    LET Of(t) == IF dbl(a) = 0
                 THEN undbled_score(a.vul, strain(a), level(a), t)
                 ELSE score(a.vul, a.coded, t)
        Total(T, w) ==
            SumTo([t \in Taken |-> IF t \in T THEN trix[t] * w[t] ELSE 0], 0, 13)
        One  == [t \in Taken |-> 1]
        Game == [t \in Taken |-> ImpsLost(a, game_lvl(strain(a)), t)]
        Slam == [t \in Taken |-> ImpsLost(a, t - 6, t)]
    IN  [score_tot     |-> Total(Taken, [t \in Taken |-> Of(t)]),
         success_cnt   |-> Total({t \in Taken : Of(t) > 0}, One),
         fail_cnt      |-> Total({t \in Taken : Of(t) < 0}, One),
         missed_games  |-> Total(MissedGames(a), One),
         missed_G_imps |-> Total(MissedGames(a), Game),
         missed_slams  |-> slams,
         missed_S_imps |-> IF level(a) < 6 THEN Total({12, 13}, Slam) ELSE 0]

\* missed_slams is only set when the level is below six.
ShowContract ==
    /\ Does("cleanup", {"evalcontract"})
    /\ \E slams \in IF level(A) < 6 THEN {acu[item][12] + acu[item][13]}
                    ELSE Garbage :
        Reporting({"evalcontract"}, Figures(A, acu[item], slams))

CleanupDone ==
    /\ pc = "cleanup" /\ item = Len(ActionList) + 1
    /\ pc' = "done"
    /\ UNCHANGED <<nprod, curdeal, item, acu, deallist, out, report, hist>>

-----------------------------------------------------------------------------
Act == \/ PrintCompact \/ PrintES \/ PrintBoard \/ PrintPBN \/ Export
       \/ CsvRpt \/ SaveDeal \/ Average \/ Frequency \/ Frequency2D
       \/ Bktfreq \/ Bktfreq2D \/ EvalContract \/ ActionsDone

Cleanup == \/ ShowNothing \/ ShowPrint \/ ShowAverage \/ ShowFrequency
           \/ ShowFrequency2D \/ ShowBktfreq \/ ShowBktfreq2D \/ ShowContract
           \/ CleanupDone

Next == Produce \/ EndOfRun \/ Act \/ Cleanup

Spec == Init /\ [][Next]_vars

-----------------------------------------------------------------------------
(* What the reports promise, said of the deals produced. *)

Ended(types) == {k \in DOMAIN ActionList :
                    pc = "done" /\ ActionList[k].type \in types}

\* How many of the deals produced are among those.
Times(those) == Cardinality({n \in DOMAIN hist : hist[n] \in those})

\* The values a table calls low, the i-th row or column, or high.
Within(v, names, sz, i) ==
    CASE i = 0          -> v < names[1]
      [] i > Len(names) -> v >= names[Len(names)] + sz
      [] OTHER          -> names[i] <= v /\ v < names[i] + sz

\* The rows follow each other from the low bound asked for past the high one.
Names(names, low, high, sz) ==
    /\ names[1] = low
    /\ \A i \in 2 .. Len(names) : names[i] = names[i - 1] + sz
    /\ names[Len(names)] <= high /\ high < names[Len(names)] + sz

OneWayRight(t, e, low, high, sz) ==
    LET In(i) == Times({d \in Deal : Within(Val[e][d], t.names, sz, i)})
    IN  /\ Names(t.names, low, high, sz)
        /\ t.low = In(0) /\ t.high = In(Len(t.names) + 1)
        /\ \A i \in DOMAIN t.names : t.counts[i] = In(i)
        /\ t.total = nprod

TwoWayRight(t, e, sz, e2, sz2) ==
    /\ \A i \in DOMAIN t.cells : \A j \in DOMAIN t.cells[i] :
           t.cells[i][j] = Times({d \in Deal :
                                     /\ Within(Val[e][d], t.down, sz, i)
                                     /\ Within(Val[e2][d], t.across, sz2, j)})
    /\ \A i \in DOMAIN t.sumrow :
           t.sumrow[i] = Times({d \in Deal : Within(Val[e][d], t.down, sz, i)})
    /\ \A j \in DOMAIN t.sumcol :
           t.sumcol[j] = Times({d \in Deal : Within(Val[e2][d], t.across, sz2, j)})
    /\ t.sumtot = nprod

TablesOneWay ==
    /\ \A k \in Ended({"frequency"}) :
           LET a == ActionList[k]
           IN  OneWayRight(report[k], a.expr, a.low, a.high, 1)
    /\ \A k \in Ended({"bktfreq"}) :
           LET a == ActionList[k]
           IN  OneWayRight(report[k], a.expr, a.bkt.Lo, a.bkt.Hi, a.bkt.Sz)

TablesTwoWay ==
    /\ \A k \in Ended({"frequency2d"}) :
           LET a == ActionList[k]
           IN  TwoWayRight(report[k], a.expr, 1, a.expr2, 1)
    /\ \A k \in Ended({"bktfreq2d"}) :
           LET a == ActionList[k]
           IN  TwoWayRight(report[k], a.expr, a.bktd.Sz, a.expr2, a.bkta.Sz)

\* The mean, and the sum of squared distances from it over one less.
Averages ==
    \A k \in Ended({"average"}) :
        LET x    == [n \in DOMAIN hist |-> Val[ActionList[k].expr][hist[n]]]
            N    == Len(hist)
            S    == SumTo(x, 1, N)
            dist == [n \in DOMAIN x |-> (N * x[n] - S) * (N * x[n] - S)]
            var  == report[k].var
        IN  /\ report[k].mean = <<S, N>> /\ report[k].size = N
            /\ N = 1 => var[1] = 0
            /\ N > 1 => var[1] * N * N * (N - 1) = SumTo(dist, 1, N) * var[2]

\* Every row and cell of the tables printed at the end counts the deals
\* produced whose values lie in the interval its name and the next one mark
\* off, the sums add up to the deals produced, and mean and variance are
\* those of the sample, wherever the run was stopped: the update, the
\* flattened index and the names are computed in different places
\* (dealaction_subs.c:173-227, 305-394; deal_bktfreq_subs.c:77-310).
StatsOfTheDeals == TablesOneWay /\ TablesTwoWay /\ Averages

\* evalcontract accounts for every deal once: it is made or it fails, the
\* total is what the laws of the game give for the tricks of south or west,
\* and below game (slam) the games (slams) missed are the deals on which one
\* makes, each of them costing IMPs (dealaction_subs.c:638-739).
ContractAccounted ==
    \A k \in Ended({"evalcontract"}) :
        LET a == ActionList[k]
            r == report[k]
            declarer == IF a.side = SIDE_NS THEN 2 ELSE 3
            Tricks(d) == Trix[d][declarer][strain(a)]
            node(t) == [level |-> level(a), strain |-> strain(a),
                        dbl |-> dbl(a), vul |-> a.vul, tricks |-> t]
            IsGameAt(t) ==      \* t tricks are worth 100 points in this strain
                Bid([node(t) EXCEPT !.level = t - 6, !.dbl = 0]) >= 100
            Bids100 == Bid([node(0) EXCEPT !.dbl = 0]) >= 100
        IN  /\ r.success_cnt = Times({d \in Deal : Tricks(d) >= 6 + level(a)})
            /\ r.success_cnt + r.fail_cnt = nprod
            /\ r.score_tot = SumTo([n \in DOMAIN hist |->
                                      Law77(node(Tricks(hist[n])))], 1, nprod)
            /\ r.missed_games =
                   IF Bids100 THEN 0
                   ELSE Times({d \in Deal : Tricks(d) > 6 /\ IsGameAt(Tricks(d))})
            /\ level(a) < 6 =>
                   r.missed_slams = Times({d \in Deal : Tricks(d) >= 12})
            /\ r.missed_games > 0 <=> r.missed_G_imps > 0
            /\ level(a) < 6 => (r.missed_slams > 0 <=> r.missed_S_imps > 0)

Pages ==
    \A k \in Ended({"print"}) :
        /\ DOMAIN report[k] = ActionList[k].seats
        /\ \A s \in ActionList[k].seats :
               report[k][s] = [n \in 1 .. nprod |->
                   [board |-> boardoffset + n, seat |-> s, deal |-> hist[n]]]

\* Boards 1 to 16 by who is vulnerable: none, north-south, east-west, all.
Standard == <<{1, 8, 11, 14}, {2, 5, 12, 15}, {3, 6, 9, 16}, {4, 7, 10, 13}>>

\* What a line shows is of the deal and the board it was printed for.
LineRight(o) ==
    LET shown == o.line
        board == boardoffset + o.prod
    IN  /\ "deal" \in DOMAIN shown => shown.deal = hist[o.prod]
        /\ "board" \in DOMAIN shown => shown.board = board
        /\ "vul" \in DOMAIN shown =>
               /\ shown.vul = maxvuln \/ maxvuln = -1
               /\ maxvuln = -1 =>
                      \E b \in Standard[shown.vul + 1] : (board - b) % 16 = 0
               /\ shown.dealer = maxdealer \/ maxdealer = -1
               /\ maxdealer = -1 => (board - (shown.dealer + 1)) % 4 = 0
        /\ "terms" \in DOMAIN shown =>
               LET asked == ActionList[o.item].terms
               IN  \A n \in DOMAIN shown.terms : asked[n].kind = "par" =>
                       /\ shown.terms[n].par = hist[o.prod]
                       /\ shown.terms[n].vul = (IF asked[n].parvul = 16 THEN par_vuln
                                                ELSE unmask(asked[n].parvul))

\* A board has one number: the pages print() makes at the end, in groups of
\* four, list every deal produced once, under the number the run printed it
\* under, and the PBN of a board has the dealer and the vulnerability that
\* number has at the table unless the input file set them
\* (dealaction_subs.c:165-172, 290-304, 425-620).
BoardsAgree == Pages /\ (pc = "done" => \A n \in DOMAIN out : LineRight(out[n]))
=============================================================================
