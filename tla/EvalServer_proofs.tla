--------------------------- MODULE EvalServer_proofs ---------------------------
(***************************************************************************)
(* Proofs about EvalServer, for every pair of hands of thirteen cards: the *)
(* trump suit analyze_side() settles on is the one the rules name, the     *)
(* slots of the fit are this deal's, the server's four C's is dealer's but *)
(* for the first doubleton, the sets agree with the single metrics, and    *)
(* hands that trade seats trade their points.                              *)
(***************************************************************************)
EXTENDS EvalServer, FiniteSetTheorems, TLAPS

-----------------------------------------------------------------------------
(* The slots of the fit *)

\* The suits, by number.
LEMMA FourSuits == Suits = {0, 1, 2, 3}
  BY DEF Suits, CLUBS, SPADES

\* Whoever asked for honors, length and shortness finds this deal's fit in the last
\* two slots: every tag of that kind writes both, and the deal only changes together
\* with the tag.
THEOREM FitSlots == Spec => []FitSlotsCurrent
  <1>1. Init => FitSlotsCurrent
    BY DEF Init, FitSlotsCurrent, NoTag, Metrics, BERGEN, ROTH, KnR, All_UE, AllRaw, MixKar, MixLar, Set88
  <1>2. FitSlotsCurrent /\ [Next]_vars => FitSlotsCurrent'
    <2> SUFFICES ASSUME FitSlotsCurrent, [Next]_vars
                 PROVE  FitSlotsCurrent'
      OBVIOUS
    <2>1. CASE NewDeal
      BY <2>1 DEF NewDeal, FitSlotsCurrent, NoTag, Metrics, BERGEN, ROTH, KnR, All_UE, AllRaw, MixKar, MixLar, Set88
    <2>2. CASE Query
      <3>1. PICK t \in Tags : userfunc(t)
        BY <2>2 DEF Query
      <3>2. CASE t \in (Metrics \ {KnR}) \cup {All_UE, AllRaw, MixKar, MixLar, Set88}
        <4>1. /\ t \notin AltMetrics \cup {AllAlt}
              /\ t # TestTag
              /\ t \notin {KnR, Unknown}
          BY <3>2 DEF Metrics, BERGEN, ROTH, KnR, All_UE, AllRaw, MixKar, MixLar, Set88,
             AltMetrics, HCPT050, OPCjgm, AllAlt, TestTag, Unknown
        <4>2. Helpers(t, Side[deal], helpers) = Fit2(Side[deal])
          BY <4>1 DEF Helpers
        <4>3. helpers' = <<Side[deal].t_suit, Side[deal].t_fitlen>>
          BY <3>1, <4>2 DEF userfunc, Fit2
        <4>. QED
          BY <3>1, <4>3 DEF userfunc, FitSlotsCurrent
      <3>3. CASE t \notin (Metrics \ {KnR}) \cup {All_UE, AllRaw, MixKar, MixLar, Set88}
        BY <3>1, <3>3 DEF userfunc, FitSlotsCurrent
      <3>. QED
        BY <3>2, <3>3
    <2>3. CASE UNCHANGED vars
      BY <2>3 DEF vars, FitSlotsCurrent
    <2>. QED
      BY <2>1, <2>2, <2>3 DEF Next
  <1>. QED
    BY <1>1, <1>2, PTL DEF Spec

-----------------------------------------------------------------------------
(* Sorting a side's suits: pairs of a length and a suit *)

\* Four pairwise different ones.
Differ(a, b, c, d) == a # b /\ a # c /\ a # d /\ b # c /\ b # d /\ c # d

\* The longer suit first, the higher one of two that are as long.
Before(x, y) == x[1] > y[1] \/ (x[1] = y[1] /\ x[2] > y[2])

\* Four different members of S, longest first.
Descends(t, S) ==
    \E p, q, r, s \in S :
        /\ t = <<p, q, r, s>>
        /\ Differ(p, q, r, s)
        /\ p[1] >= q[1] /\ q[1] >= r[1] /\ r[1] >= s[1]

LEMMA Descending ==
  ASSUME NEW S, NEW p \in S, NEW q \in S, NEW r \in S, NEW s \in S,
         Differ(p, q, r, s), p[1] >= q[1], q[1] >= r[1], r[1] >= s[1]
  PROVE  Descends(<<p, q, r, s>>, S)
  <1> SUFFICES \E k, l, m, n \in S :
                  /\ <<p, q, r, s>> = <<k, l, m, n>>
                  /\ Differ(k, l, m, n)
                  /\ k[1] >= l[1] /\ l[1] >= m[1] /\ m[1] >= n[1]
    BY DEF Descends
  <1>. WITNESS p \in S, q \in S, r \in S, s \in S
  <1>. QED
    OBVIOUS

\* didxsort4() leaves the four pairs, longest first.
LEMMA DidxSort ==
  ASSUME NEW a, NEW b, NEW c, NEW d, Differ(a, b, c, d),
         a[1] \in Int, b[1] \in Int, c[1] \in Int, d[1] \in Int
  PROVE  Descends(didxsort4(<<a, b, c, d>>), {a, b, c, d})
  <1> DEFINE two == IF b[1] > a[1] THEN <<b, a>> ELSE <<a, b>>
  <1>1. PICK a1, b1 \in {a, b} : two = <<a1, b1>> /\ a1 # b1 /\ a1[1] >= b1[1]
    BY DEF Differ
  <1> DEFINE three == IF c[1] > a1[1] THEN <<c, a1, b1>>
                      ELSE IF c[1] > b1[1] THEN <<a1, c, b1>> ELSE <<a1, b1, c>>
  <1>2. PICK x, y, z \in {a, b, c} :
           /\ three = <<x, y, z>> /\ x # y /\ x # z /\ y # z
           /\ x[1] >= y[1] /\ y[1] >= z[1]
    <2>1. a1[1] \in Int /\ b1[1] \in Int /\ c # a1 /\ c # b1
      BY DEF Differ
    <2>2. CASE c[1] > a1[1]
      <3>1. three = <<c, a1, b1>>
        BY <2>2
      <3>. QED
        BY <3>1, <2>1, <2>2, <1>1
    <2>3. CASE ~(c[1] > a1[1]) /\ c[1] > b1[1]
      <3>1. three = <<a1, c, b1>>
        BY <2>3
      <3>. QED
        BY <3>1, <2>1, <2>3, <1>1
    <2>4. CASE ~(c[1] > a1[1]) /\ ~(c[1] > b1[1])
      <3>1. three = <<a1, b1, c>>
        BY <2>4
      <3>. QED
        BY <3>1, <2>1, <2>4, <1>1
    <2>. QED
      BY <2>2, <2>3, <2>4
  <1> DEFINE four == IF d[1] >= x[1] THEN <<d, x, y, z>>
                     ELSE IF d[1] >= y[1] THEN <<x, d, y, z>>
                     ELSE IF d[1] > z[1] THEN <<x, y, d, z>> ELSE <<x, y, z, d>>
  <1>3. didxsort4(<<a, b, c, d>>) = four
    <2>1. didxsort4(<<a, b, c, d>>) =
             LET A == two[1]  B == two[2]
                 T == IF c[1] > A[1] THEN <<c, A, B>>
                      ELSE IF c[1] > B[1] THEN <<A, c, B>> ELSE <<A, B, c>>
                 X == T[1]  Y == T[2]  Z == T[3]
             IN  IF d[1] >= X[1] THEN <<d, X, Y, Z>>
                 ELSE IF d[1] >= Y[1] THEN <<X, d, Y, Z>>
                 ELSE IF d[1] > Z[1] THEN <<X, Y, d, Z>> ELSE <<X, Y, Z, d>>
      BY DEF didxsort4
    <2> HIDE DEF two
    <2>2. two[1] = a1 /\ two[2] = b1
      BY <1>1
    <2>3. didxsort4(<<a, b, c, d>>) =
             IF d[1] >= three[1][1] THEN <<d, three[1], three[2], three[3]>>
             ELSE IF d[1] >= three[2][1] THEN <<three[1], d, three[2], three[3]>>
             ELSE IF d[1] > three[3][1] THEN <<three[1], three[2], d, three[3]>>
             ELSE <<three[1], three[2], three[3], d>>
      BY <2>1, <2>2
    <2> HIDE DEF three
    <2>4. three[1] = x /\ three[2] = y /\ three[3] = z
      BY <1>2
    <2>. QED
      BY <2>3, <2>4
  <1>4. /\ x[1] \in Int /\ y[1] \in Int /\ z[1] \in Int /\ d # x /\ d # y /\ d # z
    BY DEF Differ
  <1> HIDE DEF three, two
  <1>. DEFINE S == {a, b, c, d}
  <1>5. x \in S /\ y \in S /\ z \in S /\ d \in S
    OBVIOUS
  <1> HIDE DEF S
  <1>6. Descends(four, S)
    <2>1. CASE d[1] >= x[1]
      <3>1. four = <<d, x, y, z>>
        BY <2>1
      <3>2. Differ(d, x, y, z) /\ d[1] >= x[1] /\ x[1] >= y[1] /\ y[1] >= z[1]
        BY <2>1, <1>2, <1>4 DEF Differ
      <3> HIDE DEF four
      <3>. QED
        BY <3>1, <3>2, <1>5, Descending
    <2>2. CASE ~(d[1] >= x[1]) /\ d[1] >= y[1]
      <3>1. four = <<x, d, y, z>>
        BY <2>2
      <3>2. Differ(x, d, y, z) /\ x[1] >= d[1] /\ d[1] >= y[1] /\ y[1] >= z[1]
        BY <2>2, <1>2, <1>4 DEF Differ
      <3> HIDE DEF four
      <3>. QED
        BY <3>1, <3>2, <1>5, Descending
    <2>3. CASE ~(d[1] >= x[1]) /\ ~(d[1] >= y[1]) /\ d[1] > z[1]
      <3>1. four = <<x, y, d, z>>
        BY <2>3
      <3>2. Differ(x, y, d, z) /\ x[1] >= y[1] /\ y[1] >= d[1] /\ d[1] >= z[1]
        BY <2>3, <1>2, <1>4 DEF Differ
      <3> HIDE DEF four
      <3>. QED
        BY <3>1, <3>2, <1>5, Descending
    <2>4. CASE ~(d[1] >= x[1]) /\ ~(d[1] >= y[1]) /\ ~(d[1] > z[1])
      <3>1. four = <<x, y, z, d>>
        BY <2>4
      <3>2. Differ(x, y, z, d) /\ x[1] >= y[1] /\ y[1] >= z[1] /\ z[1] >= d[1]
        BY <2>4, <1>2, <1>4 DEF Differ
      <3> HIDE DEF four
      <3>. QED
        BY <3>1, <3>2, <1>5, Descending
    <2> HIDE DEF four
    <2>. QED
      BY <2>1, <2>2, <2>3, <2>4
  <1> HIDE DEF four
  <1>. QED
    BY <1>3, <1>6 DEF S

\* Lists of four pairs, of different suits.
Lists == {v \in [1 .. 4 -> Int \X Int] : \A i, j \in 1 .. 4 : i # j => v[i][2] # v[j][2]}

\* rank2sids() has the higher of two neighbours first and leaves the others.
LEMMA RankTwo ==
  ASSUME NEW v \in Lists, NEW i \in 1 .. 3
  PROVE  LET w == rank2sids(v, i)
         IN  /\ w \in Lists
             /\ \A k \in 1 .. 4 : k # i /\ k # i + 1 => w[k] = v[k]
             /\ \/ w[i] = v[i] /\ w[i + 1] = v[i + 1]
                \/ w[i] = v[i + 1] /\ w[i + 1] = v[i]
             /\ w[i][2] > w[i + 1][2]
  <1>1. i \in 1 .. 4 /\ i + 1 \in 1 .. 4 /\ i # i + 1
    OBVIOUS
  <1>2. v \in [1 .. 4 -> Int \X Int]
    BY DEF Lists
  <1>3. \A k \in 1 .. 4 : v[k] \in Int \X Int /\ v[k][2] \in Int
    BY <1>2
  <1>4. v[i][2] # v[i + 1][2]
    BY <1>1 DEF Lists
  <1>5. CASE v[i][2] < v[i + 1][2]
    <2> DEFINE w == [v EXCEPT ![i] = v[i + 1], ![i + 1] = v[i]]
    <2>1. rank2sids(v, i) = w
      BY <1>5 DEF rank2sids
    <2>2. w \in [1 .. 4 -> Int \X Int] /\ w[i] = v[i + 1] /\ w[i + 1] = v[i]
          /\ \A k \in 1 .. 4 : k # i /\ k # i + 1 => w[k] = v[k]
      BY <1>1, <1>2, <1>3
    <2> HIDE DEF w
    <2>3. \A k, j \in 1 .. 4 : k # j => w[k][2] # w[j][2]
      <3> SUFFICES ASSUME NEW k \in 1 .. 4, NEW j \in 1 .. 4, k # j
                   PROVE  w[k][2] # w[j][2]
        OBVIOUS
      <3>. QED
        BY <1>1, <2>2 DEF Lists
    <2>4. w[i][2] > w[i + 1][2]
      BY <1>1, <1>3, <1>5, <2>2
    <2>. QED
      BY <2>1, <2>2, <2>3, <2>4 DEF Lists
  <1>6. CASE ~(v[i][2] < v[i + 1][2])
    <2>1. rank2sids(v, i) = v
      BY <1>6 DEF rank2sids
    <2>2. v[i][2] > v[i + 1][2]
      BY <1>1, <1>3, <1>4, <1>6
    <2>. QED
      BY <2>1, <2>2
  <1>. QED
    BY <1>5, <1>6

\* rank3sids() does so with three neighbours.
LEMMA RankThree ==
  ASSUME NEW v \in Lists, NEW i \in 1 .. 2
  PROVE  LET w == rank3sids(v, i)
         IN  /\ w \in Lists
             /\ \A k \in 1 .. 4 : k \notin i .. i + 2 => w[k] = v[k]
             /\ \A k \in i .. i + 2 : \E j \in i .. i + 2 : w[k] = v[j]
             /\ w[i][2] > w[i + 1][2] /\ w[i + 1][2] > w[i + 2][2]
  <1> DEFINE x == rank2sids(v, i)
             y == rank2sids(x, i + 1)
             w == rank2sids(y, i)
  <1>0. i \in 1 .. 3 /\ i + 1 \in 1 .. 3 /\ (i + 1) + 1 = i + 2
        /\ i \in 1 .. 4 /\ i + 1 \in 1 .. 4 /\ i + 2 \in 1 .. 4
        /\ i # i + 1 /\ i # i + 2 /\ i + 1 # i + 2
        /\ \A k \in 1 .. 4 : k \notin i .. i + 2 <=> k # i /\ k # i + 1 /\ k # i + 2
        /\ i .. i + 2 = {i, i + 1, i + 2}
    OBVIOUS
  <1>1. /\ x \in Lists
        /\ \A k \in 1 .. 4 : k # i /\ k # i + 1 => x[k] = v[k]
        /\ \/ x[i] = v[i] /\ x[i + 1] = v[i + 1]
           \/ x[i] = v[i + 1] /\ x[i + 1] = v[i]
        /\ x[i][2] > x[i + 1][2]
    BY <1>0, RankTwo
  <1> HIDE DEF x
  <1>2. /\ y \in Lists
        /\ \A k \in 1 .. 4 : k # i + 1 /\ k # i + 2 => y[k] = x[k]
        /\ \/ y[i + 1] = x[i + 1] /\ y[i + 2] = x[i + 2]
           \/ y[i + 1] = x[i + 2] /\ y[i + 2] = x[i + 1]
        /\ y[i + 1][2] > y[i + 2][2]
    BY <1>0, <1>1, RankTwo
  <1> HIDE DEF y
  <1>3. /\ w \in Lists
        /\ \A k \in 1 .. 4 : k # i /\ k # i + 1 => w[k] = y[k]
        /\ \/ w[i] = y[i] /\ w[i + 1] = y[i + 1]
           \/ w[i] = y[i + 1] /\ w[i + 1] = y[i]
        /\ w[i][2] > w[i + 1][2]
    BY <1>0, <1>2, RankTwo
  <1>4. rank3sids(v, i) = w
    BY DEF rank3sids, x, y
  <1> HIDE DEF w
  <1>5. \A k \in 1 .. 4 : x[k][2] \in Int /\ y[k][2] \in Int /\ w[k][2] \in Int
    BY <1>1, <1>2, <1>3 DEF Lists
  <1>6. w[i + 1][2] > w[i + 2][2]
    <2>1. w[i + 2] = y[i + 2] /\ y[i] = x[i] /\ x[i + 2] = v[i + 2]
      BY <1>0, <1>1, <1>2, <1>3
    <2>2. CASE w[i + 1] = y[i + 1]
      BY <2>1, <2>2, <1>2
    <2>3. CASE w[i + 1] = y[i]
      BY <2>1, <2>3, <1>0, <1>1, <1>2, <1>5
    <2>. QED
      BY <2>2, <2>3, <1>3
  <1>7. \A k \in i .. i + 2 : \E j \in i .. i + 2 : w[k] = v[j]
    BY <1>0, <1>1, <1>2, <1>3
  <1>8. \A k \in 1 .. 4 : k \notin i .. i + 2 => w[k] = v[k]
    BY <1>0, <1>1, <1>2, <1>3
  <1>. QED
    BY <1>3, <1>4, <1>6, <1>7, <1>8

\* What rank_sorted_ids() makes of a sorted list: suits of the same length are ranked,
\* but for the two longest when no others have the same length.
Ranked(w) ==
    /\ w[1][1] >= w[2][1] /\ Before(w[2], w[3]) /\ Before(w[3], w[4])
    /\ w[2][1] = w[3][1] \/ w[3][1] = w[4][1] => Before(w[1], w[2])

\* Sorted by length.
Falling(v) == \A k \in 1 .. 3 : v[k][1] >= v[k + 1][1]

\* rank_sorted_ids() ranks a sorted list, as long as the four suits do not all have
\* the same length; two hands never have that.
LEMMA RankSorted ==
  ASSUME NEW v \in Lists, Falling(v), v[1][1] # v[4][1]
  PROVE  LET w == rank_sorted_ids(v)
         IN  /\ w \in Lists
             /\ \A k \in 1 .. 4 : \E j \in 1 .. 4 : w[k] = v[j]
             /\ Ranked(w)
  <1> DEFINE w == rank_sorted_ids(v)
             Goal(u) == /\ u \in Lists
                        /\ \A k \in 1 .. 4 : \E j \in 1 .. 4 : u[k] = v[j]
                        /\ Ranked(u)
  <1>1. \A k \in 1 .. 4 : v[k] \in Int \X Int /\ v[k][1] \in Int /\ v[k][2] \in Int
    BY DEF Lists
  <1>2. /\ v[1][1] \in Int /\ v[2][1] \in Int /\ v[3][1] \in Int /\ v[4][1] \in Int
        /\ v[1][2] \in Int /\ v[2][2] \in Int /\ v[3][2] \in Int /\ v[4][2] \in Int
    BY <1>1
  <1>3. v[1][1] >= v[2][1] /\ v[2][1] >= v[3][1] /\ v[3][1] >= v[4][1]
    BY DEF Falling
  <1>4. 1 \in 1 .. 4 /\ 2 \in 1 .. 4 /\ 3 \in 1 .. 4 /\ 4 \in 1 .. 4
        /\ 1 \in 1 .. 3 /\ 2 \in 1 .. 3 /\ 3 \in 1 .. 3 /\ 1 \in 1 .. 2 /\ 2 \in 1 .. 2
        /\ 1 .. 4 = {1, 2, 3, 4} /\ 1 .. 3 = {1, 2, 3} /\ 2 .. 4 = {2, 3, 4}
    OBVIOUS
  <1>5. CASE v[1][1] = v[2][1] /\ v[1][1] = v[3][1]
    <2> DEFINE u == rank3sids(v, 1)
    <2>1. w = u
      BY <1>5 DEF rank_sorted_ids
    <2>2. /\ u \in Lists
          /\ \A k \in 1 .. 4 : k \notin 1 .. 3 => u[k] = v[k]
          /\ \A k \in 1 .. 3 : \E j \in 1 .. 3 : u[k] = v[j]
          /\ u[1][2] > u[2][2] /\ u[2][2] > u[3][2]
      <3>1. /\ u \in Lists
            /\ \A k \in 1 .. 4 : k \notin 1 .. 1 + 2 => u[k] = v[k]
            /\ \A k \in 1 .. 1 + 2 : \E j \in 1 .. 1 + 2 : u[k] = v[j]
            /\ u[1][2] > u[1 + 1][2] /\ u[1 + 1][2] > u[1 + 2][2]
        BY <1>4, RankThree
      <3>2. 1 + 1 = 2 /\ 1 + 2 = 3
        OBVIOUS
      <3>. QED
        BY <3>1, <3>2
    <2> HIDE DEF u
    <2>3. u[4] = v[4] /\ u[1][1] = v[1][1] /\ u[2][1] = v[1][1] /\ u[3][1] = v[1][1]
      BY <2>2, <1>4, <1>5
    <2>4. Goal(u)
      <3>1. Ranked(u)
        BY <2>2, <2>3, <1>2, <1>3, <1>5 DEF Before, Ranked
      <3>2. \A k \in 1 .. 4 : \E j \in 1 .. 4 : u[k] = v[j]
        BY <2>2, <2>3, <1>4
      <3>. QED
        BY <3>1, <3>2, <2>2
    <2>. QED
      BY <2>1, <2>4
  <1>6. CASE v[1][1] = v[2][1] /\ v[1][1] # v[3][1] /\ v[3][1] = v[4][1]
    <2> DEFINE x == rank2sids(v, 1)
               u == rank2sids(x, 3)
    <2>1. w = u
      BY <1>6 DEF rank_sorted_ids
    <2>2. /\ x \in Lists /\ x[3] = v[3] /\ x[4] = v[4]
          /\ (x[1] = v[1] /\ x[2] = v[2]) \/ (x[1] = v[2] /\ x[2] = v[1])
          /\ x[1][2] > x[2][2]
      <3>1. /\ x \in Lists
            /\ \A k \in 1 .. 4 : k # 1 /\ k # 1 + 1 => x[k] = v[k]
            /\ (x[1] = v[1] /\ x[1 + 1] = v[1 + 1]) \/ (x[1] = v[1 + 1] /\ x[1 + 1] = v[1])
            /\ x[1][2] > x[1 + 1][2]
        BY <1>4, RankTwo
      <3>2. 1 + 1 = 2 /\ 3 # 1 /\ 3 # 2 /\ 4 # 1 /\ 4 # 2
        OBVIOUS
      <3>. QED
        BY <3>1, <3>2, <1>4
    <2> HIDE DEF x
    <2>3. /\ u \in Lists /\ u[1] = x[1] /\ u[2] = x[2]
          /\ (u[3] = x[3] /\ u[4] = x[4]) \/ (u[3] = x[4] /\ u[4] = x[3])
          /\ u[3][2] > u[4][2]
      <3>1. /\ u \in Lists
            /\ \A k \in 1 .. 4 : k # 3 /\ k # 3 + 1 => u[k] = x[k]
            /\ (u[3] = x[3] /\ u[3 + 1] = x[3 + 1]) \/ (u[3] = x[3 + 1] /\ u[3 + 1] = x[3])
            /\ u[3][2] > u[3 + 1][2]
        BY <1>4, <2>2, RankTwo
      <3>2. 3 + 1 = 4 /\ 1 # 3 /\ 1 # 4 /\ 2 # 3 /\ 2 # 4
        OBVIOUS
      <3>. QED
        BY <3>1, <3>2, <1>4
    <2> HIDE DEF u
    <2>4. Goal(u)
      <3>1. Ranked(u)
        BY <2>2, <2>3, <1>2, <1>3, <1>6 DEF Before, Ranked
      <3>2. \A k \in 1 .. 4 : \E j \in 1 .. 4 : u[k] = v[j]
        BY <2>2, <2>3, <1>4
      <3>. QED
        BY <3>1, <3>2, <2>3
    <2>. QED
      BY <2>1, <2>4
  <1>7. CASE v[1][1] # v[2][1] /\ v[2][1] = v[3][1] /\ v[2][1] = v[4][1]
    <2> DEFINE u == rank3sids(v, 2)
    <2>1. w = u
      BY <1>7 DEF rank_sorted_ids
    <2>2. /\ u \in Lists /\ u[1] = v[1]
          /\ \A k \in {2, 3, 4} : \E j \in {2, 3, 4} : u[k] = v[j]
          /\ u[2][2] > u[3][2] /\ u[3][2] > u[4][2]
      <3>1. /\ u \in Lists
            /\ \A k \in 1 .. 4 : k \notin 2 .. 2 + 2 => u[k] = v[k]
            /\ \A k \in 2 .. 2 + 2 : \E j \in 2 .. 2 + 2 : u[k] = v[j]
            /\ u[2][2] > u[2 + 1][2] /\ u[2 + 1][2] > u[2 + 2][2]
        BY <1>4, RankThree
      <3>2. 2 + 1 = 3 /\ 2 + 2 = 4 /\ 2 .. 2 + 2 = {2, 3, 4} /\ 1 \notin 2 .. 2 + 2
        OBVIOUS
      <3>. QED
        BY <3>1, <3>2, <1>4
    <2> HIDE DEF u
    <2>3. u[2][1] = v[2][1] /\ u[3][1] = v[2][1] /\ u[4][1] = v[2][1]
      <3>1. \A j \in {2, 3, 4} : v[j][1] = v[2][1]
        BY <1>7
      <3>2. ASSUME NEW k \in {2, 3, 4} PROVE u[k][1] = v[2][1]
        BY <2>2, <3>1
      <3>. QED
        BY <3>2
    <2>4. Goal(u)
      <3>1. Ranked(u)
        BY <2>2, <2>3, <1>2, <1>3, <1>7 DEF Before, Ranked
      <3>2. \A k \in 1 .. 4 : \E j \in 1 .. 4 : u[k] = v[j]
        BY <2>2, <1>4
      <3>. QED
        BY <3>1, <3>2, <2>2
    <2>. QED
      BY <2>1, <2>4
  <1>8. CASE v[1][1] # v[2][1] /\ v[2][1] = v[3][1] /\ v[2][1] # v[4][1]
    <2> DEFINE u == rank2sids(v, 2)
    <2>1. w = u
      BY <1>8 DEF rank_sorted_ids
    <2>2. /\ u \in Lists /\ u[1] = v[1] /\ u[4] = v[4]
          /\ (u[2] = v[2] /\ u[3] = v[3]) \/ (u[2] = v[3] /\ u[3] = v[2])
          /\ u[2][2] > u[3][2]
      <3>1. /\ u \in Lists
            /\ \A k \in 1 .. 4 : k # 2 /\ k # 2 + 1 => u[k] = v[k]
            /\ (u[2] = v[2] /\ u[2 + 1] = v[2 + 1]) \/ (u[2] = v[2 + 1] /\ u[2 + 1] = v[2])
            /\ u[2][2] > u[2 + 1][2]
        BY <1>4, RankTwo
      <3>2. 2 + 1 = 3 /\ 1 # 2 /\ 1 # 3 /\ 4 # 2 /\ 4 # 3
        OBVIOUS
      <3>. QED
        BY <3>1, <3>2, <1>4
    <2> HIDE DEF u
    <2>4. Goal(u)
      <3>1. Ranked(u)
        BY <2>2, <1>2, <1>3, <1>8 DEF Before, Ranked
      <3>2. \A k \in 1 .. 4 : \E j \in 1 .. 4 : u[k] = v[j]
        BY <2>2, <1>4
      <3>. QED
        BY <3>1, <3>2, <2>2
    <2>. QED
      BY <2>1, <2>4
  <1>9. CASE v[1][1] # v[2][1] /\ v[2][1] # v[3][1] /\ v[3][1] = v[4][1]
    <2> DEFINE u == rank2sids(v, 3)
    <2>1. w = u
      BY <1>9 DEF rank_sorted_ids
    <2>2. /\ u \in Lists /\ u[1] = v[1] /\ u[2] = v[2]
          /\ (u[3] = v[3] /\ u[4] = v[4]) \/ (u[3] = v[4] /\ u[4] = v[3])
          /\ u[3][2] > u[4][2]
      <3>1. /\ u \in Lists
            /\ \A k \in 1 .. 4 : k # 3 /\ k # 3 + 1 => u[k] = v[k]
            /\ (u[3] = v[3] /\ u[3 + 1] = v[3 + 1]) \/ (u[3] = v[3 + 1] /\ u[3 + 1] = v[3])
            /\ u[3][2] > u[3 + 1][2]
        BY <1>4, RankTwo
      <3>2. 3 + 1 = 4 /\ 1 # 3 /\ 1 # 4 /\ 2 # 3 /\ 2 # 4
        OBVIOUS
      <3>. QED
        BY <3>1, <3>2, <1>4
    <2> HIDE DEF u
    <2>4. Goal(u)
      <3>1. Ranked(u)
        BY <2>2, <1>2, <1>3, <1>9 DEF Before, Ranked
      <3>2. \A k \in 1 .. 4 : \E j \in 1 .. 4 : u[k] = v[j]
        BY <2>2, <1>4
      <3>. QED
        BY <3>1, <3>2, <2>2
    <2>. QED
      BY <2>1, <2>4
  <1>10. CASE /\ v[3][1] # v[4][1]
              /\ ~(v[1][1] = v[2][1] /\ v[1][1] = v[3][1])
              /\ ~(v[1][1] # v[2][1] /\ v[2][1] = v[3][1])
    <2>1. w = v
      BY <1>10 DEF rank_sorted_ids
    <2>2. v[2][1] # v[3][1]
      BY <1>10
    <2>3. Ranked(v)
      BY <2>2, <1>10, <1>2, <1>3 DEF Before, Ranked
    <2>. QED
      BY <2>1, <2>3
  <1>. QED
    BY <1>2, <1>3, <1>5, <1>6, <1>7, <1>8, <1>9, <1>10

\* Sorted() has each suit once, with its own length, and in that order.
LEMMA SortedSuits ==
  ASSUME NEW len \in [Suits -> Int], \E s, u \in Suits : len[s] # len[u]
  PROVE  LET w == Sorted(len)
         IN  /\ w \in Lists
             /\ \A k \in 1 .. 4 : w[k][2] \in Suits /\ w[k][1] = len[w[k][2]]
             /\ \A s \in Suits : \E k \in 1 .. 4 : w[k][2] = s
             /\ Ranked(w)
  <1> DEFINE a == <<len[0], 0>>
             b == <<len[1], 1>>
             c == <<len[2], 2>>
             d == <<len[3], 3>>
             v == didxsort4(<<a, b, c, d>>)
             w == rank_sorted_ids(v)
  <1>1. [i \in 1 .. 4 |-> <<len[i - 1], i - 1>>] = <<a, b, c, d>>
    OBVIOUS
  <1>2. Sorted(len) = w
    BY <1>1 DEF Sorted
  <1>3. /\ Differ(a, b, c, d)
        /\ a[1] \in Int /\ b[1] \in Int /\ c[1] \in Int /\ d[1] \in Int
    BY FourSuits DEF Differ
  <1> DEFINE S == {a, b, c, d}
  <1>4. \A x \in S : x \in Int \X Int /\ x[2] \in Suits /\ x[1] = len[x[2]] /\ x[1] \in Int
    BY FourSuits
  <1>5. \A x, y \in S : x # y => x[2] # y[2]
    OBVIOUS
  <1>6. PICK p, q, r, s \in S :
            /\ v = <<p, q, r, s>>
            /\ Differ(p, q, r, s)
            /\ p[1] >= q[1] /\ q[1] >= r[1] /\ r[1] >= s[1]
    <2> HIDE DEF a, b, c, d
    <2>1. Descends(v, S)
      BY <1>3, DidxSort
    <2> HIDE DEF v, S
    <2>. QED
      BY <2>1 DEF Descends
  <1> HIDE DEF a, b, c, d, S, v
  <1>7. /\ v \in [1 .. 4 -> S] /\ v[1] = p /\ v[2] = q /\ v[3] = r /\ v[4] = s
    BY <1>6
  <1>8. v \in Lists
    <2>1. v \in [1 .. 4 -> Int \X Int]
      BY <1>4, <1>7
    <2>2. \A i, j \in 1 .. 4 : i # j => v[i][2] # v[j][2]
      <3> SUFFICES ASSUME NEW i \in 1 .. 4, NEW j \in 1 .. 4, i # j
                   PROVE  v[i][2] # v[j][2]
        OBVIOUS
      <3>1. v[i] # v[j]
        BY <1>6, <1>7 DEF Differ
      <3>. QED
        BY <3>1, <1>5, <1>7
    <2>. QED
      BY <2>1, <2>2 DEF Lists
  <1>9. Falling(v)
    BY <1>6, <1>7 DEF Falling
  <1>10. v[1][1] # v[4][1]
    <2>1. \A x \in S : x = p \/ x = q \/ x = r \/ x = s
      BY <1>6 DEF S, Differ
    <2>2. CASE p[1] = s[1]
      <3>1. \A x, y \in S : x[1] = y[1]
        <4>1. p[1] = q[1] /\ q[1] = r[1] /\ r[1] = s[1]
          BY <2>2, <1>4, <1>6
        <4>. QED
          BY <4>1, <2>1
      <3>2. \A x, y \in Suits : len[x] = len[y]
        BY <3>1, FourSuits DEF S, a, b, c, d
      <3>. QED
        BY <3>2
    <2>. QED
      BY <2>2, <1>7
  <1>11. /\ w \in Lists
         /\ \A k \in 1 .. 4 : \E j \in 1 .. 4 : w[k] = v[j]
         /\ Ranked(w)
    BY <1>8, <1>9, <1>10, RankSorted
  <1> HIDE DEF w
  <1>12. \A k \in 1 .. 4 : w[k] \in S
    BY <1>7, <1>11
  <1>13. \A k \in 1 .. 4 : w[k][2] \in Suits /\ w[k][1] = len[w[k][2]]
    BY <1>4, <1>12
  <1>14. \A z \in Suits : \E k \in 1 .. 4 : w[k][2] = z
    <2>1. /\ w[1][2] \in {0, 1, 2, 3} /\ w[2][2] \in {0, 1, 2, 3}
          /\ w[3][2] \in {0, 1, 2, 3} /\ w[4][2] \in {0, 1, 2, 3}
      BY <1>13, FourSuits
    <2>2. Differ(w[1][2], w[2][2], w[3][2], w[4][2])
      BY <1>11 DEF Lists, Differ
    <2>3. \A z \in {0, 1, 2, 3} : z = w[1][2] \/ z = w[2][2] \/ z = w[3][2] \/ z = w[4][2]
      BY <2>1, <2>2 DEF Differ
    <2>. QED
      BY <2>3, FourSuits
  <1>. QED
    BY <1>2, <1>11, <1>13, <1>14

-----------------------------------------------------------------------------
(* Choosing a trump suit *)

\* What the two hands have in a suit.
SideLength(p, s) == hs_length(p[0], s) + hs_length(p[1], s)

\* The two hands of a side: lengths and points are numbers, each hand has thirteen
\* cards.
ASide(p) ==
    /\ \A h \in Hands : \A s \in Suits : hs_length(p[h], s) \in Nat /\ hs_points(p[h], s) \in Nat
    /\ \A h \in Hands : hs_length(p[h], 0) + hs_length(p[h], 1) + hs_length(p[h], 2) + hs_length(p[h], 3) = 13

\* Suit s is as good a trump suit as r: a major before a minor, then the more even,
\* then the one with fewer points.
AsGood(p, s, r) ==
    \/ ISMAJOR(s) /\ ~ISMAJOR(r)
    \/ /\ ISMAJOR(s) <=> ISMAJOR(r)
       /\ \/ Uneven(p, s) < Uneven(p, r)
          \/ Uneven(p, s) = Uneven(p, r) /\ SidePoints(p, s) <= SidePoints(p, r)

\* Of a side's lengths: a suit that is three cards longer in one hand has not six, and
\* the four make up twenty-six.
LEMMA SideNumbers ==
  ASSUME NEW p, ASide(p)
  PROVE  /\ \A s \in Suits : SideLength(p, s) \in Nat /\ SidePoints(p, s) \in Nat /\ Uneven(p, s) \in Nat
         /\ \A s \in Suits : Uneven(p, s) = 3 => SideLength(p, s) # 6
         /\ SideLength(p, 0) + SideLength(p, 1) + SideLength(p, 2) + SideLength(p, 3) = 26
  <1>1. 0 \in Hands /\ 1 \in Hands
    BY DEF Hands
  <1>2. \A s \in Suits : /\ hs_length(p[0], s) \in Nat /\ hs_length(p[1], s) \in Nat
                         /\ hs_points(p[0], s) \in Nat /\ hs_points(p[1], s) \in Nat
    BY <1>1 DEF ASide
  <1>3. /\ hs_length(p[0], 0) + hs_length(p[0], 1) + hs_length(p[0], 2) + hs_length(p[0], 3) = 13
        /\ hs_length(p[1], 0) + hs_length(p[1], 1) + hs_length(p[1], 2) + hs_length(p[1], 3) = 13
    BY <1>1 DEF ASide
  <1>4. \A s \in Suits : SideLength(p, s) \in Nat /\ SidePoints(p, s) \in Nat /\ Uneven(p, s) \in Nat
    BY <1>2 DEF SideLength, SidePoints, Uneven, Larger
  <1>5. \A s \in Suits : Uneven(p, s) = 3 => SideLength(p, s) # 6
    BY <1>2 DEF SideLength, Uneven, Larger
  <1>. QED
    BY <1>2, <1>3, <1>4, <1>5, FourSuits DEF SideLength

\* picksuit() has the better of two suits that are as uneven.
LEMMA PickSuit ==
  ASSUME NEW p, ASide(p), NEW x \in Suits, NEW y \in Suits, Uneven(p, x) = Uneven(p, y)
  PROVE  LET t == picksuit(x, y, p)
         IN  t \in {x, y} /\ AsGood(p, t, x) /\ AsGood(p, t, y)
  <1>1. /\ SidePoints(p, x) \in Nat /\ SidePoints(p, y) \in Nat
    BY SideNumbers
  <1>2. x \in Int /\ y \in Int
    BY FourSuits
  <1>3. picksuit(x, y, p) =
           IF (x >= 2) # (y >= 2) THEN (IF x >= 2 THEN x ELSE y)
           ELSE IF SidePoints(p, x) <= SidePoints(p, y) THEN x ELSE y
    BY DEF picksuit, ISMAJOR, HEARTS
  <1>. QED
    BY <1>1, <1>2, <1>3, SideNumbers DEF AsGood, ISMAJOR, HEARTS

\* choose_fit() has the better of the first two suits.
LEMMA ChooseFit ==
  ASSUME NEW p, ASide(p), NEW w, w[1][2] \in Suits, w[2][2] \in Suits
  PROVE  LET t == choose_fit(w, p)
         IN  t \in {w[1][2], w[2][2]} /\ AsGood(p, t, w[1][2]) /\ AsGood(p, t, w[2][2])
  <1>1. /\ SidePoints(p, w[1][2]) \in Nat /\ SidePoints(p, w[2][2]) \in Nat
        /\ Uneven(p, w[1][2]) \in Nat /\ Uneven(p, w[2][2]) \in Nat
    BY SideNumbers
  <1> DEFINE x == w[1][2]
             y == w[2][2]
  <1>2. x \in Int /\ y \in Int
    BY FourSuits
  <1>3. choose_fit(w, p) =
           IF (x >= 2) # (y >= 2) THEN (IF x >= 2 THEN x ELSE y)
           ELSE IF Uneven(p, x) # Uneven(p, y) THEN (IF Uneven(p, x) < Uneven(p, y) THEN x ELSE y)
           ELSE IF SidePoints(p, x) <= SidePoints(p, y) THEN x ELSE y
    BY DEF choose_fit, ISMAJOR, HEARTS
  <1> HIDE DEF x, y
  <1>4. LET t == choose_fit(w, p) IN t \in {x, y} /\ AsGood(p, t, x) /\ AsGood(p, t, y)
    BY <1>1, <1>2, <1>3 DEF AsGood, ISMAJOR, HEARTS, x, y
  <1>. QED
    BY <1>4 DEF x, y

\* choose_7fit() has the best 5-2 among the first three, or says there is none.
LEMMA Choose7fit ==
  ASSUME NEW p, ASide(p), NEW w, w[1][2] \in Suits, w[2][2] \in Suits, w[3][2] \in Suits
  PROVE  LET t == choose_7fit(w, p)
             F == {s \in {w[1][2], w[2][2], w[3][2]} : Uneven(p, s) = 3}
         IN  /\ F = {} => t = -1
             /\ F # {} => t \in F /\ \A s \in F : AsGood(p, t, s)
  <1> DEFINE a == w[1][2]
             b == w[2][2]
             c == w[3][2]
             t == choose_7fit(w, p)
             T(s) == Uneven(p, s) = 3
             F == {s \in {a, b, c} : Uneven(p, s) = 3}
  <1>1. \A s \in Suits : SidePoints(p, s) \in Nat /\ Uneven(p, s) \in Nat
    BY SideNumbers
  <1>2. \A s \in Suits : AsGood(p, s, s)
    BY <1>1 DEF AsGood
  <1>3. \A s, r, q \in Suits : T(s) /\ T(r) /\ T(q) /\ AsGood(p, s, r) /\ AsGood(p, r, q) => AsGood(p, s, q)
    BY <1>1 DEF AsGood
  <1>4. t = CASE T(a) /\ T(b) /\ T(c) -> picksuit(a, picksuit(b, c, p), p)
              [] T(a) /\ T(b) /\ ~T(c) -> picksuit(a, b, p)
              [] T(a) /\ ~T(b) /\ T(c) -> picksuit(a, c, p)
              [] ~T(a) /\ T(b) /\ T(c) -> picksuit(b, c, p)
              [] T(a) /\ ~T(b) /\ ~T(c) -> a
              [] ~T(a) /\ T(b) /\ ~T(c) -> b
              [] ~T(a) /\ ~T(b) /\ T(c) -> c
              [] OTHER -> -1
    BY DEF choose_7fit
  <1>5. \A x, y \in Suits : T(x) /\ T(y) =>
           picksuit(x, y, p) \in {x, y} /\ AsGood(p, picksuit(x, y, p), x) /\ AsGood(p, picksuit(x, y, p), y)
    BY PickSuit
  <1>6. a \in Suits /\ b \in Suits /\ c \in Suits
    OBVIOUS
  <1> DEFINE Ta == Uneven(p, a) = 3
             Tb == Uneven(p, b) = 3
             Tc == Uneven(p, c) = 3
  <1>7. CASE T(a) /\ T(b) /\ T(c)
    <2> DEFINE y == picksuit(b, c, p)
    <2>1. t = picksuit(a, y, p)
      BY <1>4, <1>7
    <2>2. y \in {b, c} /\ AsGood(p, y, b) /\ AsGood(p, y, c)
      BY <1>5, <1>6, <1>7
    <2>3. t \in {a, y} /\ AsGood(p, t, a) /\ AsGood(p, t, y)
      BY <1>5, <1>6, <1>7, <2>1, <2>2
    <2>4. T(t) /\ T(y) /\ t \in Suits /\ y \in Suits /\ t \in {a, b, c}
      BY <1>6, <1>7, <2>2, <2>3
    <2>5. AsGood(p, t, b) /\ AsGood(p, t, c)
      BY <1>3, <1>6, <1>7, <2>2, <2>3, <2>4
    <2>. QED
      BY <2>3, <2>4, <2>5
  <1>8. CASE T(a) /\ T(b) /\ ~T(c)
    <2>1. t = picksuit(a, b, p)
      BY <1>4, <1>8
    <2>. QED
      BY <2>1, <1>5, <1>6, <1>8
  <1>9. CASE T(a) /\ ~T(b) /\ T(c)
    <2>1. t = picksuit(a, c, p)
      BY <1>4, <1>9
    <2>. QED
      BY <2>1, <1>5, <1>6, <1>9
  <1>10. CASE ~T(a) /\ T(b) /\ T(c)
    <2>1. t = picksuit(b, c, p)
      BY <1>4, <1>10
    <2>. QED
      BY <2>1, <1>5, <1>6, <1>10
  <1>11. CASE T(a) /\ ~T(b) /\ ~T(c)
    <2>1. t = a
      BY <1>4, <1>11
    <2>. QED
      BY <2>1, <1>2, <1>6, <1>11
  <1>12. CASE ~T(a) /\ T(b) /\ ~T(c)
    <2>1. t = b
      BY <1>4, <1>12
    <2>. QED
      BY <2>1, <1>2, <1>6, <1>12
  <1>13. CASE ~T(a) /\ ~T(b) /\ T(c)
    <2>1. t = c
      BY <1>4, <1>13
    <2>. QED
      BY <2>1, <1>2, <1>6, <1>13
  <1>14. CASE ~T(a) /\ ~T(b) /\ ~T(c)
    <2>1. t = -1
      BY <1>4, <1>14
    <2>. QED
      BY <2>1, <1>14
  <1>. QED
    BY <1>7, <1>8, <1>9, <1>10, <1>11, <1>12, <1>13, <1>14

\* The suits that may be trumps: of the side's longest ones, of m cards.
LongFits(p, m) == {s \in Suits : SideLength(p, s) = m /\ (m >= 8 \/ Uneven(p, s) = 3)}

\* BestFit() has the best of all suits that may be trumps, though it looks at two or
\* three of them: three suits of eight cards or more are ranked, so that the third is
\* a minor when the first is not better than it.
LEMMA BestFitRight ==
  ASSUME NEW p, ASide(p), NEW w \in Lists, Ranked(w),
         \A k \in 1 .. 4 : w[k][2] \in Suits /\ w[k][1] = SideLength(p, w[k][2]),
         \A s \in Suits : \E k \in 1 .. 4 : w[k][2] = s
  PROVE  LET t == BestFit(w, p)
             m == w[1][1]
         IN  /\ m >= 7 /\ \A s \in Suits : SideLength(p, s) <= m
             /\ LongFits(p, m) = {} => t = -1
             /\ LongFits(p, m) # {} => t \in LongFits(p, m) /\ \A s \in LongFits(p, m) : AsGood(p, t, s)
  <1> DEFINE a == w[1][2]
             b == w[2][2]
             c == w[3][2]
             d == w[4][2]
             L(s) == SideLength(p, s)
             m == w[1][1]
             t == BestFit(w, p)
  <1>1. /\ a \in Suits /\ b \in Suits /\ c \in Suits /\ d \in Suits
        /\ w[1][1] = L(a) /\ w[2][1] = L(b) /\ w[3][1] = L(c) /\ w[4][1] = L(d)
    OBVIOUS
  <1>2. a # b /\ a # c /\ a # d /\ b # c /\ b # d /\ c # d
    BY DEF Lists
  <1>3. \A s \in Suits : s = a \/ s = b \/ s = c \/ s = d
    OBVIOUS
  <1>4. \A s \in Suits : L(s) \in Nat /\ SidePoints(p, s) \in Nat /\ Uneven(p, s) \in Nat
    BY SideNumbers
  <1>5. \A s \in Suits : Uneven(p, s) = 3 => L(s) # 6
    BY SideNumbers
  <1>6. L(0) + L(1) + L(2) + L(3) = 26
    BY SideNumbers
  <1>7. a \in Int /\ b \in Int /\ c \in Int /\ d \in Int
    BY <1>1, FourSuits
  <1>8. /\ L(a) >= L(b)
        /\ L(b) > L(c) \/ (L(b) = L(c) /\ b > c)
        /\ L(c) > L(d) \/ (L(c) = L(d) /\ c > d)
        /\ L(b) = L(c) \/ L(c) = L(d) => L(a) > L(b) \/ (L(a) = L(b) /\ a > b)
    BY <1>1 DEF Ranked, Before
  <1>9. L(a) + L(b) + L(c) + L(d) = 26
    <2> HIDE DEF a, b, c, d, L
    <2>. QED
      BY <1>1, <1>2, <1>4, <1>6, FourSuits
  <1>10. /\ L(a) \in Nat /\ L(b) \in Nat /\ L(c) \in Nat /\ L(d) \in Nat
         /\ Uneven(p, a) \in Nat /\ Uneven(p, b) \in Nat /\ Uneven(p, c) \in Nat /\ Uneven(p, d) \in Nat
    BY <1>1, <1>4
  <1>11. t = IF L(a) > L(b) THEN a
             ELSE IF L(a) = 7 THEN choose_7fit(w, p) ELSE choose_fit(w, p)
    BY <1>1 DEF BestFit
  <1> DEFINE F == LongFits(p, m)
             cf == choose_fit(w, p)
             c7 == choose_7fit(w, p)
             F7 == {s \in {a, b, c} : Uneven(p, s) = 3}
  <1>12. cf \in {a, b} /\ AsGood(p, cf, a) /\ AsGood(p, cf, b)
    BY <1>1, ChooseFit
  <1>13. /\ F7 = {} => c7 = -1
         /\ F7 # {} => c7 \in F7 /\ \A s \in F7 : AsGood(p, c7, s)
    BY <1>1, Choose7fit
  <1> HIDE DEF t, cf, c7
  <1>14. m = L(a)
    BY <1>1
  <1> HIDE DEF m
  <1>15. F = {s \in Suits : L(s) = m /\ (m >= 8 \/ Uneven(p, s) = 3)}
    BY DEF LongFits
  <1> HIDE DEF F
  <1>16. m >= 7 /\ \A s \in Suits : L(s) <= m
    <2>1. L(a) >= 7 /\ L(b) <= L(a) /\ L(c) <= L(a) /\ L(d) <= L(a)
      <3> HIDE DEF a, b, c, d, L
      <3>. QED
        BY <1>8, <1>9, <1>10
    <2>. QED
      BY <2>1, <1>3, <1>14, <1>10
  <1>17. AsGood(p, a, a) /\ AsGood(p, b, b) /\ AsGood(p, c, c)
    BY <1>1, <1>4 DEF AsGood
  <1>18. CASE L(a) > L(b)
    <2>1. t = a
      BY <1>11, <1>18
    <2>2. L(a) >= 8 /\ L(c) < L(a) /\ L(d) < L(a)
      <3> HIDE DEF a, b, c, d, L
      <3>. QED
        BY <1>8, <1>9, <1>10, <1>18
    <2>3. F = {a}
      <3> HIDE DEF a, b, c, d, L
      <3>. QED
        BY <2>2, <1>1, <1>3, <1>10, <1>14, <1>15, <1>18
    <2>. QED
      BY <2>1, <2>3, <1>16, <1>17 DEF F, t, m
  <1>19. CASE ~(L(a) > L(b)) /\ L(a) = 7
    <2>1. t = c7
      BY <1>11, <1>19 DEF c7
    <2>2. L(b) = 7 /\ L(d) < 7 /\ (L(c) = 7 \/ L(c) = 6)
      <3> HIDE DEF a, b, c, d, L
      <3>. QED
        BY <1>8, <1>9, <1>10, <1>19
    <2>3. F = F7
      <3>1. \A s \in F : s \in F7
        BY <2>2, <1>3, <1>14, <1>15, <1>19
      <3>2. \A s \in F7 : s \in F
        BY <2>2, <1>1, <1>5, <1>14, <1>15, <1>19
      <3>. QED
        BY <3>1, <3>2
    <2>. QED
      BY <2>1, <2>3, <1>13, <1>16 DEF F, t, m
  <1>20. CASE ~(L(a) > L(b)) /\ L(a) # 7
    <2>1. t = cf
      BY <1>11, <1>20 DEF cf
    <2>2. L(b) = L(a) /\ L(a) >= 8 /\ L(d) < L(a)
      <3> HIDE DEF a, b, c, d, L
      <3>. QED
        BY <1>8, <1>9, <1>10, <1>14, <1>16, <1>20
    <2>3. F = IF L(c) = L(a) THEN {a, b, c} ELSE {a, b}
      <3>1. F = {s \in Suits : L(s) = L(a)}
        BY <2>2, <1>14, <1>15
      <3> HIDE DEF a, b, c, d, L
      <3>. QED
        BY <3>1, <2>2, <1>1, <1>3, <1>10
    <2>4. L(c) = L(a) => AsGood(p, cf, c)
      <3> SUFFICES ASSUME L(c) = L(a) PROVE AsGood(p, cf, c)
        OBVIOUS
      <3>1. a > b /\ b > c
        <4> HIDE DEF a, b, c, d, L
        <4>. QED
          BY <2>2, <1>8, <1>10
      <3>2. ISMAJOR(a) /\ (ISMAJOR(c) => FALSE)
        BY <3>1, <1>1, FourSuits DEF ISMAJOR, HEARTS
      <3>3. ISMAJOR(cf)
        BY <3>2, <1>7, <1>12 DEF AsGood
      <3>. QED
        BY <3>2, <3>3 DEF AsGood
    <2>. QED
      BY <2>1, <2>2, <2>3, <2>4, <1>12, <1>16 DEF F, t, m
  <1>. QED
    BY <1>18, <1>19, <1>20

\* The largest of a set of numbers.
LEMMA MaxIs ==
  ASSUME NEW S, NEW m \in S, S \subseteq Int, \A x \in S : x <= m
  PROVE  Max(S) = m
  <1>1. m \in S /\ \A y \in S : m >= y
    OBVIOUS
  <1>2. Max(S) \in S /\ \A y \in S : Max(S) >= y
    BY <1>1 DEF Max
  <1>3. m \in Int /\ Max(S) \in Int
    BY <1>2
  <1>4. Max(S) >= m /\ Max(S) <= m
    BY <1>1, <1>2, <1>3
  <1>. QED
    BY <1>3, <1>4

\* What analyze_side() keeps of the side p, part by part.
SideOf(p, ss) ==
    LET t == ss.t_suit
    IN  /\ ss.phs = p
        /\ t = BestFit(Sorted([s \in Suits |-> hs_length(p[0], s) + hs_length(p[1], s)]), p)
        /\ ss.t_len = [h \in Hands |-> IF t < 0 THEN 0 ELSE hs_length(p[h], t)]
        /\ ss.t_fitlen = IF t < 0 THEN 7 ELSE ss.t_len[0] + ss.t_len[1]
        /\ ss.sorted = [h \in Hands |-> Sorted([s \in Suits |-> hs_length(p[h], s)])]
        /\ ss.pav_body = [h \in Hands |-> Pav_body_val(p[h])]
        /\ ss.decl_h = SetDeclarer(ss.t_len, p) /\ ss.dummy_h = 1 - ss.decl_h

LEMMA SideParts ==
  ASSUME NEW p
  PROVE  SideOf(p, analyze_side(p))
  <1> DEFINE ss == analyze_side(p)
             fits == Sorted([s \in Suits |-> hs_length(p[0], s) + hs_length(p[1], s)])
             t == BestFit(fits, p)
             tl == [h \in Hands |-> IF t < 0 THEN 0 ELSE hs_length(p[h], t)]
             long == IF t < 0 THEN 7 ELSE tl[0] + tl[1]
             decl == SetDeclarer(tl, p)
             by == [h \in Hands |-> Sorted([s \in Suits |-> hs_length(p[h], s)])]
             pav == [h \in Hands |-> Pav_body_val(p[h])]
  <1>1. ss = [phs |-> p, t_suit |-> t, t_fitlen |-> long, t_len |-> tl, fits |-> fits,
              sorted |-> by, decl_h |-> decl, dummy_h |-> 1 - decl, pav_body |-> pav]
    BY Zenon DEF analyze_side
  <1>2. long = IF t < 0 THEN 7 ELSE tl[0] + tl[1]
    OBVIOUS
  <1> HIDE DEF ss, fits, t, tl, long, decl, by, pav
  <1>3. /\ ss.phs = p /\ ss.t_suit = t /\ ss.t_fitlen = long /\ ss.t_len = tl
        /\ ss.sorted = by /\ ss.decl_h = decl /\ ss.dummy_h = 1 - decl /\ ss.pav_body = pav
    BY <1>1
  <1>4. ss.t_suit = BestFit(fits, p)
    BY <1>3 DEF t
  <1>5. ss.t_len = [h \in Hands |-> IF ss.t_suit < 0 THEN 0 ELSE hs_length(p[h], ss.t_suit)]
    BY Zenon, <1>3 DEF tl
  <1>6. ss.t_fitlen = IF ss.t_suit < 0 THEN 7 ELSE ss.t_len[0] + ss.t_len[1]
    BY Zenon, <1>2, <1>3
  <1>7. ss.decl_h = SetDeclarer(ss.t_len, p) /\ ss.dummy_h = 1 - ss.decl_h
    BY <1>3 DEF decl
  <1>8. /\ ss.sorted = [h \in Hands |-> Sorted([s \in Suits |-> hs_length(p[h], s)])]
        /\ ss.pav_body = [h \in Hands |-> Pav_body_val(p[h])]
    BY <1>3 DEF by, pav
  <1>. QED
    BY Zenon, <1>3, <1>4, <1>5, <1>6, <1>7, <1>8 DEF ss, fits, SideOf

\* What analyze_side() makes of two hands.
LEMMA SuitOf ==
  ASSUME NEW p, ASide(p)
  PROVE  LET t == analyze_side(p).t_suit
         IN  \E m \in Nat :
                /\ m >= 7 /\ \A s \in Suits : SideLength(p, s) <= m
                /\ \E s \in Suits : SideLength(p, s) = m
                /\ LongFits(p, m) = {} => t = -1
                /\ LongFits(p, m) # {} => t \in LongFits(p, m) /\ \A s \in LongFits(p, m) : AsGood(p, t, s)
  <1> DEFINE len == [s \in Suits |-> SideLength(p, s)]
             w == Sorted(len)
             t == analyze_side(p).t_suit
  <1>1. len \in [Suits -> Int] /\ \A s \in Suits : len[s] = SideLength(p, s)
    BY SideNumbers
  <1>2. \E s, u \in Suits : len[s] # len[u]
    <2>1. len[0] + len[1] + len[2] + len[3] = 26 /\ 0 \in Suits /\ 1 \in Suits /\ 2 \in Suits /\ 3 \in Suits
      BY <1>1, SideNumbers, FourSuits
    <2>2. len[0] \in Int /\ len[1] \in Int /\ len[2] \in Int /\ len[3] \in Int
      BY <1>1, <2>1
    <2> HIDE DEF len
    <2>3. ~(len[0] = len[1] /\ len[0] = len[2] /\ len[0] = len[3])
      BY <2>1, <2>2
    <2>. QED
      BY <2>1, <2>3
  <1>3. t = BestFit(w, p)
    BY Zenon, SideParts DEF SideLength, SideOf
  <1> HIDE DEF len, t
  <1>4. /\ w \in Lists
        /\ \A k \in 1 .. 4 : w[k][2] \in Suits /\ w[k][1] = len[w[k][2]]
        /\ \A s \in Suits : \E k \in 1 .. 4 : w[k][2] = s
        /\ Ranked(w)
    BY <1>1, <1>2, SortedSuits
  <1> HIDE DEF w
  <1>5. \A k \in 1 .. 4 : w[k][2] \in Suits /\ w[k][1] = SideLength(p, w[k][2])
    BY <1>1, <1>4
  <1> DEFINE m == w[1][1]
  <1>6. /\ m >= 7 /\ \A s \in Suits : SideLength(p, s) <= m
        /\ LongFits(p, m) = {} => t = -1
        /\ LongFits(p, m) # {} => t \in LongFits(p, m) /\ \A s \in LongFits(p, m) : AsGood(p, t, s)
    BY <1>3, <1>4, <1>5, BestFitRight
  <1>7. m \in Nat /\ \E s \in Suits : SideLength(p, s) = m
    BY <1>5, SideNumbers
  <1>. QED
    BY <1>6, <1>7 DEF t

\* The hands of a deal are a side's.
LEMMA DealsAreSides ==
  ASSUME NEW i \in DOMAIN Deals
  PROVE  ASide(Deals[i])
  <1>1. \A h \in Hands : \A s \in Suits : Deals[i][h][s] \subseteq 0 .. ACE
    BY DealsAssumption
  <1>2. \A h \in Hands : \A s \in Suits : hs_length(Deals[i][h], s) \in Nat
    <2> SUFFICES ASSUME NEW h \in Hands, NEW s \in Suits PROVE hs_length(Deals[i][h], s) \in Nat
      OBVIOUS
    <2>1. IsFiniteSet(0 .. ACE)
      <3>1. 0 \in Int /\ ACE \in Int
        BY DEF ACE
      <3>. QED
        BY <3>1, FS_Interval
    <2>2. IsFiniteSet(Deals[i][h][s])
      BY <1>1, <2>1, FS_Subset
    <2>. QED
      BY <2>2, FS_CardinalityType DEF hs_length
  <1>3. \A h \in Hands : \A s \in Suits : hs_points(Deals[i][h], s) \in Nat
    BY DEF hs_points, If
  <1>4. \A h \in Hands : hs_length(Deals[i][h], 0) + hs_length(Deals[i][h], 1)
                         + hs_length(Deals[i][h], 2) + hs_length(Deals[i][h], 3) = 13
    BY DealsAssumption DEF Sum4, CLUBS, DIAMONDS, HEARTS, SPADES
  <1>. QED
    BY <1>2, <1>3, <1>4 DEF ASide

\* For any deal.
LEMMA Chosen ==
  ASSUME deal \in DOMAIN Deals
  PROVE  BestFitChosen
  <1> DEFINE p == Deals[deal]
             t == analyze_side(p).t_suit
             fl == analyze_side(p).t_fitlen
             len(s) == hs_length(p[0], s) + hs_length(p[1], s)
  <1>1. ASide(p)
    BY DealsAreSides
  <1>2. Side[deal] = analyze_side(p)
    BY DEF Side
  <1>3. PICK m \in Nat :
            /\ m >= 7 /\ \A s \in Suits : SideLength(p, s) <= m
            /\ \E s \in Suits : SideLength(p, s) = m
            /\ LongFits(p, m) = {} => t = -1
            /\ LongFits(p, m) # {} => t \in LongFits(p, m) /\ \A s \in LongFits(p, m) : AsGood(p, t, s)
    BY <1>1, SuitOf
  <1>4. \A s \in Suits : len(s) = SideLength(p, s) /\ SideLength(p, s) \in Nat
    BY <1>1, SideNumbers DEF SideLength
  <1>5. fl = IF t < 0 THEN 7 ELSE hs_length(p[0], t) + hs_length(p[1], t)
    BY DEF analyze_side, Hands
  <1> HIDE DEF p, t, fl
  <1>6. Max({len(s) : s \in Suits}) = m
    <2>1. m \in {len(s) : s \in Suits}
      BY <1>3, <1>4
    <2>2. {len(s) : s \in Suits} \subseteq Int /\ \A x \in {len(s) : s \in Suits} : x <= m
      BY <1>3, <1>4
    <2> DEFINE S == {len(s) : s \in Suits}
    <2> HIDE DEF S
    <2>3. m \in S /\ S \subseteq Int /\ \A x \in S : x <= m
      BY <2>1, <2>2 DEF S
    <2>4. Max(S) = m
      BY <2>3, MaxIs
    <2>. QED
      BY <2>4 DEF S
  <1> DEFINE long == {s \in Suits : len(s) = m /\ (m >= 8 \/ Uneven(p, s) = 3)}
             right == IF \E s \in long : ISMAJOR(s) THEN {s \in long : ISMAJOR(s)} ELSE long
             even == {s \in right : \A r \in right : Uneven(p, s) <= Uneven(p, r)}
  <1>7. long = LongFits(p, m)
    BY <1>4 DEF LongFits
  <1>8. long = {} => t = -1 /\ fl = 7
    BY <1>3, <1>5, <1>7
  <1>9. ASSUME long # {}
        PROVE  /\ t \in even
               /\ \A s \in even : SidePoints(p, t) <= SidePoints(p, s)
               /\ fl = m
    <2>1. t \in long /\ \A s \in long : AsGood(p, t, s)
      BY <1>3, <1>7, <1>9
    <2>2. t \in Suits /\ len(t) = m /\ t \in Int /\ ~(t < 0)
      BY <2>1, FourSuits
    <2>3. fl = m
      BY <2>2, <1>5
    <2>4. \A s \in Suits : SidePoints(p, s) \in Nat /\ Uneven(p, s) \in Nat
      BY <1>1, SideNumbers
    <2>5. t \in right /\ \A r \in right : r \in long /\ (ISMAJOR(t) <=> ISMAJOR(r))
      BY <2>1 DEF AsGood
    <2>6. \A r \in right : \/ Uneven(p, t) < Uneven(p, r)
                           \/ Uneven(p, t) = Uneven(p, r) /\ SidePoints(p, t) <= SidePoints(p, r)
      BY <2>1, <2>5 DEF AsGood
    <2>7. \A r \in right : r \in Suits
      BY <2>5
    <2> HIDE DEF long, right
    <2>8. t \in even
      BY <2>4, <2>5, <2>6, <2>7
    <2>9. \A s \in even : SidePoints(p, t) <= SidePoints(p, s)
      BY <2>4, <2>5, <2>6, <2>7
    <2>. QED
      BY <2>3, <2>8, <2>9
  <1>10. BestFitChosen =
           (IF long = {} THEN t = -1 /\ fl = 7
            ELSE /\ t \in even
                 /\ \A s \in even : SidePoints(p, t) <= SidePoints(p, s)
                 /\ fl = m)
    BY <1>2, <1>6 DEF BestFitChosen, phs, p, t, fl
  <1>. QED
    BY <1>8, <1>9, <1>10

\* The trump suit is the one the rules name, whatever the order in which the code
\* sorted and compared the four.
THEOREM BestFits == Spec => []BestFitChosen
  <1> DEFINE Inv == deal \in DOMAIN Deals
  <1>1. Init => Inv
    BY DEF Init
  <1>2. Inv /\ [Next]_vars => Inv'
    BY DEF Next, NewDeal, Query, userfunc, vars
  <1>3. Inv => BestFitChosen
    BY Chosen
  <1>. QED
    BY <1>1, <1>2, <1>3, PTL DEF Spec

-----------------------------------------------------------------------------
(* Four C's *)

\* A list behind another.
LEMMA Joined ==
  ASSUME NEW S, NEW s \in Seq(S), NEW t \in Seq(S)
  PROVE  /\ s \o t \in Seq(S)
         /\ Len(s \o t) = Len(s) + Len(t)
         /\ \A k \in 1 .. Len(s) : (s \o t)[k] = s[k]
         /\ \A k \in 1 .. Len(t) : (s \o t)[Len(s) + k] = t[k]
  OBVIOUS

\* The fifth and the sixth of the second list.
LEMMA JoinedSix ==
  ASSUME NEW S, NEW s \in Seq(S), NEW t \in Seq(S)
  PROVE  Len(s) = 6 /\ Len(t) = 6 => (s \o t)[11] = t[5] /\ (s \o t)[12] = t[6]
  <1>1. 5 \in 1 .. Len(t) => (s \o t)[Len(s) + 5] = t[5]
    BY Joined
  <1>2. 6 \in 1 .. Len(t) => (s \o t)[Len(s) + 6] = t[6]
    BY Joined
  <1>3. Len(s) = 6 /\ Len(t) = 6 => /\ 5 \in 1 .. Len(t) /\ Len(s) + 5 = 11
                                    /\ 6 \in 1 .. Len(t) /\ Len(s) + 6 = 12
    OBVIOUS
  <1>. QED
    BY <1>1, <1>2, <1>3

\* A hand that has suits of a length has one.
LEMMA OfSome ==
  ASSUME NEW p, NEW n
  PROVE  OfLength(p, n) \in Nat /\ (OfLength(p, n) > 0 => \E s \in Suits : hs_length(p, s) = n)
  <1> DEFINE T == {s \in Suits : hs_length(p, s) = n}
  <1>1. OfLength(p, n) = Cardinality(T)
    BY DEF OfLength, Count
  <1>2. IsFiniteSet(Suits)
    <2>1. Suits = 0 .. 3 /\ 0 \in Int /\ 3 \in Int
      BY DEF Suits, CLUBS, SPADES
    <2>. QED
      BY <2>1, FS_Interval
  <1>3. IsFiniteSet(T)
    BY <1>2, FS_Subset
  <1>4. Cardinality(T) \in Nat
    BY <1>3, FS_CardinalityType
  <1>5. T = {} => Cardinality(T) = 0
    BY FS_EmptySet
  <1>. QED
    BY <1>1, <1>4, <1>5

\* Points of honors, of length and of shortness are numbers, none below zero; a
\* doubleton and a shorter suit have three hundred.
LEMMA CCCCNumbers ==
  ASSUME NEW p, ASide(p), NEW h \in Hands
  PROVE  /\ HandPoints(p[h]) \in Nat /\ Shape(p[h]) \in Nat
         /\ Doubletons(p[h]) /\ Shorter(p[h]) => Shape(p[h]) >= 300
  <1>1. /\ hs_length(p[h], 0) \in Nat /\ hs_length(p[h], 1) \in Nat
        /\ hs_length(p[h], 2) \in Nat /\ hs_length(p[h], 3) \in Nat
    BY FourSuits DEF ASide
  <1>2. \A s : HonorPoints(p[h], s) \in Nat
    BY DEF HonorPoints, If
  <1>3. \A s : hs_length(p[h], s) \in Nat => suit_quality(p[h], s) \in Nat
    <2> SUFFICES ASSUME NEW s, hs_length(p[h], s) \in Nat PROVE suit_quality(p[h], s) \in Nat
      OBVIOUS
    <2> DEFINE len == hs_length(p[h], s)
               higher == Honors(p[h], s, AKQJ)
               noQ == QUEEN \notin p[h][s]
               noJ == JACK \notin p[h][s]
               hons == 400 * If(ACE \in p[h][s], 1) + 300 * If(KING \in p[h][s], 1)
                       + 200 * If(~noQ, 1) + 100 * If(~noJ, 1) + 50 * If(TEN \in p[h][s], 1)
               long == CASE len = 7 -> If(noQ \/ noJ, 100)
                         [] len = 8 -> IF noQ THEN 200 ELSE If(noJ, 100)
                         [] len >= 9 -> If(noQ, 200) + If(noJ, 100)
                         [] OTHER -> If(TEN \in p[h][s] /\ (higher > 1 \/ ~noJ), 50)
                                     + If(/\ NINE \in p[h][s]
                                          /\ higher = 2 \/ p[h][s] \cap {EIGHT, TEN} # {}, 50)
    <2>1. hons \in Nat
      BY DEF If
    <2>2. long \in Nat
      BY DEF If
    <2>3. suit_quality(p[h], s) = ((hons + long) * len) \div 10
      BY DEF suit_quality
    <2> HIDE DEF hons, long, len
    <2>4. len \in Nat
      BY DEF len
    <2> DEFINE x == (hons + long) * len
    <2>5. x \in Nat
      BY <2>1, <2>2, <2>4
    <2> HIDE DEF x
    <2>6. x \div 10 \in Nat
      BY <2>5
    <2>. QED
      BY <2>3, <2>6 DEF x
  <1>4. HandPoints(p[h]) \in Nat
    BY <1>1, <1>2, <1>3 DEF HandPoints, Sum4, CLUBS, DIAMONDS, HEARTS, SPADES
  <1> DEFINE sp(n) == ShortPoints(n, <<300, 200, 100>>)
             len(s) == hs_length(p[h], s)
  <1>5. /\ \A n \in Nat : sp(n) \in Nat
        /\ sp(0) = 300 /\ sp(1) = 200 /\ sp(2) = 100
    <2>1. sp(0) = 300 /\ sp(1) = 200 /\ sp(2) = 100
      BY DEF ShortPoints
    <2>2. \A n \in Nat : n > 2 => sp(n) = 0
      BY DEF ShortPoints
    <2> HIDE DEF sp
    <2>3. \A n \in Nat : n > 2 \/ n = 0 \/ n = 1 \/ n = 2
      OBVIOUS
    <2>. QED
      BY <2>1, <2>2, <2>3
  <1>6. Shape(p[h]) = sp(len(0)) + sp(len(1)) + sp(len(2)) + sp(len(3))
    BY DEF Shape, ShortSuits, Sum4, CLUBS, DIAMONDS, HEARTS, SPADES
  <1> HIDE DEF sp, len
  <1>7. \A s \in Suits : sp(len(s)) \in Nat
    BY <1>5 DEF ASide, len
  <1>8. /\ sp(len(0)) \in Nat /\ sp(len(1)) \in Nat /\ sp(len(2)) \in Nat /\ sp(len(3)) \in Nat
    BY <1>7, FourSuits
  <1>9. Shape(p[h]) \in Nat
    BY <1>6, <1>8
  <1>10. ASSUME Doubletons(p[h]), Shorter(p[h])
         PROVE  Shape(p[h]) >= 300
    <2>1. PICK d \in Suits : len(d) = 2
      BY <1>10, OfSome DEF Doubletons, len
    <2>2. PICK v \in Suits : len(v) = 0 \/ len(v) = 1
      <3>1. /\ OfLength(p[h], 0) \in Nat /\ OfLength(p[h], 1) \in Nat
            /\ OfLength(p[h], 0) > 0 \/ OfLength(p[h], 1) > 0
        BY <1>10, OfSome DEF Shorter
      <3>. QED
        BY <3>1, OfSome DEF len
    <2>3. sp(len(d)) = 100 /\ sp(len(v)) >= 200 /\ d # v
      BY <2>1, <2>2, <1>5
    <2>. QED
      BY <2>3, <1>6, <1>8, FourSuits
  <1>. QED
    BY <1>4, <1>9, <1>10

\* The two programs' counts, of the same hand: the three hundred keep the deduction of
\* a hundred from being lost where a hand has less than nothing.
LEMMA KnRPoints ==
  ASSUME NEW p, ASide(p), NEW h \in Hands
  PROVE  KnR_pts_all(p[h]) = eval_cccc(p[h]) + If(Doubletons(p[h]) /\ Shorter(p[h]), 100)
  <1> DEFINE H == HandPoints(p[h])
             S == Shape(p[h])
             D == Doubletons(p[h])
             V == Shorter(p[h])
             Q == square_hand(p[h])
  <1>1. H \in Nat /\ S \in Nat /\ (D /\ V => S >= 300)
    BY CCCCNumbers
  <1>2. eval_cccc(p[h]) = Larger(0, H + S - If(D, 100) - If(Q, 50))
    BY DEF eval_cccc
  <1>3. KnR_pts_all(p[h]) = Larger(0, H + (S - If(D /\ ~V, 100)) - If(Q, 50))
    BY DEF KnR_pts_all, ShortPts
  <1> DEFINE d == If(D, 100)
             n == If(D /\ ~V, 100)
             m == If(D /\ V, 100)
             q == If(Q, 50)
  <1>4. (q = 0 \/ q = 50) /\ ((d = 0 /\ n = 0 /\ m = 0) \/ (d = 100 /\ n = 100 /\ m = 0)
                              \/ (d = 100 /\ n = 0 /\ m = 100 /\ S >= 300))
    BY <1>1 DEF If
  <1>5. KnR_pts_all(p[h]) = Larger(0, H + (S - n) - q) /\ eval_cccc(p[h]) = Larger(0, H + S - d - q)
    BY <1>2, <1>3
  <1> HIDE DEF H, S, D, V, Q, d, n, m, q
  <1>6. Larger(0, H + (S - n) - q) = Larger(0, H + S - d - q) + m
    BY <1>1, <1>4 DEF Larger
  <1>. QED
    BY <1>5, <1>6 DEF m, D, V

\* The server keeps what it found of a hand in the eleventh slot and the next.
LEMMA KnRSlots ==
  ASSUME NEW p, ASide(p), NEW h \in Hands
  PROVE  SaveUserVals(knr_calc(analyze_side(p)))[11 + h] = KnR_pts_all(p[h])
  <1> DEFINE e == knr_calc(analyze_side(p))
             tot == [i \in Hands |-> KnR_pts_all(p[i])]
             c == Clamp(Six(e))
  <1>1. analyze_side(p).phs = p
    BY Zenon, SideParts DEF SideOf
  <1>2. /\ e.misc[5] = tot[0] /\ e.misc[6] = tot[1]
        /\ \E a, b, x, y, z, u : e.misc = <<a, b, x, y, z, u>>
    BY <1>1 DEF knr_calc, UserEvals, Raw
  <1>3. tot[0] = KnR_pts_all(p[0]) /\ tot[1] = KnR_pts_all(p[1])
    BY DEF Hands
  <1>4. \E a, b, x, y, z, u : Six(e) = <<a, b, x, y, z, u>>
    BY DEF Six
  <1> DEFINE S == {c[1], c[2], c[3], c[4], c[5], c[6], e.misc[1], e.misc[2], e.misc[3],
                   e.misc[4], e.misc[5], e.misc[6]}
  <1>5. c \in Seq(S) /\ Len(c) = 6
    <2>1. DOMAIN Six(e) = 1 .. 6
      BY <1>4
    <2>2. c = [i \in 1 .. 6 |-> Larger(0, Six(e)[i])]
      BY <2>1 DEF Clamp
    <2> HIDE DEF e
    <2>3. \A i \in 1 .. 6 : c[i] \in S
      OBVIOUS
    <2> HIDE DEF S
    <2>. QED
      BY <2>2, <2>3
  <1>6. e.misc \in Seq(S) /\ Len(e.misc) = 6
    <2> HIDE DEF e, c
    <2>. QED
      BY <1>2
  <1> HIDE DEF e, c, S, tot
  <1>7. SaveUserVals(e) = c \o e.misc
    BY DEF SaveUserVals, c
  <1>8. (c \o e.misc)[11] = e.misc[5] /\ (c \o e.misc)[12] = e.misc[6]
    <2> DEFINE mi == e.misc
    <2> HIDE DEF mi
    <2>1. mi \in Seq(S) /\ c \in Seq(S) /\ Len(c) = 6 /\ Len(mi) = 6
      BY <1>5, <1>6 DEF mi
    <2>2. (c \o mi)[11] = mi[5] /\ (c \o mi)[12] = mi[6]
      BY <2>1, JoinedSix
    <2>. QED
      BY <2>2 DEF mi
  <1>9. SaveUserVals(e)[11] = KnR_pts_all(p[0]) /\ SaveUserVals(e)[12] = KnR_pts_all(p[1])
    BY <1>2, <1>3, <1>7, <1>8
  <1>10. h = 0 \/ h = 1
    BY DEF Hands
  <1>11. SaveUserVals(e)[11 + h] = KnR_pts_all(p[h])
    BY <1>9, <1>10
  <1>. QED
    BY <1>11 DEF e

\* The area holds the answer to the last query of the deal.
Answered ==
    /\ deal \in DOMAIN Deals
    /\ tag \in Tags \cup {NoTag}
    /\ tag # NoTag => res = Answer[deal][tag]

\* It does after every step.
LEMMA AnsweredStep == Answered /\ [Next]_vars => Answered'
  <1> SUFFICES ASSUME Answered, [Next]_vars PROVE Answered'
    OBVIOUS
  <1>1. CASE NewDeal
    BY <1>1 DEF NewDeal, Answered
  <1>2. CASE Query
    BY <1>2 DEF Query, userfunc, Answered
  <1>3. CASE UNCHANGED vars
    BY <1>3 DEF vars, Answered
  <1>. QED
    BY <1>1, <1>2, <1>3 DEF Next

\* So it does for four C's.
LEMMA AnsweredKnR == Answered => KnRAsCCCC
  <1> SUFFICES ASSUME Answered, tag = KnR, NEW h \in Hands
               PROVE  res[11 + h] = eval_cccc(phs[h]) + If(Doubletons(phs[h]) /\ Shorter(phs[h]), 100)
    BY DEF KnRAsCCCC
  <1> DEFINE p == Deals[deal]
  <1>1. KnR \in Tags /\ KnR # NoTag /\ KnR \in Metrics
    BY DEF Tags, Metrics, KnR, NoTag, BERGEN, ROTH
  <1>2. Answer[deal][KnR] = SaveUserVals(knr_calc(analyze_side(p)))
    <2>1. Answer[deal][KnR] = Reply(KnR, UEv[deal], Side[deal])
      BY <1>1 DEF Answer, Answered
    <2>2. Reply(KnR, UEv[deal], Side[deal]) = SaveUserVals(UEv[deal][KnR])
      BY <1>1 DEF Reply, Tags, Metrics, AltMetrics, HCPT050, OPCjgm, KnR, BERGEN, ROTH, All_UE,
         AllAlt, AllRaw, Set88, MixKar, MixLar, TestTag, Unknown
    <2>3. UEv[deal][KnR] = p_cfunc(KnR, Side[deal])
      BY <1>1 DEF UEv, Answered
    <2>4. p_cfunc(KnR, Side[deal]) = knr_calc(Side[deal])
      BY DEF p_cfunc, BERGEN, BISSEL, DKP, GOREN, KAPLAN, KARPIN, KARP_B, KnR, LAR, LAR_B, PAV,
         SHEINW, ZARBAS, ZARADV, ROTH, AltMetrics, HCPT050, OPCjgm
    <2>5. Side[deal] = analyze_side(p)
      BY DEF Side, Answered
    <2>. QED
      BY <2>1, <2>2, <2>3, <2>4, <2>5
  <1>3. ASide(p)
    BY DealsAreSides DEF Answered
  <1>4. res[11 + h] = KnR_pts_all(p[h])
    BY <1>1, <1>2, <1>3, KnRSlots DEF Answered
  <1>. QED
    BY <1>3, <1>4, KnRPoints DEF phs

\* The server's four C's are dealer's, for the same hand, but for the first doubleton.
THEOREM KnRLikeCCCC == Spec => []KnRAsCCCC
  <1>1. Init => Answered
    BY DEF Init, Answered
  <1>. QED
    BY <1>1, AnsweredStep, AnsweredKnR, PTL DEF Spec

-----------------------------------------------------------------------------
(* Short honors, and hands of points none below zero *)

\* The highest card of a suit.
LEMMA Highest ==
  ASSUME NEW S, S \subseteq 0 .. ACE, S # {}
  PROVE  Max(S) \in S /\ \A y \in S : Max(S) >= y
  <1>1. \E x \in S : \A y \in S : x >= y
    <2>1. \A y \in S : y \in {0, 1, 2, 3, 4, 5, 6, 7, 8, 9, 10, 11, 12}
      BY DEF ACE
    <2>2. CASE 12 \in S
      BY <2>1, <2>2
    <2>3. CASE 12 \notin S /\ 11 \in S
      BY <2>1, <2>3
    <2>4. CASE 12 \notin S /\ 11 \notin S /\ 10 \in S
      BY <2>1, <2>4
    <2>5. CASE 12 \notin S /\ 11 \notin S /\ 10 \notin S /\ 9 \in S
      BY <2>1, <2>5
    <2>6. CASE 12 \notin S /\ 11 \notin S /\ 10 \notin S /\ 9 \notin S
      <3>1. \A y \in S : y \in {0, 1, 2, 3, 4, 5, 6, 7, 8}
        BY <2>1, <2>6
      <3>2. CASE 8 \in S
        BY <3>1, <3>2
      <3>3. CASE 8 \notin S /\ 7 \in S
        BY <3>1, <3>3
      <3>4. CASE 8 \notin S /\ 7 \notin S /\ 6 \in S
        BY <3>1, <3>4
      <3>5. CASE 8 \notin S /\ 7 \notin S /\ 6 \notin S /\ 5 \in S
        BY <3>1, <3>5
      <3>6. CASE 8 \notin S /\ 7 \notin S /\ 6 \notin S /\ 5 \notin S
        <4>1. \A y \in S : y \in {0, 1, 2, 3, 4}
          BY <3>1, <3>6
        <4>2. CASE 4 \in S
          BY <4>1, <4>2
        <4>3. CASE 4 \notin S /\ 3 \in S
          BY <4>1, <4>3
        <4>4. CASE 4 \notin S /\ 3 \notin S /\ 2 \in S
          BY <4>1, <4>4
        <4>5. CASE 4 \notin S /\ 3 \notin S /\ 2 \notin S
          <5>1. \A y \in S : y = 0 \/ y = 1
            BY <4>1, <4>5
          <5>2. CASE 1 \in S
            BY <5>1, <5>2
          <5>3. CASE 1 \notin S
            <6>1. 0 \in S
              BY <5>1, <5>3
            <6>. QED
              BY <5>1, <5>3, <6>1
          <5>. QED
            BY <5>2, <5>3
        <4>. QED
          BY <4>2, <4>3, <4>4, <4>5
      <3>. QED
        BY <3>2, <3>3, <3>4, <3>5, <3>6
    <2>. QED
      BY <2>2, <2>3, <2>4, <2>5, <2>6
  <1>. QED
    BY <1>1 DEF Max

\* Where a table is read for a suit of one card or two: for an honor alone, or
\* for an honor beside a lower card.
LEMMA LookupIs ==
  ASSUME NEW h, NEW s, h[s] \subseteq 0 .. ACE, hs_length(h, s) \in {1, 2},
         NEW stiff, NEW dbl
  PROVE  LET n == lookup(h, s, stiff, dbl)
         IN  \/ n = 0
             \/ \E i \in 1 .. 5 : n = stiff[i] /\ 13 - i \in h[s]
             \/ \E i \in 1 .. 5 : \E j \in 1 .. 6 :
                    /\ i < j /\ n = dbl[<<0, 5, 9, 12, 14>>[i] + j - i]
                    /\ 13 - i \in h[s] /\ (j # 6 => 13 - j \in h[s])
  <1> DEFINE c == h[s]
             n == lookup(h, s, stiff, dbl)
             r1 == Max(c)
             r2 == Max(c \ {r1})
  <1>1. IsFiniteSet(c)
    <2>1. 0 \in Int /\ ACE \in Int
      BY DEF ACE
    <2>. QED
      BY <2>1, FS_Interval, FS_Subset
  <1>2. Cardinality(c) \in {1, 2}
    BY DEF hs_length
  <1>3. c # {}
    BY <1>2, FS_EmptySet
  <1>4. r1 \in c /\ \A y \in c : r1 >= y
    BY <1>3, Highest
  <1>5. r1 \in 0 .. 12
    BY <1>4 DEF ACE
  <1>6. n = IF c = {r1} THEN lookup_stiff(stiff, r1) ELSE lookup_HH(dbl, r1, r2)
    BY DEF lookup
  <1>7. CASE c = {r1}
    <2>1. n = IF Place(r1) = 6 THEN 0 ELSE stiff[Place(r1)]
      BY <1>6, <1>7 DEF lookup_stiff
    <2>2. Place(r1) = 6 \/ (Place(r1) \in 1 .. 5 /\ r1 = 13 - Place(r1))
      <3> HIDE DEF r1
      <3>. QED
        BY <1>5 DEF Place, TEN
    <2>. QED
      BY <2>1, <2>2, <1>4
  <1>8. CASE c # {r1}
    <2>1. c \ {r1} # {}
      BY <1>4, <1>8
    <2>2. r2 \in c /\ r2 # r1 /\ r2 \in 0 .. 12 /\ r2 < r1
      <3>1. r2 \in c \ {r1}
        BY <2>1, Highest
      <3>. QED
        BY <3>1, <1>4, <1>5 DEF ACE
    <2> HIDE DEF r1, r2
    <2> DEFINE i == Place(r1)
               j == Place(r2)
    <2>3. n = IF i = 6 THEN 0 ELSE dbl[<<0, 5, 9, 12, 14>>[i] + j - i]
      BY <1>6, <1>8 DEF lookup_HH
    <2>4. i = 6 \/ (i \in 1 .. 5 /\ j \in 1 .. 6 /\ i < j /\ r1 = 13 - i /\ (j # 6 => r2 = 13 - j))
      BY <1>5, <2>2 DEF Place, TEN
    <2> HIDE DEF i, j
    <2>. QED
      BY <2>2, <2>3, <2>4, <1>4
  <1>. QED
    BY <1>7, <1>8

\* What the honors of a suit count on a scale.
HonorSum(c, v) ==
    If(ACE \in c, v[1]) + If(KING \in c, v[2]) + If(QUEEN \in c, v[3])
    + If(JACK \in c, v[4]) + If(TEN \in c, v[5])

\* Tables that take off what there is at most.
TakesOff(stiff, dbl, v) ==
    /\ v[1] \in Nat /\ v[2] \in Nat /\ v[3] \in Nat /\ v[4] \in Nat /\ v[5] \in Nat
    /\ stiff[1] \in -v[1] .. 0 /\ stiff[2] \in -v[2] .. 0 /\ stiff[3] \in -v[3] .. 0
    /\ stiff[4] \in -v[4] .. 0 /\ stiff[5] \in -v[5] .. 0
    /\ dbl[1] \in -(v[1] + v[2]) .. 0 /\ dbl[2] \in -(v[1] + v[3]) .. 0
    /\ dbl[3] \in -(v[1] + v[4]) .. 0 /\ dbl[4] \in -(v[1] + v[5]) .. 0
    /\ dbl[5] \in -v[1] .. 0
    /\ dbl[6] \in -(v[2] + v[3]) .. 0 /\ dbl[7] \in -(v[2] + v[4]) .. 0
    /\ dbl[8] \in -(v[2] + v[5]) .. 0 /\ dbl[9] \in -v[2] .. 0
    /\ dbl[10] \in -(v[3] + v[4]) .. 0 /\ dbl[11] \in -(v[3] + v[5]) .. 0
    /\ dbl[12] \in -v[3] .. 0
    /\ dbl[13] \in -(v[4] + v[5]) .. 0 /\ dbl[14] \in -v[4] .. 0
    /\ dbl[15] \in -v[5] .. 0

\* So no more is taken off a short suit than its honors count.
LEMMA ShortHonors ==
  ASSUME NEW h, NEW s, h[s] \subseteq 0 .. ACE, hs_length(h, s) \in {1, 2},
         NEW stiff, NEW dbl, NEW v, TakesOff(stiff, dbl, v)
  PROVE  lookup(h, s, stiff, dbl) \in -HonorSum(h[s], v) .. 0
  <1> DEFINE c == h[s]
             n == lookup(h, s, stiff, dbl)
             H == HonorSum(c, v)
  <1>1. /\ v[1] \in Nat /\ v[2] \in Nat /\ v[3] \in Nat /\ v[4] \in Nat /\ v[5] \in Nat
    BY DEF TakesOff
  <1>2. H = If(12 \in c, v[1]) + If(11 \in c, v[2]) + If(10 \in c, v[3])
            + If(9 \in c, v[4]) + If(8 \in c, v[5])
    BY DEF HonorSum, ACE, KING, QUEEN, JACK, TEN
  <1>3. \/ n = 0
        \/ \E i \in 1 .. 5 : n = stiff[i] /\ 13 - i \in h[s]
        \/ \E i \in 1 .. 5 : \E j \in 1 .. 6 :
              /\ i < j /\ n = dbl[<<0, 5, 9, 12, 14>>[i] + j - i]
              /\ 13 - i \in h[s] /\ (j # 6 => 13 - j \in h[s])
    BY LookupIs
  <1> HIDE DEF n, H
  <1>4. H \in Nat
    BY <1>1, <1>2 DEF If
  <1>5. ASSUME NEW i \in 1 .. 5, n = stiff[i], 13 - i \in c
        PROVE  n \in -H .. 0
    <2>1. CASE i = 1
      BY <2>1, <1>1, <1>2, <1>5 DEF TakesOff, If
    <2>2. CASE i = 2
      BY <2>2, <1>1, <1>2, <1>5 DEF TakesOff, If
    <2>3. CASE i = 3
      BY <2>3, <1>1, <1>2, <1>5 DEF TakesOff, If
    <2>4. CASE i = 4
      BY <2>4, <1>1, <1>2, <1>5 DEF TakesOff, If
    <2>5. CASE i = 5
      BY <2>5, <1>1, <1>2, <1>5 DEF TakesOff, If
    <2>. QED
      BY <2>1, <2>2, <2>3, <2>4, <2>5
  <1>6. ASSUME NEW i \in 1 .. 5, NEW j \in 1 .. 6, i < j,
               n = dbl[<<0, 5, 9, 12, 14>>[i] + j - i], 13 - i \in c, j # 6 => 13 - j \in c
        PROVE  n \in -H .. 0
    <2>1. CASE i = 1
      <3>1. CASE j = 2
        <4>1. n = dbl[1] /\ 12 \in c /\ 11 \in c
          BY <2>1, <3>1, <1>6
        <4>. QED
          BY <4>1, <1>1, <1>2 DEF TakesOff, If
      <3>2. CASE j = 3
        <4>1. n = dbl[2] /\ 12 \in c /\ 10 \in c
          BY <2>1, <3>2, <1>6
        <4>. QED
          BY <4>1, <1>1, <1>2 DEF TakesOff, If
      <3>3. CASE j = 4
        <4>1. n = dbl[3] /\ 12 \in c /\ 9 \in c
          BY <2>1, <3>3, <1>6
        <4>. QED
          BY <4>1, <1>1, <1>2 DEF TakesOff, If
      <3>4. CASE j = 5
        <4>1. n = dbl[4] /\ 12 \in c /\ 8 \in c
          BY <2>1, <3>4, <1>6
        <4>. QED
          BY <4>1, <1>1, <1>2 DEF TakesOff, If
      <3>5. CASE j = 6
        <4>1. n = dbl[5] /\ 12 \in c
          BY <2>1, <3>5, <1>6
        <4>. QED
          BY <4>1, <1>1, <1>2 DEF TakesOff, If
      <3>. QED
        BY <2>1, <1>6, <3>1, <3>2, <3>3, <3>4, <3>5
    <2>2. CASE i = 2
      <3>1. CASE j = 3
        <4>1. n = dbl[6] /\ 11 \in c /\ 10 \in c
          BY <2>2, <3>1, <1>6
        <4>. QED
          BY <4>1, <1>1, <1>2 DEF TakesOff, If
      <3>2. CASE j = 4
        <4>1. n = dbl[7] /\ 11 \in c /\ 9 \in c
          BY <2>2, <3>2, <1>6
        <4>. QED
          BY <4>1, <1>1, <1>2 DEF TakesOff, If
      <3>3. CASE j = 5
        <4>1. n = dbl[8] /\ 11 \in c /\ 8 \in c
          BY <2>2, <3>3, <1>6
        <4>. QED
          BY <4>1, <1>1, <1>2 DEF TakesOff, If
      <3>4. CASE j = 6
        <4>1. n = dbl[9] /\ 11 \in c
          BY <2>2, <3>4, <1>6
        <4>. QED
          BY <4>1, <1>1, <1>2 DEF TakesOff, If
      <3>. QED
        BY <2>2, <1>6, <3>1, <3>2, <3>3, <3>4
    <2>3. CASE i = 3
      <3>1. CASE j = 4
        <4>1. n = dbl[10] /\ 10 \in c /\ 9 \in c
          BY <2>3, <3>1, <1>6
        <4>. QED
          BY <4>1, <1>1, <1>2 DEF TakesOff, If
      <3>2. CASE j = 5
        <4>1. n = dbl[11] /\ 10 \in c /\ 8 \in c
          BY <2>3, <3>2, <1>6
        <4>. QED
          BY <4>1, <1>1, <1>2 DEF TakesOff, If
      <3>3. CASE j = 6
        <4>1. n = dbl[12] /\ 10 \in c
          BY <2>3, <3>3, <1>6
        <4>. QED
          BY <4>1, <1>1, <1>2 DEF TakesOff, If
      <3>. QED
        BY <2>3, <1>6, <3>1, <3>2, <3>3
    <2>4. CASE i = 4
      <3>1. CASE j = 5
        <4>1. n = dbl[13] /\ 9 \in c /\ 8 \in c
          BY <2>4, <3>1, <1>6
        <4>. QED
          BY <4>1, <1>1, <1>2 DEF TakesOff, If
      <3>2. CASE j = 6
        <4>1. n = dbl[14] /\ 9 \in c
          BY <2>4, <3>2, <1>6
        <4>. QED
          BY <4>1, <1>1, <1>2 DEF TakesOff, If
      <3>. QED
        BY <2>4, <1>6, <3>1, <3>2
    <2>5. CASE i = 5
      <3>1. CASE j = 6
        <4>1. n = dbl[15] /\ 8 \in c
          BY <2>5, <3>1, <1>6
        <4>. QED
          BY <4>1, <1>1, <1>2 DEF TakesOff, If
      <3>. QED
        BY <2>5, <1>6, <3>1
    <2>. QED
      BY <2>1, <2>2, <2>3, <2>4, <2>5
  <1>. QED
    BY <1>3, <1>4, <1>5, <1>6 DEF n, H

\* No way of rounding takes off more points than there are.
LEMMA Rounding ==
  ASSUME NEW v \in Int, NEW n \in Nat, v >= -100 * n
  PROVE  /\ Trunc(v) \in Int /\ Trunc(v) >= -n /\ (v >= 0 => Trunc(v) >= 0) /\ (v <= 0 => Trunc(v) <= 0)
         /\ Round(v) \in Int /\ Round(v) >= -n /\ (v >= 0 => Round(v) >= 0)
         /\ \A body \in Int : /\ Pav_round(v, body) \in Int /\ Pav_round(v, body) >= -n
                              /\ (v >= 0 => Pav_round(v, body) >= 0)
  <1>1. Trunc(v) \in Int /\ Trunc(v) >= -n /\ (v >= 0 => Trunc(v) >= 0) /\ (v <= 0 => Trunc(v) <= 0)
    <2>1. CASE v >= 0
      BY <2>1 DEF Trunc
    <2>2. CASE v < 0
      <3> DEFINE w == -v
      <3>1. w \in Nat /\ w <= 100 * n /\ w > 0
        BY <2>2
      <3> HIDE DEF w
      <3>2. w \div 100 \in Nat /\ w \div 100 <= n
        BY <3>1
      <3>3. Trunc(v) = -(w \div 100)
        BY <2>2 DEF Trunc, w
      <3>. QED
        BY <2>2, <3>2, <3>3
    <2>. QED
      BY <2>1, <2>2
  <1>2. Round(v) \in Int /\ Round(v) >= -n /\ (v >= 0 => Round(v) >= 0)
    <2>1. CASE v >= 0
      BY <2>1 DEF Round
    <2>2. CASE v < 0
      <3> DEFINE w == 50 - v
      <3>1. w \in Nat /\ w <= 100 * n + 50
        BY <2>2
      <3> HIDE DEF w
      <3>2. w \div 100 \in Nat /\ w \div 100 <= n
        BY <3>1
      <3>3. Round(v) = -(w \div 100)
        BY <2>2 DEF Round, w
      <3>. QED
        BY <2>2, <3>2, <3>3
    <2>. QED
      BY <2>1, <2>2
  <1>3. ASSUME NEW body \in Int
        PROVE  \E d \in {0, 1} : Pav_round(v, body) = Trunc(v) + d
    BY DEF Pav_round, If
  <1>. QED
    BY <1>1, <1>2, <1>3

\* What honors count, in hundredths: in whole points,
Whole == <<400, 300, 200, 100, 0>>
\* and in bumwraps.
Wrapped == <<425, 300, 175, 75, 25>>

\* The metrics that count whole points.
PlainAdj == {BERGEN, BISSEL, GOREN, KAPLAN, KARPIN, LAR, PAV, SHEINW, ZARBAS, ZARADV, ROTH}

\* No table takes more off a short suit than its honors count.
LEMMA AdjTables ==
  /\ \A m \in PlainAdj : TakesOff(stiff_H_adj(m), dbl_HH_adj(m), Whole)
  /\ \A m \in {KARP_B, LAR_B} : TakesOff(stiff_H_adj(m), dbl_HH_adj(m), Wrapped)
  <1>1. TakesOff(stiff_H_adj(BERGEN), dbl_HH_adj(BERGEN), Whole)
    <2>1. stiff_H_adj(BERGEN) = <<-50, -100, -100, -100, 0>>
      BY DEF stiff_H_adj, BERGEN, BISSEL, GOREN, KAPLAN, KARPIN, KARP_B, LAR, LAR_B, PAV, SHEINW, ZARBAS, ZARADV, ROTH
    <2>2. dbl_HH_adj(BERGEN) =
             <<0, 0, -50, 0, 0, -50, -50, 0, 0, -100, -100, -100, -100, -100, 0>>
      BY DEF dbl_HH_adj, BERGEN, BISSEL, GOREN, KAPLAN, KARPIN, KARP_B, LAR, LAR_B, PAV, SHEINW, ZARBAS, ZARADV, ROTH
    <2>. QED
      BY <2>1, <2>2 DEF TakesOff, Whole
  <1>2. TakesOff(stiff_H_adj(BISSEL), dbl_HH_adj(BISSEL), Whole)
    <2>1. stiff_H_adj(BISSEL) = <<0, -100, -100, 0, 0>>
      BY DEF stiff_H_adj, BERGEN, BISSEL, GOREN, KAPLAN, KARPIN, KARP_B, LAR, LAR_B, PAV, SHEINW, ZARBAS, ZARADV, ROTH
    <2>2. dbl_HH_adj(BISSEL) =
             <<0, 0, 0, 0, 0, 0, 0, 0, 0, -100, -100, -100, 0, 0, 0>>
      BY DEF dbl_HH_adj, BERGEN, BISSEL, GOREN, KAPLAN, KARPIN, KARP_B, LAR, LAR_B, PAV, SHEINW, ZARBAS, ZARADV, ROTH
    <2>. QED
      BY <2>1, <2>2 DEF TakesOff, Whole
  <1>3. TakesOff(stiff_H_adj(GOREN), dbl_HH_adj(GOREN), Whole)
    <2>1. stiff_H_adj(GOREN) = <<0, -200, -200, -100, 0>>
      BY DEF stiff_H_adj, BERGEN, BISSEL, GOREN, KAPLAN, KARPIN, KARP_B, LAR, LAR_B, PAV, SHEINW, ZARBAS, ZARADV, ROTH
    <2>2. dbl_HH_adj(GOREN) =
             <<0, 0, 0, 0, 0, 0, 0, 0, 0, -100, -100, -100, -100, -100, 0>>
      BY DEF dbl_HH_adj, BERGEN, BISSEL, GOREN, KAPLAN, KARPIN, KARP_B, LAR, LAR_B, PAV, SHEINW, ZARBAS, ZARADV, ROTH
    <2>. QED
      BY <2>1, <2>2 DEF TakesOff, Whole
  <1>4. TakesOff(stiff_H_adj(KAPLAN), dbl_HH_adj(KAPLAN), Whole)
    <2>1. stiff_H_adj(KAPLAN) = <<0, 0, -200, -100, 0>>
      BY DEF stiff_H_adj, BERGEN, BISSEL, GOREN, KAPLAN, KARPIN, KARP_B, LAR, LAR_B, PAV, SHEINW, ZARBAS, ZARADV, ROTH
    <2>2. dbl_HH_adj(KAPLAN) =
             <<0, 0, 0, 0, 0, 0, 0, 0, 0, -100, 0, 0, 0, 0, 0>>
      BY DEF dbl_HH_adj, BERGEN, BISSEL, GOREN, KAPLAN, KARPIN, KARP_B, LAR, LAR_B, PAV, SHEINW, ZARBAS, ZARADV, ROTH
    <2>. QED
      BY <2>1, <2>2 DEF TakesOff, Whole
  <1>5. TakesOff(stiff_H_adj(KARPIN), dbl_HH_adj(KARPIN), Whole)
    <2>1. stiff_H_adj(KARPIN) = <<0, -100, -100, -100, 0>>
      BY DEF stiff_H_adj, BERGEN, BISSEL, GOREN, KAPLAN, KARPIN, KARP_B, LAR, LAR_B, PAV, SHEINW, ZARBAS, ZARADV, ROTH
    <2>2. dbl_HH_adj(KARPIN) =
             <<0, 0, 0, 0, 0, -100, -100, 0, 0, -100, -100, -100, -100, -100, 0>>
      BY DEF dbl_HH_adj, BERGEN, BISSEL, GOREN, KAPLAN, KARPIN, KARP_B, LAR, LAR_B, PAV, SHEINW, ZARBAS, ZARADV, ROTH
    <2>. QED
      BY <2>1, <2>2 DEF TakesOff, Whole
  <1>6. TakesOff(stiff_H_adj(KARP_B), dbl_HH_adj(KARP_B), Wrapped)
    <2>1. stiff_H_adj(KARP_B) = <<0, -100, -100, -75, -25>>
      BY DEF stiff_H_adj, BERGEN, BISSEL, GOREN, KAPLAN, KARPIN, KARP_B, LAR, LAR_B, PAV, SHEINW, ZARBAS, ZARADV, ROTH
    <2>2. dbl_HH_adj(KARP_B) =
             <<-100, -100, -50, 0, 0, -100, 0, 0, 0, -100, -100, -100, -100, -75, -25>>
      BY DEF dbl_HH_adj, BERGEN, BISSEL, GOREN, KAPLAN, KARPIN, KARP_B, LAR, LAR_B, PAV, SHEINW, ZARBAS, ZARADV, ROTH
    <2>. QED
      BY <2>1, <2>2 DEF TakesOff, Wrapped
  <1>7. TakesOff(stiff_H_adj(LAR), dbl_HH_adj(LAR), Whole)
    <2>1. stiff_H_adj(LAR) = <<0, -100, -100, -100, 0>>
      BY DEF stiff_H_adj, BERGEN, BISSEL, GOREN, KAPLAN, KARPIN, KARP_B, LAR, LAR_B, PAV, SHEINW, ZARBAS, ZARADV, ROTH
    <2>2. dbl_HH_adj(LAR) =
             <<0, 0, 0, 0, 0, -100, 0, 0, 0, -100, 0, 0, 0, 0, 0>>
      BY DEF dbl_HH_adj, BERGEN, BISSEL, GOREN, KAPLAN, KARPIN, KARP_B, LAR, LAR_B, PAV, SHEINW, ZARBAS, ZARADV, ROTH
    <2>. QED
      BY <2>1, <2>2 DEF TakesOff, Whole
  <1>8. TakesOff(stiff_H_adj(LAR_B), dbl_HH_adj(LAR_B), Wrapped)
    <2>1. stiff_H_adj(LAR_B) = <<0, -100, -100, -75, -25>>
      BY DEF stiff_H_adj, BERGEN, BISSEL, GOREN, KAPLAN, KARPIN, KARP_B, LAR, LAR_B, PAV, SHEINW, ZARBAS, ZARADV, ROTH
    <2>2. dbl_HH_adj(LAR_B) =
             <<0, -50, -25, 0, 0, 0, 0, 0, 0, -25, -25, -50, -50, -75, -25>>
      BY DEF dbl_HH_adj, BERGEN, BISSEL, GOREN, KAPLAN, KARPIN, KARP_B, LAR, LAR_B, PAV, SHEINW, ZARBAS, ZARADV, ROTH
    <2>. QED
      BY <2>1, <2>2 DEF TakesOff, Wrapped
  <1>9. TakesOff(stiff_H_adj(PAV), dbl_HH_adj(PAV), Whole)
    <2>1. stiff_H_adj(PAV) = <<0, -200, -200, -100, 0>>
      BY DEF stiff_H_adj, BERGEN, BISSEL, GOREN, KAPLAN, KARPIN, KARP_B, LAR, LAR_B, PAV, SHEINW, ZARBAS, ZARADV, ROTH
    <2>2. dbl_HH_adj(PAV) =
             <<0, 0, 0, 0, 0, -100, -100, 0, 0, -100, -100, -100, -100, -100, 0>>
      BY DEF dbl_HH_adj, BERGEN, BISSEL, GOREN, KAPLAN, KARPIN, KARP_B, LAR, LAR_B, PAV, SHEINW, ZARBAS, ZARADV, ROTH
    <2>. QED
      BY <2>1, <2>2 DEF TakesOff, Whole
  <1>10. TakesOff(stiff_H_adj(SHEINW), dbl_HH_adj(SHEINW), Whole)
    <2>1. stiff_H_adj(SHEINW) = <<0, -100, -100, -100, 0>>
      BY DEF stiff_H_adj, BERGEN, BISSEL, GOREN, KAPLAN, KARPIN, KARP_B, LAR, LAR_B, PAV, SHEINW, ZARBAS, ZARADV, ROTH
    <2>2. dbl_HH_adj(SHEINW) =
             <<0, 0, 0, 0, 0, 0, 0, 0, 0, -100, -100, -100, -100, -100, 0>>
      BY DEF dbl_HH_adj, BERGEN, BISSEL, GOREN, KAPLAN, KARPIN, KARP_B, LAR, LAR_B, PAV, SHEINW, ZARBAS, ZARADV, ROTH
    <2>. QED
      BY <2>1, <2>2 DEF TakesOff, Whole
  <1>11. TakesOff(stiff_H_adj(ZARBAS), dbl_HH_adj(ZARBAS), Whole)
    <2>1. stiff_H_adj(ZARBAS) = <<-100, -100, -100, -100, 0>>
      BY DEF stiff_H_adj, BERGEN, BISSEL, GOREN, KAPLAN, KARPIN, KARP_B, LAR, LAR_B, PAV, SHEINW, ZARBAS, ZARADV, ROTH
    <2>2. dbl_HH_adj(ZARBAS) =
             <<0, 0, -100, 0, 0, -100, -100, 0, 0, -100, -100, -100, -100, -100, 0>>
      BY DEF dbl_HH_adj, BERGEN, BISSEL, GOREN, KAPLAN, KARPIN, KARP_B, LAR, LAR_B, PAV, SHEINW, ZARBAS, ZARADV, ROTH
    <2>. QED
      BY <2>1, <2>2 DEF TakesOff, Whole
  <1>12. TakesOff(stiff_H_adj(ZARADV), dbl_HH_adj(ZARADV), Whole)
    <2>1. stiff_H_adj(ZARADV) = <<-100, -100, -100, -100, 0>>
      BY DEF stiff_H_adj, BERGEN, BISSEL, GOREN, KAPLAN, KARPIN, KARP_B, LAR, LAR_B, PAV, SHEINW, ZARBAS, ZARADV, ROTH
    <2>2. dbl_HH_adj(ZARADV) =
             <<0, 0, -100, 0, 0, -100, -100, 0, 0, -100, -100, -100, -100, -100, 0>>
      BY DEF dbl_HH_adj, BERGEN, BISSEL, GOREN, KAPLAN, KARPIN, KARP_B, LAR, LAR_B, PAV, SHEINW, ZARBAS, ZARADV, ROTH
    <2>. QED
      BY <2>1, <2>2 DEF TakesOff, Whole
  <1>13. TakesOff(stiff_H_adj(ROTH), dbl_HH_adj(ROTH), Whole)
    <2>1. stiff_H_adj(ROTH) = <<0, -100, -100, -100, 0>>
      BY DEF stiff_H_adj, BERGEN, BISSEL, GOREN, KAPLAN, KARPIN, KARP_B, LAR, LAR_B, PAV, SHEINW, ZARBAS, ZARADV, ROTH
    <2>2. dbl_HH_adj(ROTH) =
             <<0, 0, 0, 0, 0, -100, -100, 0, 0, -100, -100, -100, -100, -100, 0>>
      BY DEF dbl_HH_adj, BERGEN, BISSEL, GOREN, KAPLAN, KARPIN, KARP_B, LAR, LAR_B, PAV, SHEINW, ZARBAS, ZARADV, ROTH
    <2>. QED
      BY <2>1, <2>2 DEF TakesOff, Whole
  <1>. QED
    BY <1>1, <1>2, <1>3, <1>4, <1>5, <1>6, <1>7, <1>8, <1>9, <1>10, <1>11, <1>12, <1>13 DEF PlainAdj

\* A hand: thirteen cards.
AHand(h) ==
    /\ \A s \in Suits : h[s] \subseteq 0 .. ACE /\ hs_length(h, s) \in Nat
    /\ hs_length(h, 0) + hs_length(h, 1) + hs_length(h, 2) + hs_length(h, 3) = 13

\* Counting suits, and cards.
LEMMA Counting ==
  /\ \A T \in SUBSET Suits : Cardinality(T) \in Nat
  /\ \A c \in SUBSET (0 .. ACE) : \A T : Cardinality(c \cap T) \in Nat
  <1>1. IsFiniteSet(Suits) /\ IsFiniteSet(0 .. ACE)
    <2>1. Suits = 0 .. 3 /\ 0 \in Int /\ 3 \in Int /\ ACE \in Int
      BY DEF Suits, CLUBS, SPADES, ACE
    <2>. QED
      BY <2>1, FS_Interval
  <1>2. ASSUME NEW T \in SUBSET Suits PROVE Cardinality(T) \in Nat
    <2>1. IsFiniteSet(T)
      BY <1>1, FS_Subset
    <2>. QED
      BY <2>1, FS_CardinalityType
  <1>3. ASSUME NEW c \in SUBSET (0 .. ACE), NEW T PROVE Cardinality(c \cap T) \in Nat
    <2>1. IsFiniteSet(c \cap T)
      BY <1>1, FS_Subset
    <2>. QED
      BY <2>1, FS_CardinalityType
  <1>. QED
    BY <1>2, <1>3

\* Points of shortness.
LEMMA ShortTable ==
  ASSUME NEW len \in Nat, NEW a \in Nat, NEW b \in Nat, NEW c \in Nat
  PROVE  ShortPoints(len, <<a, b, c>>) \in Nat
  <1>1. CASE len = 0
    BY <1>1 DEF ShortPoints
  <1>2. CASE len = 1
    BY <1>2 DEF ShortPoints
  <1>3. CASE len = 2
    BY <1>3 DEF ShortPoints
  <1>4. CASE len > 2
    BY <1>4 DEF ShortPoints
  <1>. QED
    BY <1>1, <1>2, <1>3, <1>4

\* What struct handstat and the metrics count of a hand are numbers, none below zero.
LEMMA HandNumbers ==
  ASSUME NEW h, AHand(h)
  PROVE  /\ \A s \in Suits : hs_length(h, s) \in Nat /\ hs_points(h, s) \in Nat
         /\ hs_totalpoints(h) \in Nat /\ hs_totalcontrol(h) \in Nat
         /\ \A r : hs_counts(h, r) \in Nat
         /\ \A n : OfLength(h, n) \in Nat
         /\ \A s \in Suits : \A n : Top(h, s, n) \in Nat
         /\ \A n, max \in Nat : LengthOver(h, n, max) \in Nat
         /\ \A a, b, c \in Nat : ShortSuits(h, <<a, b, c>>) \in Nat
         /\ Pav_body_val(h) \in Nat
  <1>1. /\ hs_length(h, 0) \in Nat /\ hs_length(h, 1) \in Nat
        /\ hs_length(h, 2) \in Nat /\ hs_length(h, 3) \in Nat
    BY FourSuits DEF AHand
  <1>2. \A s : hs_points(h, s) \in Nat
    BY DEF hs_points, If
  <1>3. hs_totalpoints(h) \in Nat
    BY <1>2 DEF hs_totalpoints, Sum4
  <1>4. hs_totalcontrol(h) \in Nat
    BY DEF hs_totalcontrol, Sum4, If
  <1>5. \A r : hs_counts(h, r) \in Nat
    BY Counting DEF hs_counts, Count
  <1>6. \A n : OfLength(h, n) \in Nat
    BY Counting DEF OfLength, Count
  <1>7. \A s \in Suits : \A n : Top(h, s, n) \in Nat
    BY Counting DEF Top, AHand
  <1>8. ASSUME NEW n \in Nat, NEW max \in Nat
        PROVE  LengthOver(h, n, max) \in Nat
    BY <1>1 DEF LengthOver, Sum4, CLUBS, DIAMONDS, HEARTS, SPADES, Smaller, Larger
  <1>9. ASSUME NEW a \in Nat, NEW b \in Nat, NEW c \in Nat
        PROVE  ShortSuits(h, <<a, b, c>>) \in Nat
    <2> DEFINE P(s) == ShortPoints(hs_length(h, s), <<a, b, c>>)
    <2>1. P(0) \in Nat /\ P(1) \in Nat /\ P(2) \in Nat /\ P(3) \in Nat
      BY <1>1, <1>9, ShortTable
    <2>2. ShortSuits(h, <<a, b, c>>) = P(0) + P(1) + P(2) + P(3)
      BY DEF ShortSuits, Sum4, CLUBS, DIAMONDS, HEARTS, SPADES
    <2> HIDE DEF P
    <2>. QED
      BY <2>1, <2>2
  <1>10. Pav_body_val(h) \in Nat
    BY <1>5 DEF Pav_body_val
  <1>. QED
    BY <1>2, <1>3, <1>4, <1>5, <1>6, <1>7, <1>8, <1>9, <1>10 DEF AHand

\* Short honors never lose more than they count,
LEMMA ShortInSuit ==
  ASSUME NEW h, AHand(h), NEW s \in Suits
  PROVE  /\ \A m \in PlainAdj : shortHon_adj(h, s, m) \in -(100 * hs_points(h, s)) .. 0
         /\ \A m \in {KARP_B, LAR_B} :
                /\ shortHon_adj(h, s, m) \in Int /\ calc_alt_hcp(h, s, m) \in Int
                /\ calc_alt_hcp(h, s, m) + shortHon_adj(h, s, m) >= 0
  <1>1. hs_points(h, s) \in Nat
    BY DEF hs_points, If
  <1>2. ASSUME NEW m \in PlainAdj
        PROVE  shortHon_adj(h, s, m) \in -(100 * hs_points(h, s)) .. 0
    <2>1. CASE hs_length(h, s) \notin {1, 2}
      BY <2>1, <1>1 DEF shortHon_adj
    <2>2. CASE hs_length(h, s) \in {1, 2}
      <3>1. shortHon_adj(h, s, m) = lookup(h, s, stiff_H_adj(m), dbl_HH_adj(m))
        BY <2>2 DEF shortHon_adj
      <3>2. TakesOff(stiff_H_adj(m), dbl_HH_adj(m), Whole)
        BY AdjTables
      <3>3. lookup(h, s, stiff_H_adj(m), dbl_HH_adj(m)) \in -HonorSum(h[s], Whole) .. 0
        BY <2>2, <3>2, ShortHonors DEF AHand
      <3>4. HonorSum(h[s], Whole) = 100 * hs_points(h, s)
        BY DEF HonorSum, hs_points, Whole, If
      <3>. QED
        BY <3>1, <3>3, <3>4
    <2>. QED
      BY <2>1, <2>2
  <1>3. ASSUME NEW m \in {KARP_B, LAR_B}
        PROVE  /\ shortHon_adj(h, s, m) \in Int /\ calc_alt_hcp(h, s, m) \in Int
               /\ calc_alt_hcp(h, s, m) + shortHon_adj(h, s, m) >= 0
    <2>1. hcp_val(m) = Wrapped
      BY DEF hcp_val, Wrapped, KARP_B, LAR_B, DKP
    <2>2. HonorSum(h[s], Wrapped) \in Nat
      BY DEF HonorSum, Wrapped, If
    <2>3. calc_alt_hcp(h, s, m) \in Int /\ calc_alt_hcp(h, s, m) >= HonorSum(h[s], Wrapped)
      <3> DEFINE syn == IF m = LAR_B /\ hs_length(h, s) >= 3
                        THEN If(QUEEN \in h[s] /\ {ACE, KING} \cap h[s] # {}, 50)
                             + If(JACK \in h[s] /\ {QUEEN, TEN} \cap h[s] # {}, 25)
                             + If(TEN \in h[s] /\ {JACK, NINE} \cap h[s] # {}, 25)
                        ELSE 0
      <3>1. syn \in Nat
        BY DEF If
      <3>2. calc_alt_hcp(h, s, m) = HonorSum(h[s], Wrapped) + syn
        BY <2>1 DEF calc_alt_hcp, HonorSum
      <3> HIDE DEF syn
      <3>. QED
        BY <2>2, <3>1, <3>2
    <2>4. CASE hs_length(h, s) \notin {1, 2}
      BY <2>2, <2>3, <2>4 DEF shortHon_adj
    <2>5. CASE hs_length(h, s) \in {1, 2}
      <3>1. shortHon_adj(h, s, m) = lookup(h, s, stiff_H_adj(m), dbl_HH_adj(m))
        BY <2>5 DEF shortHon_adj
      <3>2. TakesOff(stiff_H_adj(m), dbl_HH_adj(m), Wrapped)
        BY AdjTables
      <3>3. lookup(h, s, stiff_H_adj(m), dbl_HH_adj(m)) \in -HonorSum(h[s], Wrapped) .. 0
        BY <2>5, <3>2, ShortHonors DEF AHand
      <3>. QED
        BY <2>2, <2>3, <3>1, <3>3
    <2>. QED
      BY <2>4, <2>5
  <1>. QED
    BY <1>2, <1>3

\* nor does a hand.
LEMMA ShortInHand ==
  ASSUME NEW h, AHand(h)
  PROVE  /\ \A m \in PlainAdj : hcp_adj(h, m) \in -(100 * hs_totalpoints(h)) .. 0
         /\ \A m \in {KARP_B, LAR_B} : alt_hcp(h, m) + hcp_adj(h, m) \in Nat
  <1>1. ASSUME NEW m \in PlainAdj
        PROVE  hcp_adj(h, m) \in -(100 * hs_totalpoints(h)) .. 0
    <2> DEFINE a(s) == shortHon_adj(h, s, m)
               p(s) == hs_points(h, s)
    <2>1. \A s \in Suits : a(s) \in -(100 * p(s)) .. 0 /\ p(s) \in Nat
      BY <1>1, ShortInSuit, HandNumbers
    <2>2. hcp_adj(h, m) = a(0) + a(1) + a(2) + a(3)
      BY DEF hcp_adj, Sum4, CLUBS, DIAMONDS, HEARTS, SPADES
    <2>3. hs_totalpoints(h) = p(0) + p(1) + p(2) + p(3)
      BY DEF hs_totalpoints, Sum4, CLUBS, DIAMONDS, HEARTS, SPADES
    <2> HIDE DEF a, p
    <2>. QED
      BY <2>1, <2>2, <2>3, FourSuits
  <1>2. ASSUME NEW m \in {KARP_B, LAR_B}
        PROVE  alt_hcp(h, m) + hcp_adj(h, m) \in Nat
    <2> DEFINE a(s) == shortHon_adj(h, s, m)
               p(s) == calc_alt_hcp(h, s, m)
    <2>1. \A s \in Suits : a(s) \in Int /\ p(s) \in Int /\ p(s) + a(s) >= 0
      BY <1>2, ShortInSuit
    <2>2. hcp_adj(h, m) = a(0) + a(1) + a(2) + a(3)
      BY DEF hcp_adj, Sum4, CLUBS, DIAMONDS, HEARTS, SPADES
    <2>3. alt_hcp(h, m) = p(0) + p(1) + p(2) + p(3)
      BY DEF alt_hcp, Sum4, CLUBS, DIAMONDS, HEARTS, SPADES
    <2> HIDE DEF a, p
    <2>. QED
      BY <2>1, <2>2, <2>3, FourSuits
  <1>. QED
    BY <1>1, <1>2

\* What analyze_side() leaves.
ItsSide(ss) ==
    /\ \A h \in Hands : AHand(ss.phs[h])
    /\ ss.decl_h \in Hands /\ ss.dummy_h = 1 - ss.decl_h
    /\ ss.t_fitlen \in Nat
    /\ \A h \in Hands :
          /\ ss.t_len[h] \in Nat /\ ss.pav_body[h] \in Nat
          /\ \A k \in 1 .. 4 : sorted_slen(ss, h, k) \in Nat
          /\ sorted_slen(ss, h, 2) >= Shortest(ss, h) /\ Shortest(ss, h) <= 3

\* It leaves it so of any two hands: every hand has a suit of three cards or fewer.
LEMMA SideFound ==
  ASSUME NEW p, \A h \in Hands : AHand(p[h])
  PROVE  ItsSide(analyze_side(p))
  <1> DEFINE ss == analyze_side(p)
             t == ss.t_suit
             len(h) == [s \in Suits |-> hs_length(p[h], s)]
  <1>1. ASide(p)
    BY HandNumbers DEF ASide, AHand
  <1>0. SideOf(p, ss)
    BY SideParts
  <1>2. ss.phs = p /\ \A h \in Hands : ss.sorted[h] = Sorted(len(h))
    <2> HIDE DEF ss
    <2>. QED
      BY <1>0 DEF SideOf
  <1>3. t = -1 \/ t \in Suits
    BY <1>1, SuitOf DEF LongFits
  <1>4. /\ ss.t_len = [h \in Hands |-> IF t < 0 THEN 0 ELSE hs_length(p[h], t)]
        /\ ss.t_fitlen = IF t < 0 THEN 7 ELSE ss.t_len[0] + ss.t_len[1]
        /\ ss.pav_body = [h \in Hands |-> Pav_body_val(p[h])]
        /\ ss.decl_h = SetDeclarer(ss.t_len, p) /\ ss.dummy_h = 1 - ss.decl_h
    <2> HIDE DEF ss
    <2>. QED
      BY Zenon, <1>0 DEF SideOf
  <1>5. ASSUME NEW h \in Hands
        PROVE  /\ \A k \in 1 .. 4 : sorted_slen(ss, h, k) \in Nat
               /\ sorted_slen(ss, h, 2) >= Shortest(ss, h) /\ Shortest(ss, h) <= 3
    <2> DEFINE l == len(h)
               w == Sorted(l)
    <2>1. l \in [Suits -> Nat] /\ l[0] + l[1] + l[2] + l[3] = 13
      BY FourSuits DEF AHand
    <2>2. 0 \in Suits /\ 1 \in Suits /\ 2 \in Suits /\ 3 \in Suits
      BY FourSuits
    <2>3. \A k \in 1 .. 4 : sorted_slen(ss, h, k) = w[k][1]
      BY <1>2 DEF sorted_slen
    <2>4. Shortest(ss, h) = w[4][1]
      BY <1>2 DEF Shortest, sorted_slen
    <2> HIDE DEF l, len, ss
    <2>5. \E s, u \in Suits : l[s] # l[u]
      <3>1. l[0] \in Nat /\ l[1] \in Nat /\ l[2] \in Nat /\ l[3] \in Nat
        BY <2>1, <2>2
      <3>2. ~(l[0] = l[1] /\ l[0] = l[2] /\ l[0] = l[3])
        BY <2>1, <3>1
      <3>. QED
        BY <2>2, <3>2
    <2>6. /\ w \in Lists
          /\ \A k \in 1 .. 4 : w[k][2] \in Suits /\ w[k][1] = l[w[k][2]]
          /\ \A s \in Suits : \E k \in 1 .. 4 : w[k][2] = s
          /\ Ranked(w)
      <3>1. l \in [Suits -> Int]
        BY <2>1
      <3>. QED
        BY <3>1, <2>5, SortedSuits
    <2> HIDE DEF w
    <2>7. \A k \in 1 .. 4 : w[k][1] \in Nat
      BY <2>1, <2>6
    <2>8. w[1][1] >= w[2][1] /\ w[2][1] >= w[3][1] /\ w[3][1] >= w[4][1]
      BY <2>6, <2>7 DEF Ranked, Before
    <2>9. \A s \in Suits : l[s] >= w[4][1]
      <3> SUFFICES ASSUME NEW s \in Suits PROVE l[s] >= w[4][1]
        OBVIOUS
      <3>1. PICK k \in 1 .. 4 : w[k][2] = s
        BY <2>6
      <3>2. l[s] = w[k][1] /\ (k = 1 \/ k = 2 \/ k = 3 \/ k = 4)
        BY <2>6, <3>1
      <3>. QED
        BY <3>2, <2>7, <2>8
    <2>10. w[4][1] <= 3
      BY <2>1, <2>2, <2>7, <2>9
    <2>11. w[2][1] >= w[4][1]
      <3>1. w[2][1] \in Nat /\ w[3][1] \in Nat /\ w[4][1] \in Nat
        BY <2>7
      <3>. QED
        BY <3>1, <2>8
    <2>12. \A k \in 1 .. 4 : sorted_slen(ss, h, k) \in Nat
      BY <2>3, <2>7
    <2>13. sorted_slen(ss, h, 2) = w[2][1]
      BY <2>3
    <2>. QED
      BY <2>4, <2>10, <2>11, <2>12, <2>13
  <1> HIDE DEF ss, t
  <1>6. ASSUME NEW h \in Hands
        PROVE  ss.t_len[h] \in Nat /\ ss.pav_body[h] \in Nat
    <2>1. ss.t_len[h] = (IF t < 0 THEN 0 ELSE hs_length(p[h], t)) /\ ss.pav_body[h] = Pav_body_val(p[h])
      BY <1>4
    <2>2. AHand(p[h])
      OBVIOUS
    <2>3. Pav_body_val(p[h]) \in Nat /\ \A s \in Suits : hs_length(p[h], s) \in Nat
      BY <2>2, HandNumbers
    <2>. QED
      BY <1>3, <2>1, <2>3
  <1>7. ss.t_fitlen \in Nat
    BY <1>4, <1>6 DEF Hands
  <1>8. ss.decl_h \in Hands
    BY <1>4 DEF SetDeclarer, Hands
  <1>. QED
    BY <1>2, <1>4, <1>5, <1>6, <1>7, <1>8 DEF ItsSide, ss

\* So it does of the hands of a deal.
LEMMA DealtSide ==
  ASSUME NEW i \in DOMAIN Deals
  PROVE  ItsSide(analyze_side(Deals[i]))
  <1>1. \A h \in Hands : AHand(Deals[i][h])
    BY DealsAreSides, DealsAssumption DEF ASide, AHand
  <1>. QED
    BY <1>1, SideFound

\* No hand has less than nothing.
NonNeg(e) == \A h \in Hands : e.nt[h] \in Nat /\ e.bf[h] \in Nat

\* Points of shortness beside the trump suit, of support and of declarer's.
LEMMA FitPoints ==
  ASSUME NEW ss, ItsSide(ss)
  PROVE  /\ \A h \in Hands : \A a, b, c \in Nat : SideShorts(ss, h, <<a, b, c>>) \in Nat
         /\ \A df, fn : (\A h \in Hands : df[h] \in Nat /\ fn[h] \in Nat) =>
               \A h \in Hands : Do_Df_Fn_pts(ss, df, fn)[h] \in Nat
         /\ \A h \in Hands : DfitKAR(ss)[h] \in Nat /\ FnKAR(ss)[h] \in Nat
         /\ \A h \in Hands : DfitDKP(ss)[h] \in Nat /\ DfitLAR(ss)[h] \in Nat /\ NoPoints[h] \in Nat
  <1>1. ASSUME NEW h \in Hands, NEW a \in Nat, NEW b \in Nat, NEW c \in Nat
        PROVE  SideShorts(ss, h, <<a, b, c>>) \in Nat
    <2> DEFINE P(s) == If(s # ss.t_suit, ShortPoints(hs_length(ss.phs[h], s), <<a, b, c>>))
    <2>1. \A s \in Suits : P(s) \in Nat
      BY ShortTable DEF If, ItsSide, AHand
    <2>2. SideShorts(ss, h, <<a, b, c>>) = P(0) + P(1) + P(2) + P(3)
      BY DEF SideShorts, Sum4, CLUBS, DIAMONDS, HEARTS, SPADES
    <2> HIDE DEF P
    <2>. QED
      BY <2>1, <2>2, FourSuits
  <1>2. ASSUME NEW df, NEW fn, \A h \in Hands : df[h] \in Nat /\ fn[h] \in Nat, NEW h \in Hands
        PROVE  Do_Df_Fn_pts(ss, df, fn)[h] \in Nat
    BY <1>2 DEF Do_Df_Fn_pts
  <1>3. \A h \in Hands : ss.t_len[h] \in Nat /\ Shortest(ss, h) \in Nat
    BY DEF ItsSide, Shortest
  <1>4. \A h \in Hands : DfitKAR(ss)[h] \in Nat /\ FnKAR(ss)[h] \in Nat
    <2> SUFFICES ASSUME NEW h \in Hands PROVE DfitKAR(ss)[h] \in Nat /\ FnKAR(ss)[h] \in Nat
      OBVIOUS
    <2>1. SideShorts(ss, h, <<2, 1, 0>>) \in Nat /\ SideShorts(ss, h, <<3, 2, 1>>) \in Nat
      BY <1>1
    <2>2. ss.t_len[h] \in Nat
      BY <1>3
    <2>3. DfitKAR(ss)[h] \in Nat
      BY <2>1, <2>2 DEF DfitKAR
    <2>4. FnKAR(ss)[h] \in Nat
      BY <2>1, <2>2 DEF FnKAR
    <2>. QED
      BY <2>3, <2>4
  <1>5. ASSUME NEW h \in Hands
        PROVE  DfitDKP(ss)[h] \in Nat /\ DfitLAR(ss)[h] \in Nat /\ NoPoints[h] \in Nat
    <2>1. ShortPoints(Shortest(ss, h), <<3, 2, 1>>) \in Nat /\ ShortPoints(Shortest(ss, h), <<5, 3, 1>>) \in Nat
      BY <1>3, ShortTable
    <2>2. DfitDKP(ss)[h] \in Nat
      BY <2>1, <1>3 DEF DfitDKP
    <2>3. DfitLAR(ss)[h] \in Nat
      BY <2>1, <1>3 DEF DfitLAR
    <2>. QED
      BY <2>2, <2>3 DEF NoPoints
  <1>. QED
    BY <1>1, <1>2, <1>4, <1>5

-----------------------------------------------------------------------------
(* No metric gives a hand less than nothing *)

\* Honor points less what short honors take off, rounded in any way.
LEMMA RoundedHand ==
  ASSUME NEW h, AHand(h), NEW m \in PlainAdj, NEW body \in Nat
  PROVE  LET pts == hs_totalpoints(h)  adj == hcp_adj(h, m)
         IN  /\ pts \in Nat /\ adj \in Int
             /\ Round(adj) \in Int /\ pts + Round(adj) >= 0
             /\ Pav_round(adj, body) \in Int /\ pts + Pav_round(adj, body) >= 0
             /\ Round(100 * pts + adj) \in Nat
  <1> DEFINE pts == hs_totalpoints(h)
             adj == hcp_adj(h, m)
             w == 100 * pts + adj
  <1>1. pts \in Nat /\ adj \in -(100 * pts) .. 0
    BY HandNumbers, ShortInHand
  <1> HIDE DEF pts, adj
  <1>2. adj \in Int /\ adj >= -100 * pts
    BY <1>1
  <1>3. Round(adj) \in Int /\ Round(adj) >= -pts /\ Pav_round(adj, body) \in Int /\ Pav_round(adj, body) >= -pts
    BY <1>1, <1>2, Rounding
  <1>4. w \in Int /\ w >= -100 * 0 /\ w >= 0 /\ 0 \in Nat
    BY <1>1, <1>2
  <1> HIDE DEF w
  <1>5. Round(w) \in Int /\ Round(w) >= 0
    BY <1>4, Rounding
  <1>. QED
    BY <1>1, <1>2, <1>3, <1>5 DEF pts, adj, w

\* Kaplan's.
LEMMA Kaplan == ASSUME NEW ss, ItsSide(ss) PROVE NonNeg(kaplan_calc(ss))
  <1> SUFFICES ASSUME NEW h \in Hands
               PROVE  kaplan_calc(ss).nt[h] \in Nat /\ kaplan_calc(ss).bf[h] \in Nat
    BY DEF NonNeg
  <1> DEFINE hand == ss.phs[h]
             pts == hs_totalpoints(hand)
             r == Pav_round(hcp_adj(hand, KAPLAN), ss.pav_body[h])
             l == LengthOver(hand, 4, 9)
             hf == HfKAP(ss, h)
             d == If(Fit(ss), DfitKAP(ss, h))
  <1>1. AHand(hand) /\ ss.pav_body[h] \in Nat /\ KAPLAN \in PlainAdj
    BY DEF ItsSide, PlainAdj
  <1>2. pts \in Nat /\ r \in Int /\ pts + r >= 0
    BY <1>1, RoundedHand
  <1>3. l \in Nat
    BY <1>1, HandNumbers
  <1>4. hf \in Nat
    BY DEF HfKAP, Sum4, If
  <1>5. d \in Nat
    BY FitPoints DEF If, DfitKAP
  <1>6. kaplan_calc(ss).nt[h] = pts + r + l + hf /\ kaplan_calc(ss).bf[h] = pts + r + l + hf + d
    BY DEF kaplan_calc, UserEvals, Plus
  <1> HIDE DEF pts, r, l, hf, d
  <1>. QED
    BY <1>2, <1>3, <1>4, <1>5, <1>6

\* Karpin's.
LEMMA Karpin == ASSUME NEW ss, ItsSide(ss) PROVE NonNeg(karpin_calc(ss))
  <1> SUFFICES ASSUME NEW h \in Hands
               PROVE  karpin_calc(ss).nt[h] \in Nat /\ karpin_calc(ss).bf[h] \in Nat
    BY DEF NonNeg
  <1> DEFINE hand == ss.phs[h]
             pts == hs_totalpoints(hand)
             r == Round(hcp_adj(hand, KARPIN))
             l == LengthOver(hand, 4, 9)
             d == Do_Df_Fn_pts(ss, DfitKAR(ss), FnKAR(ss))[h]
  <1>1. AHand(hand) /\ ss.pav_body[h] \in Nat /\ KARPIN \in PlainAdj
    BY DEF ItsSide, PlainAdj
  <1>2. pts \in Nat /\ r \in Int /\ pts + r >= 0
    BY <1>1, RoundedHand
  <1>3. l \in Nat
    BY <1>1, HandNumbers
  <1>4. d \in Nat
    BY FitPoints
  <1>5. karpin_calc(ss).nt[h] = pts + r + l /\ karpin_calc(ss).bf[h] = pts + r + l + d
    BY DEF karpin_calc, UserEvals, Plus
  <1> HIDE DEF pts, r, l, d
  <1>. QED
    BY <1>2, <1>3, <1>4, <1>5

\* Karpin's, on the other scale.
LEMMA KarpinB == ASSUME NEW ss, ItsSide(ss) PROVE NonNeg(karpb_calc(ss))
  <1> SUFFICES ASSUME NEW h \in Hands
               PROVE  karpb_calc(ss).nt[h] \in Nat /\ karpb_calc(ss).bf[h] \in Nat
    BY DEF NonNeg
  <1> DEFINE hand == ss.phs[h]
             hon == alt_hcp(hand, KARP_B) + hcp_adj(hand, KARP_B)
             r == Pav_round(hon, ss.pav_body[h])
             l == LengthOver(hand, 4, 9)
             d == Do_Df_Fn_pts(ss, DfitKAR(ss), FnKAR(ss))[h]
  <1>1. AHand(hand) /\ ss.pav_body[h] \in Nat
    BY DEF ItsSide
  <1>2. hon \in Nat
    BY <1>1, ShortInHand
  <1>3. r \in Nat
    <2> HIDE DEF hon
    <2>1. hon \in Int /\ 0 \in Nat /\ hon >= -100 * 0 /\ hon >= 0
      BY <1>2
    <2>. QED
      BY <1>1, <2>1, Rounding
  <1>4. l \in Nat
    BY <1>1, HandNumbers
  <1>5. d \in Nat
    BY FitPoints
  <1>6. karpb_calc(ss).nt[h] = r + l /\ karpb_calc(ss).bf[h] = r + l + d
    BY DEF karpb_calc, UserEvals, Plus
  <1> HIDE DEF r, l, d
  <1>. QED
    BY <1>3, <1>4, <1>5, <1>6

\* Larsson's, on both scales.
LEMMA Larsson ==
  ASSUME NEW ss, ItsSide(ss)
  PROVE  NonNeg(lar_calc(ss)) /\ NonNeg(lar_b_calc(ss))
  <1> SUFFICES ASSUME NEW h \in Hands
               PROVE  /\ lar_calc(ss).nt[h] \in Nat /\ lar_calc(ss).bf[h] \in Nat
                      /\ lar_b_calc(ss).nt[h] \in Nat /\ lar_b_calc(ss).bf[h] \in Nat
    BY DEF NonNeg
  <1> DEFINE hand == ss.phs[h]
             pts == hs_totalpoints(hand)
             r == Round(hcp_adj(hand, LAR))
             hon == alt_hcp(hand, LAR_B) + hcp_adj(hand, LAR_B)
             rb == Pav_round(hon, ss.pav_body[h])
             b == BodyLAR(ss, h)
             l == SynLengthLAR(hand)
             d == Do_Df_Fn_pts(ss, DfitLAR(ss), NoPoints)[h]
  <1>1. AHand(hand) /\ ss.pav_body[h] \in Nat /\ LAR \in PlainAdj
    BY DEF ItsSide, PlainAdj
  <1>2. pts \in Nat /\ r \in Int /\ pts + r >= 0
    BY <1>1, RoundedHand
  <1>3. hon \in Nat
    BY <1>1, ShortInHand
  <1>4. rb \in Nat
    <2> HIDE DEF hon
    <2>1. hon \in Int /\ 0 \in Nat /\ hon >= -100 * 0 /\ hon >= 0
      BY <1>3
    <2>. QED
      BY <1>1, <2>1, Rounding
  <1>5. b \in Nat
    BY DEF BodyLAR, If
  <1>6. l \in Nat
    <2> DEFINE c == SynLAR(hand)
               lo == LengthOver(hand, 5, 3)
    <2>1. c \in Nat
      BY Counting DEF SynLAR, Count, Larger, Smaller
    <2>2. lo \in Nat
      BY <1>1, HandNumbers
    <2>3. l = c + lo
      BY DEF SynLengthLAR
    <2> HIDE DEF c, lo
    <2>. QED
      BY <2>1, <2>2, <2>3
  <1>7. d \in Nat
    BY FitPoints
  <1>8. lar_calc(ss).nt[h] = pts + r + b + l /\ lar_calc(ss).bf[h] = pts + r + b + l + d
    BY DEF lar_calc, UserEvals, Plus
  <1>9. lar_b_calc(ss).nt[h] = rb + l /\ lar_b_calc(ss).bf[h] = rb + l + d
    BY DEF lar_b_calc, UserEvals, Plus
  <1> HIDE DEF pts, r, rb, b, l, d
  <1>. QED
    BY <1>2, <1>4, <1>5, <1>6, <1>7, <1>8, <1>9

\* Kleinman's, where little jack points may be fewer than none, and are made zero.
LEMMA Kleinman == ASSUME NEW ss, ItsSide(ss) PROVE NonNeg(dkp_calc(ss))
  <1> SUFFICES ASSUME NEW h \in Hands
               PROVE  dkp_calc(ss).nt[h] \in Nat /\ dkp_calc(ss).bf[h] \in Nat
    BY DEF NonNeg
  <1> DEFINE hand == ss.phs[h]
             n == NTptsDKP(hand)
             d == Do_Df_Fn_pts(ss, DfitDKP(ss), NoPoints)[h]
             x == LJP(hand)
             l == LengthOver(hand, 4, 3)
  <1>1. AHand(hand)
    BY DEF ItsSide
  <1>2. x \in Int
    <2> DEFINE a == alt_hcp(hand, DKP)
               P(s) == AdjDKP(hand, s) + SynDKP(hand, s)
    <2>1. \A s : calc_alt_hcp(hand, s, DKP) \in Int
      <3>1. hcp_val(DKP) = <<13, 9, 5, 2, 0>> /\ DKP # LAR_B
        BY DEF hcp_val, DKP, LAR_B
      <3>. QED
        BY <3>1 DEF calc_alt_hcp, If
    <2>2. a \in Int
      BY <2>1 DEF alt_hcp, Sum4
    <2>3. \A s : P(s) \in Int
      BY DEF AdjDKP, SynDKP, If
    <2>4. x = a + (P(0) + P(1) + P(2) + P(3)) - If(square_hand(hand), 2)
      BY DEF LJP, Sum4, CLUBS, DIAMONDS, HEARTS, SPADES
    <2> HIDE DEF a, P
    <2>. QED
      BY <2>2, <2>3, <2>4 DEF If
  <1>3. l \in Nat
    BY <1>1, HandNumbers
  <1>4. n = Larger(0, (x + 1) \div 3 + l)
    BY DEF NTptsDKP
  <1>5. d \in Nat
    BY FitPoints
  <1>6. dkp_calc(ss).nt[h] = n /\ dkp_calc(ss).bf[h] = n + d
    BY DEF dkp_calc, UserEvals, Plus
  <1> HIDE DEF x, l, n, d
  <1>7. n \in Nat
    BY <1>2, <1>3, <1>4 DEF Larger
  <1>. QED
    BY <1>5, <1>6, <1>7

\* Rounding a whole number of hundredths gives a number.
LEMMA RoundWhole == \A v \in Int : Round(v) \in Int /\ Trunc(v) \in Int
  <1> SUFFICES ASSUME NEW v \in Int PROVE Round(v) \in Int /\ Trunc(v) \in Int
    OBVIOUS
  <1>1. CASE v >= 0
    BY <1>1 DEF Round, Trunc
  <1>2. CASE v < 0
    BY <1>2 DEF Round, Trunc
  <1>. QED
    BY <1>1, <1>2

\* Bissell's: the hundred a flat hand loses it has in its suit of four cards.
LEMMA Bissell == ASSUME NEW ss, ItsSide(ss) PROVE NonNeg(bissell_calc(ss))
  <1> SUFFICES ASSUME NEW h \in Hands
               PROVE  bissell_calc(ss).nt[h] \in Nat /\ bissell_calc(ss).bf[h] \in Nat
    BY DEF NonNeg
  <1> DEFINE hand == ss.phs[h]
             Flat(g) == square_hand(g) \/ OfLength(g, 4) = 3
                        \/ (OfLength(g, 4) = 2 /\ OfLength(g, 0) = 0)
             S(s) == SuitBIS(hand, s)
             Sum(g) == LET P(s) == SuitBIS(g, s) IN Sum4(P)
             Pts(g) == Sum(g) - If(Flat(g), 100)
             nt == [i \in Hands |-> Pav_round(Pts(ss.phs[i]), ss.pav_body[i])]
             x == Pts(hand)
  <1>1. AHand(hand) /\ ss.pav_body[h] \in Nat
    BY DEF ItsSide
  <1>2. bissell_calc(ss).nt[h] = Pav_round(x, ss.pav_body[h])
        /\ bissell_calc(ss).bf[h] = Pav_round(x, ss.pav_body[h])
    <2>1. bissell_calc(ss) = UserEvals(nt, nt, <<>>)
      BY DEF bissell_calc
    <2>2. nt[h] = Pav_round(Pts(hand), ss.pav_body[h])
      <3> HIDE DEF Pts
      <3>. QED
        OBVIOUS
    <2> HIDE DEF Pts, nt
    <2>. QED
      BY <2>1, <2>2 DEF UserEvals
  <1>3. \A s \in Suits : S(s) \in Nat /\ (hs_length(hand, s) = 4 => S(s) >= 100)
    <2> SUFFICES ASSUME NEW s \in Suits PROVE S(s) \in Nat /\ (hs_length(hand, s) = 4 => S(s) >= 100)
      OBVIOUS
    <2> DEFINE honor(r) == If(r \in hand[s], Larger(0, 3 - Cardinality((r + 1) .. ACE \ hand[s])))
               len == hs_length(hand, s)
               hon == honor(ACE) + honor(KING) + honor(QUEEN) + honor(JACK) + honor(TEN)
               lpts == IF len > 4 THEN 3 * (len - 4) ELSE If(len = 4, 1)
               adj == shortHon_adj(hand, s, BISSEL)
    <2>1. \A r \in {ACE, KING, QUEEN, JACK, TEN} : honor(r) \in Nat
      <3> SUFFICES ASSUME NEW r \in {ACE, KING, QUEEN, JACK, TEN} PROVE honor(r) \in Nat
        OBVIOUS
      <3> DEFINE T == (r + 1) .. ACE \ hand[s]
      <3>1. T \in SUBSET (0 .. ACE) /\ T \cap T = T
        BY DEF ACE, KING, QUEEN, JACK, TEN
      <3>2. Cardinality(T) \in Nat
        BY <3>1, Counting
      <3>. QED
        BY <3>2 DEF If, Larger
    <2> HIDE DEF honor
    <2>2. hon \in Nat
      BY <2>1
    <2>3. adj \in Int
      <3>1. BISSEL \in PlainAdj
        BY DEF PlainAdj
      <3>2. hs_points(hand, s) \in Nat
        BY <1>1, HandNumbers
      <3>. QED
        BY <1>1, <3>1, <3>2, ShortInSuit
    <2>4. len \in Nat
      BY <1>1 DEF AHand
    <2>5. S(s) = Smaller(300 * len, Larger(0, 100 * hon + adj) + 100 * lpts)
      BY DEF SuitBIS, honor
    <2> HIDE DEF hon, adj, len, S
    <2>6. S(s) \in Nat /\ (len = 4 => S(s) >= 100)
      BY <2>2, <2>3, <2>4, <2>5 DEF Smaller, Larger, If
    <2>. QED
      BY <2>6 DEF len
  <1>4. Flat(hand) => \E s \in Suits : hs_length(hand, s) = 4
    <2>1. OfLength(hand, 4) \in Nat /\ (OfLength(hand, 4) > 0 => \E s \in Suits : hs_length(hand, s) = 4)
      BY OfSome
    <2>2. square_hand(hand) => \E s \in Suits : hs_length(hand, s) = 4
      BY <1>1, FourSuits DEF square_hand, AHand
    <2>. QED
      BY <2>1, <2>2
  <1>5. x \in Int /\ 0 \in Nat /\ x >= -100 * 0 /\ x >= 0
    <2> DEFINE y == Sum(hand)
               f == Flat(hand)
    <2>0. y = S(0) + S(1) + S(2) + S(3)
      BY DEF Sum4, CLUBS, DIAMONDS, HEARTS, SPADES
    <2> HIDE DEF S, Flat, hand, y
    <2>1. /\ S(0) \in Nat /\ S(1) \in Nat /\ S(2) \in Nat /\ S(3) \in Nat
      BY <1>3, FourSuits
    <2>2. Flat(hand) => S(0) >= 100 \/ S(1) >= 100 \/ S(2) >= 100 \/ S(3) >= 100
      BY <1>3, <1>4, FourSuits
    <2>3. x = y - If(Flat(hand), 100)
      BY DEF y
    <2>. QED
      BY <2>0, <2>1, <2>2, <2>3 DEF If
  <1> HIDE DEF x
  <1>. QED
    BY <1>1, <1>2, <1>5, Rounding

\* Bergen's.
LEMMA Bergen == ASSUME NEW ss, ItsSide(ss) PROVE NonNeg(bergen_calc(ss))
  <1> SUFFICES ASSUME NEW h \in Hands
               PROVE  bergen_calc(ss).nt[h] \in Nat /\ bergen_calc(ss).bf[h] \in Nat
    BY DEF NonNeg
  <1> DEFINE hand == ss.phs[h]
             r == Round(100 * hs_totalpoints(hand) + hcp_adj(hand, BERGEN))
             Syn(s) == SynBERG(hand, s)
             l == LengthOver(hand, 4, 9)
             a == Adjust3(hand)
             st == Larger(0, r + Sum4(Syn) + l + a - If(square_hand(hand), 1))
             hf == Hf_ptsBERG(ss, h)
             d == Do_Df_Fn_pts(ss, DfitBERG(ss), Fn_ptsBERG(ss))[h]
  <1>1. AHand(hand) /\ BERGEN \in PlainAdj
    BY DEF ItsSide, PlainAdj
  <1>2. r \in Nat
    <2>1. 0 \in Nat
      OBVIOUS
    <2>. QED
      BY <1>1, <2>1, RoundedHand
  <1>3. l \in Nat
    BY <1>1, HandNumbers
  <1>4. a \in Int
    BY DEF Adjust3
  <1>5. Sum4(Syn) \in Nat
    BY DEF Sum4, SynBERG, If
  <1>6. st \in Nat
    <2> DEFINE y == Sum4(Syn)
    <2>1. y \in Nat
      BY <1>5
    <2> HIDE DEF r, l, a, y, hand
    <2>2. Larger(0, r + y + l + a - If(square_hand(hand), 1)) \in Nat
      BY <1>2, <1>3, <1>4, <2>1 DEF Larger, If
    <2>. QED
      BY <2>2 DEF y
  <1>7. hf \in Nat
    BY Counting DEF Hf_ptsBERG, Count, Smaller
  <1>8. \A i \in Hands : DfitBERG(ss)[i] \in Nat /\ Fn_ptsBERG(ss)[i] \in Nat
    <2> SUFFICES ASSUME NEW i \in Hands PROVE DfitBERG(ss)[i] \in Nat /\ Fn_ptsBERG(ss)[i] \in Nat
      OBVIOUS
    <2> DEFINE t == ss.t_len[i]
               u == IF t = 3 THEN 2 ELSE 3
    <2>1. t \in Nat /\ AHand(ss.phs[i])
      BY DEF ItsSide
    <2>2. SideShorts(ss, i, <<t, u, 1>>) \in Nat
      <3>1. u \in Nat /\ 1 \in Nat
        OBVIOUS
      <3>. QED
        BY <2>1, <3>1, FitPoints
    <2>3. ShortSuits(ss.phs[i], <<3, 2, 0>>) \in Nat
      BY <2>1, HandNumbers
    <2>4. DfitBERG(ss)[i] = If(t > 2, SideShorts(ss, i, <<t, u, 1>>))
      BY DEF DfitBERG
    <2>5. Fn_ptsBERG(ss)[i] = If(t >= 5, 1 + 2 * (t - 5)) + ShortSuits(ss.phs[i], <<3, 2, 0>>)
                              + If(OfLength(ss.phs[i], 2) >= 2, 1)
      BY DEF Fn_ptsBERG
    <2> HIDE DEF t, u
    <2>. QED
      BY <2>1, <2>2, <2>3, <2>4, <2>5 DEF If
  <1>9. d \in Nat
    BY <1>8, FitPoints
  <1>10. bergen_calc(ss).nt[h] = (IF Misfit(ss.phs, 4) THEN Larger(0, st - l) ELSE st)
         /\ bergen_calc(ss).bf[h] = st + hf + d
    BY DEF bergen_calc, UserEvals
  <1> HIDE DEF st, l, hf, d
  <1>. QED
    BY <1>3, <1>6, <1>7, <1>9, <1>10 DEF Larger

\* Sheinwold's.
LEMMA Sheinwold == ASSUME NEW ss, ItsSide(ss) PROVE NonNeg(sheinw_calc(ss))
  <1> SUFFICES ASSUME NEW h \in Hands
               PROVE  sheinw_calc(ss).nt[h] \in Nat /\ sheinw_calc(ss).bf[h] \in Nat
    BY DEF NonNeg
  <1> DEFINE hand == ss.phs[h]
             Adj(s) == AdjSHEINW(ss, h, s)
             hon == 100 * hs_totalpoints(hand) + Sum4(Adj)
             aces == hs_counts(hand, ACE)
             st == Larger(0, Round(hon) + If(aces >= 3, 1) - If(aces = 0 /\ hon >= 1100, 1))
             fn == Fn_ptsSHEINW(ss, h)
             hf == Hf_ptsSHEINW(ss)
             mo == IF ~Fit(ss) THEN 0 ELSE IF h = ss.decl_h THEN fn ELSE hf
             df == DfitSHEINW(ss, h)
             dp == ShortSuits(hand, <<3, 2, 1>>)
  <1>1. AHand(hand) /\ ss.t_len[h] \in Nat
    BY DEF ItsSide
  <1>2. hon \in Int
    <2>1. \A s \in Suits : Adj(s) \in Int
      <3> SUFFICES ASSUME NEW s \in Suits PROVE Adj(s) \in Int
        OBVIOUS
      <3>1. SHEINW \in PlainAdj /\ hs_points(hand, s) \in Nat
        BY <1>1, HandNumbers DEF PlainAdj
      <3>2. shortHon_adj(hand, s, SHEINW) \in Int
        BY <1>1, <3>1, ShortInSuit
      <3>. QED
        BY <3>2 DEF AdjSHEINW, If
    <2>2. hs_totalpoints(hand) \in Nat
      BY <1>1, HandNumbers
    <2>3. hon = 100 * hs_totalpoints(hand) + (Adj(0) + Adj(1) + Adj(2) + Adj(3))
      BY DEF Sum4, CLUBS, DIAMONDS, HEARTS, SPADES
    <2> HIDE DEF hon, Adj, hand
    <2>. QED
      BY <2>1, <2>2, <2>3, FourSuits
  <1>3. st \in Nat
    <2> DEFINE v == Round(hon)
    <2>1. v \in Int
      BY <1>2, RoundWhole
    <2> HIDE DEF hon, aces, v
    <2>2. Larger(0, v + If(aces >= 3, 1) - If(aces = 0 /\ hon >= 1100, 1)) \in Nat
      BY <2>1 DEF Larger, If
    <2>. QED
      BY <2>2 DEF v
  <1>4. fn \in Nat
    <2> DEFINE P(s) == LET len == hs_length(hand, s)
                       IN  IF s = ss.t_suit \/ len < 5 THEN 0
                           ELSE If(Top(hand, s, 4) = 4, 1)
                                + If(hs_length(ss.phs[1 - h], s) >= 3, 2 * len - 9)
               tl == TrumpLength(ss, h)
    <2>1. \A s \in Suits : P(s) \in Nat
      BY <1>1 DEF AHand, If
    <2>2. tl \in Nat
      BY <1>1 DEF TrumpLength, If
    <2>3. fn = tl + (P(0) + P(1) + P(2) + P(3))
      BY DEF Fn_ptsSHEINW, Sum4, CLUBS, DIAMONDS, HEARTS, SPADES
    <2> HIDE DEF fn, P, tl
    <2>. QED
      BY <2>1, <2>2, <2>3, FourSuits
  <1>5. hf \in Nat
    BY Counting DEF Hf_ptsSHEINW, Count, If
  <1>6. df \in Nat
    <2>1. SideShorts(ss, h, <<4, 2, 0>>) \in Nat /\ SideShorts(ss, h, <<5, 3, 1>>) \in Nat
      BY FitPoints
    <2>. QED
      BY <1>1, <2>1 DEF DfitSHEINW
  <1>7. dp \in Nat
    BY <1>1, HandNumbers
  <1>8. /\ sheinw_calc(ss).nt[h] = st + mo
        /\ sheinw_calc(ss).bf[h] = st + mo + (IF Fit(ss) /\ h = ss.dummy_h THEN df ELSE dp)
    BY DEF sheinw_calc, UserEvals, Plus
  <1> HIDE DEF st, fn, hf, df, dp
  <1>. QED
    BY <1>3, <1>4, <1>5, <1>6, <1>7, <1>8

\* Goren's.
LEMMA Goren == ASSUME NEW ss, ItsSide(ss) PROVE NonNeg(goren_calc(ss))
  <1> SUFFICES ASSUME NEW h \in Hands
               PROVE  goren_calc(ss).nt[h] \in Nat /\ goren_calc(ss).bf[h] \in Nat
    BY DEF NonNeg
  <1> DEFINE hand == ss.phs[h]
             r == Round(100 * hs_totalpoints(hand) + hcp_adj(hand, GOREN))
             hon == r + If(hs_counts(hand, ACE) = 4, 1)
             sq == If(square_hand(hand), 1)
             sh == ShortSuits(hand, <<3, 2, 1>>)
             tl == TrumpLength(ss, h)
             df == DfitGOREN(ss, h)
             hf == Hf_ptsGOREN(ss, h)
  <1>1. AHand(hand) /\ ss.t_len[h] \in Nat /\ GOREN \in PlainAdj
    BY DEF ItsSide, PlainAdj
  <1>2. hon \in Nat
    <2>1. r \in Nat
      <3>1. 0 \in Nat
        OBVIOUS
      <3>. QED
        BY <1>1, <3>1, RoundedHand
    <2> HIDE DEF r
    <2>. QED
      BY <2>1 DEF If
  <1>3. sq \in Nat /\ hf \in Nat
    BY DEF If, Hf_ptsGOREN
  <1>4. sh \in Nat
    BY <1>1, HandNumbers
  <1>5. tl \in Nat
    BY <1>1 DEF TrumpLength, If
  <1>6. df \in Nat
    <2>1. SideShorts(ss, h, <<2, 1, 0>>) \in Nat
      BY FitPoints
    <2>. QED
      BY <1>1, <2>1 DEF DfitGOREN, If
  <1>7. /\ goren_calc(ss).nt[h] = Larger(0, hon - sq)
        /\ goren_calc(ss).bf[h] =
              Larger(0, IF ~Fit(ss) THEN (IF Misfit(ss.phs, 4) THEN hon ELSE hon + sh)
                        ELSE IF h = ss.decl_h THEN hon + sh + tl
                        ELSE hon + sh + df - sq + hf)
    BY DEF goren_calc, UserEvals
  <1> HIDE DEF hon, sq, sh, tl, df, hf
  <1>. QED
    BY <1>2, <1>3, <1>4, <1>5, <1>6, <1>7 DEF Larger

\* The best of four suits.
LEMMA BestSuit ==
  ASSUME NEW p, \A s \in Suits : p[s] \in Nat
  PROVE  \E m \in Suits : \A s \in Suits : p[s] <= p[m]
  <1> DEFINE a == p[0]
             b == p[1]
             c == p[2]
             d == p[3]
  <1>1. a \in Nat /\ b \in Nat /\ c \in Nat /\ d \in Nat
    BY FourSuits
  <1>2. \E m \in {a, b, c, d} : a <= m /\ b <= m /\ c <= m /\ d <= m
    <2> HIDE DEF a, b, c, d
    <2>. QED
      BY <1>1
  <1>. QED
    BY <1>2, FourSuits

\* What Roth takes of a hand's suits.
LEMMA BestOfFour ==
  ASSUME NEW p, \A s \in Suits : p[s] \in Nat
  PROVE  Best4(p) \in Nat
  <1>1. PICK m \in Suits : \A s \in Suits : p[s] <= p[m]
    BY BestSuit
  <1>2. Max({p[s] : s \in Suits}) = p[m]
    BY <1>1, MaxIs
  <1>. QED
    BY <1>2 DEF Best4

\* What Zar takes of a hand's two best suits.
LEMMA BestPair ==
  ASSUME NEW p, \A s \in Suits : p[s] \in Nat
  PROVE  Max({p[q[1]] + p[q[2]] : q \in {q \in Suits \X Suits : q[1] # q[2]}}) \in Nat
  <1> DEFINE P == {q \in Suits \X Suits : q[1] # q[2]}
             S == {p[q[1]] + p[q[2]] : q \in P}
  <1>1. PICK m \in Suits : \A s \in Suits : p[s] <= p[m]
    BY BestSuit
  <1>2. PICK n \in Suits : n # m /\ \A s \in Suits \ {m} : p[s] <= p[n]
    <2> DEFINE r == [s \in Suits |-> IF s = m THEN 0 ELSE p[s]]
    <2>1. \A s \in Suits : r[s] \in Nat
      OBVIOUS
    <2> HIDE DEF r
    <2>2. PICK n \in Suits : \A s \in Suits : r[s] <= r[n]
      BY <2>1, BestSuit
    <2>3. CASE n # m
      BY <2>2, <2>3 DEF r
    <2>4. CASE n = m
      <3>1. PICK k \in Suits : k # m
        BY FourSuits
      <3>2. \A s \in Suits \ {m} : p[s] = 0
        BY <2>2, <2>4 DEF r
      <3>. QED
        BY <3>1, <3>2
    <2>. QED
      BY <2>3, <2>4
  <1>3. <<m, n>> \in P
    BY <1>2
  <1>4. p[m] + p[n] \in S
    BY <1>3
  <1>5. \A q \in P : p[q[1]] + p[q[2]] \in Nat /\ p[q[1]] + p[q[2]] <= p[m] + p[n]
    <2> SUFFICES ASSUME NEW a \in Suits, NEW b \in Suits, a # b
                 PROVE  p[a] + p[b] \in Nat /\ p[a] + p[b] <= p[m] + p[n]
      OBVIOUS
    <2>1. p[a] \in Nat /\ p[b] \in Nat /\ p[m] \in Nat /\ p[n] \in Nat /\ p[a] <= p[m] /\ p[b] <= p[m]
      BY <1>1
    <2>2. p[a] <= p[n] \/ p[b] <= p[n]
      BY <1>2
    <2>. QED
      BY <2>1, <2>2
  <1>6. Max(S) = p[m] + p[n]
    <2>1. S \subseteq Int /\ \A x \in S : x <= p[m] + p[n]
      BY <1>5
    <2> HIDE DEF S
    <2>. QED
      BY <1>4, <2>1, MaxIs
  <1>. QED
    BY <1>4, <1>5, <1>6

\* Roth's.
LEMMA Roth == ASSUME NEW ss, ItsSide(ss) PROVE NonNeg(roth_calc(ss))
  <1> DEFINE Type(hand) == [s \in Suits |-> rothSuitType(hand, s)]
             Lpts(hand) == [s \in Suits |-> LptsROTH(hand, s)]
             NTs(hand) == [s \in Suits |-> If(Type(hand)[s] >= RS_GOOD, Lpts(hand)[s])]
  <1>1. ASSUME NEW h \in Hands
        PROVE  LET r == RothHand(ss, h)
               IN  /\ r.hcp \in Nat /\ r.hcp_adj \in Int /\ r.hcp + r.hcp_adj >= 0
                   /\ r.Aces \in Nat /\ r.Dpts \in Nat /\ r.Lpts \in Nat /\ r.LptsNT \in Nat
                   /\ r.FN_ptsNT \in Nat
    <2> DEFINE hand == ss.phs[h]
               Adj(s) == Trunc(shortHon_adj(hand, s, ROTH))
               pts(s) == hs_points(hand, s)
               r == RothHand(ss, h)
    <2>1. AHand(hand) /\ ROTH \in PlainAdj
      BY DEF ItsSide, PlainAdj
    <2>2. \A s \in Suits : LptsROTH(hand, s) \in Nat
      BY <2>1 DEF AHand, LptsROTH, Smaller, Larger
    <2>3. Best4(Lpts(hand)) \in Nat
      <3>1. \A s \in Suits : Lpts(hand)[s] \in Nat
        BY <2>2
      <3> HIDE DEF Lpts
      <3>. QED
        BY <3>1, BestOfFour
    <2>4. Best4(NTs(hand)) \in Nat
      <3>1. \A s \in Suits : NTs(hand)[s] \in Nat
        BY <2>2 DEF If
      <3> HIDE DEF NTs
      <3>. QED
        BY <3>1, BestOfFour
    <2>5. \A s \in Suits : Adj(s) \in Int /\ Adj(s) >= -pts(s) /\ pts(s) \in Nat
      <3> SUFFICES ASSUME NEW s \in Suits PROVE Adj(s) \in Int /\ Adj(s) >= -pts(s) /\ pts(s) \in Nat
        OBVIOUS
      <3> DEFINE x == shortHon_adj(hand, s, ROTH)
                 n == pts(s)
      <3>1. n \in Nat
        BY <2>1, HandNumbers
      <3>2. x \in -(100 * n) .. 0
        BY <2>1, ShortInSuit
      <3> HIDE DEF x, n
      <3>3. x \in Int /\ x >= -100 * n
        BY <3>1, <3>2
      <3>4. Trunc(x) \in Int /\ Trunc(x) >= -n
        BY <3>1, <3>3, Rounding
      <3>. QED
        BY <3>1, <3>4 DEF x, n
    <2>6. /\ r.hcp = hs_totalpoints(hand) /\ r.hcp_adj = Sum4(Adj)
          /\ r.Aces = If(hs_counts(hand, ACE) = 4, 1) /\ r.Dpts = ShortSuits(hand, <<3, 2, 1>>)
          /\ r.Lpts = Best4(Lpts(hand)) /\ r.LptsNT = Best4(NTs(hand))
          /\ \E b \in BOOLEAN : r.FN_ptsNT = If(b, 1)
      BY DEF RothHand
    <2>7. r.hcp = pts(0) + pts(1) + pts(2) + pts(3)
      BY <2>6 DEF hs_totalpoints, Sum4, CLUBS, DIAMONDS, HEARTS, SPADES
    <2>8. r.hcp_adj = Adj(0) + Adj(1) + Adj(2) + Adj(3)
      BY <2>6 DEF Sum4, CLUBS, DIAMONDS, HEARTS, SPADES
    <2>9. r.Dpts \in Nat
      BY <2>1, <2>6, HandNumbers
    <2>10. r.Aces \in Nat /\ r.FN_ptsNT \in Nat
      BY <2>6 DEF If
    <2>11. r.hcp \in Nat /\ r.hcp_adj \in Int /\ r.hcp + r.hcp_adj >= 0
      <3> HIDE DEF Adj, pts, r
      <3>. QED
        BY <2>5, <2>7, <2>8, FourSuits
    <2>. QED
      BY <2>3, <2>4, <2>6, <2>9, <2>10, <2>11
  <1> SUFFICES ASSUME NEW h \in Hands
               PROVE  roth_calc(ss).nt[h] \in Nat /\ roth_calc(ss).bf[h] \in Nat
    BY DEF NonNeg
  <1> DEFINE r == RothHand(ss, h)
             fn == FN_ptsROTH(ss)
             df == DfitROTH(ss)
             decl == CASE r.type = RS_SSS -> r.Dpts + 2 * r.Lpts
                       [] r.type # RS_SSS /\ (r.type = RS_RELBL \/ Fit(ss)) -> r.Dpts + r.Lpts + fn
                       [] OTHER -> r.Lpts
  <1>2. fn \in Nat
    <2>1. ss.t_len[ss.decl_h] \in Nat
      BY DEF ItsSide
    <2>. QED
      BY <2>1 DEF FN_ptsROTH, If
  <1>3. df \in Nat
    <2> DEFINE hand == ss.phs[ss.dummy_h]
               t == ss.t_len[ss.dummy_h]
               inc == CASE t = 4 -> 1 [] t = 5 -> 2 [] OTHER -> 0
               side == Suits \ {ss.t_suit}
               n == Cardinality({s \in side : hs_length(hand, s) < 2})
    <2>1. ss.dummy_h \in Hands
      BY DEF ItsSide, Hands
    <2>2. AHand(hand) /\ t \in Nat
      BY <2>1 DEF ItsSide
    <2>3. n \in Nat
      BY Counting
    <2>4. ShortSuits(hand, <<3, 2, 1>>) \in Nat
      BY <2>2, HandNumbers
    <2> DEFINE one == If(\E s \in side : hs_length(hand, s) = 2, 1)
    <2>5. df = IF t < 3 THEN 0
               ELSE ShortSuits(hand, <<3, 2, 1>>) + (IF t = 3 THEN 0 ELSE inc * n + one)
      BY DEF DfitROTH
    <2>8. one \in Nat
      BY DEF If
    <2>6. inc \in {0, 1, 2}
      OBVIOUS
    <2> HIDE DEF n, inc, one, df, hand
    <2>7. inc * n \in Nat
      BY <2>3, <2>6
    <2>. QED
      BY <2>4, <2>5, <2>7, <2>8
  <1>4. decl \in Nat
    <2> HIDE DEF fn, r
    <2>1. r.Dpts \in Nat /\ r.Lpts \in Nat
      BY <1>1 DEF r
    <2>. QED
      BY <1>2, <2>1
  <1>5. /\ roth_calc(ss).nt[h] = r.hcp + r.LptsNT + r.Aces
                                 + (IF r.type = RS_SSS THEN r.LptsNT ELSE r.FN_ptsNT)
        /\ roth_calc(ss).bf[h] = r.hcp + r.hcp_adj + r.Aces
                                 + (IF h = ss.decl_h THEN decl ELSE If(Fit(ss), df))
    BY DEF roth_calc, UserEvals
  <1>6. /\ r.hcp \in Nat /\ r.hcp_adj \in Int /\ r.hcp + r.hcp_adj >= 0
        /\ r.Aces \in Nat /\ r.LptsNT \in Nat /\ r.FN_ptsNT \in Nat
    BY <1>1
  <1> DEFINE a == IF r.type = RS_SSS THEN r.LptsNT ELSE r.FN_ptsNT
             b == IF h = ss.decl_h THEN decl ELSE If(Fit(ss), df)
  <1>7. a \in Nat
    BY <1>6
  <1>8. b \in Nat
    <2> HIDE DEF decl, df
    <2>. QED
      BY <1>3, <1>4 DEF If
  <1>9. /\ roth_calc(ss).nt[h] = r.hcp + r.LptsNT + r.Aces + a
        /\ roth_calc(ss).bf[h] = r.hcp + r.hcp_adj + r.Aces + b
    BY <1>5
  <1> HIDE DEF r, a, b
  <1>. QED
    BY <1>6, <1>7, <1>8, <1>9

\* Zar's: the second suit is no shorter than the shortest.
LEMMA ZarBasic == ASSUME NEW ss, ItsSide(ss) PROVE NonNeg(zarbas_calc(ss))
  <1> SUFFICES ASSUME NEW h \in Hands
               PROVE  zarbas_calc(ss).nt[h] \in Nat /\ zarbas_calc(ss).bf[h] \in Nat
    BY DEF NonNeg
  <1> DEFINE hand == ss.phs[h]
             r == Round(100 * hs_totalpoints(hand) + hcp_adj(hand, ZARBAS))
             c == hs_totalcontrol(hand)
             l == sorted_slen(ss, h, 1)
             k == sorted_slen(ss, h, 2)
             n == Shortest(ss, h)
             y == SynZAR(hand)
             z == r + c + 2 * l + k - n + y
             u == If(z = 25 /\ hs_length(hand, SPADES) >= 4, 1)
  <1>1. AHand(hand) /\ ZARBAS \in PlainAdj
    BY DEF ItsSide, PlainAdj
  <1>2. r \in Nat
    <2>1. 0 \in Nat
      OBVIOUS
    <2>. QED
      BY <1>1, <2>1, RoundedHand
  <1>3. c \in Nat
    BY <1>1, HandNumbers
  <1>4. l \in Nat /\ k \in Nat /\ n \in Nat /\ k >= n
    BY DEF ItsSide, Shortest
  <1>5. y \in Nat
    BY DEF SynZAR, If
  <1>6. zarbas_calc(ss).nt[h] = z + u /\ zarbas_calc(ss).bf[h] = z + u
    BY DEF zarbas_calc, ZarEvals, UserEvals
  <1>7. u \in Nat
    BY DEF If
  <1>8. z \in Nat
    <2> HIDE DEF r, c, l, k, n, y
    <2>. QED
      BY <1>2, <1>3, <1>4, <1>5
  <1> HIDE DEF z, u
  <1>. QED
    BY <1>6, <1>7, <1>8

\* Zar's, advanced.
LEMMA ZarAdvanced == ASSUME NEW ss, ItsSide(ss) PROVE NonNeg(zaradv_calc(ss))
  <1> SUFFICES ASSUME NEW h \in Hands
               PROVE  zaradv_calc(ss).nt[h] \in Nat /\ zaradv_calc(ss).bf[h] \in Nat
    BY DEF NonNeg
  <1> DEFINE hand == ss.phs[h]
             z == zarbas_calc(ss).nt[h]
             fn == If(h = 1, Fn_ptsZar(ss))
             hf == Hf_ptsZar(ss)[h]
             df == DfitZAR(ss)[h]
  <1>1. AHand(hand) /\ ZARBAS \in PlainAdj
    BY DEF ItsSide, PlainAdj
  <1>2. z \in Nat
    BY ZarBasic DEF NonNeg
  <1>3. fn \in Nat
    BY DEF Fn_ptsZar, If
  <1>4. hf \in Nat
    <2> DEFINE Pts(s) == IF (\A i \in Hands : hs_length(ss.phs[i], s) < 4) \/ HfHandZar(ss.phs, s) # h
                         THEN 0
                         ELSE Smaller(2, Top(hand, s, 5)) - Trunc(shortHon_adj(hand, s, ZARBAS))
               p == [s \in Suits |-> Pts(s)]
               P == {q \in Suits \X Suits : q[1] # q[2]}
    <2>1. \A s \in Suits : Pts(s) \in Nat
      <3> SUFFICES ASSUME NEW s \in Suits PROVE Pts(s) \in Nat
        OBVIOUS
      <3> DEFINE x == shortHon_adj(hand, s, ZARBAS)
                 n == hs_points(hand, s)
                 t == Top(hand, s, 5)
                 tr == Trunc(x)
      <3>1. n \in Nat /\ t \in Nat
        BY <1>1, HandNumbers
      <3>2. x \in -(100 * n) .. 0
        BY <1>1, ShortInSuit
      <3>3. tr \in Int /\ tr <= 0
        <4> HIDE DEF x, n
        <4>1. x \in Int /\ x >= -100 * n /\ x <= 0
          BY <3>1, <3>2
        <4>. QED
          BY <3>1, <4>1, Rounding
      <3>4. Smaller(2, t) - tr \in Nat
        <4> HIDE DEF t, tr
        <4>. QED
          BY <3>1, <3>3 DEF Smaller
      <3>. QED
        BY <3>4
    <2>2. hf = Max({Pts(q[1]) + Pts(q[2]) : q \in P})
      BY DEF Hf_ptsZar
    <2>3. {Pts(q[1]) + Pts(q[2]) : q \in P} = {p[q[1]] + p[q[2]] : q \in P}
      <3>1. \A q \in P : Pts(q[1]) = p[q[1]] /\ Pts(q[2]) = p[q[2]]
        OBVIOUS
      <3> HIDE DEF Pts, p, P
      <3>. QED
        BY <3>1
    <2>4. \A s \in Suits : p[s] \in Nat
      BY <2>1
    <2> HIDE DEF Pts, p
    <2>. QED
      BY <2>2, <2>3, <2>4, BestPair
  <1>5. df \in Nat
    <2> DEFINE du == ss.dummy_h
               dc == ss.decl_h
               t == ss.t_len
               n == Shortest(ss, h)
               m == Shortest(ss, dc)
               x == Larger(0, t[h] - (IF h = dc THEN 5 ELSE 3))
    <2>1. du \in Hands /\ dc \in Hands
      BY DEF ItsSide, Hands
    <2>2. t[h] \in Nat /\ t[du] \in Nat /\ n \in Nat /\ n <= 3 /\ m \in Nat
      BY <2>1 DEF ItsSide, Shortest
    <2>3. df = CASE ss.t_fitlen > 8 -> x * (3 - n)
                 [] /\ ss.t_fitlen = 8 /\ h = du
                    /\ t[du] >= 3 /\ t[du] - m >= 2 -> t[du] - m
                 [] OTHER -> 0
      BY DEF DfitZAR
    <2>4. x \in Nat
      BY <2>2 DEF Larger
    <2>5. x * (3 - n) \in Nat
      <3> HIDE DEF x, n
      <3>1. n = 0 \/ n = 1 \/ n = 2 \/ n = 3
        BY <2>2
      <3>. QED
        BY <2>4, <3>1
    <2> HIDE DEF df, x, n, m, t, du
    <2>. QED
      BY <2>2, <2>3, <2>5
  <1>6. zaradv_calc(ss).nt[h] = z /\ zaradv_calc(ss).bf[h] = z + (fn + (hf + df))
    BY DEF zaradv_calc, ZarEvals, UserEvals, Plus
  <1> HIDE DEF z, fn, hf, df
  <1>. QED
    BY <1>2, <1>3, <1>4, <1>5, <1>6

\* Four C's.
LEMMA FourCsNonNeg == ASSUME NEW ss, ItsSide(ss) PROVE NonNeg(knr_calc(ss))
  <1> SUFFICES ASSUME NEW h \in Hands
               PROVE  knr_calc(ss).nt[h] \in Nat /\ knr_calc(ss).bf[h] \in Nat
    BY DEF NonNeg
  <1> DEFINE p == ss.phs
             tot == KnR_pts_all(p[h])
             sp == ShortPts(p[h])
             tf == KnR_Trump_fit(ss, h)
             fit == CASE Fit(ss) -> tf
                      [] ~Fit(ss) /\ Misfit(p, 5) -> -sp
                      [] OTHER -> 0
             final == Larger(0, tot + fit)
             body == ss.pav_body[h]
  <1>1. ASide(p)
    BY HandNumbers DEF ASide, AHand, ItsSide
  <1>2. HandPoints(p[h]) \in Nat /\ Shape(p[h]) \in Nat
    BY <1>1, CCCCNumbers
  <1>3. sp \in Int
    BY <1>2 DEF ShortPts, If
  <1>4. tot \in Nat
    <2> DEFINE x == HandPoints(p[h])
    <2>1. tot = Larger(0, x + sp - If(square_hand(p[h]), 50))
      BY DEF KnR_pts_all
    <2> HIDE DEF tot, x, sp
    <2>. QED
      BY <1>2, <1>3, <2>1 DEF Larger, If, x
  <1>5. tf \in Int
    <2>1. \E q \in {1, 2, 4} : tf = (sp * q) \div 4
      BY DEF KnR_Trump_fit
    <2>2. \A q \in {1, 2, 4} : (sp * q) \div 4 \in Int
      <3> HIDE DEF sp
      <3>. QED
        BY <1>3
    <2>. QED
      BY <2>1, <2>2
  <1>6. fit \in Int
    <2> HIDE DEF tf, sp
    <2>. QED
      BY <1>3, <1>5
  <1>7. final \in Nat
    <2> HIDE DEF tot, fit
    <2>. QED
      BY <1>4, <1>6 DEF Larger
  <1>8. \A n \in Nat : KnR_Round(body, n) \in Nat
    BY DEF KnR_Round, If
  <1>9. knr_calc(ss).nt[h] = KnR_Round(body, tot) /\ knr_calc(ss).bf[h] = KnR_Round(body, final)
    BY DEF knr_calc, UserEvals
  <1> HIDE DEF tot, final
  <1>. QED
    BY <1>4, <1>7, <1>8, <1>9

\* No table of the eight scales has a negative entry.
NatTables(stiff, dbl, long) ==
    /\ stiff[1] \in Nat /\ stiff[2] \in Nat /\ stiff[3] \in Nat /\ stiff[4] \in Nat /\ stiff[5] \in Nat
    /\ dbl[1] \in Nat /\ dbl[2] \in Nat /\ dbl[3] \in Nat /\ dbl[4] \in Nat /\ dbl[5] \in Nat
    /\ dbl[6] \in Nat /\ dbl[7] \in Nat /\ dbl[8] \in Nat /\ dbl[9] \in Nat /\ dbl[10] \in Nat
    /\ dbl[11] \in Nat /\ dbl[12] \in Nat /\ dbl[13] \in Nat /\ dbl[14] \in Nat /\ dbl[15] \in Nat
    /\ long[1] \in Nat /\ long[2] \in Nat /\ long[3] \in Nat /\ long[4] \in Nat /\ long[5] \in Nat

\* They have none.
LEMMA AltTables ==
  \A m \in AltMetrics : NatTables(alt_stiff_H_pts(m), alt_dbl_HH_pts(m), alt_Hxx_pts(m))
  <1>1. NatTables(alt_stiff_H_pts(HCPT050), alt_dbl_HH_pts(HCPT050), alt_Hxx_pts(HCPT050))
    BY DEF NatTables, alt_stiff_H_pts, alt_dbl_HH_pts, alt_Hxx_pts,
       HCPT050, HCPA425, HCPAT475, BUMWRAP, WOOLSEY, AND5THS, BWjgm, OPCjgm
  <1>2. NatTables(alt_stiff_H_pts(HCPA425), alt_dbl_HH_pts(HCPA425), alt_Hxx_pts(HCPA425))
    BY DEF NatTables, alt_stiff_H_pts, alt_dbl_HH_pts, alt_Hxx_pts,
       HCPT050, HCPA425, HCPAT475, BUMWRAP, WOOLSEY, AND5THS, BWjgm, OPCjgm
  <1>3. NatTables(alt_stiff_H_pts(HCPAT475), alt_dbl_HH_pts(HCPAT475), alt_Hxx_pts(HCPAT475))
    BY DEF NatTables, alt_stiff_H_pts, alt_dbl_HH_pts, alt_Hxx_pts,
       HCPT050, HCPA425, HCPAT475, BUMWRAP, WOOLSEY, AND5THS, BWjgm, OPCjgm
  <1>4. NatTables(alt_stiff_H_pts(BUMWRAP), alt_dbl_HH_pts(BUMWRAP), alt_Hxx_pts(BUMWRAP))
    BY DEF NatTables, alt_stiff_H_pts, alt_dbl_HH_pts, alt_Hxx_pts,
       HCPT050, HCPA425, HCPAT475, BUMWRAP, WOOLSEY, AND5THS, BWjgm, OPCjgm
  <1>5. NatTables(alt_stiff_H_pts(WOOLSEY), alt_dbl_HH_pts(WOOLSEY), alt_Hxx_pts(WOOLSEY))
    BY DEF NatTables, alt_stiff_H_pts, alt_dbl_HH_pts, alt_Hxx_pts,
       HCPT050, HCPA425, HCPAT475, BUMWRAP, WOOLSEY, AND5THS, BWjgm, OPCjgm
  <1>6. NatTables(alt_stiff_H_pts(AND5THS), alt_dbl_HH_pts(AND5THS), alt_Hxx_pts(AND5THS))
    BY DEF NatTables, alt_stiff_H_pts, alt_dbl_HH_pts, alt_Hxx_pts,
       HCPT050, HCPA425, HCPAT475, BUMWRAP, WOOLSEY, AND5THS, BWjgm, OPCjgm
  <1>7. NatTables(alt_stiff_H_pts(BWjgm), alt_dbl_HH_pts(BWjgm), alt_Hxx_pts(BWjgm))
    BY DEF NatTables, alt_stiff_H_pts, alt_dbl_HH_pts, alt_Hxx_pts,
       HCPT050, HCPA425, HCPAT475, BUMWRAP, WOOLSEY, AND5THS, BWjgm, OPCjgm
  <1>8. NatTables(alt_stiff_H_pts(OPCjgm), alt_dbl_HH_pts(OPCjgm), alt_Hxx_pts(OPCjgm))
    BY DEF NatTables, alt_stiff_H_pts, alt_dbl_HH_pts, alt_Hxx_pts,
       HCPT050, HCPA425, HCPAT475, BUMWRAP, WOOLSEY, AND5THS, BWjgm, OPCjgm
  <1>. QED
    BY <1>1, <1>2, <1>3, <1>4, <1>5, <1>6, <1>7, <1>8 DEF AltMetrics, HCPT050, HCPA425, HCPAT475, BUMWRAP, WOOLSEY, AND5THS, BWjgm, OPCjgm

\* Whatever is read there is a number.
LEMMA NatLookup ==
  ASSUME NEW h, NEW s, h[s] \subseteq 0 .. ACE, hs_length(h, s) \in {1, 2},
         NEW stiff, NEW dbl, NEW long, NatTables(stiff, dbl, long)
  PROVE  lookup(h, s, stiff, dbl) \in Nat
  <1> DEFINE n == lookup(h, s, stiff, dbl)
             off == <<0, 5, 9, 12, 14>>
  <1>1. \/ n = 0
        \/ \E i \in 1 .. 5 : n = stiff[i]
        \/ \E i \in 1 .. 5 : \E j \in 1 .. 6 : i < j /\ n = dbl[off[i] + j - i]
    BY LookupIs
  <1>2. \A i \in 1 .. 5 : stiff[i] \in Nat
    <2>1. \A i \in 1 .. 5 : i = 1 \/ i = 2 \/ i = 3 \/ i = 4 \/ i = 5
      OBVIOUS
    <2>. QED
      BY <2>1 DEF NatTables
  <1>3. \A k \in 1 .. 15 : dbl[k] \in Nat
    <2>1. \A k \in 1 .. 15 : \/ k = 1 \/ k = 2 \/ k = 3 \/ k = 4 \/ k = 5
                             \/ k = 6 \/ k = 7 \/ k = 8 \/ k = 9 \/ k = 10
                             \/ k = 11 \/ k = 12 \/ k = 13 \/ k = 14 \/ k = 15
      OBVIOUS
    <2>. QED
      BY <2>1 DEF NatTables
  <1>4. ASSUME NEW i \in 1 .. 5, NEW j \in 1 .. 6, i < j
        PROVE  off[i] + j - i \in 1 .. 15
    <2>1. i = 1 \/ i = 2 \/ i = 3 \/ i = 4 \/ i = 5
      OBVIOUS
    <2>2. off[1] = 0 /\ off[2] = 5 /\ off[3] = 9 /\ off[4] = 12 /\ off[5] = 14
      OBVIOUS
    <2> HIDE DEF off
    <2>. QED
      BY <2>1, <2>2, <1>4
  <1> HIDE DEF n, off
  <1>6. ASSUME \E i \in 1 .. 5 : \E j \in 1 .. 6 : i < j /\ n = dbl[off[i] + j - i]
        PROVE  n \in Nat
    <2>1. PICK i \in 1 .. 5, j \in 1 .. 6 : i < j /\ n = dbl[off[i] + j - i]
      BY <1>6
    <2> DEFINE k == off[i] + j - i
    <2>2. k \in 1 .. 15 /\ n = dbl[k]
      BY <1>4, <2>1
    <2> HIDE DEF k
    <2>. QED
      BY <1>3, <2>2
  <1>7. ASSUME \E i \in 1 .. 5 : n = stiff[i]
        PROVE  n \in Nat
    BY <1>2, <1>7
  <1>5. n \in Nat
    BY <1>1, <1>6, <1>7
  <1>. QED
    BY <1>5 DEF n

\* A suit never counts less than nothing.
LEMMA AltSuit ==
  ASSUME NEW m \in AltMetrics, NEW h, AHand(h), NEW s \in Suits
  PROVE  SuitAlt(m, h, s) \in Nat
  <1> DEFINE v == alt_Hxx_pts(m)
  <1>1. NatTables(alt_stiff_H_pts(m), alt_dbl_HH_pts(m), v)
    BY AltTables
  <1>2. h[s] \subseteq 0 .. ACE /\ hs_length(h, s) \in Nat
    BY DEF AHand
  <1>3. CASE hs_length(h, s) \in {1, 2}
    <2>1. SuitAlt(m, h, s) = lookup(h, s, alt_stiff_H_pts(m), alt_dbl_HH_pts(m))
      BY <1>3 DEF SuitAlt
    <2>. QED
      BY <1>1, <1>2, <1>3, <2>1, NatLookup
  <1>4. CASE hs_length(h, s) \notin {1, 2} /\ hs_length(h, s) # 0
    <2> DEFINE c == h[s]
               top == TopThree(c)
               ten == If(TEN \in c, 100 + If(NINE \in c, 50))
               nine == If(NINE \in c, 50)
               akqj == 50 + (IF JACK \in c THEN 50 + If(TEN \in c, 100) ELSE If(TEN \in c, 75))
               syn == OPCjgmSyn(c)
    <2>1. ten \in Nat /\ nine \in Nat /\ akqj \in Nat
      BY DEF If
    <2>2. syn = CASE top = AKQ -> akqj
                  [] top = {ACE, KING, JACK} -> 50 + ten
                  [] top \in {{ACE, QUEEN, JACK}, {KING, QUEEN, JACK}} -> 100 + ten
                  [] top \in {{ACE, QUEEN, TEN}, {KING, QUEEN, TEN}} -> 125
                  [] top \in {{ACE, JACK, TEN}, {KING, JACK, TEN}} -> 150 + nine
                  [] top = {QUEEN, JACK, TEN} -> 200 + nine
                  [] top = {JACK, TEN} -> 150
                  [] top = {QUEEN, JACK} -> 100
                  [] top = {QUEEN, TEN} -> 75
                  [] top \in {{ACE, QUEEN}, {ACE, JACK}, {KING, QUEEN}, {KING, JACK}} -> 50
                  [] top \in {{ACE, KING, TEN}, {KING, TEN}} -> 25
                  [] OTHER -> 0
      BY DEF OPCjgmSyn
    <2>3. syn \in Nat
      <3> HIDE DEF syn, ten, nine, akqj, top, c
      <3>. QED
        BY <2>1, <2>2
    <2> DEFINE S == IF m = OPCjgm THEN top ELSE top \cup
                       CASE top = AKQ -> {JACK, TEN} \cap c
                         [] top = {ACE, KING, JACK} -> {TEN} \cap c
                         [] OTHER -> {}
               Pts(r) == If(r \in S, v[Place(r)])
    <2>4. SuitAlt(m, h, s) = Pts(ACE) + Pts(KING) + Pts(QUEEN) + Pts(JACK) + Pts(TEN)
                             + (IF m = OPCjgm THEN syn ELSE 0)
      <3>1. SuitAlt(m, h, s) = Long_Hxx_pts(m, c)
        BY <1>2, <1>4 DEF SuitAlt
      <3>. QED
        BY <3>1 DEF Long_Hxx_pts
    <2>5. Place(ACE) = 1 /\ Place(KING) = 2 /\ Place(QUEEN) = 3 /\ Place(JACK) = 4 /\ Place(TEN) = 5
      BY DEF Place, ACE, KING, QUEEN, JACK, TEN
    <2>6. /\ Pts(ACE) \in Nat /\ Pts(KING) \in Nat /\ Pts(QUEEN) \in Nat
          /\ Pts(JACK) \in Nat /\ Pts(TEN) \in Nat
      <3> HIDE DEF S, v
      <3>. QED
        BY <1>1, <2>5 DEF NatTables, If
    <2> HIDE DEF Pts, syn
    <2>. QED
      BY <2>3, <2>4, <2>6
  <1>5. CASE hs_length(h, s) = 0
    BY <1>5 DEF SuitAlt
  <1>. QED
    BY <1>3, <1>4, <1>5

\* The eight other scales.
LEMMA Alternative ==
  ASSUME NEW ss, ItsSide(ss), NEW m \in AltMetrics
  PROVE  NonNeg(alt_HCP_calc(ss, m))
  <1> SUFFICES ASSUME NEW h \in Hands
               PROVE  alt_HCP_calc(ss, m).nt[h] \in Nat /\ alt_HCP_calc(ss, m).bf[h] \in Nat
    BY DEF NonNeg
  <1> DEFINE hand == ss.phs[h]
             P(s) == SuitAlt(m, hand, s)
             raw == P(0) + P(1) + P(2) + P(3)
  <1>1. AHand(hand) /\ ss.pav_body[h] \in Nat
    BY DEF ItsSide
  <1>2. \A s \in Suits : P(s) \in Nat
    BY <1>1, AltSuit
  <1>3. alt_HCP_calc(ss, m).nt[h] = Pav_round(raw, ss.pav_body[h]) /\ alt_HCP_calc(ss, m).bf[h] = raw
    BY DEF alt_HCP_calc, UserEvals, Sum4, CLUBS, DIAMONDS, HEARTS, SPADES
  <1>4. raw \in Nat
    <2> HIDE DEF P
    <2>. QED
      BY <1>2, FourSuits
  <1>5. Pav_round(raw, ss.pav_body[h]) \in Nat
    <2> DEFINE body == ss.pav_body[h]
               r == Pav_round(raw, body)
    <2> HIDE DEF raw
    <2>1. raw \in Int /\ 0 \in Nat /\ raw >= -100 * 0 /\ raw >= 0
      BY <1>4
    <2>2. r \in Int /\ r >= 0
      <3>1. body \in Int
        BY <1>1
      <3> HIDE DEF body
      <3>. QED
        BY <2>1, <3>1, Rounding
    <2>. QED
      BY <2>2
  <1>. QED
    BY <1>3, <1>4, <1>5

-----------------------------------------------------------------------------
(* The sets *)

\* Six slots in a row, from slot i of the area on.
LEMMA Slice6 ==
  ASSUME NEW s, NEW i \in Nat
  PROVE  SubSeq(s, i + 1, i + 6) = [k \in 1 .. 6 |-> s[i + k]]
  BY DEF SubSeq

\* A list of some things is one of some things and others.
LEMMA Wider ==
  ASSUME NEW S, NEW T, NEW s \in Seq(S)
  PROVE  s \in Seq(S \cup T)
  OBVIOUS

\* Three lists, one behind the other.
LEMMA JoinedThree ==
  ASSUME NEW S, NEW s \in Seq(S), NEW t \in Seq(S), NEW u \in Seq(S)
  PROVE  /\ \A k \in 1 .. Len(s) : (s \o t \o u)[k] = s[k]
         /\ \A k \in 1 .. Len(t) : (s \o t \o u)[Len(s) + k] = t[k]
         /\ \A k \in 1 .. Len(u) : (s \o t \o u)[Len(s) + Len(t) + k] = u[k]
  OBVIOUS

\* A list of six.
LEMMA Tuple ==
  ASSUME NEW a, NEW b, NEW c, NEW d, NEW e, NEW f
  PROVE  <<a, b, c, d, e, f>> \in Seq({a, b, c, d, e, f}) /\ Len(<<a, b, c, d, e, f>>) = 6
  OBVIOUS

\* The six numbers every metric has; when no hand has less than nothing,
\* SaveUserVals() shows them as they are.
LEMMA SixIs ==
  ASSUME NEW e
  PROVE  /\ Six(e) = [k \in 1 .. 6 |-> Six(e)[k]]
         /\ Clamp(Six(e)) = [k \in 1 .. 6 |-> Larger(0, Six(e)[k])]
         /\ NonNeg(e) => Clamp(Six(e)) = Six(e)
  <1>1. Six(e) = [k \in 1 .. 6 |-> Six(e)[k]] /\ DOMAIN Six(e) = 1 .. 6
    BY DEF Six
  <1>2. Clamp(Six(e)) = [k \in 1 .. 6 |-> Larger(0, Six(e)[k])]
    BY <1>1 DEF Clamp
  <1>3. ASSUME NonNeg(e) PROVE Clamp(Six(e)) = Six(e)
    <2>1. e.nt[0] \in Nat /\ e.nt[1] \in Nat /\ e.bf[0] \in Nat /\ e.bf[1] \in Nat
      BY <1>3 DEF NonNeg, Hands
    <2>2. \A k \in 1 .. 6 : Six(e)[k] \in Nat
      BY <2>1 DEF Six, Sum2
    <2>3. \A k \in 1 .. 6 : Larger(0, Six(e)[k]) = Six(e)[k]
      BY <2>2 DEF Larger
    <2>. QED
      BY <1>1, <1>2, <2>3
  <1>. QED
    BY <1>1, <1>2, <1>3

\* What SaveUserVals() leaves: six slots, then the metric's own.
LEMMA Saved ==
  ASSUME NEW e, NEW S, e.misc \in Seq(S)
  PROVE  LET v == SaveUserVals(e)
         IN  /\ \A k \in 1 .. 6 : v[k] = Clamp(Six(e))[k]
             /\ \A k \in 1 .. Len(e.misc) : v[6 + k] = e.misc[k]
             /\ SubSeq(v, 1, 6) = Clamp(Six(e))
  <1> DEFINE c == Clamp(Six(e))
             mi == e.misc
             T == {c[k] : k \in 1 .. 6}
             v == SaveUserVals(e)
  <1>1. c = [k \in 1 .. 6 |-> c[k]]
    BY SixIs
  <1>2. v = c \o mi
    BY DEF SaveUserVals
  <1> HIDE DEF c, mi, v
  <1>3. c \in Seq(S \cup T) /\ Len(c) = 6
    <2>1. \A k \in 1 .. 6 : c[k] \in S \cup T
      OBVIOUS
    <2> HIDE DEF T
    <2>. QED
      BY <1>1, <2>1
  <1>4. mi \in Seq(S \cup T)
    BY Wider DEF mi
  <1> HIDE DEF T
  <1>5. /\ \A k \in 1 .. 6 : v[k] = c[k]
        /\ \A k \in 1 .. Len(mi) : v[6 + k] = mi[k]
    <2>1. /\ \A k \in 1 .. Len(c) : (c \o mi)[k] = c[k]
          /\ \A k \in 1 .. Len(mi) : (c \o mi)[Len(c) + k] = mi[k]
      <3> DEFINE U == S \cup T
      <3>1. c \in Seq(U) /\ mi \in Seq(U)
        BY <1>3, <1>4
      <3> HIDE DEF U
      <3>. QED
        BY <3>1, Joined
    <2>2. \A k \in 1 .. Len(mi) : (c \o mi)[6 + k] = mi[k]
      BY <1>3, <2>1
    <2>3. \A k \in 1 .. 6 : (c \o mi)[k] = c[k]
      BY <1>3, <2>1
    <2>. QED
      BY <1>2, <2>2, <2>3
  <1>6. SubSeq(v, 1, 6) = c
    <2>1. SubSeq(v, 0 + 1, 0 + 6) = [k \in 1 .. 6 |-> v[0 + k]]
      BY Slice6
    <2>2. \A k \in 1 .. 6 : v[0 + k] = c[k]
      BY <1>5
    <2>3. 0 + 1 = 1 /\ 0 + 6 = 6
      OBVIOUS
    <2>4. [k \in 1 .. 6 |-> v[0 + k]] = c
      BY <1>1, <2>2
    <2>. QED
      BY <2>1, <2>3, <2>4
  <1>. QED
    BY <1>5, <1>6 DEF c, mi, v

\* Six numbers of hundredths.
LEMMA RawIs ==
  ASSUME NEW a, NEW b
  PROVE  \E S : Raw(a, b) \in Seq(S) /\ Len(Raw(a, b)) = 6
  BY Tuple DEF Raw

\* Zar keeps six of them.
LEMMA ZarRaw == \A ss, nt, bf : \E a, b : ZarEvals(ss, nt, bf).misc = Raw(a, b)
  BY DEF ZarEvals, UserEvals

\* What a metric finds of a side.
LEMMA Found ==
  ASSUME NEW ss, ItsSide(ss), NEW m \in Metrics \cup AltMetrics
  PROVE  LET e == p_cfunc(m, ss)
         IN  /\ m # PAV => NonNeg(e)
             /\ \E S : e.misc \in Seq(S)
             /\ m \in {KARP_B, KnR, LAR_B, ZARBAS, ZARADV} => Len(e.misc) = 6
  <1> DEFINE e == p_cfunc(m, ss)
             Goal == /\ m # PAV => NonNeg(e)
                     /\ \E S : e.misc \in Seq(S)
                     /\ m \in {KARP_B, KnR, LAR_B, ZARBAS, ZARADV} => Len(e.misc) = 6
  <1>e. <<>> \in Seq({0})
    OBVIOUS
  <1>1. ASSUME m = BERGEN PROVE Goal
    <2>1. e = bergen_calc(ss)
      BY <1>1 DEF p_cfunc, BERGEN, BISSEL, DKP, GOREN, KAPLAN, KARPIN, KARP_B, KnR, LAR, LAR_B, PAV,
         SHEINW, ZARBAS, ZARADV, ROTH, AltMetrics, HCPT050, OPCjgm
    <2>2. e.misc = <<>>
      BY <2>1 DEF bergen_calc, UserEvals
    <2>3. m \notin {KARP_B, KnR, LAR_B, ZARBAS, ZARADV}
      BY <1>1 DEF BERGEN, BISSEL, DKP, GOREN, KAPLAN, KARPIN, KARP_B, KnR, LAR, LAR_B, PAV,
         SHEINW, ZARBAS, ZARADV, ROTH
    <2>4. NonNeg(e)
      BY <2>1, Bergen
    <2> HIDE DEF e
    <2>. QED
      BY <1>e, <2>2, <2>3, <2>4
  <1>2. ASSUME m = BISSEL PROVE Goal
    <2>1. e = bissell_calc(ss)
      BY <1>2 DEF p_cfunc, BERGEN, BISSEL, DKP, GOREN, KAPLAN, KARPIN, KARP_B, KnR, LAR, LAR_B, PAV,
         SHEINW, ZARBAS, ZARADV, ROTH, AltMetrics, HCPT050, OPCjgm
    <2>2. e.misc = <<>>
      BY <2>1 DEF bissell_calc, UserEvals
    <2>3. m \notin {KARP_B, KnR, LAR_B, ZARBAS, ZARADV}
      BY <1>2 DEF BERGEN, BISSEL, DKP, GOREN, KAPLAN, KARPIN, KARP_B, KnR, LAR, LAR_B, PAV,
         SHEINW, ZARBAS, ZARADV, ROTH
    <2>4. NonNeg(e)
      BY <2>1, Bissell
    <2> HIDE DEF e
    <2>. QED
      BY <1>e, <2>2, <2>3, <2>4
  <1>3. ASSUME m = DKP PROVE Goal
    <2>1. e = dkp_calc(ss)
      BY <1>3 DEF p_cfunc, BERGEN, BISSEL, DKP, GOREN, KAPLAN, KARPIN, KARP_B, KnR, LAR, LAR_B, PAV,
         SHEINW, ZARBAS, ZARADV, ROTH, AltMetrics, HCPT050, OPCjgm
    <2>2. e.misc = <<>>
      BY <2>1 DEF dkp_calc, UserEvals
    <2>3. m \notin {KARP_B, KnR, LAR_B, ZARBAS, ZARADV}
      BY <1>3 DEF BERGEN, BISSEL, DKP, GOREN, KAPLAN, KARPIN, KARP_B, KnR, LAR, LAR_B, PAV,
         SHEINW, ZARBAS, ZARADV, ROTH
    <2>4. NonNeg(e)
      BY <2>1, Kleinman
    <2> HIDE DEF e
    <2>. QED
      BY <1>e, <2>2, <2>3, <2>4
  <1>4. ASSUME m = GOREN PROVE Goal
    <2>1. e = goren_calc(ss)
      BY <1>4 DEF p_cfunc, BERGEN, BISSEL, DKP, GOREN, KAPLAN, KARPIN, KARP_B, KnR, LAR, LAR_B, PAV,
         SHEINW, ZARBAS, ZARADV, ROTH, AltMetrics, HCPT050, OPCjgm
    <2>2. e.misc = <<>>
      BY <2>1 DEF goren_calc, UserEvals
    <2>3. m \notin {KARP_B, KnR, LAR_B, ZARBAS, ZARADV}
      BY <1>4 DEF BERGEN, BISSEL, DKP, GOREN, KAPLAN, KARPIN, KARP_B, KnR, LAR, LAR_B, PAV,
         SHEINW, ZARBAS, ZARADV, ROTH
    <2>4. NonNeg(e)
      BY <2>1, Goren
    <2> HIDE DEF e
    <2>. QED
      BY <1>e, <2>2, <2>3, <2>4
  <1>5. ASSUME m = KAPLAN PROVE Goal
    <2>1. e = kaplan_calc(ss)
      BY <1>5 DEF p_cfunc, BERGEN, BISSEL, DKP, GOREN, KAPLAN, KARPIN, KARP_B, KnR, LAR, LAR_B, PAV,
         SHEINW, ZARBAS, ZARADV, ROTH, AltMetrics, HCPT050, OPCjgm
    <2>2. e.misc = <<>>
      BY <2>1 DEF kaplan_calc, UserEvals
    <2>3. m \notin {KARP_B, KnR, LAR_B, ZARBAS, ZARADV}
      BY <1>5 DEF BERGEN, BISSEL, DKP, GOREN, KAPLAN, KARPIN, KARP_B, KnR, LAR, LAR_B, PAV,
         SHEINW, ZARBAS, ZARADV, ROTH
    <2>4. NonNeg(e)
      BY <2>1, Kaplan
    <2> HIDE DEF e
    <2>. QED
      BY <1>e, <2>2, <2>3, <2>4
  <1>6. ASSUME m = KARPIN PROVE Goal
    <2>1. e = karpin_calc(ss)
      BY <1>6 DEF p_cfunc, BERGEN, BISSEL, DKP, GOREN, KAPLAN, KARPIN, KARP_B, KnR, LAR, LAR_B, PAV,
         SHEINW, ZARBAS, ZARADV, ROTH, AltMetrics, HCPT050, OPCjgm
    <2>2. e.misc = <<>>
      BY <2>1 DEF karpin_calc, UserEvals
    <2>3. m \notin {KARP_B, KnR, LAR_B, ZARBAS, ZARADV}
      BY <1>6 DEF BERGEN, BISSEL, DKP, GOREN, KAPLAN, KARPIN, KARP_B, KnR, LAR, LAR_B, PAV,
         SHEINW, ZARBAS, ZARADV, ROTH
    <2>4. NonNeg(e)
      BY <2>1, Karpin
    <2> HIDE DEF e
    <2>. QED
      BY <1>e, <2>2, <2>3, <2>4
  <1>7. ASSUME m = KARP_B PROVE Goal
    <2>1. e = karpb_calc(ss)
      BY <1>7 DEF p_cfunc, BERGEN, BISSEL, DKP, GOREN, KAPLAN, KARPIN, KARP_B, KnR, LAR, LAR_B, PAV,
         SHEINW, ZARBAS, ZARADV, ROTH, AltMetrics, HCPT050, OPCjgm
    <2>2. \E a, b : e.misc = Raw(a, b)
      BY <2>1 DEF karpb_calc, UserEvals
    <2>3. \E S : e.misc \in Seq(S) /\ Len(e.misc) = 6
      BY <2>2, RawIs
    <2>4. NonNeg(e)
      BY <2>1, KarpinB
    <2> HIDE DEF e
    <2>. QED
      BY <2>3, <2>4
  <1>8. ASSUME m = KnR PROVE Goal
    <2>1. e = knr_calc(ss)
      BY <1>8 DEF p_cfunc, BERGEN, BISSEL, DKP, GOREN, KAPLAN, KARPIN, KARP_B, KnR, LAR, LAR_B, PAV,
         SHEINW, ZARBAS, ZARADV, ROTH, AltMetrics, HCPT050, OPCjgm
    <2>2. \E a, b : e.misc = Raw(a, b)
      BY <2>1 DEF knr_calc, UserEvals
    <2>3. \E S : e.misc \in Seq(S) /\ Len(e.misc) = 6
      BY <2>2, RawIs
    <2>4. NonNeg(e)
      BY <2>1, FourCsNonNeg
    <2> HIDE DEF e
    <2>. QED
      BY <2>3, <2>4
  <1>9. ASSUME m = LAR PROVE Goal
    <2>1. e = lar_calc(ss)
      BY <1>9 DEF p_cfunc, BERGEN, BISSEL, DKP, GOREN, KAPLAN, KARPIN, KARP_B, KnR, LAR, LAR_B, PAV,
         SHEINW, ZARBAS, ZARADV, ROTH, AltMetrics, HCPT050, OPCjgm
    <2>2. e.misc = <<>>
      BY <2>1 DEF lar_calc, UserEvals
    <2>3. m \notin {KARP_B, KnR, LAR_B, ZARBAS, ZARADV}
      BY <1>9 DEF BERGEN, BISSEL, DKP, GOREN, KAPLAN, KARPIN, KARP_B, KnR, LAR, LAR_B, PAV,
         SHEINW, ZARBAS, ZARADV, ROTH
    <2>4. NonNeg(e)
      BY <2>1, Larsson
    <2> HIDE DEF e
    <2>. QED
      BY <1>e, <2>2, <2>3, <2>4
  <1>10. ASSUME m = LAR_B PROVE Goal
    <2>1. e = lar_b_calc(ss)
      BY <1>10 DEF p_cfunc, BERGEN, BISSEL, DKP, GOREN, KAPLAN, KARPIN, KARP_B, KnR, LAR, LAR_B, PAV,
         SHEINW, ZARBAS, ZARADV, ROTH, AltMetrics, HCPT050, OPCjgm
    <2>2. \E a, b : e.misc = Raw(a, b)
      BY <2>1 DEF lar_b_calc, UserEvals
    <2>3. \E S : e.misc \in Seq(S) /\ Len(e.misc) = 6
      BY <2>2, RawIs
    <2>4. NonNeg(e)
      BY <2>1, Larsson
    <2> HIDE DEF e
    <2>. QED
      BY <2>3, <2>4
  <1>11. ASSUME m = PAV PROVE Goal
    <2>1. e = pav_calc(ss)
      BY <1>11 DEF p_cfunc, BERGEN, BISSEL, DKP, GOREN, KAPLAN, KARPIN, KARP_B, KnR, LAR, LAR_B, PAV,
         SHEINW, ZARBAS, ZARADV, ROTH, AltMetrics, HCPT050, OPCjgm
    <2>2. e.misc = <<>>
      BY <2>1 DEF pav_calc, UserEvals
    <2>3. m \notin {KARP_B, KnR, LAR_B, ZARBAS, ZARADV}
      BY <1>11 DEF BERGEN, BISSEL, DKP, GOREN, KAPLAN, KARPIN, KARP_B, KnR, LAR, LAR_B, PAV,
         SHEINW, ZARBAS, ZARADV, ROTH
    <2> HIDE DEF e
    <2>. QED
      BY <1>e, <2>2, <2>3, <1>11
  <1>12. ASSUME m = SHEINW PROVE Goal
    <2>1. e = sheinw_calc(ss)
      BY <1>12 DEF p_cfunc, BERGEN, BISSEL, DKP, GOREN, KAPLAN, KARPIN, KARP_B, KnR, LAR, LAR_B, PAV,
         SHEINW, ZARBAS, ZARADV, ROTH, AltMetrics, HCPT050, OPCjgm
    <2>2. e.misc = <<>>
      BY <2>1 DEF sheinw_calc, UserEvals
    <2>3. m \notin {KARP_B, KnR, LAR_B, ZARBAS, ZARADV}
      BY <1>12 DEF BERGEN, BISSEL, DKP, GOREN, KAPLAN, KARPIN, KARP_B, KnR, LAR, LAR_B, PAV,
         SHEINW, ZARBAS, ZARADV, ROTH
    <2>4. NonNeg(e)
      BY <2>1, Sheinwold
    <2> HIDE DEF e
    <2>. QED
      BY <1>e, <2>2, <2>3, <2>4
  <1>13. ASSUME m = ZARBAS PROVE Goal
    <2>1. e = zarbas_calc(ss)
      BY <1>13 DEF p_cfunc, BERGEN, BISSEL, DKP, GOREN, KAPLAN, KARPIN, KARP_B, KnR, LAR, LAR_B, PAV,
         SHEINW, ZARBAS, ZARADV, ROTH, AltMetrics, HCPT050, OPCjgm
    <2>2. \E a, b : e.misc = Raw(a, b)
      BY <2>1, ZarRaw DEF zarbas_calc
    <2>3. \E S : e.misc \in Seq(S) /\ Len(e.misc) = 6
      BY <2>2, RawIs
    <2>4. NonNeg(e)
      BY <2>1, ZarBasic
    <2> HIDE DEF e
    <2>. QED
      BY <2>3, <2>4
  <1>14. ASSUME m = ZARADV PROVE Goal
    <2>1. e = zaradv_calc(ss)
      BY <1>14 DEF p_cfunc, BERGEN, BISSEL, DKP, GOREN, KAPLAN, KARPIN, KARP_B, KnR, LAR, LAR_B, PAV,
         SHEINW, ZARBAS, ZARADV, ROTH, AltMetrics, HCPT050, OPCjgm
    <2>2. \E a, b : e.misc = Raw(a, b)
      BY <2>1, ZarRaw DEF zaradv_calc
    <2>3. \E S : e.misc \in Seq(S) /\ Len(e.misc) = 6
      BY <2>2, RawIs
    <2>4. NonNeg(e)
      BY <2>1, ZarAdvanced
    <2> HIDE DEF e
    <2>. QED
      BY <2>3, <2>4
  <1>15. ASSUME m = ROTH PROVE Goal
    <2>1. e = roth_calc(ss)
      BY <1>15 DEF p_cfunc, BERGEN, BISSEL, DKP, GOREN, KAPLAN, KARPIN, KARP_B, KnR, LAR, LAR_B, PAV,
         SHEINW, ZARBAS, ZARADV, ROTH, AltMetrics, HCPT050, OPCjgm
    <2>2. e.misc = <<>>
      BY <2>1 DEF roth_calc, UserEvals
    <2>3. m \notin {KARP_B, KnR, LAR_B, ZARBAS, ZARADV}
      BY <1>15 DEF BERGEN, BISSEL, DKP, GOREN, KAPLAN, KARPIN, KARP_B, KnR, LAR, LAR_B, PAV,
         SHEINW, ZARBAS, ZARADV, ROTH
    <2>4. NonNeg(e)
      BY <2>1, Roth
    <2> HIDE DEF e
    <2>. QED
      BY <1>e, <2>2, <2>3, <2>4
  <1>a. ASSUME m \in AltMetrics PROVE Goal
    <2> DEFINE B == <<ss.pav_body[0], ss.pav_body[1]>>
               X(i) == SuitAlt(m, ss.phs[(i - 1) \div 4], (i - 1) % 4)
               L == [i \in 1 .. 8 |-> X(i)]
               S == {ss.pav_body[0], ss.pav_body[1]} \cup {X(i) : i \in 1 .. 8}
    <2>1. e = alt_HCP_calc(ss, m)
      BY <1>a DEF p_cfunc, BERGEN, BISSEL, DKP, GOREN, KAPLAN, KARPIN, KARP_B, KnR, LAR, LAR_B, PAV,
         SHEINW, ZARBAS, ZARADV, ROTH, AltMetrics, HCPT050, OPCjgm
    <2>2. e.misc = B \o L
      BY <2>1 DEF alt_HCP_calc, UserEvals
    <2>3. B \in Seq(S)
      OBVIOUS
    <2>4. L \in Seq(S)
      <3>1. \A i \in 1 .. 8 : X(i) \in S
        OBVIOUS
      <3> HIDE DEF X, S
      <3>. QED
        BY <3>1
    <2>5. e.misc \in Seq(S)
      <3> HIDE DEF B, L, S, e
      <3>. QED
        BY <2>2, <2>3, <2>4
    <2>6. NonNeg(e)
      BY <1>a, <2>1, Alternative
    <2>7. m \notin {KARP_B, KnR, LAR_B, ZARBAS, ZARADV}
      BY <1>a DEF AltMetrics, HCPT050, OPCjgm, KARP_B, KnR, LAR_B, ZARBAS, ZARADV
    <2>. QED
      BY <2>5, <2>6, <2>7
  <1>m. m \in AltMetrics \/ m \in {BERGEN, BISSEL, DKP, GOREN, KAPLAN, KARPIN, KARP_B, KnR, LAR, LAR_B, PAV,
         SHEINW, ZARBAS, ZARADV, ROTH}
    BY DEF Metrics, BERGEN, BISSEL, DKP, GOREN, KAPLAN, KARPIN, KARP_B, KnR, LAR, LAR_B, PAV,
         SHEINW, ZARBAS, ZARADV, ROTH
  <1> HIDE DEF Goal
  <1>q. Goal
    BY <1>1, <1>2, <1>3, <1>4, <1>5, <1>6, <1>7, <1>8, <1>9, <1>10, <1>11, <1>12, <1>13, <1>14, <1>15,
       <1>a, <1>m
  <1>. QED
    BY <1>q DEF Goal

\* What the theorem rests on: the answer to a metric's tag is what SaveUserVals() makes
\* of the metric, and no metric but Pavlicek's gives a hand less than nothing.
Good(v, own) ==
    \A m \in Metrics \cup AltMetrics :
        /\ own[m] = SaveUserVals(v[m])
        /\ m # PAV => NonNeg(v[m])
        /\ \E S : v[m].misc \in Seq(S)
        /\ m \in {KARP_B, KnR, LAR_B, ZARBAS, ZARADV} => Len(v[m].misc) = 6

\* The slots of a metric's own answer.
LEMMA OwnSlots ==
  ASSUME NEW v, NEW own, Good(v, own), NEW m \in Metrics \cup AltMetrics
  PROVE  /\ SubSeq(own[m], 1, 6) = Clamp(Six(v[m]))
         /\ m # PAV => SubSeq(own[m], 1, 6) = Six(v[m])
         /\ own[m][1] = Larger(0, Sum2(v[m].nt)) /\ own[m][4] = Larger(0, Sum2(v[m].bf))
         /\ m # PAV => own[m][1] = Sum2(v[m].nt) /\ own[m][4] = Sum2(v[m].bf)
         /\ m \in {KARP_B, KnR, LAR_B, ZARBAS, ZARADV} =>
               \A k \in 1 .. 6 : own[m][6 + k] = v[m].misc[k]
  <1> DEFINE e == v[m]
             c == Clamp(Six(e))
  <1>1. own[m] = SaveUserVals(e) /\ (m # PAV => NonNeg(e))
    BY DEF Good
  <1>2. PICK S : e.misc \in Seq(S)
    BY DEF Good
  <1>3. /\ \A k \in 1 .. 6 : own[m][k] = c[k]
        /\ \A k \in 1 .. Len(e.misc) : own[m][6 + k] = e.misc[k]
        /\ SubSeq(own[m], 1, 6) = c
    BY <1>1, <1>2, Saved
  <1>4. c = [k \in 1 .. 6 |-> Larger(0, Six(e)[k])] /\ (NonNeg(e) => c = Six(e))
    BY SixIs
  <1>5. Six(e)[1] = Sum2(e.nt) /\ Six(e)[4] = Sum2(e.bf)
    BY DEF Six
  <1>6. 1 \in 1 .. 6 /\ 4 \in 1 .. 6
    OBVIOUS
  <1>7. m \in {KARP_B, KnR, LAR_B, ZARBAS, ZARADV} => Len(e.misc) = 6
    BY DEF Good
  <1> HIDE DEF e, c
  <1>8. own[m][1] = c[1] /\ own[m][4] = c[4]
    BY <1>3, <1>6
  <1>9. c[1] = Larger(0, Six(e)[1]) /\ c[4] = Larger(0, Six(e)[4])
    BY <1>4, <1>6
  <1>10. m \in {KARP_B, KnR, LAR_B, ZARBAS, ZARADV} => \A k \in 1 .. 6 : own[m][6 + k] = e.misc[k]
    BY <1>3, <1>7
  <1>11. m # PAV => own[m][1] = Six(e)[1] /\ own[m][4] = Six(e)[4]
    BY <1>1, <1>4, <1>8
  <1>12. m # PAV => SubSeq(own[m], 1, 6) = Six(e)
    BY <1>1, <1>3, <1>4
  <1>. QED
    BY <1>3, <1>5, <1>8, <1>9, <1>10, <1>11, <1>12 DEF e, c

\* The place of a slot in a set of six slots a metric.
LEMMA Nth == \A m \in Nat : \A k \in 1 .. 6 : (6 * m + k - 1) \div 6 = m /\ ((6 * m + k - 1) % 6) + 1 = k
  <1> SUFFICES ASSUME NEW m \in Nat, NEW k \in 1 .. 6
               PROVE  (6 * m + k - 1) \div 6 = m /\ ((6 * m + k - 1) % 6) + 1 = k
    OBVIOUS
  <1>1. k = 1 \/ k = 2 \/ k = 3 \/ k = 4 \/ k = 5 \/ k = 6
    OBVIOUS
  <1>. QED
    BY <1>1

\* Set 40, six slots for every metric.
LEMMA Agree40 ==
  ASSUME NEW v, NEW own, Good(v, own), tag = All_UE, res = set40_calc(v)
  PROVE  SetSays(own)
  <1> DEFINE at(i) == SubSeq(res, i + 1, i + 6)
             first(m) == SubSeq(own[m], 1, 6)
             known(m, e) == IF m = PAV THEN Clamp(e) ELSE e
  <1>1. ASSUME NEW m \in Metrics \ Zars
        PROVE  known(m, at(6 * m)) = first(m)
    <2>1. m \in 0 .. 14 /\ m \in Nat
      BY DEF Metrics, BERGEN, ROTH
    <2>2. at(6 * m) = [k \in 1 .. 6 |-> res[6 * m + k]]
      BY <2>1, Slice6
    <2>3. \A k \in 1 .. 6 : res[6 * m + k] = Six(v[m])[k]
      <3> SUFFICES ASSUME NEW k \in 1 .. 6 PROVE res[6 * m + k] = Six(v[m])[k]
        OBVIOUS
      <3> DEFINE i == 6 * m + k
      <3>1. i \in 1 .. 90
        BY <2>1
      <3>2. (i - 1) \div 6 = m /\ ((i - 1) % 6) + 1 = k
        BY <2>1, Nth
      <3> HIDE DEF i
      <3>3. res[i] = Six40(v[(i - 1) \div 6], (i - 1) \div 6)[((i - 1) % 6) + 1]
        BY <3>1 DEF set40_calc
      <3>4. res[i] = Six40(v[m], m)[k]
        BY <3>2, <3>3
      <3>5. Six40(v[m], m) = Six(v[m])
        BY DEF Six40
      <3>. QED
        BY <3>4, <3>5 DEF i
    <2>4. at(6 * m) = Six(v[m])
      <3>1. at(6 * m) = [k \in 1 .. 6 |-> Six(v[m])[k]]
        BY <2>2, <2>3
      <3>. QED
        BY <3>1, SixIs
    <2> HIDE DEF at
    <2>5. first(m) = Clamp(Six(v[m])) /\ (m # PAV => first(m) = Six(v[m]))
      BY OwnSlots
    <2> HIDE DEF first
    <2>. QED
      BY <2>4, <2>5
  <1>2. SetSays(own) <=> \A m \in Metrics \ Zars : known(m, at(6 * m)) = first(m)
    BY DEF SetSays, All_UE, AllAlt, AllRaw, Set88, MixKar, MixLar
  <1>. QED
    BY <1>1, <1>2

\* Three slots and three more.
LEMMA ThreeAndThree ==
  ASSUME NEW a, NEW b, NEW c, NEW d, NEW e, NEW f
  PROVE  <<a, b, c>> \o <<d, e, f>> = <<a, b, c, d, e, f>>
  <1> DEFINE S == {a, b, c, d, e, f}
             s == <<a, b, c>>
             t == <<d, e, f>>
  <1>1. s \in Seq(S)
    OBVIOUS
  <1>2. t \in Seq(S)
    OBVIOUS
  <1>3. Len(s) = 3 /\ Len(t) = 3 /\ s[1] = a /\ s[2] = b /\ s[3] = c /\ t[1] = d /\ t[2] = e /\ t[3] = f
    OBVIOUS
  <1> HIDE DEF S, s, t
  <1>4. /\ s \o t \in Seq(S) /\ Len(s \o t) = Len(s) + Len(t)
        /\ \A k \in 1 .. Len(s) : (s \o t)[k] = s[k]
        /\ \A k \in 1 .. Len(t) : (s \o t)[Len(s) + k] = t[k]
    BY <1>1, <1>2, Joined
  <1> DEFINE u == s \o t
  <1>5. u \in Seq(S) /\ Len(u) = 6
    BY <1>3, <1>4
  <1>6. /\ u[1] = a /\ u[2] = b /\ u[3] = c
        /\ u[3 + 1] = d /\ u[3 + 2] = e /\ u[3 + 3] = f
    BY <1>3, <1>4
  <1> HIDE DEF u
  <1>7. u = <<u[1], u[2], u[3], u[4], u[5], u[6]>>
    BY <1>5
  <1>8. u = <<a, b, c, d, e, f>>
    BY <1>6, <1>7
  <1>. QED
    BY <1>8 DEF u, s, t

\* Three slots in a row.
LEMMA Slice3 ==
  ASSUME NEW s, NEW i \in Nat
  PROVE  SubSeq(s, i + 1, i + 3) = <<s[i + 1], s[i + 2], s[i + 3]>>
  <1>1. SubSeq(s, i + 1, i + 3) = [k \in 1 .. 3 |-> s[i + k]]
    BY DEF SubSeq
  <1>2. [k \in 1 .. 3 |-> s[i + k]] = <<s[i + 1], s[i + 2], s[i + 3]>>
    OBVIOUS
  <1>. QED
    BY <1>1, <1>2

\* Set 41, six slots for every other scale, and four C's.
LEMMA Agree41 ==
  ASSUME NEW v, NEW own, Good(v, own), tag = AllAlt, res = set41_calc(v)
  PROVE  SetSays(own)
  <1> DEFINE at(i) == SubSeq(res, i + 1, i + 6)
             first(m) == SubSeq(own[m], 1, 6)
             X(i) == Six(v[HCPT050 + ((i - 1) \div 6)])[((i - 1) % 6) + 1]
             s == [i \in 1 .. 48 |-> X(i)]
             e == v[KnR]
             t == cpy_KnR_vals(e)
             S == {X(i) : i \in 1 .. 48}
             T == {Sum2(e.nt), e.nt[0], e.nt[1], e.misc[4], e.misc[5], e.misc[6]}
             U == S \cup T
  <1>1. s \in Seq(U) /\ Len(s) = 48
    <2>1. \A i \in 1 .. 48 : X(i) \in U
      OBVIOUS
    <2> HIDE DEF X, U
    <2>. QED
      BY <2>1
  <1>2. t \in Seq(U) /\ Len(t) = 6
    <2>1. t \in Seq(T) /\ Len(t) = 6
      BY Tuple DEF cpy_KnR_vals
    <2>2. T \cup S = U
      OBVIOUS
    <2> HIDE DEF T, S, U, t
    <2>3. t \in Seq(T \cup S)
      BY <2>1, Wider
    <2>. QED
      BY <2>1, <2>2, <2>3
  <1>3. res = s \o t
    BY DEF set41_calc
  <1>4. /\ \A i \in 1 .. 48 : res[i] = X(i)
        /\ \A k \in 1 .. 6 : res[48 + k] = t[k]
    <2>1. \A i \in 1 .. 48 : s[i] = X(i)
      OBVIOUS
    <2> HIDE DEF s, t, U, X
    <2>a. s \in Seq(U)
      BY <1>1
    <2>b. t \in Seq(U)
      BY <1>2
    <2>2. /\ \A k \in 1 .. Len(s) : (s \o t)[k] = s[k]
          /\ \A k \in 1 .. Len(t) : (s \o t)[Len(s) + k] = t[k]
      BY <2>a, <2>b, Joined
    <2>3. \A k \in 1 .. Len(t) : (s \o t)[48 + k] = t[k]
      BY <1>1, <2>2
    <2>. QED
      BY <1>1, <1>2, <1>3, <2>1, <2>2, <2>3
  <1>5. ASSUME NEW m \in AltMetrics
        PROVE  at(6 * (m - HCPT050)) = first(m)
    <2> DEFINE n == m - HCPT050
    <2>1. n \in 0 .. 7 /\ n \in Nat /\ HCPT050 + n = m /\ m # PAV
      BY DEF AltMetrics, HCPT050, OPCjgm, PAV
    <2> HIDE DEF n, s, t, e, S, T, U
    <2>2. at(6 * n) = [k \in 1 .. 6 |-> res[6 * n + k]]
      BY <2>1, Slice6
    <2>3. \A k \in 1 .. 6 : res[6 * n + k] = Six(v[m])[k]
      <3> SUFFICES ASSUME NEW k \in 1 .. 6 PROVE res[6 * n + k] = Six(v[m])[k]
        OBVIOUS
      <3> DEFINE i == 6 * n + k
      <3>1. i \in 1 .. 48
        BY <2>1
      <3>2. (i - 1) \div 6 = n /\ ((i - 1) % 6) + 1 = k
        BY <2>1, Nth
      <3> HIDE DEF i
      <3>3. res[i] = Six(v[HCPT050 + ((i - 1) \div 6)])[((i - 1) % 6) + 1]
        BY <1>4, <3>1
      <3>. QED
        BY <2>1, <3>2, <3>3 DEF i
    <2>4. at(6 * n) = Six(v[m])
      <3>1. at(6 * n) = [k \in 1 .. 6 |-> Six(v[m])[k]]
        BY <2>2, <2>3
      <3>. QED
        BY <3>1, SixIs
    <2> HIDE DEF at
    <2>5. first(m) = Six(v[m])
      BY <2>1, OwnSlots
    <2>. QED
      BY <2>4, <2>5 DEF n
  <1>6. at(48) = SubSeq(own[KnR], 1, 3) \o SubSeq(own[KnR], 10, 12)
    <2> DEFINE o == own[KnR]
               x == SubSeq(o, 1, 3)
               y == SubSeq(o, 10, 12)
    <2>1. KnR \in Metrics \cup AltMetrics /\ KnR # PAV
      BY DEF Metrics, KnR, PAV, BERGEN, ROTH
    <2> HIDE DEF s, S, T, U, X
    <2>2. SubSeq(o, 1, 6) = Six(e) /\ \A k \in 1 .. 6 : o[6 + k] = e.misc[k]
      BY <2>1, OwnSlots
    <2>3. \A k \in 1 .. 6 : o[k] = Six(e)[k]
      <3>1. SubSeq(o, 0 + 1, 0 + 6) = [k \in 1 .. 6 |-> o[0 + k]]
        BY Slice6
      <3>2. \A k \in 1 .. 6 : 0 + k = k
        OBVIOUS
      <3>3. 0 + 1 = 1 /\ 0 + 6 = 6
        OBVIOUS
      <3>4. SubSeq(o, 1, 6) = [k \in 1 .. 6 |-> o[k]]
        BY <3>1, <3>2, <3>3
      <3>. QED
        BY <2>2, <3>4
    <2>4. o[1] = Sum2(e.nt) /\ o[2] = e.nt[0] /\ o[3] = e.nt[1]
      BY <2>3 DEF Six
    <2>5. o[10] = e.misc[4] /\ o[11] = e.misc[5] /\ o[12] = e.misc[6]
      <3>1. o[6 + 4] = e.misc[4] /\ o[6 + 5] = e.misc[5] /\ o[6 + 6] = e.misc[6]
        BY <2>2
      <3>. QED
        BY <3>1
    <2>6. t = <<o[1], o[2], o[3], o[10], o[11], o[12]>>
      BY <2>4, <2>5 DEF cpy_KnR_vals
    <2>7. at(48) = t
      <3>1. at(48) = [k \in 1 .. 6 |-> res[48 + k]]
        BY Slice6
      <3>2. t = [k \in 1 .. 6 |-> t[k]]
        BY <2>6
      <3> HIDE DEF t, at
      <3>. QED
        BY <1>4, <3>1, <3>2
    <2>8. x = <<o[1], o[2], o[3]>> /\ y = <<o[10], o[11], o[12]>>
      <3>1. x = SubSeq(o, 0 + 1, 0 + 3) /\ y = SubSeq(o, 9 + 1, 9 + 3)
        OBVIOUS
      <3>2. x = <<o[0 + 1], o[0 + 2], o[0 + 3]>> /\ y = <<o[9 + 1], o[9 + 2], o[9 + 3]>>
        BY <3>1, Slice3
      <3>. QED
        BY <3>2
    <2>9. x \o y = <<o[1], o[2], o[3], o[10], o[11], o[12]>>
      <3> HIDE DEF x, y, o
      <3>1. <<o[1], o[2], o[3]>> \o <<o[10], o[11], o[12]>> = <<o[1], o[2], o[3], o[10], o[11], o[12]>>
        BY ThreeAndThree
      <3>. QED
        BY <2>8, <3>1
    <2>. QED
      BY <2>6, <2>7, <2>9
  <1>7. /\ \A m \in AltMetrics : at(6 * (m - HCPT050)) = first(m)
        /\ at(48) = SubSeq(own[KnR], 1, 3) \o SubSeq(own[KnR], 10, 12)
        => SetSays(own)
    <2>1. /\ tag # All_UE /\ tag = AllAlt /\ tag \notin {AllRaw, Set88}
          /\ tag # MixKar /\ tag # MixLar
      BY DEF All_UE, AllAlt, AllRaw, Set88, MixKar, MixLar
    <2>. QED
      BY <2>1, Zenon DEF SetSays
  <1>. QED
    BY <1>5, <1>6, <1>7

\* A side's points as a set shows them.
LEMMA Shown ==
  ASSUME NEW v, NEW own, Good(v, own), NEW m \in Metrics, NEW a, NEW b,
         a = Sum2(v[m].bf), b = Sum2(v[m].nt)
  PROVE  (IF m = PAV THEN Clamp(<<a, b>>) ELSE <<a, b>>) = <<own[m][4], own[m][1]>>
  <1>1. /\ own[m][1] = Larger(0, b) /\ own[m][4] = Larger(0, a)
        /\ m # PAV => own[m][1] = b /\ own[m][4] = a
    BY OwnSlots
  <1>2. Clamp(<<a, b>>) = <<Larger(0, a), Larger(0, b)>>
    <2>1. DOMAIN <<a, b>> = 1 .. 2 /\ <<a, b>>[1] = a /\ <<a, b>>[2] = b
      OBVIOUS
    <2>2. Clamp(<<a, b>>) = [i \in 1 .. 2 |-> Larger(0, <<a, b>>[i])]
      BY <2>1 DEF Clamp
    <2>. QED
      BY <2>2
  <1>. QED
    BY <1>1, <1>2

\* Set 42, two slots a metric, then the raw points.
LEMMA Agree42 ==
  ASSUME NEW v, NEW own, Good(v, own), tag = AllRaw, res = set42_calc(v)
  PROVE  SetSays(own)
  <1> DEFINE known(m, e) == IF m = PAV THEN Clamp(e) ELSE e
             A == [i \in Each |-> Sum2(v[i - 1].bf)]
             B == [i \in Each |-> Sum2(v[i - 1].nt)]
             C == save_raw_pts(v)
             U == {A[i] : i \in 1 .. 15} \cup {B[i] : i \in 1 .. 15} \cup {C[i] : i \in 1 .. 10}
  <1>1. /\ A = [i \in 1 .. 15 |-> A[i]] /\ B = [i \in 1 .. 15 |-> B[i]]
        /\ C = [i \in 1 .. 10 |-> C[i]]
    BY DEF Each, save_raw_pts
  <1>2. A \in Seq(U)
    <2>1. \A i \in 1 .. 15 : A[i] \in U
      OBVIOUS
    <2> HIDE DEF A, U
    <2>. QED
      BY <1>1, <2>1
  <1>3. B \in Seq(U)
    <2>1. \A i \in 1 .. 15 : B[i] \in U
      OBVIOUS
    <2> HIDE DEF B, U
    <2>. QED
      BY <1>1, <2>1
  <1>4. C \in Seq(U)
    <2>1. \A i \in 1 .. 10 : C[i] \in U
      OBVIOUS
    <2> HIDE DEF C, U
    <2>. QED
      BY <1>1, <2>1
  <1>5. res = A \o B \o C
    BY DEF set42_calc
  <1>6. /\ \A i \in 1 .. 15 : res[i] = A[i] /\ res[15 + i] = B[i]
        /\ \A i \in 1 .. 10 : res[30 + i] = C[i]
    <2> HIDE DEF A, B, C, U
    <2>1. /\ \A k \in 1 .. Len(A) : (A \o B \o C)[k] = A[k]
          /\ \A k \in 1 .. Len(B) : (A \o B \o C)[Len(A) + k] = B[k]
          /\ \A k \in 1 .. Len(C) : (A \o B \o C)[Len(A) + Len(B) + k] = C[k]
      BY <1>2, <1>3, <1>4, JoinedThree
    <2>2. Len(A) = 15 /\ Len(B) = 15 /\ Len(C) = 10
      BY <1>1, <1>2, <1>3, <1>4
    <2>3. \A k \in 1 .. Len(C) : (A \o B \o C)[30 + k] = C[k]
      <3>1. Len(A) + Len(B) = 30
        BY <2>2
      <3>. QED
        BY <2>1, <3>1, Zenon
    <2>. QED
      BY <1>5, <2>1, <2>2, <2>3
  <1>7. ASSUME NEW m \in Metrics
        PROVE  known(m, <<res[m + 1], res[m + 16]>>) = <<own[m][4], own[m][1]>>
    <2> DEFINE i == m + 1
    <2>1. i \in 1 .. 15 /\ i - 1 = m /\ 15 + i = m + 16
      BY DEF Metrics, BERGEN, ROTH
    <2>2. A[i] = Sum2(v[m].bf) /\ B[i] = Sum2(v[m].nt)
      BY <2>1 DEF Each
    <2>3. res[m + 1] = Sum2(v[m].bf) /\ res[m + 16] = Sum2(v[m].nt)
      BY <1>6, <2>1, <2>2
    <2>. QED
      BY <2>3, Shown
  <1>8. ASSUME NEW i \in 1 .. 5
        PROVE  res[30 + i] = own[WithRaw[i]][7] /\ res[35 + i] = own[WithRaw[i]][10]
    <2> DEFINE m == WithRaw[i]
               j == 5 + i
    <2>1. m \in {KARP_B, KnR, LAR_B, ZARBAS, ZARADV}
      BY DEF WithRaw
    <2>2. m \in Metrics \cup AltMetrics
      BY <2>1 DEF Metrics, BERGEN, ROTH, KARP_B, KnR, LAR_B, ZARBAS, ZARADV
    <2>3. C[i] = v[m].misc[1]
      BY DEF save_raw_pts
    <2>4. C[j] = v[m].misc[4]
      <3>1. j \in 1 .. 10 /\ ~(j <= 5) /\ j - 5 = i
        OBVIOUS
      <3> HIDE DEF j
      <3>2. C[j] = v[WithRaw[j - 5]].misc[4]
        BY <3>1 DEF save_raw_pts
      <3>. QED
        BY <3>1, <3>2
    <2>5. res[30 + i] = C[i] /\ res[30 + j] = C[j] /\ 30 + j = 35 + i
      BY <1>6
    <2> HIDE DEF m, C, j
    <2>6. \A k \in 1 .. 6 : own[m][6 + k] = v[m].misc[k]
      BY <2>1, <2>2, OwnSlots
    <2>7. own[m][6 + 1] = v[m].misc[1] /\ own[m][6 + 4] = v[m].misc[4]
      BY <2>6
    <2>8. own[m][7] = v[m].misc[1] /\ own[m][10] = v[m].misc[4]
      BY <2>7
    <2>9. res[30 + i] = own[m][7] /\ res[35 + i] = own[m][10]
      BY <2>3, <2>4, <2>5, <2>8
    <2>. QED
      BY <2>9 DEF m
  <1>9. /\ tag # All_UE /\ tag # AllAlt /\ tag \in {AllRaw, Set88} /\ tag # Set88
        /\ tag # MixKar /\ tag # MixLar
    BY DEF All_UE, AllAlt, AllRaw, Set88, MixKar, MixLar
  <1> HIDE DEF A, B, C, U
  <1>. QED
    BY <1>7, <1>8, <1>9, Zenon DEF SetSays

\* Set 88, two slots a metric.
LEMMA Agree88 ==
  ASSUME NEW v, NEW own, Good(v, own), tag = Set88, res = set88_calc(v)
  PROVE  SetSays(own)
  <1> DEFINE known(m, e) == IF m = PAV THEN Clamp(e) ELSE e
             A == [i \in Each |-> Side88(v[i - 1], i - 1)[1]]
             B == [i \in Each |-> Side88(v[i - 1], i - 1)[2]]
             U == {A[i] : i \in 1 .. 15} \cup {B[i] : i \in 1 .. 15}
  <1>1. A = [i \in 1 .. 15 |-> A[i]] /\ B = [i \in 1 .. 15 |-> B[i]]
    BY DEF Each
  <1>2. A \in Seq(U)
    <2>1. \A i \in 1 .. 15 : A[i] \in U
      OBVIOUS
    <2> HIDE DEF A, U
    <2>. QED
      BY <1>1, <2>1
  <1>3. B \in Seq(U)
    <2>1. \A i \in 1 .. 15 : B[i] \in U
      OBVIOUS
    <2> HIDE DEF B, U
    <2>. QED
      BY <1>1, <2>1
  <1>4. res = A \o B
    BY DEF set88_calc
  <1>5. \A i \in 1 .. 15 : res[i] = A[i] /\ res[15 + i] = B[i]
    <2> HIDE DEF A, B, U
    <2>1. /\ \A k \in 1 .. Len(A) : (A \o B)[k] = A[k]
          /\ \A k \in 1 .. Len(B) : (A \o B)[Len(A) + k] = B[k]
      BY <1>2, <1>3, Joined
    <2>2. Len(A) = 15 /\ Len(B) = 15
      BY <1>1, <1>2, <1>3
    <2>. QED
      BY <1>4, <2>1, <2>2
  <1>6. ASSUME NEW m \in Metrics \ Zars
        PROVE  known(m, <<res[m + 1], res[m + 16]>>) = <<own[m][4], own[m][1]>>
    <2> DEFINE i == m + 1
    <2>1. i \in 1 .. 15 /\ i - 1 = m /\ 15 + i = m + 16
      BY DEF Metrics, BERGEN, ROTH
    <2>2. Side88(v[m], m) = <<Sum2(v[m].bf), Sum2(v[m].nt)>>
      BY DEF Side88, Zars
    <2>3. A[i] = Sum2(v[m].bf) /\ B[i] = Sum2(v[m].nt)
      BY <2>1, <2>2 DEF Each
    <2>4. res[m + 1] = Sum2(v[m].bf) /\ res[m + 16] = Sum2(v[m].nt)
      BY <1>5, <2>1, <2>3
    <2>. QED
      BY <2>4, Shown
  <1>7. /\ tag # All_UE /\ tag # AllAlt /\ tag \in {AllRaw, Set88} /\ tag # AllRaw
        /\ tag # MixKar /\ tag # MixLar
    BY DEF All_UE, AllAlt, AllRaw, Set88, MixKar, MixLar
  <1> HIDE DEF A, B, U
  <1>. QED
    BY <1>6, <1>7, Zenon DEF SetSays

\* The first six slots, and the next.
LEMMA TwoSlices ==
  ASSUME NEW s
  PROVE  /\ SubSeq(s, 0 + 1, 0 + 6) = [k \in 1 .. 6 |-> s[0 + k]]
         /\ SubSeq(s, 6 + 1, 6 + 6) = [k \in 1 .. 6 |-> s[6 + k]]
  <1>1. 0 \in Nat /\ 6 \in Nat
    OBVIOUS
  <1>. QED
    BY <1>1, Slice6

\* The two mixed sets: six slots of one metric and six of another, then others.
LEMMA AgreeMixed ==
  ASSUME NEW v, NEW own, Good(v, own), NEW x \in Metrics, NEW y \in Metrics, NEW S,
         NEW t \in Seq(S), NEW w \in Seq(S),
         x # PAV, y # PAV
  PROVE  res = FirstSix(v, x) \o FirstSix(v, y) \o t \o w =>
            /\ SubSeq(res, 0 + 1, 0 + 6) = SubSeq(own[x], 1, 6)
            /\ SubSeq(res, 6 + 1, 6 + 6) = SubSeq(own[y], 1, 6)
  <1> DEFINE A == Six(v[x])
             B == Six(v[y])
             T == {A[k] : k \in 1 .. 6} \cup {B[k] : k \in 1 .. 6}
             U == S \cup T
  <1>1. FirstSix(v, x) = SubSeq(own[x], 1, 6) /\ FirstSix(v, y) = SubSeq(own[y], 1, 6)
    BY DEF FirstSix, Good
  <1>2. FirstSix(v, x) = A /\ FirstSix(v, y) = B
    BY <1>1, OwnSlots
  <1>3. A = [k \in 1 .. 6 |-> A[k]] /\ B = [k \in 1 .. 6 |-> B[k]]
    BY SixIs
  <1>4. A \in Seq(U)
    <2>1. \A i \in 1 .. 6 : A[i] \in U
      OBVIOUS
    <2> HIDE DEF A, U
    <2>. QED
      BY <1>3, <2>1
  <1>5. B \in Seq(U)
    <2>1. \A i \in 1 .. 6 : B[i] \in U
      OBVIOUS
    <2> HIDE DEF B, U
    <2>. QED
      BY <1>3, <2>1
  <1>6. t \in Seq(U) /\ w \in Seq(U)
    <2> HIDE DEF T
    <2>. QED
      BY Wider
  <1> HIDE DEF A, B, T, U
  <1>7. Len(A) = 6 /\ Len(B) = 6
    BY <1>3, <1>4, <1>5
  <1>8. \A k \in 1 .. 6 : (A \o B \o t \o w)[k] = A[k] /\ (A \o B \o t \o w)[6 + k] = B[k]
    <2> DEFINE c == t
               d == w
    <2>1. c \in Seq(U) /\ d \in Seq(U)
      BY <1>6
    <2> HIDE DEF c, d
    <2> DEFINE E == A \o B
    <2>2. /\ E \in Seq(U) /\ Len(E) = Len(A) + Len(B)
          /\ \A k \in 1 .. Len(A) : E[k] = A[k]
          /\ \A k \in 1 .. Len(B) : E[Len(A) + k] = B[k]
      BY <1>4, <1>5, Joined
    <2> HIDE DEF E
    <2>3. \A k \in 1 .. Len(E) : (E \o c \o d)[k] = E[k]
      BY <2>1, <2>2, JoinedThree
    <2>4. \A k \in 1 .. 6 : E[k] = A[k] /\ E[6 + k] = B[k] /\ k \in 1 .. Len(E) /\ 6 + k \in 1 .. Len(E)
      BY <1>7, <2>2
    <2>5. \A k \in 1 .. 6 : (E \o c \o d)[k] = A[k] /\ (E \o c \o d)[6 + k] = B[k]
      BY <2>3, <2>4, Zenon
    <2>. QED
      BY <2>5, Zenon DEF E, c, d
  <1> SUFFICES ASSUME res = FirstSix(v, x) \o FirstSix(v, y) \o t \o w
               PROVE  /\ SubSeq(res, 0 + 1, 0 + 6) = SubSeq(own[x], 1, 6)
                      /\ SubSeq(res, 6 + 1, 6 + 6) = SubSeq(own[y], 1, 6)
    OBVIOUS
  <1>9. res = A \o B \o t \o w
    BY <1>2
  <1>10. \A k \in 1 .. 6 : res[0 + k] = A[k] /\ res[6 + k] = B[k]
    <2>1. \A k \in 1 .. 6 : res[k] = A[k]
      BY <1>8, <1>9, Zenon
    <2>2. \A k \in 1 .. 6 : res[6 + k] = B[k]
      BY <1>8, <1>9, Zenon
    <2>3. \A k \in 1 .. 6 : 0 + k = k
      OBVIOUS
    <2>. QED
      BY <2>1, <2>2, <2>3, Zenon
  <1>11. /\ SubSeq(res, 0 + 1, 0 + 6) = [k \in 1 .. 6 |-> res[0 + k]]
         /\ SubSeq(res, 6 + 1, 6 + 6) = [k \in 1 .. 6 |-> res[6 + k]]
    <2> DEFINE r == res
    <2> HIDE DEF r
    <2>1. /\ SubSeq(r, 0 + 1, 0 + 6) = [k \in 1 .. 6 |-> r[0 + k]]
          /\ SubSeq(r, 6 + 1, 6 + 6) = [k \in 1 .. 6 |-> r[6 + k]]
      BY TwoSlices
    <2>. QED
      BY <2>1, Zenon DEF r
  <1>13. SubSeq(res, 0 + 1, 0 + 6) = A /\ SubSeq(res, 6 + 1, 6 + 6) = B
    BY <1>3, <1>10, <1>11, Zenon
  <1>. QED
    BY <1>1, <1>2, <1>13

\* The answers to a deal are good.
LEMMA DealGood ==
  ASSUME NEW d \in DOMAIN Deals
  PROVE  Good(UEv[d], Answer[d])
  <1> DEFINE v == UEv[d]
             own == Answer[d]
  <1> SUFFICES ASSUME NEW m \in Metrics \cup AltMetrics
               PROVE  /\ own[m] = SaveUserVals(v[m])
                      /\ m # PAV => NonNeg(v[m])
                      /\ \E S : v[m].misc \in Seq(S)
                      /\ m \in {KARP_B, KnR, LAR_B, ZARBAS, ZARADV} => Len(v[m].misc) = 6
    BY DEF Good
  <1>1. v[m] = p_cfunc(m, Side[d]) /\ Side[d] = analyze_side(Deals[d])
    BY DEF UEv, Side
  <1>2. ItsSide(Side[d])
    BY <1>1, DealtSide
  <1>3. own[m] = SaveUserVals(v[m])
    <2>1. m \in Tags
      BY DEF Tags
    <2>2. own[m] = Reply(m, UEv[d], Side[d])
      BY <2>1 DEF Answer
    <2>3. Reply(m, UEv[d], Side[d]) = SaveUserVals(v[m])
      BY DEF Reply, Metrics, AltMetrics, HCPT050, OPCjgm, BERGEN, ROTH, All_UE,
         AllAlt, AllRaw, Set88, MixKar, MixLar, TestTag, Unknown
    <2>. QED
      BY <2>2, <2>3
  <1> HIDE DEF v, own
  <1>. QED
    BY <1>1, <1>2, <1>3, Found

\* Whatever set was asked for.
LEMMA AnsweredSets == Answered => SetsAgree
  <1> SUFFICES ASSUME Answered PROVE SetSays(Answer[deal])
    BY DEF SetsAgree
  <1> DEFINE v == UEv[deal]
             own == Answer[deal]
             ss == Side[deal]
  <1>1. Good(v, own)
    BY DealGood DEF Answered
  <1>2. tag \in Sets => res = Reply(tag, v, ss)
    <2> SUFFICES ASSUME tag \in Sets PROVE res = Reply(tag, v, ss)
      OBVIOUS
    <2>1. tag \in Tags /\ tag # NoTag
      BY DEF Tags, Sets, NoTag, All_UE, AllAlt, AllRaw, MixKar, MixLar, Set88
    <2>. QED
      BY <2>1 DEF Answered, Answer
  <1> HIDE DEF v, own, ss
  <1>3. CASE tag = All_UE
    <2>1. res = set40_calc(v)
      BY <1>2, <1>3 DEF Reply, Sets, Metrics, AltMetrics, HCPT050, OPCjgm, BERGEN, ROTH, All_UE,
         AllAlt, AllRaw, Set88, MixKar, MixLar, TestTag, Unknown
    <2>. QED
      BY <1>1, <1>3, <2>1, Agree40 DEF own
  <1>4. CASE tag = AllAlt
    <2>1. res = set41_calc(v)
      BY <1>2, <1>4 DEF Reply, Sets, Metrics, AltMetrics, HCPT050, OPCjgm, BERGEN, ROTH, All_UE,
         AllAlt, AllRaw, Set88, MixKar, MixLar, TestTag, Unknown
    <2>. QED
      BY <1>1, <1>4, <2>1, Agree41 DEF own
  <1>5. CASE tag = AllRaw
    <2>1. res = set42_calc(v)
      BY <1>2, <1>5 DEF Reply, Sets, Metrics, AltMetrics, HCPT050, OPCjgm, BERGEN, ROTH, All_UE,
         AllAlt, AllRaw, Set88, MixKar, MixLar, TestTag, Unknown
    <2>. QED
      BY <1>1, <1>5, <2>1, Agree42 DEF own
  <1>6. CASE tag = Set88
    <2>1. res = set88_calc(v)
      BY <1>2, <1>6 DEF Reply, Sets, Metrics, AltMetrics, HCPT050, OPCjgm, BERGEN, ROTH, All_UE,
         AllAlt, AllRaw, Set88, MixKar, MixLar, TestTag, Unknown
    <2>. QED
      BY <1>1, <1>6, <2>1, Agree88 DEF own
  <1>7. CASE tag = MixKar
    <2> DEFINE f == Fit2(ss)
               t == f \o f
               S == {ss.t_suit, ss.t_fitlen}
    <2>1. res = FirstSix(v, KARPIN) \o FirstSix(v, KARP_B) \o f \o f
      BY <1>2, <1>7 DEF mixed_Karpin_calc, Reply, Sets, Metrics, AltMetrics, HCPT050, OPCjgm, BERGEN, ROTH,
         All_UE, AllAlt, AllRaw, Set88, MixKar, MixLar, TestTag, Unknown
    <2>2. f \in Seq(S)
      BY DEF Fit2
    <2>3. KARPIN \in Metrics /\ KARP_B \in Metrics /\ KARPIN # PAV /\ KARP_B # PAV
      BY DEF Metrics, BERGEN, ROTH, KARPIN, KARP_B, PAV
    <2> HIDE DEF f, S
    <2>4. /\ SubSeq(res, 0 + 1, 0 + 6) = SubSeq(own[KARPIN], 1, 6)
          /\ SubSeq(res, 6 + 1, 6 + 6) = SubSeq(own[KARP_B], 1, 6)
      BY <1>1, <2>1, <2>2, <2>3, AgreeMixed
    <2>5. tag # All_UE /\ tag # AllAlt /\ tag \notin {AllRaw, Set88} /\ tag # MixLar
      BY <1>7 DEF All_UE, AllAlt, AllRaw, Set88, MixKar, MixLar
    <2>. QED
      BY <1>7, <2>4, <2>5, Zenon DEF SetSays, own
  <1>8. CASE tag = MixLar
    <2> DEFINE f == Fit2(ss)
               z == <<0, 0>>
               S == {ss.t_suit, ss.t_fitlen, 0}
    <2>1. res = FirstSix(v, LAR) \o FirstSix(v, LAR_B) \o z \o f
      BY <1>2, <1>8 DEF mixed_Larsson_calc, Reply, Sets, Metrics, AltMetrics, HCPT050, OPCjgm, BERGEN, ROTH,
         All_UE, AllAlt, AllRaw, Set88, MixKar, MixLar, TestTag, Unknown
    <2>2. f \in Seq(S) /\ z \in Seq(S)
      BY DEF Fit2
    <2>3. LAR \in Metrics /\ LAR_B \in Metrics /\ LAR # PAV /\ LAR_B # PAV
      BY DEF Metrics, BERGEN, ROTH, LAR, LAR_B, PAV
    <2> HIDE DEF f, z, S
    <2>4. /\ SubSeq(res, 0 + 1, 0 + 6) = SubSeq(own[LAR], 1, 6)
          /\ SubSeq(res, 6 + 1, 6 + 6) = SubSeq(own[LAR_B], 1, 6)
      BY <1>1, <2>1, <2>2, <2>3, AgreeMixed
    <2>5. tag # All_UE /\ tag # AllAlt /\ tag \notin {AllRaw, Set88} /\ tag # MixKar
      BY <1>8 DEF All_UE, AllAlt, AllRaw, Set88, MixKar, MixLar
    <2>. QED
      BY <1>8, <2>4, <2>5, Zenon DEF SetSays, own
  <1>9. CASE tag \notin Sets
    <2>1. tag # All_UE /\ tag # AllAlt /\ tag \notin {AllRaw, Set88} /\ tag # MixKar /\ tag # MixLar
      BY <1>9 DEF Sets
    <2>. QED
      BY <2>1, Zenon DEF SetSays
  <1>. QED
    BY <1>3, <1>4, <1>5, <1>6, <1>7, <1>8, <1>9 DEF Sets

\* A set tells of a metric what the metric's own tag would, in the slots it promises:
\* the sets show the metrics' numbers as they are and a metric's tag shows none below
\* zero, so it has to be shown of every metric that it has none.
THEOREM SetsAsMetrics == Spec => []SetsAgree
  <1>1. Init => Answered
    BY DEF Init, Answered
  <1>. QED
    BY <1>1, AnsweredStep, AnsweredSets, PTL DEF Spec

-----------------------------------------------------------------------------
(* The hands of a side trade seats: every choice the code makes between them
   is by what they hold, and goes with them. *)

\* The hands of a side, having traded seats.
Traded(p, q) == \A h \in Hands : q[h] = p[1 - h]

\* What the metrics look at of a side.
TradedSides(ss, tt) ==
    /\ \A h \in Hands :
          /\ tt.phs[h] = ss.phs[1 - h] /\ tt.t_len[h] = ss.t_len[1 - h]
          /\ tt.pav_body[h] = ss.pav_body[1 - h]
          /\ \A k : sorted_slen(tt, h, k) = sorted_slen(ss, 1 - h, k)
    /\ tt.t_suit = ss.t_suit /\ tt.t_fitlen = ss.t_fitlen
    /\ tt.decl_h = 1 - ss.decl_h /\ tt.dummy_h = 1 - ss.dummy_h

\* Neither the lengths and points of a suit, nor how unevenly it lies, nor the choice
\* between two of them, tell the hands from each other.
LEMMA TradedSuits ==
  ASSUME NEW p, NEW q, ASide(p), Traded(p, q)
  PROVE  /\ \A s \in Suits : /\ Uneven(q, s) = Uneven(p, s) /\ SidePoints(q, s) = SidePoints(p, s)
                             /\ hs_length(q[0], s) + hs_length(q[1], s) = hs_length(p[0], s) + hs_length(p[1], s)
         /\ \A x, y \in Suits : picksuit(x, y, q) = picksuit(x, y, p) /\ picksuit(x, y, p) \in Suits
  <1>1. q[0] = p[1] /\ q[1] = p[0]
    BY DEF Traded, Hands
  <1>2. ASSUME NEW s \in Suits
        PROVE  /\ Uneven(q, s) = Uneven(p, s) /\ SidePoints(q, s) = SidePoints(p, s)
               /\ hs_length(q[0], s) + hs_length(q[1], s) = hs_length(p[0], s) + hs_length(p[1], s)
    <2>1. /\ hs_length(p[0], s) \in Nat /\ hs_length(p[1], s) \in Nat
          /\ hs_points(p[0], s) \in Nat /\ hs_points(p[1], s) \in Nat
      BY DEF ASide, Hands
    <2>2. Uneven(q, s) = Uneven(p, s)
      BY <1>1, <2>1 DEF Uneven, Larger
    <2>. QED
      BY <1>1, <2>1, <2>2 DEF SidePoints
  <1>. QED
    BY <1>2 DEF picksuit

\* Nor does the choice of the trump suit.
LEMMA SameFit ==
  ASSUME NEW p, NEW q, ASide(p), Traded(p, q), NEW w,
         w[1][2] \in Suits, w[2][2] \in Suits, w[3][2] \in Suits
  PROVE  BestFit(w, q) = BestFit(w, p)
  <1> DEFINE a == w[1][2]
             b == w[2][2]
             c == w[3][2]
  <1>1. /\ Uneven(q, a) = Uneven(p, a) /\ Uneven(q, b) = Uneven(p, b) /\ Uneven(q, c) = Uneven(p, c)
        /\ SidePoints(q, a) = SidePoints(p, a) /\ SidePoints(q, b) = SidePoints(p, b)
    BY TradedSuits
  <1>2. /\ picksuit(a, b, q) = picksuit(a, b, p) /\ picksuit(a, c, q) = picksuit(a, c, p)
        /\ picksuit(b, c, q) = picksuit(b, c, p) /\ picksuit(b, c, p) \in Suits
    BY TradedSuits
  <1>3. picksuit(a, picksuit(b, c, q), q) = picksuit(a, picksuit(b, c, p), p)
    BY <1>2, TradedSuits
  <1>4. choose_7fit(w, q) = choose_7fit(w, p)
    BY <1>1, <1>2, <1>3 DEF choose_7fit
  <1>5. choose_fit(w, q) = choose_fit(w, p)
    BY <1>1 DEF choose_fit
  <1>. QED
    BY <1>4, <1>5 DEF BestFit

\* So analyze_side() finds the same of a side whose hands have traded seats, hand for
\* hand; with points to tell them, declarer and dummy trade as well.
LEMMA SidesTrade ==
  ASSUME NEW p, NEW q, \A h \in Hands : AHand(p[h]), Traded(p, q),
         hs_totalpoints(p[0]) # hs_totalpoints(p[1])
  PROVE  TradedSides(analyze_side(p), analyze_side(q))
  <1> DEFINE ss == analyze_side(p)
             tt == analyze_side(q)
             len(r) == [s \in Suits |-> hs_length(r[0], s) + hs_length(r[1], s)]
             one(r, h) == [s \in Suits |-> hs_length(r[h], s)]
             w == Sorted(len(p))
             t == BestFit(w, p)
  <1>1. ASide(p) /\ q[0] = p[1] /\ q[1] = p[0]
    <2>1. ASide(p)
      BY HandNumbers DEF ASide, AHand
    <2>. QED
      BY <2>1 DEF Traded, Hands
  <1>2. len(q) = len(p)
    BY <1>1, TradedSuits
  <1>3. w[1][2] \in Suits /\ w[2][2] \in Suits /\ w[3][2] \in Suits
    <2> DEFINE l == len(p)
    <2>1. \A s \in Suits : hs_length(p[0], s) + hs_length(p[1], s) \in Nat /\ l[s] = SideLength(p, s)
      BY SideNumbers, <1>1 DEF SideLength
    <2>2. l[0] + l[1] + l[2] + l[3] = 26
      BY <2>1, <1>1, SideNumbers, FourSuits
    <2>3. l \in [Suits -> Int] /\ l[0] \in Nat /\ l[1] \in Nat /\ l[2] \in Nat /\ l[3] \in Nat
      BY <2>1, FourSuits
    <2>4. \E s, u \in Suits : l[s] # l[u]
      <3>1. ~(l[0] = l[1] /\ l[0] = l[2] /\ l[0] = l[3])
        <4> HIDE DEF l
        <4>. QED
          BY <2>2, <2>3
      <3> HIDE DEF l
      <3>. QED
        BY <3>1, FourSuits
    <2> HIDE DEF l
    <2>5. \A k \in 1 .. 4 : Sorted(l)[k][2] \in Suits
      BY <2>3, <2>4, SortedSuits
    <2>. QED
      BY <2>5 DEF l
  <1> HIDE DEF len
  <1>4. BestFit(w, q) = t
    BY <1>1, <1>3, SameFit
  <1>5. /\ ss.phs = p /\ ss.t_suit = t
        /\ ss.t_len = [h \in Hands |-> IF t < 0 THEN 0 ELSE hs_length(p[h], t)]
        /\ ss.t_fitlen = IF t < 0 THEN 7 ELSE ss.t_len[0] + ss.t_len[1]
        /\ ss.sorted = [h \in Hands |-> Sorted(one(p, h))]
        /\ ss.pav_body = [h \in Hands |-> Pav_body_val(p[h])]
        /\ ss.decl_h = SetDeclarer(ss.t_len, p) /\ ss.dummy_h = 1 - ss.decl_h
    <2>1. ss.t_suit = t
      BY Zenon, SideParts DEF len, SideOf
    <2>2. SideOf(p, ss)
      BY SideParts
    <2> HIDE DEF ss, tt, w, t
    <2>3. ss.t_fitlen = IF t < 0 THEN 7 ELSE ss.t_len[0] + ss.t_len[1]
      BY Zenon, <2>1, <2>2 DEF SideOf
    <2>4. ss.t_len = [h \in Hands |-> IF t < 0 THEN 0 ELSE hs_length(p[h], t)]
      BY Zenon, <2>1, <2>2 DEF SideOf
    <2>. QED
      BY Zenon, <2>1, <2>2, <2>3, <2>4 DEF SideOf
  <1>6. /\ tt.phs = q /\ tt.t_suit = t
        /\ tt.t_len = [h \in Hands |-> IF t < 0 THEN 0 ELSE hs_length(q[h], t)]
        /\ tt.t_fitlen = IF t < 0 THEN 7 ELSE tt.t_len[0] + tt.t_len[1]
        /\ tt.sorted = [h \in Hands |-> Sorted(one(q, h))]
        /\ tt.pav_body = [h \in Hands |-> Pav_body_val(q[h])]
        /\ tt.decl_h = SetDeclarer(tt.t_len, q) /\ tt.dummy_h = 1 - tt.decl_h
    <2>1. tt.t_suit = BestFit(Sorted(len(q)), q)
      BY Zenon, SideParts DEF len, SideOf
    <2>2. tt.t_suit = t
      BY <1>2, <1>4, <2>1
    <2>3. SideOf(q, tt)
      BY SideParts
    <2> HIDE DEF ss, tt, w, t
    <2>4. tt.t_fitlen = IF t < 0 THEN 7 ELSE tt.t_len[0] + tt.t_len[1]
      BY Zenon, <2>2, <2>3 DEF SideOf
    <2>5. tt.t_len = [h \in Hands |-> IF t < 0 THEN 0 ELSE hs_length(q[h], t)]
      BY Zenon, <2>2, <2>3 DEF SideOf
    <2>. QED
      BY Zenon, <2>2, <2>3, <2>4, <2>5 DEF SideOf
  <1> HIDE DEF ss, tt, w, t
  <1>7. /\ tt.t_len[0] = ss.t_len[1] /\ tt.t_len[1] = ss.t_len[0]
        /\ tt.pav_body[0] = ss.pav_body[1] /\ tt.pav_body[1] = ss.pav_body[0]
    BY <1>1, <1>5, <1>6 DEF Hands
  <1>8. tt.sorted[0] = ss.sorted[1] /\ tt.sorted[1] = ss.sorted[0]
    <2>1. one(q, 0) = one(p, 1) /\ one(q, 1) = one(p, 0)
      BY <1>1
    <2> HIDE DEF one
    <2>. QED
      BY <1>5, <1>6, <2>1 DEF Hands
  <1>9. t = -1 \/ t \in Suits
    <2>1. ss.t_suit = -1 \/ ss.t_suit \in Suits
      BY <1>1, SuitOf DEF LongFits, ss
    <2>. QED
      BY <1>5, <2>1
  <1>10. ss.t_len[0] \in Nat /\ ss.t_len[1] \in Nat
    <2>1. \A h \in Hands : \A s \in Suits : hs_length(p[h], s) \in Nat
      BY DEF AHand
    <2>2. \A h \in Hands : ss.t_len[h] \in Nat
      BY <1>5, <1>9, <2>1
    <2>. QED
      BY <2>2 DEF Hands
  <1>11. tt.t_fitlen = ss.t_fitlen
    BY <1>5, <1>6, <1>7, <1>10
  <1>12. tt.decl_h = 1 - ss.decl_h /\ tt.dummy_h = 1 - ss.dummy_h
    <2>1. hs_totalpoints(p[0]) \in Nat /\ hs_totalpoints(p[1]) \in Nat
      BY HandNumbers DEF Hands
    <2>2. SetDeclarer(tt.t_len, q) = 1 - SetDeclarer(ss.t_len, p)
      BY <1>1, <1>7, <1>10, <2>1 DEF SetDeclarer
    <2>. QED
      BY <1>5, <1>6, <2>2
  <1>13. ASSUME NEW h \in Hands
         PROVE  /\ tt.phs[h] = ss.phs[1 - h] /\ tt.t_len[h] = ss.t_len[1 - h]
                /\ tt.pav_body[h] = ss.pav_body[1 - h]
                /\ \A k : sorted_slen(tt, h, k) = sorted_slen(ss, 1 - h, k)
    <2>1. (h = 0 /\ 1 - h = 1) \/ (h = 1 /\ 1 - h = 0)
      BY DEF Hands
    <2>. QED
      BY <2>1, <1>1, <1>5, <1>6, <1>7, <1>8 DEF sorted_slen
  <1>14. tt.t_suit = ss.t_suit
    BY <1>5, <1>6
  <1>15. TradedSides(ss, tt)
    BY <1>11, <1>12, <1>13, <1>14 DEF TradedSides
  <1>. QED
    BY <1>15 DEF ss, tt

\* The numbers of the two hands of a side, in another's the other way round.
Mirrored(e, f) == \A h \in Hands : f.nt[h] = e.nt[1 - h] /\ f.bf[h] = e.bf[1 - h]

\* One hand of the traded side, and its partner.
LEMMA Partners ==
  ASSUME NEW ss, NEW tt, ItsSide(ss), TradedSides(ss, tt), NEW h \in Hands
  PROVE  LET g == 1 - h
         IN  /\ g \in Hands /\ h = 1 - g /\ h # g
             /\ tt.phs[h] = ss.phs[g] /\ tt.phs[g] = ss.phs[h]
             /\ tt.t_len[h] = ss.t_len[g] /\ tt.pav_body[h] = ss.pav_body[g]
             /\ \A k : sorted_slen(tt, h, k) = sorted_slen(ss, g, k)
             /\ Shortest(tt, h) = Shortest(ss, g) /\ (Fit(tt) <=> Fit(ss))
             /\ h = tt.decl_h <=> g = ss.decl_h
             /\ h = tt.dummy_h <=> g = ss.dummy_h
  <1> DEFINE g == 1 - h
  <1>1. g \in Hands /\ h = 1 - g /\ h # g /\ h \in Int
    BY DEF Hands
  <1>2. /\ tt.phs[h] = ss.phs[g] /\ tt.t_len[h] = ss.t_len[g] /\ tt.pav_body[h] = ss.pav_body[g]
        /\ \A k : sorted_slen(tt, h, k) = sorted_slen(ss, g, k)
    BY DEF TradedSides
  <1>3. tt.phs[g] = ss.phs[h]
    <2>1. tt.phs[g] = ss.phs[1 - g]
      BY <1>1 DEF TradedSides
    <2>. QED
      BY <1>1, <2>1
  <1>4. Fit(tt) <=> Fit(ss)
    BY DEF Fit, TradedSides
  <1>5. tt.decl_h = 1 - ss.decl_h /\ tt.dummy_h = 1 - ss.dummy_h /\ ss.decl_h \in Hands /\ ss.dummy_h \in Hands
    BY DEF TradedSides, ItsSide, Hands
  <1>6. (h = tt.decl_h <=> g = ss.decl_h) /\ (h = tt.dummy_h <=> g = ss.dummy_h)
    BY <1>5 DEF Hands
  <1>7. Shortest(tt, h) = Shortest(ss, g)
    BY <1>2 DEF Shortest
  <1>. QED
    BY <1>1, <1>2, <1>3, <1>4, <1>6, <1>7

\* Points of a fit.
LEMMA FitTrades ==
  ASSUME NEW ss, NEW tt, ItsSide(ss), TradedSides(ss, tt), NEW h \in Hands
  PROVE  /\ \A v : SideShorts(tt, h, v) = SideShorts(ss, 1 - h, v)
         /\ \A df, fn, dt, ft :
               dt[h] = df[1 - h] /\ ft[h] = fn[1 - h] =>
                   Do_Df_Fn_pts(tt, dt, ft)[h] = Do_Df_Fn_pts(ss, df, fn)[1 - h]
         /\ DfitKAR(tt)[h] = DfitKAR(ss)[1 - h] /\ FnKAR(tt)[h] = FnKAR(ss)[1 - h]
         /\ DfitDKP(tt)[h] = DfitDKP(ss)[1 - h] /\ DfitLAR(tt)[h] = DfitLAR(ss)[1 - h]
         /\ NoPoints[h] = NoPoints[1 - h]
  <1> DEFINE g == 1 - h
  <1>1. /\ g \in Hands /\ tt.phs[h] = ss.phs[g] /\ tt.t_len[h] = ss.t_len[g]
        /\ Shortest(tt, h) = Shortest(ss, g) /\ (Fit(tt) <=> Fit(ss))
        /\ (h = tt.dummy_h <=> g = ss.dummy_h)
    BY Partners
  <1>2. tt.t_suit = ss.t_suit /\ tt.t_fitlen = ss.t_fitlen
    BY DEF TradedSides
  <1>3. (tt.t_len[0] = tt.t_len[1]) <=> (ss.t_len[0] = ss.t_len[1])
    <2>1. tt.t_len[0] = ss.t_len[1] /\ tt.t_len[1] = ss.t_len[0]
      BY DEF TradedSides, Hands
    <2>. QED
      BY <2>1
  <1> HIDE DEF g
  <1>4. ASSUME NEW v PROVE SideShorts(tt, h, v) = SideShorts(ss, g, v)
    BY <1>1, <1>2 DEF SideShorts, Sum4
  <1>5. ASSUME NEW df, NEW fn, NEW dt, NEW ft, dt[h] = df[g], ft[h] = fn[g]
        PROVE  Do_Df_Fn_pts(tt, dt, ft)[h] = Do_Df_Fn_pts(ss, df, fn)[g]
    BY <1>1, <1>3, <1>5 DEF Do_Df_Fn_pts
  <1>6. /\ DfitKAR(tt)[h] = DfitKAR(ss)[g] /\ FnKAR(tt)[h] = FnKAR(ss)[g]
    BY <1>1, <1>4 DEF DfitKAR, FnKAR
  <1>7. /\ DfitDKP(tt)[h] = DfitDKP(ss)[g] /\ DfitLAR(tt)[h] = DfitLAR(ss)[g]
    BY <1>1, <1>2 DEF DfitDKP, DfitLAR
  <1>8. NoPoints[h] = NoPoints[g]
    BY <1>1 DEF NoPoints
  <1>. QED
    BY <1>4, <1>5, <1>6, <1>7, <1>8 DEF g

\* Kaplan's points trade.
LEMMA KaplanTrades ==
  ASSUME NEW ss, NEW tt, ItsSide(ss), TradedSides(ss, tt)
  PROVE  Mirrored(kaplan_calc(ss), kaplan_calc(tt))
  <1> SUFFICES ASSUME NEW h \in Hands
               PROVE  /\ kaplan_calc(tt).nt[h] = kaplan_calc(ss).nt[1 - h]
                      /\ kaplan_calc(tt).bf[h] = kaplan_calc(ss).bf[1 - h]
    BY DEF Mirrored
  <1> DEFINE g == 1 - h
             N(st, i) == hs_totalpoints(st.phs[i]) + Pav_round(hcp_adj(st.phs[i], KAPLAN), st.pav_body[i])
                         + LengthOver(st.phs[i], 4, 9) + HfKAP(st, i)
             D(st, i) == If(Fit(st), DfitKAP(st, i))
  <1>1. /\ g \in Hands /\ tt.phs[h] = ss.phs[g] /\ tt.phs[g] = ss.phs[h] /\ tt.t_len[h] = ss.t_len[g]
        /\ tt.pav_body[h] = ss.pav_body[g] /\ h = 1 - g /\ (Fit(tt) <=> Fit(ss))
    BY Partners
  <1>2. \A st : \A i \in Hands : kaplan_calc(st).nt[i] = N(st, i) /\ kaplan_calc(st).bf[i] = N(st, i) + D(st, i)
    BY DEF kaplan_calc, UserEvals, Plus
  <1>3. HfKAP(tt, h) = HfKAP(ss, g)
    <2>1. tt.phs[1 - h] = ss.phs[1 - g]
      BY <1>1
    <2> HIDE DEF g
    <2>. QED
      BY <1>1, <2>1 DEF HfKAP, Sum4
  <1>4. D(tt, h) = D(ss, g)
    BY <1>1, FitTrades DEF DfitKAP, If
  <1>5. N(tt, h) = N(ss, g)
    BY <1>1, <1>3
  <1> HIDE DEF N, D
  <1>. QED
    BY <1>1, <1>2, <1>4, <1>5

\* Bissell's do.
LEMMA BissellTrades ==
  ASSUME NEW ss, NEW tt, ItsSide(ss), TradedSides(ss, tt)
  PROVE  Mirrored(bissell_calc(ss), bissell_calc(tt))
  <1> SUFFICES ASSUME NEW h \in Hands
               PROVE  /\ bissell_calc(tt).nt[h] = bissell_calc(ss).nt[1 - h]
                      /\ bissell_calc(tt).bf[h] = bissell_calc(ss).bf[1 - h]
    BY DEF Mirrored
  <1> DEFINE g == 1 - h
             Flat(p) == square_hand(p) \/ OfLength(p, 4) = 3
                        \/ (OfLength(p, 4) = 2 /\ OfLength(p, 0) = 0)
             N(p, b) == Pav_round((SuitBIS(p, 0) + SuitBIS(p, 1) + SuitBIS(p, 2) + SuitBIS(p, 3))
                                  - If(Flat(p), 100), b)
  <1>1. /\ g \in Hands /\ tt.phs[h] = ss.phs[g] /\ tt.pav_body[h] = ss.pav_body[g]
    BY Partners
  <1>2. \A st : \A i \in Hands : /\ bissell_calc(st).nt[i] = N(st.phs[i], st.pav_body[i])
                                 /\ bissell_calc(st).bf[i] = N(st.phs[i], st.pav_body[i])
    <2> DEFINE F(st) == [i \in Hands |-> N(st.phs[i], st.pav_body[i])]
    <2>1. \A st : bissell_calc(st) = UserEvals(F(st), F(st), <<>>)
      BY Zenon DEF bissell_calc, Sum4, CLUBS, DIAMONDS, HEARTS, SPADES
    <2>2. \A st : \A i \in Hands : F(st)[i] = N(st.phs[i], st.pav_body[i])
      OBVIOUS
    <2> HIDE DEF F
    <2>. QED
      BY <2>1, <2>2 DEF UserEvals
  <1> HIDE DEF N
  <1>. QED
    BY <1>1, <1>2

\* Karpin's do.
LEMMA KarpinTrades ==
  ASSUME NEW ss, NEW tt, ItsSide(ss), TradedSides(ss, tt)
  PROVE  Mirrored(karpin_calc(ss), karpin_calc(tt))
  <1> SUFFICES ASSUME NEW h \in Hands
               PROVE  /\ karpin_calc(tt).nt[h] = karpin_calc(ss).nt[1 - h]
                      /\ karpin_calc(tt).bf[h] = karpin_calc(ss).bf[1 - h]
    BY DEF Mirrored
  <1> DEFINE g == 1 - h
             N(p) == hs_totalpoints(p) + Round(hcp_adj(p, KARPIN)) + LengthOver(p, 4, 9)
             D(st) == Do_Df_Fn_pts(st, DfitKAR(st), FnKAR(st))
  <1>1. g \in Hands /\ tt.phs[h] = ss.phs[g]
    BY Partners
  <1>2. \A st : \A i \in Hands : /\ karpin_calc(st).nt[i] = N(st.phs[i])
                                 /\ karpin_calc(st).bf[i] = N(st.phs[i]) + D(st)[i]
    BY DEF karpin_calc, UserEvals, Plus
  <1>3. D(tt)[h] = D(ss)[g]
    BY FitTrades
  <1> HIDE DEF N, D
  <1>. QED
    BY <1>1, <1>2, <1>3

\* Karpin's with bumwraps do.
LEMMA KarpinBTrades ==
  ASSUME NEW ss, NEW tt, ItsSide(ss), TradedSides(ss, tt)
  PROVE  Mirrored(karpb_calc(ss), karpb_calc(tt))
  <1> SUFFICES ASSUME NEW h \in Hands
               PROVE  /\ karpb_calc(tt).nt[h] = karpb_calc(ss).nt[1 - h]
                      /\ karpb_calc(tt).bf[h] = karpb_calc(ss).bf[1 - h]
    BY DEF Mirrored
  <1> DEFINE g == 1 - h
             N(p, b) == Pav_round(alt_hcp(p, KARP_B) + hcp_adj(p, KARP_B), b) + LengthOver(p, 4, 9)
             D(st) == Do_Df_Fn_pts(st, DfitKAR(st), FnKAR(st))
  <1>1. g \in Hands /\ tt.phs[h] = ss.phs[g] /\ tt.pav_body[h] = ss.pav_body[g]
    BY Partners
  <1>2. \A st : \A i \in Hands : /\ karpb_calc(st).nt[i] = N(st.phs[i], st.pav_body[i])
                                 /\ karpb_calc(st).bf[i] = N(st.phs[i], st.pav_body[i]) + D(st)[i]
    BY DEF karpb_calc, UserEvals, Plus
  <1>3. D(tt)[h] = D(ss)[g]
    BY FitTrades
  <1> HIDE DEF N, D
  <1>. QED
    BY <1>1, <1>2, <1>3

\* Kleinman's do.
LEMMA KleinmanTrades ==
  ASSUME NEW ss, NEW tt, ItsSide(ss), TradedSides(ss, tt)
  PROVE  Mirrored(dkp_calc(ss), dkp_calc(tt))
  <1> SUFFICES ASSUME NEW h \in Hands
               PROVE  /\ dkp_calc(tt).nt[h] = dkp_calc(ss).nt[1 - h]
                      /\ dkp_calc(tt).bf[h] = dkp_calc(ss).bf[1 - h]
    BY DEF Mirrored
  <1> DEFINE g == 1 - h
             D(st) == Do_Df_Fn_pts(st, DfitDKP(st), NoPoints)
  <1>1. g \in Hands /\ tt.phs[h] = ss.phs[g]
    BY Partners
  <1>2. \A st : \A i \in Hands : /\ dkp_calc(st).nt[i] = NTptsDKP(st.phs[i])
                                 /\ dkp_calc(st).bf[i] = NTptsDKP(st.phs[i]) + D(st)[i]
    BY DEF dkp_calc, UserEvals, Plus
  <1>3. D(tt)[h] = D(ss)[g]
    BY FitTrades
  <1> HIDE DEF D
  <1>. QED
    BY <1>1, <1>2, <1>3

\* Larsson's with bumwraps do: it is the other one that counts nines twice.
LEMMA LarssonBTrades ==
  ASSUME NEW ss, NEW tt, ItsSide(ss), TradedSides(ss, tt)
  PROVE  Mirrored(lar_b_calc(ss), lar_b_calc(tt))
  <1> SUFFICES ASSUME NEW h \in Hands
               PROVE  /\ lar_b_calc(tt).nt[h] = lar_b_calc(ss).nt[1 - h]
                      /\ lar_b_calc(tt).bf[h] = lar_b_calc(ss).bf[1 - h]
    BY DEF Mirrored
  <1> DEFINE g == 1 - h
             N(p, b) == Pav_round(alt_hcp(p, LAR_B) + hcp_adj(p, LAR_B), b) + SynLengthLAR(p)
             D(st) == Do_Df_Fn_pts(st, DfitLAR(st), NoPoints)
  <1>1. g \in Hands /\ tt.phs[h] = ss.phs[g] /\ tt.pav_body[h] = ss.pav_body[g]
    BY Partners
  <1>2. \A st : \A i \in Hands : /\ lar_b_calc(st).nt[i] = N(st.phs[i], st.pav_body[i])
                                 /\ lar_b_calc(st).bf[i] = N(st.phs[i], st.pav_body[i]) + D(st)[i]
    BY DEF lar_b_calc, UserEvals, Plus
  <1>3. D(tt)[h] = D(ss)[g]
    BY FitTrades
  <1> HIDE DEF N, D
  <1>. QED
    BY <1>1, <1>2, <1>3

\* A misfit stays one, with the other hand short; two hands as long have none.
LEMMA MisfitTrades ==
  ASSUME NEW ss, NEW tt, ItsSide(ss), TradedSides(ss, tt)
  PROVE  /\ \A s \in Suits : mf_type(tt.phs, s) = mf_type(ss.phs, s)
         /\ \A s \in Suits : mf_type(ss.phs, s) > 0 => ShortHand(tt.phs, s) = 1 - ShortHand(ss.phs, s)
         /\ \A n : Misfit(tt.phs, n) <=> Misfit(ss.phs, n)
  <1>1. tt.phs[0] = ss.phs[1] /\ tt.phs[1] = ss.phs[0]
    BY DEF TradedSides, Hands
  <1>2. ASSUME NEW s \in Suits
        PROVE  /\ mf_type(tt.phs, s) = mf_type(ss.phs, s)
               /\ mf_type(ss.phs, s) > 0 => ShortHand(tt.phs, s) = 1 - ShortHand(ss.phs, s)
    <2> DEFINE a == hs_length(ss.phs[0], s)
               b == hs_length(ss.phs[1], s)
    <2>1. a \in Nat /\ b \in Nat
      BY DEF ItsSide, AHand, Hands
    <2>2. hs_length(tt.phs[0], s) = b /\ hs_length(tt.phs[1], s) = a
      BY <1>1
    <2>3. /\ ShortHand(ss.phs, s) = IF a >= b THEN 1 ELSE 0
          /\ ShortHand(tt.phs, s) = IF b >= a THEN 1 ELSE 0
      BY <2>2 DEF ShortHand
    <2> DEFINE M(x, y) == IF x <= 1 /\ y >= 3 THEN Smaller(y, 5) ELSE 0
    <2>4. mf_type(ss.phs, s) = IF a >= b THEN M(b, a) ELSE M(a, b)
      BY <2>3 DEF mf_type
    <2>5. mf_type(tt.phs, s) = IF b >= a THEN M(a, b) ELSE M(b, a)
      BY <2>2, <2>3 DEF mf_type
    <2>6. a = b => M(a, b) = 0 /\ M(b, a) = 0
      BY <2>1
    <2> HIDE DEF M, a, b
    <2>7. mf_type(tt.phs, s) = mf_type(ss.phs, s)
      BY <2>1, <2>4, <2>5, <2>6
    <2>8. mf_type(ss.phs, s) > 0 => a # b
      BY <2>1, <2>4, <2>6
    <2>. QED
      BY <2>1, <2>3, <2>7, <2>8
  <1>. QED
    BY <1>2 DEF Misfit

\* Bergen's points trade.
LEMMA BergenTrades ==
  ASSUME NEW ss, NEW tt, ItsSide(ss), TradedSides(ss, tt)
  PROVE  Mirrored(bergen_calc(ss), bergen_calc(tt))
  <1> SUFFICES ASSUME NEW h \in Hands
               PROVE  /\ bergen_calc(tt).nt[h] = bergen_calc(ss).nt[1 - h]
                      /\ bergen_calc(tt).bf[h] = bergen_calc(ss).bf[1 - h]
    BY DEF Mirrored
  <1> DEFINE g == 1 - h
             L(p) == LengthOver(p, 4, 9)
             S(p) == Larger(0, Round(100 * hs_totalpoints(p) + hcp_adj(p, BERGEN))
                               + (SynBERG(p, 0) + SynBERG(p, 1) + SynBERG(p, 2) + SynBERG(p, 3)) + L(p)
                               + Adjust3(p) - If(square_hand(p), 1))
             N(st, i) == IF Misfit(st.phs, 4) THEN Larger(0, S(st.phs[i]) - L(st.phs[i])) ELSE S(st.phs[i])
             D(st) == Do_Df_Fn_pts(st, DfitBERG(st), Fn_ptsBERG(st))
             B(st, i) == S(st.phs[i]) + Hf_ptsBERG(st, i) + D(st)[i]
  <1>1. /\ g \in Hands /\ h = 1 - g /\ tt.phs[h] = ss.phs[g] /\ tt.phs[1 - h] = ss.phs[1 - g]
        /\ tt.t_len[h] = ss.t_len[g]
    BY Partners
  <1>2. \A st : \A i \in Hands : bergen_calc(st).nt[i] = N(st, i) /\ bergen_calc(st).bf[i] = B(st, i)
    <2> DEFINE F(st) == [i \in Hands |-> S(st.phs[i])]
    <2>1. \A st : bergen_calc(st) =
             UserEvals([i \in Hands |-> IF Misfit(st.phs, 4) THEN Larger(0, F(st)[i] - L(st.phs[i])) ELSE F(st)[i]],
                       [i \in Hands |-> F(st)[i] + Hf_ptsBERG(st, i) + D(st)[i]], <<>>)
      BY Zenon DEF bergen_calc, Sum4, CLUBS, DIAMONDS, HEARTS, SPADES
    <2> HIDE DEF S, L, D
    <2>. QED
      BY <2>1 DEF UserEvals
  <1>3. Hf_ptsBERG(tt, h) = Hf_ptsBERG(ss, g)
    <2> DEFINE H(p, q, s) == LET long == hs_length(q, s)  all == hs_length(p, s) + long
                             IN  hs_points(p, s) \in 1 .. 3 /\ (all >= 8 \/ (long >= 5 /\ all >= 7))
               T(p, q) == Smaller(Cardinality({s \in Suits : H(p, q, s)}), 2)
    <2>1. \A st, i : Hf_ptsBERG(st, i) = T(st.phs[i], st.phs[1 - i])
      BY Zenon DEF Hf_ptsBERG, Count
    <2> HIDE DEF T, g
    <2>. QED
      BY <1>1, <2>1
  <1>4. D(tt)[h] = D(ss)[g]
    <2>1. DfitBERG(tt)[h] = DfitBERG(ss)[g]
      <3> DEFINE v == <<ss.t_len[g], IF ss.t_len[g] = 3 THEN 2 ELSE 3, 1>>
      <3>1. SideShorts(tt, h, v) = SideShorts(ss, g, v)
        BY FitTrades
      <3>2. /\ DfitBERG(tt)[h] = If(ss.t_len[g] > 2, SideShorts(tt, h, v))
            /\ DfitBERG(ss)[g] = If(ss.t_len[g] > 2, SideShorts(ss, g, v))
        BY <1>1 DEF DfitBERG
      <3> HIDE DEF v
      <3>. QED
        BY <3>1, <3>2
    <2>2. Fn_ptsBERG(tt)[h] = Fn_ptsBERG(ss)[g]
      BY <1>1 DEF Fn_ptsBERG
    <2>. QED
      BY <2>1, <2>2, FitTrades
  <1>5. Misfit(tt.phs, 4) <=> Misfit(ss.phs, 4)
    BY MisfitTrades
  <1> HIDE DEF S, L, D
  <1>6. N(tt, h) = N(ss, g)
    BY <1>1, <1>5
  <1>7. B(tt, h) = B(ss, g)
    BY <1>1, <1>3, <1>4
  <1> HIDE DEF N, B
  <1>. QED
    BY <1>1, <1>2, <1>6, <1>7

\* Sheinwold's do.
LEMMA SheinwoldTrades ==
  ASSUME NEW ss, NEW tt, ItsSide(ss), TradedSides(ss, tt)
  PROVE  Mirrored(sheinw_calc(ss), sheinw_calc(tt))
  <1> SUFFICES ASSUME NEW h \in Hands
               PROVE  /\ sheinw_calc(tt).nt[h] = sheinw_calc(ss).nt[1 - h]
                      /\ sheinw_calc(tt).bf[h] = sheinw_calc(ss).bf[1 - h]
    BY DEF Mirrored
  <1> DEFINE g == 1 - h
             Hon(st, i) == 100 * hs_totalpoints(st.phs[i])
                           + (AdjSHEINW(st, i, 0) + AdjSHEINW(st, i, 1)
                              + AdjSHEINW(st, i, 2) + AdjSHEINW(st, i, 3))
             S(st, i) == LET aces == hs_counts(st.phs[i], ACE)
                         IN  Larger(0, Round(Hon(st, i)) + If(aces >= 3, 1)
                                       - If(aces = 0 /\ Hon(st, i) >= 1100, 1))
             M(st, i) == IF ~Fit(st) THEN 0 ELSE IF i = st.decl_h THEN Fn_ptsSHEINW(st, i) ELSE Hf_ptsSHEINW(st)
             D(st, i) == IF Fit(st) /\ i = st.dummy_h THEN DfitSHEINW(st, i)
                         ELSE ShortSuits(st.phs[i], <<3, 2, 1>>)
  <1>1. /\ g \in Hands /\ h = 1 - g /\ tt.phs[h] = ss.phs[g] /\ tt.phs[1 - h] = ss.phs[1 - g]
        /\ tt.t_len[h] = ss.t_len[g] /\ (Fit(tt) <=> Fit(ss))
        /\ (h = tt.decl_h <=> g = ss.decl_h) /\ (h = tt.dummy_h <=> g = ss.dummy_h)
    BY Partners
  <1>2. tt.t_suit = ss.t_suit
    BY DEF TradedSides
  <1>3. \A st : \A i \in Hands : /\ sheinw_calc(st).nt[i] = S(st, i) + M(st, i)
                                 /\ sheinw_calc(st).bf[i] = S(st, i) + M(st, i) + D(st, i)
    <2> DEFINE FS(st) == [i \in Hands |-> S(st, i)]
               FM(st) == [i \in Hands |-> M(st, i)]
    <2>1. \A st : sheinw_calc(st) = UserEvals(Plus(FS(st), FM(st)), [i \in Hands |-> FS(st)[i] + FM(st)[i] + D(st, i)], <<>>)
      BY Zenon DEF sheinw_calc, Sum4, CLUBS, DIAMONDS, HEARTS, SPADES
    <2> HIDE DEF S, M, D
    <2>. QED
      BY <2>1 DEF UserEvals, Plus
  <1>4. ASSUME NEW s PROVE AdjSHEINW(tt, h, s) = AdjSHEINW(ss, g, s)
    <2> DEFINE Alone(hand, card, n) == card \in hand[s] /\ hand[s] \cap ((ACE - n + 1) .. ACE) \subseteq {card}
               A(hand, q) == IF hs_length(hand, s) >= 3 /\ hs_length(hand, s) + hs_length(q, s) < 8
                             THEN -If(Alone(hand, QUEEN, 4) \/ Alone(hand, JACK, 4), 50)
                             ELSE shortHon_adj(hand, s, SHEINW)
    <2>1. \A st, i : AdjSHEINW(st, i, s) = A(st.phs[i], st.phs[1 - i])
      BY Zenon DEF AdjSHEINW
    <2> HIDE DEF A, g
    <2>. QED
      BY <1>1, <2>1
  <1>5. S(tt, h) = S(ss, g)
    <2>1. Hon(tt, h) = Hon(ss, g)
      BY <1>1, <1>4
    <2> HIDE DEF Hon, g
    <2>. QED
      BY <1>1, <2>1
  <1>6. Fn_ptsSHEINW(tt, h) = Fn_ptsSHEINW(ss, g)
    <2> HIDE DEF g
    <2>. QED
      BY <1>1, <1>2 DEF Fn_ptsSHEINW, TrumpLength, Sum4
  <1>7. Hf_ptsSHEINW(tt) = Hf_ptsSHEINW(ss)
    <2>1. tt.phs[tt.dummy_h] = ss.phs[ss.dummy_h] /\ tt.phs[tt.decl_h] = ss.phs[ss.decl_h]
      BY DEF TradedSides, ItsSide, Hands
    <2> DEFINE Minor(hand, t) == hs_points(hand, t) <= 3 /\ hand[t] \cap {QUEEN, JACK} # {}
               Helps(du, dc, t, s) == /\ s # t /\ hs_length(dc, s) >= 4
                                      /\ hs_length(du, s) >= 2 /\ du[s] \cap {ACE, KING, QUEEN} = {QUEEN}
               T(du, dc, t) == If(Minor(du, t), 1) + If(Minor(dc, t), 1)
                               + Cardinality({s \in Suits : Helps(du, dc, t, s)})
    <2>2. \A st : Hf_ptsSHEINW(st) = T(st.phs[st.dummy_h], st.phs[st.decl_h], st.t_suit)
      BY Zenon DEF Hf_ptsSHEINW, Count
    <2> HIDE DEF T
    <2>. QED
      BY <1>2, <2>1, <2>2
  <1>8. DfitSHEINW(tt, h) = DfitSHEINW(ss, g)
    BY <1>1, FitTrades DEF DfitSHEINW
  <1>9. M(tt, h) = M(ss, g) /\ D(tt, h) = D(ss, g)
    <2> HIDE DEF g
    <2>. QED
      BY <1>1, <1>6, <1>7, <1>8
  <1> HIDE DEF S, M, D
  <1>. QED
    BY <1>1, <1>3, <1>5, <1>9

\* Goren's do.
LEMMA GorenTrades ==
  ASSUME NEW ss, NEW tt, ItsSide(ss), TradedSides(ss, tt)
  PROVE  Mirrored(goren_calc(ss), goren_calc(tt))
  <1> SUFFICES ASSUME NEW h \in Hands
               PROVE  /\ goren_calc(tt).nt[h] = goren_calc(ss).nt[1 - h]
                      /\ goren_calc(tt).bf[h] = goren_calc(ss).bf[1 - h]
    BY DEF Mirrored
  <1> DEFINE g == 1 - h
             Hon(p) == Round(100 * hs_totalpoints(p) + hcp_adj(p, GOREN)) + If(hs_counts(p, ACE) = 4, 1)
             Sq(p) == If(square_hand(p), 1)
             Pts(p) == Hon(p) + ShortSuits(p, <<3, 2, 1>>)
             Suit(st, i) == IF ~Fit(st)
                            THEN IF Misfit(st.phs, 4) THEN Hon(st.phs[i]) ELSE Pts(st.phs[i])
                            ELSE IF i = st.decl_h THEN Pts(st.phs[i]) + TrumpLength(st, i)
                            ELSE Pts(st.phs[i]) + DfitGOREN(st, i) - Sq(st.phs[i]) + Hf_ptsGOREN(st, i)
             N(p) == Larger(0, Hon(p) - Sq(p))
  <1>1. /\ g \in Hands /\ tt.phs[h] = ss.phs[g] /\ tt.t_len[h] = ss.t_len[g] /\ (Fit(tt) <=> Fit(ss))
        /\ Shortest(tt, h) = Shortest(ss, g) /\ (h = tt.decl_h <=> g = ss.decl_h)
    BY Partners
  <1>2. tt.t_suit = ss.t_suit
    BY DEF TradedSides
  <1>3. \A st : goren_calc(st) = UserEvals([i \in Hands |-> N(st.phs[i])],
                                           [i \in Hands |-> Larger(0, Suit(st, i))], <<>>)
    BY Zenon DEF goren_calc
  <1>4. DfitGOREN(tt, h) = DfitGOREN(ss, g)
    BY <1>1, FitTrades DEF DfitGOREN
  <1>5. TrumpLength(tt, h) = TrumpLength(ss, g) /\ Hf_ptsGOREN(tt, h) = Hf_ptsGOREN(ss, g)
    BY <1>1, <1>2 DEF TrumpLength, Hf_ptsGOREN
  <1>6. Misfit(tt.phs, 4) <=> Misfit(ss.phs, 4)
    BY MisfitTrades
  <1> HIDE DEF Hon, Sq, Pts, g
  <1>7. Suit(tt, h) = Suit(ss, g)
    BY <1>1, <1>4, <1>5, <1>6
  <1> HIDE DEF Suit, N
  <1>. QED
    BY <1>1, <1>3, <1>7 DEF UserEvals, g

\* Pavlicek's do: only the hand with fewer points has one for a five card suit, so
\* here the points must differ.
LEMMA PavlicekTrades ==
  ASSUME NEW ss, NEW tt, ItsSide(ss), TradedSides(ss, tt),
         hs_totalpoints(ss.phs[0]) # hs_totalpoints(ss.phs[1])
  PROVE  Mirrored(pav_calc(ss), pav_calc(tt))
  <1> SUFFICES ASSUME NEW h \in Hands
               PROVE  /\ pav_calc(tt).nt[h] = pav_calc(ss).nt[1 - h]
                      /\ pav_calc(tt).bf[h] = pav_calc(ss).bf[1 - h]
    BY DEF Mirrored
  <1> DEFINE g == 1 - h
             S(p) == Larger(0, Round(100 * hs_totalpoints(p) + hcp_adj(p, PAV))
                               + (hs_counts(p, ACE) + hs_counts(p, TEN)) \div 4)
             L(st, i) == If(i = NTDummyPAV(st) /\ \E s \in Suits : hs_length(st.phs[i], s) >= 5, 1)
             V == <<3, 2, 1>>
             Poor(st, i) == /\ square_hand(st.phs[i]) /\ hs_counts(st.phs[i], ACE) = 0
                            /\ st.t_len[i] < 4
             W(st, i, s) == If(mf_type(st.phs, s) > 3 /\ ShortHand(st.phs, s) = i,
                               ShortPoints(hs_length(st.phs[i], s), V))
             Wasted(st, i) == W(st, i, 0) + W(st, i, 1) + W(st, i, 2) + W(st, i, 3)
             D(p) == ShortSuits(p, V)
             Suit(st, i) == IF ~Fit(st) THEN S(st.phs[i]) + D(st.phs[i]) - Wasted(st, i)
                            ELSE IF i = st.decl_h THEN S(st.phs[i]) + D(st.phs[i]) + Fn_ptsPAV(st, i)
                            ELSE S(st.phs[i]) + D(st.phs[i]) + DfitPAV(st, i) - If(Poor(st, i), 1)
  <1>1. /\ g \in Hands /\ h = 1 - g /\ tt.phs[h] = ss.phs[g] /\ tt.t_len[h] = ss.t_len[g]
        /\ (Fit(tt) <=> Fit(ss)) /\ (h = tt.decl_h <=> g = ss.decl_h)
    BY Partners
  <1>2. tt.t_suit = ss.t_suit /\ tt.t_fitlen = ss.t_fitlen
    BY DEF TradedSides
  <1>3. \A st : pav_calc(st) = UserEvals([i \in Hands |-> S(st.phs[i]) + L(st, i)],
                                         [i \in Hands |-> Suit(st, i)], <<>>)
    BY Zenon DEF pav_calc, Sum4, CLUBS, DIAMONDS, HEARTS, SPADES
  <1>4. L(tt, h) = L(ss, g)
    <2>1. hs_totalpoints(ss.phs[0]) \in Nat /\ hs_totalpoints(ss.phs[1]) \in Nat
      BY HandNumbers DEF ItsSide, Hands
    <2>2. tt.phs[0] = ss.phs[1] /\ tt.phs[1] = ss.phs[0]
      BY DEF TradedSides, Hands
    <2>3. NTDummyPAV(tt) = 1 - NTDummyPAV(ss) /\ NTDummyPAV(ss) \in Hands
      BY <2>1, <2>2 DEF NTDummyPAV, Hands
    <2>4. h = NTDummyPAV(tt) <=> g = NTDummyPAV(ss)
      BY <2>3 DEF Hands
    <2> HIDE DEF g
    <2>. QED
      BY <1>1, <2>4
  <1>5. ASSUME NEW s \in Suits PROVE W(tt, h, s) = W(ss, g, s)
    <2>1. mf_type(tt.phs, s) = mf_type(ss.phs, s)
      BY MisfitTrades
    <2>2. mf_type(ss.phs, s) > 3 => (ShortHand(tt.phs, s) = h <=> ShortHand(ss.phs, s) = g)
      <3>1. mf_type(ss.phs, s) \in Nat
        <4>1. \A i \in Hands : hs_length(ss.phs[i], s) \in Nat
          BY DEF ItsSide, AHand
        <4>. QED
          BY <4>1 DEF mf_type, ShortHand, Smaller, Hands
      <3>2. mf_type(ss.phs, s) > 0 => ShortHand(tt.phs, s) = 1 - ShortHand(ss.phs, s)
        BY MisfitTrades
      <3>3. ShortHand(ss.phs, s) \in Hands
        BY DEF ShortHand, Hands
      <3>. QED
        BY <3>1, <3>2, <3>3 DEF Hands
    <2> HIDE DEF g, V
    <2>3. hs_length(tt.phs[h], s) = hs_length(ss.phs[g], s)
      BY <1>1
    <2>. QED
      BY <2>1, <2>2, <2>3 DEF If
  <1>6. Wasted(tt, h) = Wasted(ss, g)
    <2> HIDE DEF W, g
    <2>. QED
      BY <1>5, FourSuits
  <1>7. Fn_ptsPAV(tt, h) = Fn_ptsPAV(ss, g) /\ DfitPAV(tt, h) = DfitPAV(ss, g)
    <2> HIDE DEF g
    <2>1. Fn_ptsPAV(tt, h) = Fn_ptsPAV(ss, g)
      BY <1>1, <1>2 DEF Fn_ptsPAV
    <2>2. DfitPAV(tt, h) = DfitPAV(ss, g)
      BY <1>1, <1>2 DEF DfitPAV
    <2>. QED
      BY <2>1, <2>2
  <1>8. Poor(tt, h) <=> Poor(ss, g)
    <2> HIDE DEF g
    <2>. QED
      BY <1>1
  <1> HIDE DEF S, L, V, Poor, Wasted, D
  <1>9. Suit(tt, h) = Suit(ss, g)
    <2> HIDE DEF g
    <2>. QED
      BY <1>1, <1>6, <1>7, <1>8 DEF If
  <1> HIDE DEF Suit
  <1>. QED
    BY <1>1, <1>3, <1>4, <1>9 DEF UserEvals

\* Roth's do.
LEMMA RothTrades ==
  ASSUME NEW ss, NEW tt, ItsSide(ss), TradedSides(ss, tt)
  PROVE  Mirrored(roth_calc(ss), roth_calc(tt))
  <1> SUFFICES ASSUME NEW h \in Hands
               PROVE  /\ roth_calc(tt).nt[h] = roth_calc(ss).nt[1 - h]
                      /\ roth_calc(tt).bf[h] = roth_calc(ss).bf[1 - h]
    BY DEF Mirrored
  <1> DEFINE g == 1 - h
             NT(r) == r.hcp + r.LptsNT + r.Aces + (IF r.type = RS_SSS THEN r.LptsNT ELSE r.FN_ptsNT)
             Decl(st, r) == CASE r.type = RS_SSS -> r.Dpts + 2 * r.Lpts
                              [] r.type # RS_SSS /\ (r.type = RS_RELBL \/ Fit(st)) ->
                                     r.Dpts + r.Lpts + FN_ptsROTH(st)
                              [] OTHER -> r.Lpts
             B(st, i, r) == r.hcp + r.hcp_adj + r.Aces
                            + (IF i = st.decl_h THEN Decl(st, r) ELSE If(Fit(st), DfitROTH(st)))
  <1>1. /\ g \in Hands /\ h = 1 - g /\ tt.phs[h] = ss.phs[g] /\ tt.phs[1 - h] = ss.phs[1 - g]
        /\ (Fit(tt) <=> Fit(ss)) /\ (h = tt.decl_h <=> g = ss.decl_h)
    BY Partners
  <1>2. tt.t_suit = ss.t_suit
    BY DEF TradedSides
  <1>3. \A st : \A i \in Hands : /\ roth_calc(st).nt[i] = NT(RothHand(st, i))
                                 /\ roth_calc(st).bf[i] = B(st, i, RothHand(st, i))
    <2> DEFINE R(st) == [i \in Hands |-> RothHand(st, i)]
    <2>1. \A st : roth_calc(st) = UserEvals([i \in Hands |-> NT(R(st)[i])],
                                            [i \in Hands |-> B(st, i, R(st)[i])], <<>>)
      BY Zenon DEF roth_calc
    <2> HIDE DEF NT, B
    <2>. QED
      BY <2>1 DEF UserEvals
  <1>4. RothHand(tt, h) = RothHand(ss, g)
    <2> DEFINE R(p, q) ==
                 LET type == [s \in Suits |-> rothSuitType(p, s)]
                     lpts == [s \in Suits |-> LptsROTH(p, s)]
                     lptsNT == [s \in Suits |-> If(type[s] >= RS_GOOD, lpts[s])]
                     Adj(s) == Trunc(shortHon_adj(p, s, ROTH))
                     Supp(s) == hs_length(p, s) = 5 /\ type[s] >= RS_GOOD /\ hs_length(q, s) >= 2
                 IN  [type |-> Best4(type), hcp |-> hs_totalpoints(p), hcp_adj |-> Sum4(Adj),
                      Aces |-> If(hs_counts(p, ACE) = 4, 1), Dpts |-> ShortSuits(p, <<3, 2, 1>>),
                      Lpts |-> Best4(lpts), LptsNT |-> Best4(lptsNT),
                      FN_ptsNT |-> If(Best4(lptsNT) = 0 /\ \E s \in Suits : Supp(s), 1)]
    <2>1. \A st, i : RothHand(st, i) = R(st.phs[i], st.phs[1 - i])
      BY Zenon DEF RothHand
    <2> HIDE DEF R, g
    <2>. QED
      BY <1>1, <2>1
  <1>5. /\ tt.phs[tt.dummy_h] = ss.phs[ss.dummy_h] /\ tt.phs[tt.decl_h] = ss.phs[ss.decl_h]
        /\ tt.t_len[tt.dummy_h] = ss.t_len[ss.dummy_h] /\ tt.t_len[tt.decl_h] = ss.t_len[ss.decl_h]
    BY DEF TradedSides, ItsSide, Hands
  <1>6. FN_ptsROTH(tt) = FN_ptsROTH(ss)
    BY <1>1, <1>2, <1>5 DEF FN_ptsROTH
  <1>7. DfitROTH(tt) = DfitROTH(ss)
    <2> DEFINE T(hand, t, u) ==
                 LET inc == CASE t = 4 -> 1 [] t = 5 -> 2 [] OTHER -> 0
                     side == Suits \ {u}
                 IN  IF t < 3 THEN 0
                     ELSE ShortSuits(hand, <<3, 2, 1>>)
                          + (IF t = 3 THEN 0
                             ELSE inc * Cardinality({s \in side : hs_length(hand, s) < 2})
                                  + If(\E s \in side : hs_length(hand, s) = 2, 1))
    <2>1. \A st : DfitROTH(st) = T(st.phs[st.dummy_h], st.t_len[st.dummy_h], st.t_suit)
      BY Zenon DEF DfitROTH
    <2> HIDE DEF T
    <2>. QED
      BY <1>2, <1>5, <2>1
  <1> DEFINE r == RothHand(ss, g)
  <1>8. B(tt, h, r) = B(ss, g, r)
    <2> HIDE DEF g, r
    <2>1. Decl(tt, r) = Decl(ss, r)
      BY <1>1, <1>6
    <2> HIDE DEF Decl
    <2>. QED
      BY <1>1, <1>7, <2>1 DEF If
  <1> HIDE DEF NT, B
  <1>. QED
    BY <1>1, <1>3, <1>4, <1>8

\* Zar's basic ones do.
LEMMA ZarTrades ==
  ASSUME NEW ss, NEW tt, ItsSide(ss), TradedSides(ss, tt)
  PROVE  Mirrored(zarbas_calc(ss), zarbas_calc(tt))
  <1> SUFFICES ASSUME NEW h \in Hands
               PROVE  /\ zarbas_calc(tt).nt[h] = zarbas_calc(ss).nt[1 - h]
                      /\ zarbas_calc(tt).bf[h] = zarbas_calc(ss).bf[1 - h]
    BY DEF Mirrored
  <1> DEFINE g == 1 - h
             Zar(st, i) == Round(100 * hs_totalpoints(st.phs[i]) + hcp_adj(st.phs[i], ZARBAS))
                           + hs_totalcontrol(st.phs[i]) + 2 * sorted_slen(st, i, 1)
                           + sorted_slen(st, i, 2) - Shortest(st, i) + SynZAR(st.phs[i])
             N(st, i) == Zar(st, i) + If(Zar(st, i) = 25 /\ hs_length(st.phs[i], SPADES) >= 4, 1)
  <1>1. /\ g \in Hands /\ tt.phs[h] = ss.phs[g] /\ Shortest(tt, h) = Shortest(ss, g)
        /\ \A k : sorted_slen(tt, h, k) = sorted_slen(ss, g, k)
    BY Partners
  <1>2. \A st : zarbas_calc(st) = ZarEvals(st, [i \in Hands |-> N(st, i)], [i \in Hands |-> N(st, i)])
    BY Zenon DEF zarbas_calc
  <1>3. N(tt, h) = N(ss, g)
    <2> HIDE DEF g
    <2>1. Zar(tt, h) = Zar(ss, g)
      BY <1>1
    <2> HIDE DEF Zar
    <2>. QED
      BY <1>1, <2>1
  <1> HIDE DEF N
  <1>. QED
    BY <1>1, <1>2, <1>3 DEF ZarEvals, UserEvals

\* Four C's do.
LEMMA FourCsTrades ==
  ASSUME NEW ss, NEW tt, ItsSide(ss), TradedSides(ss, tt)
  PROVE  Mirrored(knr_calc(ss), knr_calc(tt))
  <1> SUFFICES ASSUME NEW h \in Hands
               PROVE  /\ knr_calc(tt).nt[h] = knr_calc(ss).nt[1 - h]
                      /\ knr_calc(tt).bf[h] = knr_calc(ss).bf[1 - h]
    BY DEF Mirrored
  <1> DEFINE g == 1 - h
             T(p) == KnR_pts_all(p)
             F(st, i) == CASE Fit(st) -> KnR_Trump_fit(st, i)
                           [] ~Fit(st) /\ Misfit(st.phs, 5) -> -ShortPts(st.phs[i])
                           [] OTHER -> 0
             N(st, i) == KnR_Round(st.pav_body[i], T(st.phs[i]))
             B(st, i) == KnR_Round(st.pav_body[i], Larger(0, T(st.phs[i]) + F(st, i)))
  <1>1. /\ g \in Hands /\ tt.phs[h] = ss.phs[g] /\ tt.pav_body[h] = ss.pav_body[g]
        /\ (Fit(tt) <=> Fit(ss)) /\ (h = tt.dummy_h <=> g = ss.dummy_h)
    BY Partners
  <1>2. tt.t_fitlen = ss.t_fitlen
    BY DEF TradedSides
  <1>3. \A st : \A i \in Hands : knr_calc(st).nt[i] = N(st, i) /\ knr_calc(st).bf[i] = B(st, i)
    <2> DEFINE FT(st) == [i \in Hands |-> T(st.phs[i])]
               FF(st) == [i \in Hands |-> Larger(0, FT(st)[i] + F(st, i))]
    <2>1. \A st : \E mi : knr_calc(st) = UserEvals([i \in Hands |-> KnR_Round(st.pav_body[i], FT(st)[i])],
                                         [i \in Hands |-> KnR_Round(st.pav_body[i], FF(st)[i])], mi)
      BY Zenon DEF knr_calc
    <2> HIDE DEF F, T
    <2>. QED
      BY <2>1 DEF UserEvals
  <1>4. Misfit(tt.phs, 5) <=> Misfit(ss.phs, 5)
    BY MisfitTrades
  <1> HIDE DEF g
  <1>5. KnR_Trump_fit(tt, h) = KnR_Trump_fit(ss, g)
    BY <1>1, <1>2 DEF KnR_Trump_fit
  <1>6. F(tt, h) = F(ss, g)
    BY <1>1, <1>4, <1>5
  <1> HIDE DEF F, T
  <1>7. N(tt, h) = N(ss, g) /\ B(tt, h) = B(ss, g)
    BY <1>1, <1>6
  <1> HIDE DEF N, B
  <1>. QED
    BY <1>1, <1>3, <1>7 DEF g

\* The points of the other scales do.
LEMMA AlternativeTrades ==
  ASSUME NEW ss, NEW tt, ItsSide(ss), TradedSides(ss, tt), NEW m
  PROVE  Mirrored(alt_HCP_calc(ss, m), alt_HCP_calc(tt, m))
  <1> SUFFICES ASSUME NEW h \in Hands
               PROVE  /\ alt_HCP_calc(tt, m).nt[h] = alt_HCP_calc(ss, m).nt[1 - h]
                      /\ alt_HCP_calc(tt, m).bf[h] = alt_HCP_calc(ss, m).bf[1 - h]
    BY DEF Mirrored
  <1> DEFINE g == 1 - h
             R(p) == SuitAlt(m, p, 0) + SuitAlt(m, p, 1) + SuitAlt(m, p, 2) + SuitAlt(m, p, 3)
  <1>1. g \in Hands /\ tt.phs[h] = ss.phs[g] /\ tt.pav_body[h] = ss.pav_body[g]
    BY Partners
  <1>2. \A st : \A i \in Hands : /\ alt_HCP_calc(st, m).nt[i] = Pav_round(R(st.phs[i]), st.pav_body[i])
                                 /\ alt_HCP_calc(st, m).bf[i] = R(st.phs[i])
    <2> DEFINE F(st) == [i \in Hands |-> R(st.phs[i])]
    <2>1. \A st : \E mi : alt_HCP_calc(st, m) = UserEvals([i \in Hands |-> Pav_round(F(st)[i], st.pav_body[i])],
                                                          F(st), mi)
      BY Zenon DEF alt_HCP_calc, Sum4, CLUBS, DIAMONDS, HEARTS, SPADES
    <2> HIDE DEF R
    <2>. QED
      BY <2>1 DEF UserEvals
  <1> HIDE DEF R
  <1>. QED
    BY <1>1, <1>2

\* The metrics whose points go with the hands.
Even == (Metrics \cup AltMetrics) \ {LAR, ZARADV}

\* Whatever such metric is run, its points trade.
LEMMA MetricTrades ==
  ASSUME NEW ss, NEW tt, ItsSide(ss), TradedSides(ss, tt), NEW m \in Even,
         hs_totalpoints(ss.phs[0]) # hs_totalpoints(ss.phs[1])
  PROVE  Mirrored(p_cfunc(m, ss), p_cfunc(m, tt))
  <1>1. CASE m = BERGEN
    <2>1. p_cfunc(m, ss) = bergen_calc(ss) /\ p_cfunc(m, tt) = bergen_calc(tt)
      BY <1>1 DEF p_cfunc, BERGEN, BISSEL, DKP, GOREN, KAPLAN, KARPIN, KARP_B, KnR, LAR, LAR_B, PAV,
         SHEINW, ZARBAS, ZARADV, ROTH, AltMetrics, HCPT050, OPCjgm
    <2>. QED
      BY <2>1, BergenTrades
  <1>2. CASE m = BISSEL
    <2>1. p_cfunc(m, ss) = bissell_calc(ss) /\ p_cfunc(m, tt) = bissell_calc(tt)
      BY <1>2 DEF p_cfunc, BERGEN, BISSEL, DKP, GOREN, KAPLAN, KARPIN, KARP_B, KnR, LAR, LAR_B, PAV,
         SHEINW, ZARBAS, ZARADV, ROTH, AltMetrics, HCPT050, OPCjgm
    <2>. QED
      BY <2>1, BissellTrades
  <1>3. CASE m = DKP
    <2>1. p_cfunc(m, ss) = dkp_calc(ss) /\ p_cfunc(m, tt) = dkp_calc(tt)
      BY <1>3 DEF p_cfunc, BERGEN, BISSEL, DKP, GOREN, KAPLAN, KARPIN, KARP_B, KnR, LAR, LAR_B, PAV,
         SHEINW, ZARBAS, ZARADV, ROTH, AltMetrics, HCPT050, OPCjgm
    <2>. QED
      BY <2>1, KleinmanTrades
  <1>4. CASE m = GOREN
    <2>1. p_cfunc(m, ss) = goren_calc(ss) /\ p_cfunc(m, tt) = goren_calc(tt)
      BY <1>4 DEF p_cfunc, BERGEN, BISSEL, DKP, GOREN, KAPLAN, KARPIN, KARP_B, KnR, LAR, LAR_B, PAV,
         SHEINW, ZARBAS, ZARADV, ROTH, AltMetrics, HCPT050, OPCjgm
    <2>. QED
      BY <2>1, GorenTrades
  <1>5. CASE m = KAPLAN
    <2>1. p_cfunc(m, ss) = kaplan_calc(ss) /\ p_cfunc(m, tt) = kaplan_calc(tt)
      BY <1>5 DEF p_cfunc, BERGEN, BISSEL, DKP, GOREN, KAPLAN, KARPIN, KARP_B, KnR, LAR, LAR_B, PAV,
         SHEINW, ZARBAS, ZARADV, ROTH, AltMetrics, HCPT050, OPCjgm
    <2>. QED
      BY <2>1, KaplanTrades
  <1>6. CASE m = KARPIN
    <2>1. p_cfunc(m, ss) = karpin_calc(ss) /\ p_cfunc(m, tt) = karpin_calc(tt)
      BY <1>6 DEF p_cfunc, BERGEN, BISSEL, DKP, GOREN, KAPLAN, KARPIN, KARP_B, KnR, LAR, LAR_B, PAV,
         SHEINW, ZARBAS, ZARADV, ROTH, AltMetrics, HCPT050, OPCjgm
    <2>. QED
      BY <2>1, KarpinTrades
  <1>7. CASE m = KARP_B
    <2>1. p_cfunc(m, ss) = karpb_calc(ss) /\ p_cfunc(m, tt) = karpb_calc(tt)
      BY <1>7 DEF p_cfunc, BERGEN, BISSEL, DKP, GOREN, KAPLAN, KARPIN, KARP_B, KnR, LAR, LAR_B, PAV,
         SHEINW, ZARBAS, ZARADV, ROTH, AltMetrics, HCPT050, OPCjgm
    <2>. QED
      BY <2>1, KarpinBTrades
  <1>8. CASE m = KnR
    <2>1. p_cfunc(m, ss) = knr_calc(ss) /\ p_cfunc(m, tt) = knr_calc(tt)
      BY <1>8 DEF p_cfunc, BERGEN, BISSEL, DKP, GOREN, KAPLAN, KARPIN, KARP_B, KnR, LAR, LAR_B, PAV,
         SHEINW, ZARBAS, ZARADV, ROTH, AltMetrics, HCPT050, OPCjgm
    <2>. QED
      BY <2>1, FourCsTrades
  <1>9. CASE m = LAR_B
    <2>1. p_cfunc(m, ss) = lar_b_calc(ss) /\ p_cfunc(m, tt) = lar_b_calc(tt)
      BY <1>9 DEF p_cfunc, BERGEN, BISSEL, DKP, GOREN, KAPLAN, KARPIN, KARP_B, KnR, LAR, LAR_B, PAV,
         SHEINW, ZARBAS, ZARADV, ROTH, AltMetrics, HCPT050, OPCjgm
    <2>. QED
      BY <2>1, LarssonBTrades
  <1>10. CASE m = PAV
    <2>1. p_cfunc(m, ss) = pav_calc(ss) /\ p_cfunc(m, tt) = pav_calc(tt)
      BY <1>10 DEF p_cfunc, BERGEN, BISSEL, DKP, GOREN, KAPLAN, KARPIN, KARP_B, KnR, LAR, LAR_B, PAV,
         SHEINW, ZARBAS, ZARADV, ROTH, AltMetrics, HCPT050, OPCjgm
    <2>. QED
      BY <2>1, PavlicekTrades
  <1>11. CASE m = SHEINW
    <2>1. p_cfunc(m, ss) = sheinw_calc(ss) /\ p_cfunc(m, tt) = sheinw_calc(tt)
      BY <1>11 DEF p_cfunc, BERGEN, BISSEL, DKP, GOREN, KAPLAN, KARPIN, KARP_B, KnR, LAR, LAR_B, PAV,
         SHEINW, ZARBAS, ZARADV, ROTH, AltMetrics, HCPT050, OPCjgm
    <2>. QED
      BY <2>1, SheinwoldTrades
  <1>12. CASE m = ZARBAS
    <2>1. p_cfunc(m, ss) = zarbas_calc(ss) /\ p_cfunc(m, tt) = zarbas_calc(tt)
      BY <1>12 DEF p_cfunc, BERGEN, BISSEL, DKP, GOREN, KAPLAN, KARPIN, KARP_B, KnR, LAR, LAR_B, PAV,
         SHEINW, ZARBAS, ZARADV, ROTH, AltMetrics, HCPT050, OPCjgm
    <2>. QED
      BY <2>1, ZarTrades
  <1>13. CASE m = ROTH
    <2>1. p_cfunc(m, ss) = roth_calc(ss) /\ p_cfunc(m, tt) = roth_calc(tt)
      BY <1>13 DEF p_cfunc, BERGEN, BISSEL, DKP, GOREN, KAPLAN, KARPIN, KARP_B, KnR, LAR, LAR_B, PAV,
         SHEINW, ZARBAS, ZARADV, ROTH, AltMetrics, HCPT050, OPCjgm
    <2>. QED
      BY <2>1, RothTrades
  <1>14. CASE m \in AltMetrics
    <2>1. p_cfunc(m, ss) = alt_HCP_calc(ss, m) /\ p_cfunc(m, tt) = alt_HCP_calc(tt, m)
      BY <1>14 DEF p_cfunc, BERGEN, BISSEL, DKP, GOREN, KAPLAN, KARPIN, KARP_B, KnR, LAR, LAR_B, PAV,
         SHEINW, ZARBAS, ZARADV, ROTH, AltMetrics, HCPT050, OPCjgm
    <2>. QED
      BY <2>1, AlternativeTrades
  <1>m. m \in AltMetrics \/ m \in {BERGEN, BISSEL, DKP, GOREN, KAPLAN, KARPIN, KARP_B, KnR, LAR_B, PAV, SHEINW, ZARBAS, ROTH}
    BY DEF Even, Metrics, BERGEN, BISSEL, DKP, GOREN, KAPLAN, KARPIN, KARP_B, KnR, LAR, LAR_B, PAV,
       SHEINW, ZARBAS, ZARADV, ROTH
  <1>. QED
    BY <1>1, <1>2, <1>3, <1>4, <1>5, <1>6, <1>7, <1>8, <1>9, <1>10, <1>11, <1>12, <1>13, <1>14, <1>m

\* Pavlicek's points are numbers, though one may be below zero.
LEMMA PavlicekNumbers ==
  ASSUME NEW ss, ItsSide(ss), NEW h \in Hands
  PROVE  pav_calc(ss).nt[h] \in Int /\ pav_calc(ss).bf[h] \in Int
  <1> DEFINE p == ss.phs[h]
             S == Larger(0, Round(100 * hs_totalpoints(p) + hcp_adj(p, PAV))
                            + (hs_counts(p, ACE) + hs_counts(p, TEN)) \div 4)
             L == If(h = NTDummyPAV(ss) /\ \E s \in Suits : hs_length(p, s) >= 5, 1)
             V == <<3, 2, 1>>
             Poor == /\ square_hand(p) /\ hs_counts(p, ACE) = 0
                     /\ ss.t_len[h] < 4
             W(s) == If(mf_type(ss.phs, s) > 3 /\ ShortHand(ss.phs, s) = h,
                        ShortPoints(hs_length(p, s), V))
             Wasted == W(0) + W(1) + W(2) + W(3)
             D == ShortSuits(p, V)
             Suit == IF ~Fit(ss) THEN S + D - Wasted
                     ELSE IF h = ss.decl_h THEN S + D + Fn_ptsPAV(ss, h)
                     ELSE S + D + DfitPAV(ss, h) - If(Poor, 1)
  <1>1. AHand(p) /\ PAV \in PlainAdj
    BY DEF ItsSide, PlainAdj
  <1>2. S \in Int
    <2>1. Round(100 * hs_totalpoints(p) + hcp_adj(p, PAV)) \in Nat
      <3>1. 0 \in Nat
        OBVIOUS
      <3>. QED
        BY <1>1, <3>1, RoundedHand
    <2>2. hs_counts(p, ACE) \in Nat /\ hs_counts(p, TEN) \in Nat
      BY <1>1, HandNumbers
    <2>. QED
      BY <2>1, <2>2 DEF Larger
  <1>3. L \in Int /\ If(Poor, 1) \in Int
    BY DEF If
  <1>4. D \in Int
    BY <1>1, HandNumbers
  <1>5. \A s \in Suits : hs_length(p, s) \in Nat
    BY <1>1 DEF AHand
  <1>6. Wasted \in Int
    <2>1. \A s \in Suits : ShortPoints(hs_length(p, s), V) \in Nat
      BY <1>5, ShortTable
    <2>2. \A s \in Suits : W(s) \in Int
      <3> HIDE DEF V, p
      <3>. QED
        BY <2>1 DEF If
    <2> HIDE DEF W
    <2>. QED
      BY <2>2, FourSuits
  <1>7. Fn_ptsPAV(ss, h) \in Int
    <2> DEFINE t == ss.t_len[h]
               A(s) == If(s # ss.t_suit, Larger(0, hs_length(p, s) - 3))
               n0 == LessWithFour(t, 0 + A(0))
               n1 == LessWithFour(t, n0 + A(1))
               n2 == LessWithFour(t, n1 + A(2))
               n3 == LessWithFour(t, n2 + A(3))
    <2>1. \A n \in Int : LessWithFour(t, n) \in Int
      BY DEF LessWithFour
    <2>2. A(0) \in Int /\ A(1) \in Int /\ A(2) \in Int /\ A(3) \in Int
      BY <1>5, FourSuits DEF If, Larger
    <2>3. t \in Nat
      BY DEF ItsSide
    <2>4. Fn_ptsPAV(ss, h) = 2 * Larger(0, t - 5) + If(ss.t_fitlen >= 9, 1) + LessWithFour(t, n3)
      BY Zenon DEF Fn_ptsPAV, CLUBS, DIAMONDS, HEARTS, SPADES
    <2> HIDE DEF A, t
    <2>5. n0 \in Int
      BY <2>1, <2>2
    <2>6. n1 \in Int
      <3> HIDE DEF n0
      <3>. QED
        BY <2>1, <2>2, <2>5
    <2>7. n2 \in Int
      <3> HIDE DEF n1
      <3>. QED
        BY <2>1, <2>2, <2>6
    <2>8. n3 \in Int
      <3> HIDE DEF n2
      <3>. QED
        BY <2>1, <2>2, <2>7
    <2> HIDE DEF n3
    <2>9. LessWithFour(t, n3) \in Int
      BY <2>1, <2>8
    <2>. QED
      BY <2>3, <2>4, <2>9 DEF Larger, If
  <1>8. DfitPAV(ss, h) \in Int
    <2>1. ShortSuits(p, <<2, 1, 0>>) \in Nat
      BY <1>1, HandNumbers
    <2>. QED
      BY <2>1 DEF DfitPAV, If
  <1>9. pav_calc(ss).nt[h] = S + L /\ pav_calc(ss).bf[h] = Suit
    BY DEF pav_calc, UserEvals, Sum4, CLUBS, DIAMONDS, HEARTS, SPADES
  <1>10. S + L \in Int
    <2> HIDE DEF S, L
    <2>. QED
      BY <1>2, <1>3
  <1>11. Suit \in Int
    <2> HIDE DEF S, D, Wasted, Poor
    <2>. QED
      BY <1>2, <1>3, <1>4, <1>6, <1>7, <1>8
  <1>. QED
    BY <1>9, <1>10, <1>11

\* Six slots with those of the hands exchanged.
Exchanged(v) == <<v[1], v[3], v[2], v[4], v[6], v[5]>>

\* What SaveUserVals() keeps of points that trade.
LEMMA SixTrade ==
  ASSUME NEW e, NEW f, Mirrored(e, f), \A h \in Hands : e.nt[h] \in Int /\ e.bf[h] \in Int
  PROVE  Clamp(Six(f)) = Exchanged(Clamp(Six(e)))
  <1>1. /\ f.nt[0] = e.nt[1] /\ f.nt[1] = e.nt[0] /\ f.bf[0] = e.bf[1] /\ f.bf[1] = e.bf[0]
        /\ e.nt[0] \in Int /\ e.nt[1] \in Int /\ e.bf[0] \in Int /\ e.bf[1] \in Int
    BY DEF Mirrored, Hands
  <1>2. Sum2(f.nt) = Sum2(e.nt) /\ Sum2(f.bf) = Sum2(e.bf)
    BY <1>1 DEF Sum2
  <1> DEFINE c == Clamp(Six(e))
             d == Clamp(Six(f))
  <1>3. /\ c = [k \in 1 .. 6 |-> Larger(0, Six(e)[k])]
        /\ d = [k \in 1 .. 6 |-> Larger(0, Six(f)[k])]
    BY SixIs
  <1>4. /\ Six(e)[1] = Sum2(e.nt) /\ Six(e)[2] = e.nt[0] /\ Six(e)[3] = e.nt[1]
        /\ Six(e)[4] = Sum2(e.bf) /\ Six(e)[5] = e.bf[0] /\ Six(e)[6] = e.bf[1]
        /\ Six(f)[1] = Sum2(f.nt) /\ Six(f)[2] = f.nt[0] /\ Six(f)[3] = f.nt[1]
        /\ Six(f)[4] = Sum2(f.bf) /\ Six(f)[5] = f.bf[0] /\ Six(f)[6] = f.bf[1]
    BY DEF Six
  <1> HIDE DEF c, d
  <1>5. d[1] = c[1] /\ d[2] = c[3] /\ d[3] = c[2] /\ d[4] = c[4] /\ d[5] = c[6] /\ d[6] = c[5]
    BY <1>1, <1>2, <1>3, <1>4
  <1>6. d = <<d[1], d[2], d[3], d[4], d[5], d[6]>>
    <2>1. DOMAIN d = 1 .. 6 /\ d = [k \in 1 .. 6 |-> d[k]]
      BY <1>3
    <2> DEFINE w == <<d[1], d[2], d[3], d[4], d[5], d[6]>>
    <2>2. w = [k \in 1 .. 6 |-> w[k]]
      OBVIOUS
    <2>3. \A k \in 1 .. 6 : w[k] = d[k]
      OBVIOUS
    <2> HIDE DEF w
    <2>4. w = d
      BY <2>1, <2>2, <2>3
    <2>. QED
      BY <2>4 DEF w
  <1>7. d = <<c[1], c[3], c[2], c[4], c[6], c[5]>>
    BY <1>5, <1>6
  <1>. QED
    BY <1>7 DEF Exchanged, c, d

\* The answer to the last query is that of the same hands in the other seats.
LEMMA AnsweredExchange == Answered => SeatsExchangeable
  <1> SUFFICES ASSUME Answered, tag \in (Metrics \cup AltMetrics) \ {LAR, ZARADV},
                      hs_totalpoints(phs[0]) # hs_totalpoints(phs[1]),
                      NEW d \in DOMAIN Deals, \A h \in Hands : Deals[d][h] = phs[1 - h]
               PROVE  SubSeq(Answer[d][tag], 1, 6) = <<res[1], res[3], res[2], res[4], res[6], res[5]>>
    BY DEF SeatsExchangeable
  <1> DEFINE m == tag
             ss == Side[deal]
             tt == Side[d]
             e == UEv[deal][m]
             f == UEv[d][m]
  <1>1. deal \in DOMAIN Deals /\ m \in Even /\ m \in Metrics \cup AltMetrics
    BY DEF Answered, Even
  <1>2. res = Answer[deal][m]
    <2>1. m \in Tags /\ m # NoTag
      BY <1>1 DEF Tags, Metrics, AltMetrics, BERGEN, ROTH, HCPT050, OPCjgm, NoTag
    <2>. QED
      BY <2>1 DEF Answered
  <1>3. ss = analyze_side(phs) /\ tt = analyze_side(Deals[d]) /\ ss.phs = phs
    BY <1>1 DEF Side, phs, analyze_side
  <1>4. ItsSide(ss) /\ ItsSide(tt)
    BY <1>1, <1>3, DealtSide DEF phs
  <1>5. TradedSides(ss, tt)
    <2>1. \A h \in Hands : AHand(phs[h])
      BY <1>3, <1>4 DEF ItsSide
    <2>2. Traded(phs, Deals[d])
      BY DEF Traded
    <2>. QED
      BY <1>3, <2>1, <2>2, SidesTrade
  <1>6. e = p_cfunc(m, ss) /\ f = p_cfunc(m, tt)
    BY <1>1 DEF UEv
  <1> HIDE DEF ss, tt, e, f
  <1>7. Mirrored(e, f)
    BY <1>1, <1>3, <1>4, <1>5, <1>6, MetricTrades
  <1>8. \A h \in Hands : e.nt[h] \in Int /\ e.bf[h] \in Int
    <2>1. CASE m = PAV
      <3>1. e = pav_calc(ss)
        BY <1>6, <2>1 DEF p_cfunc, BERGEN, BISSEL, DKP, GOREN, KAPLAN, KARPIN, KARP_B, KnR, LAR, LAR_B, PAV,
         SHEINW, ZARBAS, ZARADV, ROTH, AltMetrics, HCPT050, OPCjgm
      <3>. QED
        BY <1>4, <3>1, PavlicekNumbers
    <2>2. CASE m # PAV
      <3>1. NonNeg(e)
        BY <1>1, <1>4, <1>6, <2>2, Found
      <3>. QED
        BY <3>1 DEF NonNeg
    <2>. QED
      BY <2>1, <2>2
  <1>9. Clamp(Six(f)) = Exchanged(Clamp(Six(e)))
    BY <1>7, <1>8, SixTrade
  <1>10. /\ SubSeq(Answer[d][m], 1, 6) = Clamp(Six(f))
         /\ SubSeq(res, 1, 6) = Clamp(Six(e))
    BY <1>1, <1>2, DealGood, OwnSlots DEF e, f
  <1>11. \A k \in 1 .. 6 : res[k] = Clamp(Six(e))[k]
    <2>1. Good(UEv[deal], Answer[deal])
      BY <1>1, DealGood
    <2>2. res = SaveUserVals(e) /\ \E S : e.misc \in Seq(S)
      BY <1>1, <1>2, <2>1 DEF Good, e
    <2>. QED
      BY <2>2, Saved
  <1>12. Exchanged(Clamp(Six(e))) = <<res[1], res[3], res[2], res[4], res[6], res[5]>>
    BY <1>11 DEF Exchanged
  <1>. QED
    BY <1>9, <1>10, <1>12

\* When the hands of a side trade seats so do the points every metric of the server
\* gives them, but Larsson's and Zar's advanced ones, as long as one of the hands is the
\* stronger: the two hands are numbered, and nothing else in the code may depend on it.
THEOREM SeatsTraded == Spec => []SeatsExchangeable
  <1>1. Init => Answered
    BY DEF Init, Answered
  <1>. QED
    BY <1>1, AnsweredStep, AnsweredExchange, PTL DEF Spec
==============================================================================
