--------------------------- MODULE Options_proofs ---------------------------
(***************************************************************************)
(* Proofs about Options for command lines and input files of any length,   *)
(* with any values of the right kind, in any order.                        *)
(***************************************************************************)
EXTENDS Options, WellFoundedInduction, TLAPS

-----------------------------------------------------------------------------
(* The invariant. *)

Title  == {"none"} \cup Asks(Switch, "T") \cup Asks(Stmt, "title")
Opener == Seats \cup Asks(Switch, "O")
Lib    == DOMAIN Records \cup {"none"}

OptsType ==
    [max_generate : Nat, max_produce : Nat, seed : Int,
     seed_provided : {-1, 1}, zrd_seed : Int, title : Title,
     opener : Opener, dds_mode : {1, 2}, nThreads : Int, swapping : Nat,
     par_vuln : 0 .. 3, preDeal : [Seats -> {"none", "cmd"}],
     zrdlib_mode : {0, 1}, zrd_wanted : BOOLEAN, zrd_dds : BOOLEAN,
     verbose : BOOLEAN, options_error : Int]

GlobType ==
    [maxgenerate : Nat, maxproduce : Nat, seed : Int,
     seed_provided : {-1, 1}, title : Title, Opener : Opener,
     dds_mode : {1, 2}, swapping : Nat,
     stacked : [Seats -> {"none", "cmd", "file"}],
     bias_deal_wanted : BOOLEAN, maxdealer : Seats \cup {-1},
     maxvuln : (0 .. 3) \cup {-1}, boardoffset : Int, fzrdlib : Lib,
     recnum : Int, will_print : BOOLEAN, scripting : BOOLEAN,
     server : BOOLEAN]

\* What is read: names with values that may be asked for.
Word(input) ==
    UNION {[name : {o}, val : input[o]] : o \in DOMAIN input}

TypeOK ==
    /\ pc \in {"args", "file", "final", "init", "run", "exit", "crash"}
    /\ opts \in OptsType /\ glob \in GlobType
    /\ DealMode \in {"none", "LIB", "BIAS", "PREDEAL", "SWAP", "DEF"}
    /\ args \in Seq(Word(Switch)) /\ stmts \in Seq(Word(Stmt))

\* What the switches have set, which no statement changes.
SwitchesRead ==
    /\ opts.max_generate = LastOf(args, "g", 0)
    /\ opts.max_produce = LastOf(args, "p", 0)
    /\ opts.seed = LastOf(args, "s", 0)
    /\ opts.seed_provided = IF Given("s") THEN 1 ELSE -1
    /\ opts.title = LastOf(args, "T", "none")
    /\ opts.swapping = LastOf(args, "x", 0)
    /\ opts.dds_mode = glob.dds_mode
    /\ opts.zrd_wanted = Given("Z")
    /\ opts.zrd_dds = (LastOf(args, "Z", "N") # "N")
    /\ opts.zrdlib_mode = 1 => Given("L")
    /\ opts.options_error = 0 /\ Given("L") => opts.zrdlib_mode = 1
    /\ \A c \in Seats : opts.preDeal[c] = IF c \in CmdHands THEN "cmd" ELSE "none"

\* What switches and statements have made of the globals.
StatementsRead ==
    /\ glob.maxgenerate = Asked("g", "generate")
    /\ glob.maxproduce = Asked("p", "produce")
    /\ glob.seed = LastOf(stmts, "seed", LastOf(args, "s", 0))
    /\ glob.seed_provided = IF Given("s") \/ Stated("seed") THEN 1 ELSE -1
    /\ glob.title = LastOf(stmts, "title", LastOf(args, "T", "none"))
    /\ \A c \in Seats : glob.stacked[c] = IF c \in FileHands THEN "file" ELSE "none"
    /\ glob.bias_deal_wanted = Stated("bias")
    /\ glob.will_print = AskedPrint
    /\ glob.recnum = 0

\* The globals while switches are read.
GlobArgs ==
    /\ glob.maxgenerate = LastOf(args, "g", 0)
    /\ glob.maxproduce = LastOf(args, "p", 0)
    /\ glob.seed = LastOf(args, "s", 0)
    /\ glob.seed_provided = IF Given("s") THEN 1 ELSE -1
    /\ glob.title = LastOf(args, "T", "none")
    /\ glob.stacked = NoHands
    /\ glob.bias_deal_wanted = FALSE
    /\ glob.will_print = TRUE
    /\ glob.recnum = 0

AsRead ==
    /\ pc = "args" => stmts = << >> /\ SwitchesRead /\ GlobArgs
    /\ pc \in {"file", "final"} => SwitchesRead /\ StatementsRead

\* The title asked for: the command line's, else one of the input file that is
\* not empty.
Titled == LastOf(args, "T", IF AskedTitle = "" THEN "none" ELSE AskedTitle)

\* What finalize_options() leaves for init_runtime(): the limits asked for, or
\* the library's where it has less; the seed and the place it names; the title;
\* the double dummy mode.
Settled ==
    LET lib  == DealMode = "LIB"
        recs == Library.recs
        g    == Asked("g", "generate")
        p    == Asked("p", "produce")
    IN  /\ DealMode \in {"LIB", "BIAS", "PREDEAL", "SWAP", "DEF"}
        /\ lib => glob.fzrdlib \in DOMAIN Records
        /\ glob.maxgenerate = IF lib /\ g > recs THEN recs ELSE g
        /\ opts.max_generate = glob.maxgenerate
        /\ \/ glob.maxproduce = p
           \/ lib /\ p > recs /\ glob.maxgenerate = recs /\ glob.maxproduce = recs
        /\ opts.seed = AskedSeed /\ glob.seed = AskedSeed
        /\ opts.zrd_seed = AskedSeed
        /\ glob.recnum = Loop!StartRecord(AskedSeed, recs)
        /\ opts.title = Titled
        /\ opts.title # "none" => glob.title = opts.title
        /\ opts.dds_mode = glob.dds_mode
        /\ lib \/ LastOf(args, "Z", "N") # "N" => opts.dds_mode = DDS_TABLE_MODE
        /\ glob.will_print = AskedPrint

Inv ==
    /\ TypeOK /\ AsRead
    /\ pc = "init" => Settled
    /\ StartsTheLoop /\ Precedence /\ OneDealMode

-----------------------------------------------------------------------------
(* Numbers: a set of naturals has a least element, a bounded one a greatest. *)

NatLess == {p \in Nat \X Nat : p[1] < p[2]}

\* Every set of naturals that is not empty has a least element ...
LEMMA HasMin ==
  ASSUME NEW S \in SUBSET Nat, S # {}
  PROVE  \E m \in S : \A n \in S : m <= n
  <1>1. IsWellFoundedOn(NatLess, Nat)
    BY NatLessThanWellFounded DEF OpToRel, NatLess
  <1>2. PICK m \in S : \A n \in S : <<n, m>> \notin NatLess
    BY <1>1, WFMin
  <1>3. ASSUME NEW n \in S PROVE m <= n
    <2>1. m \in Nat /\ n \in Nat /\ ~(n < m)
      <3>1. n < m /\ m \in Nat /\ n \in Nat => <<n, m>> \in NatLess
        BY DEF NatLess
      <3>. QED BY <1>2, <3>1
    <2>. QED BY <2>1
  <1>. QED BY <1>3

\* ... and a bounded one a greatest.
LEMMA HasMax ==
  ASSUME NEW N \in Nat, NEW S \in SUBSET (0 .. N), S # {}
  PROVE  \E m \in S : \A n \in S : m >= n
  <1> DEFINE T == {N - n : n \in S}
  <1>1. T \in SUBSET Nat /\ T # {}
    <2>1. \A n \in S : N - n \in Nat
      OBVIOUS
    <2>. QED BY <2>1, Zenon
  <1>2. PICK m \in T : \A n \in T : m <= n
    <2>. HIDE DEF T
    <2>. QED BY <1>1, HasMin
  <1>3. PICK k \in S : m = N - k
    BY <1>2
  <1>4. ASSUME NEW n \in S PROVE k >= n
    BY <1>2, <1>3
  <1>. QED BY <1>3, <1>4

\* Max and Min are those elements, whatever CHOOSE takes.
LEMMA MaxIs ==
  ASSUME NEW S \in SUBSET Nat, NEW m \in S, \A n \in S : m >= n
  PROVE  Max(S) = m
  <1>1. Max(S) \in S /\ \A n \in S : Max(S) >= n
    BY Zenon DEF Max
  <1>2. \A x, y \in Nat : x >= y /\ y >= x => x = y
    OBVIOUS
  <1>3. Max(S) \in Nat /\ m \in Nat
    BY <1>1
  <1>. QED BY <1>1, <1>2, <1>3, Zenon

\* (The same for the least.)
LEMMA MinIs ==
  ASSUME NEW S \in SUBSET Nat, NEW m \in S, \A n \in S : m <= n
  PROVE  Min(S) = m
  <1>1. Min(S) \in S /\ \A n \in S : Min(S) <= n
    BY Zenon DEF Min
  <1>2. \A x, y \in Nat : x <= y /\ y <= x => x = y
    OBVIOUS
  <1>3. Min(S) \in Nat /\ m \in Nat
    BY <1>1
  <1>. QED BY <1>1, <1>2, <1>3, Zenon

-----------------------------------------------------------------------------
(* What is read, and one switch or statement more. *)

\* What Append does to a sequence.
LEMMA OneMore ==
  ASSUME NEW S, NEW t \in Seq(S), NEW w \in S
  PROVE  /\ Append(t, w) \in Seq(S)
         /\ Len(t) \in Nat
         /\ DOMAIN t = 1 .. Len(t)
         /\ DOMAIN Append(t, w) = 1 .. Len(t) + 1
         /\ \A n \in 1 .. Len(t) : Append(t, w)[n] = t[n]
         /\ Append(t, w)[Len(t) + 1] = w
  OBVIOUS

\* One more word: it is at the last place, ...
LEMMA PlacesOfOneMore ==
  ASSUME NEW S, NEW t \in Seq(S), NEW w \in S, NEW name
  PROVE  Places(Append(t, w), name) =
             Places(t, name) \cup (IF w.name = name THEN {Len(t) + 1} ELSE {})
  BY OneMore DEF Places

\* ... it is the last of its name, and that of no other, ...
LEMMA LastOfOneMore ==
  ASSUME NEW S, NEW t \in Seq(S), NEW w \in S, NEW name, NEW d
  PROVE  LastOf(Append(t, w), name, d) =
             IF w.name = name THEN w.val ELSE LastOf(t, name, d)
  <1> DEFINE u == Append(t, w)
  <1>1. Places(t, name) \subseteq 1 .. Len(t) /\ Len(t) \in Nat
    BY OneMore DEF Places
  <1>2. CASE w.name = name
    <2>1. /\ Places(u, name) \in SUBSET Nat
          /\ Len(t) + 1 \in Places(u, name)
          /\ \A n \in Places(u, name) : Len(t) + 1 >= n
      BY <1>1, <1>2, PlacesOfOneMore
    <2>2. Max(Places(u, name)) = Len(t) + 1
      BY <2>1, MaxIs
    <2>. QED BY <1>2, <2>1, <2>2, OneMore DEF LastOf
  <1>3. CASE w.name # name
    <2>1. Places(u, name) = Places(t, name)
      <3>1. Places(u, name) = Places(t, name) \cup {}
        <4>1. Places(u, name) = Places(t, name) \cup
                  (IF w.name = name THEN {Len(t) + 1} ELSE {})
          BY PlacesOfOneMore
        <4>. QED BY <1>3, <4>1, Zenon
      <3>. QED BY <3>1
    <2>2. CASE Places(t, name) = {}
      BY <1>3, <2>1, <2>2 DEF LastOf
    <2>3. CASE Places(t, name) # {}
      <3>1. Max(Places(t, name)) \in Places(t, name)
        <4>1. PICK m \in Places(t, name) : \A n \in Places(t, name) : m >= n
          <5>1. Places(t, name) \in SUBSET (0 .. Len(t))
            BY <1>1
          <5>. QED BY <1>1, <2>3, <5>1, HasMax, Zenon
        <4>. QED BY <1>1, <4>1, MaxIs
      <3>. QED BY <1>1, <1>3, <2>1, <2>3, <3>1, OneMore DEF LastOf
    <2>. QED BY <2>2, <2>3
  <1>. QED BY <1>2, <1>3

\* ... and the first number of its name only if there was none but 0: what
\* FirstOf() does to the globals, one statement at a time.
LEMMA FirstOfOneMore ==
  ASSUME NEW S, NEW t \in Seq(S), NEW w \in S, NEW name
  PROVE  FirstNonZero(Append(t, w), name) =
             IF w.name = name THEN FirstOf(FirstNonZero(t, name), w.val)
             ELSE FirstNonZero(t, name)
  <1> DEFINE u == Append(t, w)
             P(s) == {n \in Places(s, name) : s[n].val # 0}
  <1>1. P(t) \subseteq 1 .. Len(t) /\ Len(t) \in Nat
    BY OneMore DEF Places
  <1>2. P(u) = P(t) \cup
            (IF w.name = name /\ w.val # 0 THEN {Len(t) + 1} ELSE {})
    BY OneMore DEF Places
  <1>3. CASE P(t) = {}
    <2>1. FirstNonZero(t, name) = 0
      BY <1>3 DEF FirstNonZero
    <2>2. CASE w.name = name /\ w.val # 0
      <3>1. P(u) = {Len(t) + 1}
        BY <1>2, <1>3, <2>2
      <3>2. Min({Len(t) + 1}) = Len(t) + 1
        BY <1>1, MinIs
      <3>3. FirstNonZero(u, name) = w.val
        <4>1. FirstNonZero(u, name) = u[Min(P(u))].val
          BY <3>1 DEF FirstNonZero
        <4>2. Min(P(u)) = Len(t) + 1
          <5>. HIDE DEF P, u
          <5>. QED BY <3>1, <3>2
        <4>3. u[Len(t) + 1] = w
          BY OneMore
        <4>. QED BY <4>1, <4>2, <4>3
      <3>. QED BY <2>1, <2>2, <3>3 DEF FirstOf
    <2>3. CASE ~(w.name = name /\ w.val # 0)
      <3>1. P(u) = {}
        BY <1>2, <1>3, <2>3
      <3>2. FirstNonZero(u, name) = 0
        BY <3>1 DEF FirstNonZero
      <3>. QED BY <2>1, <2>3, <3>2 DEF FirstOf
    <2>. QED BY <2>2, <2>3
  <1>4. CASE P(t) # {}
    <2>1. PICK m \in P(t) : \A n \in P(t) : m <= n
      <3>. HIDE DEF P
      <3>. QED BY <1>1, <1>4, HasMin
    <2>2. Min(P(t)) = m
      <3>. HIDE DEF P
      <3>. QED BY <1>1, <2>1, MinIs
    <2>3. Min(P(u)) = m
      <3>. HIDE DEF P
      <3>1. P(u) = P(t) \/ P(u) = P(t) \cup {Len(t) + 1}
        BY <1>2
      <3>2. m \in 1 .. Len(t)
        BY <1>1, <2>1
      <3>3. m \in P(u) /\ P(u) \in SUBSET Nat /\ \A n \in P(u) : m <= n
        BY <1>1, <2>1, <3>1, <3>2
      <3>. QED BY <3>3, MinIs
    <2>4. FirstNonZero(t, name) = t[m].val
      BY <1>4, <2>2 DEF FirstNonZero
    <2>5. FirstNonZero(u, name) = u[m].val
      BY <1>2, <1>4, <2>3 DEF FirstNonZero
    <2>6. u[m] = t[m] /\ t[m].val # 0
      BY <1>1, <2>1, OneMore
    <2>. QED BY <2>4, <2>5, <2>6 DEF FirstOf
  <1>. QED BY <1>3, <1>4

-----------------------------------------------------------------------------
(* Reading the command line. *)

\* Without words all defaults hold.
LEMMA NothingRead ==
  /\ \A n : Places(<< >>, n) = {}
  /\ \A n, d : LastOf(<< >>, n, d) = d
  /\ \A n : FirstNonZero(<< >>, n) = 0
  BY DEF Places, LastOf, FirstNonZero

\* The fields the switches set that what follows depends on.
OptsFields ==
    {"max_generate", "max_produce", "seed", "seed_provided", "title",
     "swapping", "dds_mode", "zrd_wanted", "zrd_dds", "zrdlib_mode",
     "options_error", "preDeal"}
GlobFields ==
    {"maxgenerate", "maxproduce", "seed", "seed_provided", "title",
     "dds_mode", "stacked", "bias_deal_wanted", "will_print", "recnum"}

\* Records that agree on some fields.
Agree(r, s, fields) == \A f \in fields : r[f] = s[f]

\* What an update of the options keeps: their type and the other fields.
LEMMA OptsUpdates ==
  ASSUME NEW r \in OptsType
  PROVE  /\ \A e \in Int :
                [r EXCEPT !.options_error = e] \in OptsType
         /\ \A e \in Int, b \in BOOLEAN :
                [r EXCEPT !.zrd_wanted = TRUE, !.zrd_dds = b,
                          !.options_error = e] \in OptsType
         /\ \A z \in Int :
                [r EXCEPT !.zrdlib_mode = 1, !.zrd_seed = z] \in OptsType
         /\ \A e \in Int, w \in 0 .. 3 :
                [r EXCEPT !.par_vuln = w, !.options_error = e] \in OptsType
         /\ \A e \in Int, z \in Int :
                [r EXCEPT !.nThreads = z, !.options_error = e] \in OptsType
  <1>1. \A e \in Int : [r EXCEPT !.options_error = e] \in OptsType
    BY DEF OptsType
  <1>2. \A e \in Int, b \in BOOLEAN :
            [r EXCEPT !.zrd_wanted = TRUE, !.zrd_dds = b,
                      !.options_error = e] \in OptsType
    BY DEF OptsType
  <1>3. \A z \in Int : [r EXCEPT !.zrdlib_mode = 1, !.zrd_seed = z] \in OptsType
    BY DEF OptsType
  <1>4. \A e \in Int, w \in 0 .. 3 :
            [r EXCEPT !.par_vuln = w, !.options_error = e] \in OptsType
    BY DEF OptsType
  <1>5. \A e \in Int, z \in Int :
            [r EXCEPT !.nThreads = z, !.options_error = e] \in OptsType
    BY DEF OptsType
  <1>. QED BY <1>1, <1>2, <1>3, <1>4, <1>5

\* What holds before and after a switch.
Reading ==
    /\ opts \in OptsType /\ glob \in GlobType
    /\ SwitchesRead /\ GlobArgs

\* Every case of get_options() keeps the options and globals the values of the
\* last switches read.
LEMMA SwitchKeeps ==
  ASSUME Reading, args \in Seq(Word(Switch)),
         NEW o \in DOMAIN Switch, NEW v \in Switch[o],
         NEW sw, sw = [name |-> o, val |-> v],
         args' = Append(args, sw)
  PROVE  /\ \/ OptGenerate(sw) \/ OptProduce(sw) \/ OptSeed(sw)
            \/ OptVerbose(sw) \/ OptSwapping(sw) \/ OptHelp(sw)
            \/ OptInvalid(sw) \/ OptFile(sw) \/ OptZrd(sw)
            \/ OptLibrary(sw) \/ OptDdsMode(sw) \/ OptOpener(sw)
            \/ OptParVul(sw) \/ OptThreads(sw) \/ OptTitle(sw)
            \/ OptPredeal(sw) \/ OptScript(sw)
         => Reading'
  <1>1. sw \in Word(Switch) /\ sw.name = o /\ sw.val = v
    BY DEF Word
  <1>2. /\ \A n, d : LastOf(args', n, d) = IF n = o THEN v ELSE LastOf(args, n, d)
        /\ \A n : Places(args', n) # {} <=> n = o \/ Places(args, n) # {}
    <2>1. ASSUME NEW n, NEW d
          PROVE  LastOf(args', n, d) = IF n = o THEN v ELSE LastOf(args, n, d)
      BY <1>1, LastOfOneMore
    <2>2. ASSUME NEW n
          PROVE  Places(args', n) # {} <=> n = o \/ Places(args, n) # {}
      BY <1>1, PlacesOfOneMore
    <2>. QED BY <2>1, <2>2
  <1>3. Asks(Switch, o) = Switch[o]
    BY DEF Asks
  <1>4. o \notin {"N", "E", "S", "W"} => CmdHands' = CmdHands
    BY SMTT(80), <1>1, OneMore DEF CmdHands
  <1>5. SwitchesRead /\ GlobArgs
    BY DEF Reading
  <1>a. opts \in OptsType
    BY DEF Reading
  <1>b. glob \in GlobType
    BY DEF Reading
  <1>6. /\ o \in {"g", "p", "x"} => v \in Nat
        /\ o \in {"s", "R"} => v \in Int
        /\ o \in {"N", "E", "S", "W"} => v \in Seats
        /\ o = "O" => v \in Opener
        /\ o = "T" => v \in Title
    BY <1>3, OptionsAssumption DEF Opener, Title
  <1>7. ASSUME o \notin {"g", "p", "s", "T", "x", "Z", "L", "N", "E", "S", "W"},
               opts' \in OptsType, glob' \in GlobType,
               Agree(opts', opts, OptsFields \ {"options_error"}),
               opts'.options_error = 0 => opts.options_error = 0,
               Agree(glob', glob, GlobFields)
        PROVE  Reading'
    <2>1. SwitchesRead'
      BY SMTT(80), <1>2, <1>4, <1>5, <1>7
      DEF SwitchesRead, Given, Agree, OptsFields, GlobFields
    <2>2. GlobArgs'
      BY <1>2, <1>5, <1>7 DEF GlobArgs, Given, Agree, GlobFields
    <2>. QED BY <1>7, <2>1, <2>2 DEF Reading
  <1>8. Agree(opts, opts, OptsFields \ {"options_error"}) /\ Agree(glob, glob, GlobFields)
    BY DEF Agree
  <1>9. ASSUME o \notin {"g", "p", "s", "T", "x", "Z", "L", "N", "E", "S", "W"},
               NEW e \in Int \ {0}, opts' = [opts EXCEPT !.options_error = e],
               glob' = glob
        PROVE  Reading'
    <2>1. opts' \in OptsType
      BY <1>a, <1>9, OptsUpdates
    <2>2. Agree(opts', opts, OptsFields \ {"options_error"}) /\ opts'.options_error = e
      BY <1>a, <1>9 DEF OptsType, Agree, OptsFields
    <2>3. glob' \in GlobType /\ Agree(glob', glob, GlobFields)
      BY <1>b, <1>8, <1>9
    <2>4. opts'.options_error = 0 => opts.options_error = 0
      BY <1>9, <2>2
    <2>. QED BY <1>7, <1>9, <2>1, <2>2, <2>3, <2>4, Zenon
  <1>10. ASSUME OptGenerate(sw) PROVE Reading'
    <2>1. opts' \in OptsType
      BY <1>1, <1>a, <1>6, <1>10 DEF OptGenerate, OptsType
    <2>2. glob' \in GlobType
      BY <1>1, <1>b, <1>6, <1>10 DEF OptGenerate, GlobType
    <2>3. /\ o = "g"
          /\ opts'.max_generate = v
          /\ Agree(opts', opts, OptsFields \ {"max_generate"})
      BY <1>1, <1>a, <1>6, <1>10 DEF OptGenerate, OptsType, Agree, OptsFields
    <2>4. glob'.maxgenerate = v /\ Agree(glob', glob, GlobFields \ {"maxgenerate"})
      BY <1>1, <1>b, <1>6, <1>10 DEF OptGenerate, GlobType, Agree, GlobFields
    <2>5. SwitchesRead'
      BY SMTT(80), <1>2, <1>4, <1>5, <2>3, <2>4
      DEF SwitchesRead, Given, Agree, OptsFields, GlobFields
    <2>6. GlobArgs'
      BY <1>2, <1>5, <2>3, <2>4 DEF GlobArgs, Given, Agree, GlobFields
    <2>. QED BY <2>1, <2>2, <2>5, <2>6 DEF Reading
  <1>11. ASSUME OptProduce(sw) PROVE Reading'
    <2>1. opts' \in OptsType
      BY <1>1, <1>a, <1>6, <1>11 DEF OptProduce, OptsType
    <2>2. glob' \in GlobType
      BY <1>1, <1>b, <1>6, <1>11 DEF OptProduce, GlobType
    <2>3. /\ o = "p"
          /\ opts'.max_produce = v
          /\ Agree(opts', opts, OptsFields \ {"max_produce"})
      BY <1>1, <1>a, <1>6, <1>11 DEF OptProduce, OptsType, Agree, OptsFields
    <2>4. glob'.maxproduce = v /\ Agree(glob', glob, GlobFields \ {"maxproduce"})
      BY <1>1, <1>b, <1>6, <1>11 DEF OptProduce, GlobType, Agree, GlobFields
    <2>5. SwitchesRead'
      BY <1>2, <1>4, <1>5, <2>3, <2>4
      DEF SwitchesRead, Given, Agree, OptsFields, GlobFields
    <2>6. GlobArgs'
      BY <1>2, <1>5, <2>3, <2>4 DEF GlobArgs, Given, Agree, GlobFields
    <2>. QED BY <2>1, <2>2, <2>5, <2>6 DEF Reading
  <1>12. ASSUME OptSeed(sw) PROVE Reading'
    <2>1. opts' \in OptsType
      BY <1>1, <1>a, <1>6, <1>12 DEF OptSeed, OptsType
    <2>2. glob' \in GlobType
      BY <1>1, <1>b, <1>6, <1>12 DEF OptSeed, GlobType
    <2>3. /\ o = "s"
          /\ opts'.seed = v
          /\ opts'.seed_provided = 1
          /\ Agree(opts', opts, OptsFields \ {"seed", "seed_provided"})
      BY <1>1, <1>a, <1>6, <1>12 DEF OptSeed, OptsType, Agree, OptsFields
    <2>4. glob'.seed = v /\ glob'.seed_provided = 1 /\ Agree(glob', glob, GlobFields \ {"seed", "seed_provided"})
      BY <1>1, <1>b, <1>6, <1>12 DEF OptSeed, GlobType, Agree, GlobFields
    <2>5. SwitchesRead'
      BY <1>2, <1>4, <1>5, <2>3, <2>4
      DEF SwitchesRead, Given, Agree, OptsFields, GlobFields
    <2>6. GlobArgs'
      BY <1>2, <1>5, <2>3, <2>4 DEF GlobArgs, Given, Agree, GlobFields
    <2>. QED BY <2>1, <2>2, <2>5, <2>6 DEF Reading
  <1>14. ASSUME OptSwapping(sw) PROVE Reading'
    <2>1. opts' \in OptsType
      BY <1>1, <1>a, <1>6, <1>14 DEF OptSwapping, OptsType
    <2>2. glob' \in GlobType
      BY <1>1, <1>b, <1>6, <1>14 DEF OptSwapping, GlobType
    <2>3. /\ o = "x"
          /\ opts'.swapping = v
          /\ Agree(opts', opts, OptsFields \ {"swapping"})
      BY <1>1, <1>a, <1>6, <1>14 DEF OptSwapping, OptsType, Agree, OptsFields
    <2>4. Agree(glob', glob, GlobFields)
      BY <1>1, <1>b, <1>6, <1>14 DEF OptSwapping, GlobType, Agree, GlobFields
    <2>5. SwitchesRead'
      BY <1>2, <1>4, <1>5, <2>3, <2>4
      DEF SwitchesRead, Given, Agree, OptsFields, GlobFields
    <2>6. GlobArgs'
      BY <1>2, <1>5, <2>3, <2>4 DEF GlobArgs, Given, Agree, GlobFields
    <2>. QED BY <2>1, <2>2, <2>5, <2>6 DEF Reading
  <1>24. ASSUME OptTitle(sw) PROVE Reading'
    <2>1. opts' \in OptsType
      BY <1>1, <1>a, <1>6, <1>24 DEF OptTitle, OptsType
    <2>2. glob' \in GlobType
      BY <1>1, <1>b, <1>6, <1>24 DEF OptTitle, GlobType
    <2>3. /\ o = "T"
          /\ opts'.title = v
          /\ Agree(opts', opts, OptsFields \ {"title"})
      BY <1>1, <1>a, <1>6, <1>24 DEF OptTitle, OptsType, Agree, OptsFields
    <2>4. glob'.title = v /\ Agree(glob', glob, GlobFields \ {"title"})
      BY <1>1, <1>b, <1>6, <1>24 DEF OptTitle, GlobType, Agree, GlobFields
    <2>5. SwitchesRead'
      BY <1>2, <1>4, <1>5, <2>3, <2>4
      DEF SwitchesRead, Given, Agree, OptsFields, GlobFields
    <2>6. GlobArgs'
      BY <1>2, <1>5, <2>3, <2>4 DEF GlobArgs, Given, Agree, GlobFields
    <2>. QED BY <2>1, <2>2, <2>5, <2>6 DEF Reading
  <1>13. ASSUME OptVerbose(sw) PROVE Reading'
    <2>1. opts' \in OptsType
      BY <1>1, <1>a, <1>6, <1>13 DEF OptVerbose, OptsType
    <2>2. glob' \in GlobType
      BY <1>1, <1>b, <1>6, <1>13 DEF OptVerbose, GlobType
    <2>3. /\ o = "v"
          /\ Agree(opts', opts, OptsFields \ {"options_error"})
          /\ opts'.options_error = opts.options_error
      BY <1>1, <1>a, <1>6, <1>13 DEF OptVerbose, OptsType, Agree, OptsFields
    <2>4. Agree(glob', glob, GlobFields)
      BY <1>1, <1>b, <1>6, <1>13 DEF OptVerbose, GlobType, Agree, GlobFields
    <2>. QED BY <1>7, <2>1, <2>2, <2>3, <2>4
  <1>21. ASSUME OptOpener(sw) PROVE Reading'
    <2>1. opts' \in OptsType
      BY <1>1, <1>a, <1>6, <1>21 DEF OptOpener, OptsType
    <2>2. glob' \in GlobType
      BY <1>1, <1>b, <1>6, <1>21 DEF OptOpener, GlobType
    <2>3. /\ o = "O"
          /\ Agree(opts', opts, OptsFields \ {"options_error"})
          /\ opts'.options_error = opts.options_error
      BY <1>1, <1>a, <1>6, <1>21 DEF OptOpener, OptsType, Agree, OptsFields
    <2>4. Agree(glob', glob, GlobFields)
      BY <1>1, <1>b, <1>6, <1>21 DEF OptOpener, GlobType, Agree, GlobFields
    <2>. QED BY <1>7, <2>1, <2>2, <2>3, <2>4
  <1>26. ASSUME OptScript(sw) PROVE Reading'
    <2>1. opts' \in OptsType
      BY <1>1, <1>a, <1>6, <1>26 DEF OptScript, OptsType
    <2>2. glob' \in GlobType
      BY <1>1, <1>b, <1>6, <1>26 DEF OptScript, GlobType
    <2>3. /\ o = "script"
          /\ Agree(opts', opts, OptsFields \ {"options_error"})
          /\ opts'.options_error = opts.options_error
      BY <1>1, <1>a, <1>6, <1>26 DEF OptScript, OptsType, Agree, OptsFields
    <2>4. Agree(glob', glob, GlobFields)
      BY <1>1, <1>b, <1>6, <1>26 DEF OptScript, GlobType, Agree, GlobFields
    <2>. QED BY <1>7, <2>1, <2>2, <2>3, <2>4
  <1>15. ASSUME OptHelp(sw) PROVE Reading'
    <2>1. o = "h" /\ opts' = [opts EXCEPT !.options_error = 4] /\ glob' = glob
      BY <1>1, <1>15 DEF OptHelp, Fail
    <2>. QED BY <1>9, <2>1, 4 \in Int \ {0}
  <1>16. ASSUME OptInvalid(sw) PROVE Reading'
    <2>1. o = "invalid" /\ opts' = [opts EXCEPT !.options_error = 3] /\ glob' = glob
      BY <1>1, <1>16 DEF OptInvalid, Fail
    <2>. QED BY <1>9, <2>1, 3 \in Int \ {0}
  <1>17. ASSUME OptFile(sw) PROVE Reading'
    <2>1. o \in {"C", "X", "U", "l"} /\ glob' = glob
      BY <1>1, <1>17 DEF OptFile, Fail
    <2>2. CASE opts' = opts
      <3>1. /\ opts' \in OptsType /\ glob' \in GlobType
            /\ Agree(opts', opts, OptsFields \ {"options_error"})
            /\ Agree(glob', glob, GlobFields)
            /\ opts'.options_error = opts.options_error
        BY <1>a, <1>b, <1>8, <2>1, <2>2
      <3>. QED BY <1>7, <2>1, <3>1
    <2>3. CASE opts' = [opts EXCEPT !.options_error = FileError[o]]
      <3>1. FileError[o] \in Int \ {0}
        BY <2>1 DEF FileError
      <3>. QED BY <1>9, <2>1, <2>3, <3>1
    <2>. QED BY <1>1, <1>17, <2>2, <2>3 DEF OptFile, Fail
  <1>18. ASSUME OptZrd(sw) PROVE Reading'
    <2> DEFINE e == IF v = "bad" THEN -18 ELSE opts.options_error
               b == v # "N"
    <2>1. /\ o = "Z" /\ glob' = glob
          /\ opts' = [opts EXCEPT !.zrd_wanted = TRUE, !.zrd_dds = b,
                                  !.options_error = e]
      BY <1>1, <1>18 DEF OptZrd, FileError
    <2>2. e \in Int /\ b \in BOOLEAN /\ (e = 0 => opts.options_error = 0)
      BY <1>a DEF OptsType
    <2> HIDE DEF e
    <2>3. opts' \in OptsType
      BY <1>a, <2>1, <2>2, OptsUpdates
    <2>4. /\ Agree(opts', opts, OptsFields \ {"zrd_wanted", "zrd_dds", "options_error"})
          /\ opts'.zrd_wanted = TRUE /\ opts'.zrd_dds = b /\ opts'.options_error = e
      BY <1>a, <2>1 DEF OptsType, Agree, OptsFields
    <2>5. SwitchesRead'
      <3>1. opts'.zrd_dds = (LastOf(args', "Z", "N") # "N")
        BY <1>2, <2>1, <2>4
      <3>2. opts'.zrd_wanted = Given("Z")'
        BY <1>2, <2>1, <2>4 DEF Given
      <3>3. opts'.options_error = 0 => opts.options_error = 0
        BY <2>2, <2>4
      <3>4. /\ opts'.dds_mode = glob'.dds_mode
            /\ opts'.zrdlib_mode = 1 => Given("L")'
            /\ opts'.options_error = 0 /\ Given("L")' => opts'.zrdlib_mode = 1
        BY <1>2, <1>5, <2>1, <2>4, <3>3 DEF SwitchesRead, Given, Agree, OptsFields
      <3>5. \A c \in Seats : opts'.preDeal[c] = IF c \in CmdHands' THEN "cmd" ELSE "none"
        BY <1>4, <1>5, <2>1, <2>4 DEF SwitchesRead, Agree, OptsFields
      <3>6. /\ opts'.max_generate = LastOf(args', "g", 0)
            /\ opts'.max_produce = LastOf(args', "p", 0)
            /\ opts'.seed = LastOf(args', "s", 0)
            /\ opts'.seed_provided = IF Given("s")' THEN 1 ELSE -1
            /\ opts'.title = LastOf(args', "T", "none")
            /\ opts'.swapping = LastOf(args', "x", 0)
        BY <1>2, <1>5, <2>1, <2>4 DEF SwitchesRead, Given, Agree, OptsFields
      <3>. QED
        BY <3>1, <3>2, <3>4, <3>5, <3>6 DEF SwitchesRead
    <2>6. GlobArgs'
      BY <1>2, <1>5, <2>1 DEF GlobArgs, Given
    <2>. QED BY <1>b, <2>1, <2>3, <2>5, <2>6 DEF Reading
  <1>19. ASSUME OptLibrary(sw) PROVE Reading'
    <2> DEFINE z == IF opts.seed_provided > 0 THEN opts.seed ELSE 0
    <2>1. /\ o = "L"
          /\ \/ opts' = [opts EXCEPT !.zrdlib_mode = 1, !.zrd_seed = z]
             \/ opts' = [opts EXCEPT !.options_error = -12]
          /\ \E f \in Lib : glob' = [glob EXCEPT !.fzrdlib = f]
      BY SMTT(80), <1>1, <1>19 DEF OptLibrary, Lib, FATAL_OPTS_ERR
    <2>2. z \in Int /\ -12 \in Int
      BY <1>a DEF OptsType
    <2>. HIDE DEF z
    <2>3. opts' \in OptsType
      BY <1>a, <2>1, <2>2, OptsUpdates
    <2>4. /\ Agree(opts', opts, OptsFields \ {"zrdlib_mode", "options_error"})
          /\ opts'.zrdlib_mode = 1 \/ opts'.options_error # 0
          /\ opts'.options_error = 0 => opts.options_error = 0
      <3>1. CASE opts' = [opts EXCEPT !.zrdlib_mode = 1, !.zrd_seed = z]
        BY <1>a, <3>1 DEF OptsType, Agree, OptsFields
      <3>2. CASE opts' = [opts EXCEPT !.options_error = -12]
        BY <1>a, <3>2 DEF OptsType, Agree, OptsFields
      <3>. QED BY <2>1, <3>1, <3>2
    <2>5. glob' \in GlobType /\ Agree(glob', glob, GlobFields)
      <3>1. PICK f \in Lib : glob' = [glob EXCEPT !.fzrdlib = f]
        BY <2>1
      <3>2. glob' \in GlobType
        BY <1>b, <3>1 DEF GlobType
      <3>. QED BY <1>b, <3>1, <3>2 DEF GlobType, Agree, GlobFields
    <2>6. SwitchesRead'
      BY <1>2, <1>4, <1>5, <2>1, <2>4, <2>5
      DEF SwitchesRead, Given, Agree, OptsFields, GlobFields
    <2>7. GlobArgs'
      BY <1>2, <1>5, <2>1, <2>5 DEF GlobArgs, Given, Agree, GlobFields
    <2>. QED BY <2>3, <2>5, <2>6, <2>7 DEF Reading
  <1>20. ASSUME OptDdsMode(sw) PROVE Reading'
    <2>1. glob' = glob \/ (v \in {1, 2} /\ glob' = [glob EXCEPT !.dds_mode = v])
      BY <1>1, <1>b, <1>20 DEF OptDdsMode, GlobType
    <2>2. opts' = [opts EXCEPT !.dds_mode = glob'.dds_mode] /\ glob'.dds_mode \in {1, 2}
      BY <1>1, <1>a, <1>b, <1>20, <2>1 DEF OptDdsMode, GlobType
    <2>3. opts' \in OptsType
      BY <1>a, <2>2, OptsUpdates DEF OptsType
    <2>4. glob' \in GlobType
      <3>1. CASE glob' = glob
        BY <1>b, <3>1
      <3>2. CASE v \in {1, 2} /\ glob' = [glob EXCEPT !.dds_mode = v]
        BY <1>b, <3>2 DEF GlobType
      <3>. QED BY <2>1, <3>1, <3>2
    <2>5. /\ o = "M"
          /\ opts'.dds_mode = glob'.dds_mode
          /\ Agree(opts', opts, OptsFields \ {"dds_mode"})
      BY <1>1, <1>a, <2>2, <1>20 DEF OptDdsMode, OptsType, Agree, OptsFields
    <2>6. Agree(glob', glob, GlobFields \ {"dds_mode"})
      BY <1>b, <2>1 DEF GlobType, Agree, GlobFields
    <2>7. SwitchesRead'
      BY <1>2, <1>4, <1>5, <2>5, <2>6
      DEF SwitchesRead, Given, Agree, OptsFields, GlobFields
    <2>8. GlobArgs'
      BY <1>2, <1>5, <2>5, <2>6 DEF GlobArgs, Given, Agree, GlobFields
    <2>. QED BY <2>3, <2>4, <2>7, <2>8 DEF Reading
  <1>22. ASSUME OptParVul(sw) PROVE Reading'
    <2> DEFINE e == IF v \in 0 .. 3 THEN opts.options_error ELSE 6
               w == IF v \in 0 .. 3 THEN v ELSE 0
    <2>1. o = "P" /\ opts' = [opts EXCEPT !.par_vuln = w, !.options_error = e] /\ glob' = glob
      BY <1>a, <1>1, <1>22 DEF OptParVul, OptsType
    <2>2. e \in Int /\ w \in 0 .. 3 /\ (e = 0 => opts.options_error = 0)
      BY <1>a DEF OptsType
    <2>. HIDE DEF e, w
    <2>3. opts' \in OptsType
      BY <1>a, <2>1, <2>2, OptsUpdates
    <2>4. Agree(opts', opts, OptsFields \ {"options_error"}) /\ opts'.options_error = e
      BY <1>a, <2>1 DEF OptsType, Agree, OptsFields
    <2>. QED BY <1>b, <1>7, <1>8, <2>1, <2>2, <2>3, <2>4
  <1>23. ASSUME OptThreads(sw) PROVE Reading'
    <2> DEFINE e == IF v <= 10 THEN opts.options_error ELSE 6
               z == IF v <= 10 THEN v ELSE 8
    <2>1. o = "R" /\ opts' = [opts EXCEPT !.nThreads = z, !.options_error = e] /\ glob' = glob
      BY <1>a, <1>1, <1>23 DEF OptThreads, OptsType
    <2>2. e \in Int /\ z \in Int /\ (e = 0 => opts.options_error = 0)
      BY <1>a, <1>6, <2>1 DEF OptsType
    <2>. HIDE DEF e, z
    <2>3. opts' \in OptsType
      BY <1>a, <2>1, <2>2, OptsUpdates
    <2>4. Agree(opts', opts, OptsFields \ {"options_error"}) /\ opts'.options_error = e
      BY <1>a, <2>1 DEF OptsType, Agree, OptsFields
    <2>. QED BY <1>b, <1>7, <1>8, <2>1, <2>2, <2>3, <2>4
  <1>25. ASSUME OptPredeal(sw) PROVE Reading'
    <2>1. opts' \in OptsType
      BY <1>1, <1>a, <1>6, <1>25 DEF OptPredeal, OptsType
    <2>2. glob' \in GlobType
      BY <1>1, <1>b, <1>6, <1>25 DEF OptPredeal, GlobType
    <2>3. /\ o \in {"N", "E", "S", "W"} /\ v \in Seats
          /\ opts'.preDeal = [opts.preDeal EXCEPT ![v] = "cmd"]
          /\ Agree(opts', opts, OptsFields \ {"preDeal"})
      BY <1>1, <1>a, <1>6, <1>25 DEF OptPredeal, OptsType, Agree, OptsFields
    <2>4. Agree(glob', glob, GlobFields)
      BY <1>1, <1>b, <1>6, <1>25 DEF OptPredeal, GlobType, Agree, GlobFields
    <2>9. CmdHands' = CmdHands \cup {v}
      BY SMTT(80), <1>1, <2>3, OneMore DEF CmdHands
    <2>8. \A c \in Seats :
              opts'.preDeal[c] = IF c \in CmdHands' THEN "cmd" ELSE "none"
      BY <1>a, <1>5, <2>3, <2>9 DEF SwitchesRead, OptsType
    <2>5. SwitchesRead'
      BY <1>2, <1>5, <2>8, <2>3, <2>4
      DEF SwitchesRead, Given, Agree, OptsFields, GlobFields
    <2>6. GlobArgs'
      BY <1>2, <1>5, <2>3, <2>4 DEF GlobArgs, Given, Agree, GlobFields
    <2>. QED BY <2>1, <2>2, <2>5, <2>6 DEF Reading
  <1>. QED
    BY <1>10, <1>11, <1>12, <1>13, <1>14, <1>15, <1>16, <1>17, <1>18, <1>19, <1>20,
       <1>21, <1>22, <1>23, <1>24, <1>25, <1>26

-----------------------------------------------------------------------------
(* Reading the input file. *)

\* Before any statement the globals are what the switches made of them.
LEMMA NothingStated ==
  ASSUME stmts = << >>, glob \in GlobType, GlobArgs
  PROVE  StatementsRead
  <1>1. /\ Asked("g", "generate") = LastOf(args, "g", 0)
        /\ Asked("p", "produce") = LastOf(args, "p", 0)
    BY NothingRead DEF Asked
  <1>2. /\ LastOf(stmts, "seed", LastOf(args, "s", 0)) = LastOf(args, "s", 0)
        /\ LastOf(stmts, "title", LastOf(args, "T", "none")) = LastOf(args, "T", "none")
        /\ AskedPrint /\ ~Stated("bias") /\ ~Stated("seed")
    BY NothingRead DEF AskedPrint, Stated
  <1>3. FileHands = {}
    BY DEF FileHands
  <1>4. glob.seed_provided = IF Given("s") \/ Stated("seed") THEN 1 ELSE -1
    BY <1>2 DEF GlobArgs
  <1>5. \A c \in Seats : glob.stacked[c] = IF c \in FileHands THEN "file" ELSE "none"
    BY <1>3 DEF GlobArgs, NoHands
  <1>6. glob.bias_deal_wanted = Stated("bias") /\ glob.will_print = AskedPrint
    BY <1>2 DEF GlobArgs, Stated, AskedPrint
  <1>. QED BY <1>1, <1>2, <1>4, <1>5, <1>6 DEF StatementsRead, GlobArgs

\* Every statement keeps the globals what switches and statements ask for: the
\* first number to generate or produce that is not 0, the last of the others.
LEMMA StatementKeeps ==
  ASSUME opts \in OptsType, glob \in GlobType, SwitchesRead, StatementsRead,
         stmts \in Seq(Word(Stmt)),
         NEW k \in DOMAIN Stmt, NEW v \in Stmt[k],
         NEW st, st = [name |-> k, val |-> v],
         stmts' = Append(stmts, st), args' = args, opts' = opts,
         Statement(st)
  PROVE  glob' \in GlobType /\ SwitchesRead' /\ StatementsRead'
  <1>1. st \in Word(Stmt) /\ st.name = k /\ st.val = v
    BY DEF Word
  <1>2. /\ \A n, d : LastOf(stmts', n, d) = IF n = k THEN v ELSE LastOf(stmts, n, d)
        /\ \A n : Places(stmts', n) # {} <=> n = k \/ Places(stmts, n) # {}
        /\ \A n : FirstNonZero(stmts', n) =
                      IF n = k THEN FirstOf(FirstNonZero(stmts, n), v)
                      ELSE FirstNonZero(stmts, n)
    <2>1. ASSUME NEW n, NEW d
          PROVE  LastOf(stmts', n, d) = IF n = k THEN v ELSE LastOf(stmts, n, d)
      BY <1>1, LastOfOneMore
    <2>2. ASSUME NEW n
          PROVE  Places(stmts', n) # {} <=> n = k \/ Places(stmts, n) # {}
      <3>1. Places(stmts', n) =
                Places(stmts, n) \cup (IF st.name = n THEN {Len(stmts) + 1} ELSE {})
        BY <1>1, PlacesOfOneMore
      <3>. QED BY <1>1, <3>1, Zenon
    <2>3. ASSUME NEW n
          PROVE  FirstNonZero(stmts', n) =
                     IF n = k THEN FirstOf(FirstNonZero(stmts, n), v)
                     ELSE FirstNonZero(stmts, n)
      BY <1>1, FirstOfOneMore
    <2>. QED BY <2>1, <2>2, <2>3
  <1>3. k # "predeal" => FileHands' = FileHands
    BY <1>1, OneMore DEF FileHands
  <1>4. Asks(Stmt, k) = Stmt[k]
    BY DEF Asks
  <1>5. /\ k \in {"generate", "produce"} => v \in Nat
        /\ k \in {"seed", "startboard"} => v \in Int
        /\ k \in {"opener", "dealer", "predeal"} => v \in CompassName
        /\ k = "vulnerable" => v \in VulName
        /\ k = "title" => v \in Title
    BY <1>4, OptionsAssumption DEF Title
  <1>6. /\ v \in CompassName => compass2int[v] \in Seats
        /\ v \in VulName => vul2int(v) \in 0 .. 3
    BY DEF CompassName, VulName, compass2int, vul2int, Seats
  <1>7. ASSUME k \notin {"generate", "produce", "seed", "title", "predeal", "bias", "action"},
               Agree(glob', glob, GlobFields)
        PROVE  StatementsRead'
    BY <1>2, <1>3, <1>7
    DEF StatementsRead, Agree, GlobFields, Asked, Stated, Given, AskedPrint
  <1>8. ASSUME glob'.dds_mode = glob.dds_mode
        PROVE  SwitchesRead'
    BY <1>8 DEF SwitchesRead, Given, CmdHands
  <1>10. CASE k = "generate" /\ glob' = [glob EXCEPT !.maxgenerate = FirstOf(glob.maxgenerate, v)]
    <2>1. glob' \in GlobType
      BY <1>5, <1>6, <1>10 DEF GlobType, FirstOf
    <2>2. /\ glob'.maxgenerate = FirstOf(glob.maxgenerate, v)
          /\ Agree(glob', glob, GlobFields \ {"maxgenerate"})
      BY <1>10 DEF GlobType, Agree, GlobFields
    <2>3. SwitchesRead'
      BY <1>8, <2>2 DEF Agree, GlobFields
    <2>4. StatementsRead'
      BY <1>2, <1>3, <1>10, <2>2
      DEF StatementsRead, Agree, GlobFields, Asked, Stated, Given, AskedPrint,
          FirstOf
    <2>. QED BY <2>1, <2>3, <2>4
  <1>11. CASE k = "produce" /\ glob' = [glob EXCEPT !.maxproduce = FirstOf(glob.maxproduce, v)]
    <2>1. glob' \in GlobType
      BY <1>5, <1>6, <1>11 DEF GlobType, FirstOf
    <2>2. /\ glob'.maxproduce = FirstOf(glob.maxproduce, v)
          /\ Agree(glob', glob, GlobFields \ {"maxproduce"})
      BY <1>11 DEF GlobType, Agree, GlobFields
    <2>3. SwitchesRead'
      BY <1>8, <2>2 DEF Agree, GlobFields
    <2>4. StatementsRead'
      BY <1>2, <1>3, <1>11, <2>2
      DEF StatementsRead, Agree, GlobFields, Asked, Stated, Given, AskedPrint,
          FirstOf
    <2>. QED BY <2>1, <2>3, <2>4
  <1>12. CASE k = "seed" /\ glob' = [glob EXCEPT !.seed = v, !.seed_provided = 1]
    <2>1. glob' \in GlobType
      BY <1>5, <1>6, <1>12 DEF GlobType
    <2>2. /\ glob'.seed = v /\ glob'.seed_provided = 1
          /\ Agree(glob', glob, GlobFields \ {"seed", "seed_provided"})
      BY <1>12 DEF GlobType, Agree, GlobFields
    <2>3. SwitchesRead'
      BY <1>8, <2>2 DEF Agree, GlobFields
    <2>4. StatementsRead'
      BY <1>2, <1>3, <1>12, <2>2
      DEF StatementsRead, Agree, GlobFields, Asked, Stated, Given, AskedPrint
    <2>. QED BY <2>1, <2>3, <2>4
  <1>13. CASE k = "title" /\ glob' = [glob EXCEPT !.title = v]
    <2>1. glob' \in GlobType
      BY <1>5, <1>6, <1>13 DEF GlobType
    <2>2. /\ glob'.title = v
          /\ Agree(glob', glob, GlobFields \ {"title"})
      BY <1>13 DEF GlobType, Agree, GlobFields
    <2>3. SwitchesRead'
      BY <1>8, <2>2 DEF Agree, GlobFields
    <2>4. StatementsRead'
      BY SMTT(80), <1>2, <1>3, <1>13, <2>2
      DEF StatementsRead, Agree, GlobFields, Asked, Stated, Given, AskedPrint
    <2>. QED BY <2>1, <2>3, <2>4
  <1>14. CASE k = "opener" /\ glob' = [glob EXCEPT !.Opener = compass2int[v]]
    <2>1. glob' \in GlobType
      BY <1>5, <1>6, <1>14 DEF GlobType, Opener
    <2>2. Agree(glob', glob, GlobFields)
      BY <1>14 DEF GlobType, Agree, GlobFields
    <2>3. SwitchesRead'
      BY <1>8, <2>2 DEF Agree, GlobFields
    <2>. QED BY <1>7, <1>14, <2>1, <2>2, <2>3
  <1>15. CASE k = "dealer" /\ glob' = [glob EXCEPT !.maxdealer = compass2int[v]]
    <2>1. glob' \in GlobType
      BY <1>5, <1>6, <1>15 DEF GlobType
    <2>2. Agree(glob', glob, GlobFields)
      BY <1>15 DEF GlobType, Agree, GlobFields
    <2>3. SwitchesRead'
      BY <1>8, <2>2 DEF Agree, GlobFields
    <2>. QED BY <1>7, <1>15, <2>1, <2>2, <2>3
  <1>16. CASE k = "vulnerable" /\ glob' = [glob EXCEPT !.maxvuln = vul2int(v)]
    <2>1. glob' \in GlobType
      BY <1>5, <1>6, <1>16 DEF GlobType
    <2>2. Agree(glob', glob, GlobFields)
      BY <1>16 DEF GlobType, Agree, GlobFields
    <2>3. SwitchesRead'
      BY <1>8, <2>2 DEF Agree, GlobFields
    <2>. QED BY <1>7, <1>16, <2>1, <2>2, <2>3
  <1>17. CASE k = "startboard" /\ glob' = [glob EXCEPT !.boardoffset = v - 1]
    <2>1. glob' \in GlobType
      <3>1. v - 1 \in Int
        BY <1>5, <1>17
      <3>. QED BY <3>1, <1>17 DEF GlobType
    <2>2. Agree(glob', glob, GlobFields)
      BY <1>17 DEF GlobType, Agree, GlobFields
    <2>3. SwitchesRead'
      BY <1>8, <2>2 DEF Agree, GlobFields
    <2>. QED BY <1>7, <1>17, <2>1, <2>2, <2>3
  <1>18. CASE k = "predeal" /\ glob' = [glob EXCEPT !.stacked[compass2int[v]] = "file"]
    <2>1. glob' \in GlobType
      BY <1>5, <1>6, <1>18 DEF GlobType, Seats
    <2>2. /\ glob'.stacked = [glob.stacked EXCEPT ![compass2int[v]] = "file"]
          /\ Agree(glob', glob, GlobFields \ {"stacked"})
      BY <1>18 DEF GlobType, Agree, GlobFields
    <2>3. SwitchesRead'
      BY <1>8, <2>2 DEF Agree, GlobFields
    <2>4. FileHands' = FileHands \cup {compass2int[v]}
      BY SMTT(80), <1>1, <1>5, <1>6, <1>18, OneMore DEF FileHands
    <2>5. \A c \in Seats :
              glob'.stacked[c] = IF c \in FileHands' THEN "file" ELSE "none"
      BY <1>5, <1>6, <1>18, <2>2, <2>4 DEF StatementsRead, GlobType
    <2>6. StatementsRead'
      BY SMTT(80), <1>2, <1>18, <2>2, <2>5
      DEF StatementsRead, Agree, GlobFields, Asked, Stated, Given, AskedPrint
    <2>. QED BY <2>1, <2>3, <2>6
  <1>19. CASE k = "bias" /\ glob' = [glob EXCEPT !.bias_deal_wanted = TRUE]
    <2>1. glob' \in GlobType
      BY <1>5, <1>6, <1>19 DEF GlobType
    <2>2. /\ glob'.bias_deal_wanted = TRUE
          /\ Agree(glob', glob, GlobFields \ {"bias_deal_wanted"})
      BY <1>19 DEF GlobType, Agree, GlobFields
    <2>3. SwitchesRead'
      BY <1>8, <2>2 DEF Agree, GlobFields
    <2>4. /\ glob'.bias_deal_wanted = Stated("bias")'
          /\ Stated("seed")' <=> Stated("seed")
      BY <1>2, <1>19, <2>2 DEF Stated
    <2>6. glob'.maxgenerate = Asked("g", "generate")' /\ glob'.maxproduce = Asked("p", "produce")'
      BY <1>2, <1>19, <2>2 DEF StatementsRead, Agree, GlobFields, Asked
    <2>7. glob'.seed_provided = IF Given("s")' \/ Stated("seed")' THEN 1 ELSE -1
      BY <1>19, <2>2, <2>4 DEF StatementsRead, Agree, GlobFields, Given
    <2>8. /\ glob'.will_print = AskedPrint'
          /\ glob'.seed = LastOf(stmts', "seed", LastOf(args', "s", 0))
          /\ glob'.title = LastOf(stmts', "title", LastOf(args', "T", "none"))
          /\ glob'.recnum = 0
      BY <1>2, <1>19, <2>2 DEF StatementsRead, Agree, GlobFields, AskedPrint
    <2>9. \A c \in Seats : glob'.stacked[c] = IF c \in FileHands' THEN "file" ELSE "none"
      BY <1>3, <1>19, <2>2 DEF StatementsRead, Agree, GlobFields
    <2>5. StatementsRead'
      BY <2>4, <2>6, <2>7, <2>8, <2>9 DEF StatementsRead
    <2>. QED BY <2>1, <2>3, <2>5
  <1>20. CASE k = "usereval" /\ glob' = [glob EXCEPT !.server = TRUE]
    <2>1. glob' \in GlobType
      BY <1>5, <1>6, <1>20 DEF GlobType
    <2>2. Agree(glob', glob, GlobFields)
      BY <1>20 DEF GlobType, Agree, GlobFields
    <2>3. SwitchesRead'
      BY <1>8, <2>2 DEF Agree, GlobFields
    <2>. QED BY <1>7, <1>20, <2>1, <2>2, <2>3
  <1>21. CASE k = "action" /\ glob' = [glob EXCEPT !.will_print = (v = "print")]
    <2>1. glob' \in GlobType
      BY <1>5, <1>6, <1>21 DEF GlobType
    <2>2. /\ glob'.will_print = (v = "print")
          /\ Agree(glob', glob, GlobFields \ {"will_print"})
      BY <1>21 DEF GlobType, Agree, GlobFields
    <2>3. SwitchesRead'
      BY <1>8, <2>2 DEF Agree, GlobFields
    <2>4. StatementsRead'
      BY <1>2, <1>3, <1>21, <2>2
      DEF StatementsRead, Agree, GlobFields, Asked, Stated, Given, AskedPrint
    <2>. QED BY <2>1, <2>3, <2>4
  <1>. QED
    BY <1>1, <1>10, <1>11, <1>12, <1>13, <1>14, <1>15, <1>16, <1>17, <1>18, <1>19,
       <1>20, <1>21 DEF Statement

-----------------------------------------------------------------------------
(* finalize_options(): the options and the globals merged, one operator of   *)
(* the model after another.                                                  *)

Pair == [o : OptsType, g : GlobType]

\* The fields the first steps leave alone.
OptsRest ==
    {"max_produce", "swapping", "zrdlib_mode", "options_error", "preDeal",
     "nThreads"}
GlobRest ==
    {"maxproduce", "stacked", "bias_deal_wanted", "will_print", "recnum",
     "swapping", "fzrdlib"}

\* A value of a switch or statement that was read is one it may have.
LEMMA LastIsAsked ==
  ASSUME NEW input, NEW t \in Seq(Word(input)), NEW name, NEW d
  PROVE  /\ Places(t, name) = {} => LastOf(t, name, d) = d
         /\ Places(t, name) # {} =>
                /\ LastOf(t, name, d) \in Asks(input, name)
                /\ \A e : LastOf(t, name, d) = LastOf(t, name, e)
  <1>1. Places(t, name) \subseteq 1 .. Len(t) /\ Len(t) \in Nat
    BY DEF Places
  <1>2. CASE Places(t, name) # {}
    <2>1. PICK m \in Places(t, name) : \A n \in Places(t, name) : m >= n
      <3>1. Places(t, name) \in SUBSET (0 .. Len(t))
        BY <1>1
      <3>. QED BY <1>1, <1>2, <3>1, HasMax, Zenon
    <2>2. Max(Places(t, name)) = m
      BY <1>1, <2>1, MaxIs
    <2>3. \A e : LastOf(t, name, e) = t[m].val
      BY <1>2, <2>2 DEF LastOf
    <2>4. t[m] \in Word(input) /\ t[m].name = name
      BY <1>1, <2>1 DEF Places
    <2>5. name \in DOMAIN input /\ t[m].val \in input[name]
      BY <2>4 DEF Word
    <2>. QED BY <1>2, <2>3, <2>5 DEF Asks
  <1>. QED BY <1>2 DEF LastOf

\* So is a first number, or it is 0.
LEMMA FirstIsAsked ==
  ASSUME NEW input, NEW t \in Seq(Word(input)), NEW name
  PROVE  FirstNonZero(t, name) \in {0} \cup Asks(input, name)
  <1> DEFINE P == {n \in Places(t, name) : t[n].val # 0}
  <1>1. P \subseteq 1 .. Len(t) /\ Len(t) \in Nat /\ P \in SUBSET Nat
    BY DEF Places
  <1>2. CASE P # {}
    <2>1. PICK m \in P : \A n \in P : m <= n
      <3>. HIDE DEF P
      <3>. QED BY <1>1, <1>2, HasMin
    <2>2. Min(P) = m
      <3>. HIDE DEF P
      <3>. QED BY <1>1, <2>1, MinIs
    <2>3. FirstNonZero(t, name) = t[m].val
      BY <1>2, <2>2 DEF FirstNonZero
    <2>4. t[m] \in Word(input) /\ t[m].name = name
      BY <1>1, <2>1 DEF Places
    <2>5. name \in DOMAIN input /\ t[m].val \in input[name]
      BY <2>4 DEF Word
    <2>. QED BY <2>3, <2>5 DEF Asks
  <1>. QED BY <1>2 DEF FirstNonZero

\* The steps of finalize_options(), with what each leaves as it was.  The
\* opener:
LEMMA FinalOpenerIs ==
  ASSUME NEW s \in Pair
  PROVE  /\ FinalOpener(s) \in Pair
         /\ FinalOpener(s).o = s.o
         /\ Agree(FinalOpener(s).g, s.g, GlobFields \cup GlobRest)
  <1>1. FinalOpener(s).o = s.o /\ FinalOpener(s).g = [s.g EXCEPT !.Opener = s.o.opener]
        /\ FinalOpener(s) = [o |-> FinalOpener(s).o, g |-> FinalOpener(s).g]
    BY DEF FinalOpener, Pair
  <1>2. s.o \in OptsType /\ s.g \in GlobType
    BY DEF Pair
  <1>3. [s.g EXCEPT !.Opener = s.o.opener] \in GlobType
    BY <1>2 DEF OptsType, GlobType
  <1>4. Agree([s.g EXCEPT !.Opener = s.o.opener], s.g, GlobFields \cup GlobRest)
    BY <1>2 DEF GlobType, Agree, GlobFields, GlobRest
  <1>. QED BY <1>1, <1>2, <1>3, <1>4 DEF Pair

\* The title: the switch's, else one of the input file that is not empty.
LEMMA FinalTitleIs ==
  ASSUME NEW s \in Pair
  PROVE  LET r == FinalTitle(s)
         IN  /\ r \in Pair
             /\ Agree(r.o, s.o, (OptsFields \cup OptsRest) \ {"title"})
             /\ Agree(r.g, s.g, (GlobFields \cup GlobRest) \ {"title"})
             /\ r.o.title = IF s.o.title = "none" /\ s.g.title # "" THEN s.g.title
                            ELSE s.o.title
             /\ r.o.title # "none" => r.g.title = r.o.title
  <1> DEFINE r == FinalTitle(s)
  <1>1. s.o \in OptsType /\ s.g \in GlobType
    BY DEF Pair
  <1>2. CASE s.o.title # "none"
    <2>1. r.o = s.o /\ r.g = [s.g EXCEPT !.title = s.o.title] /\ r = [o |-> r.o, g |-> r.g]
      BY <1>2 DEF FinalTitle, Pair
    <2>2. r.g \in GlobType
      BY <1>1, <2>1 DEF OptsType, GlobType
    <2>3. /\ Agree(r.g, s.g, (GlobFields \cup GlobRest) \ {"title"})
          /\ r.g.title = s.o.title
      BY <1>1, <2>1 DEF GlobType, Agree, GlobFields, GlobRest
    <2>. QED BY <1>1, <1>2, <2>1, <2>2, <2>3 DEF Pair, Agree
  <1>3. CASE s.o.title = "none" /\ s.g.title \notin {"none", ""}
    <2>1. r.g = s.g /\ r.o = [s.o EXCEPT !.title = s.g.title] /\ r = [o |-> r.o, g |-> r.g]
      BY <1>3 DEF FinalTitle, Pair
    <2>2. r.o \in OptsType
      BY <1>1, <2>1 DEF OptsType, GlobType
    <2>3. /\ Agree(r.o, s.o, (OptsFields \cup OptsRest) \ {"title"})
          /\ r.o.title = s.g.title
      BY <1>1, <2>1 DEF OptsType, Agree, OptsFields, OptsRest
    <2>. QED BY <1>1, <1>3, <2>1, <2>2, <2>3 DEF Pair, Agree
  <1>4. CASE s.o.title = "none" /\ s.g.title \in {"none", ""}
    <2>1. r = s
      BY <1>4 DEF FinalTitle
    <2>. QED BY <1>1, <1>4, <2>1 DEF Agree
  <1>. QED BY <1>2, <1>3, <1>4

\* The double dummy mode: all twenty results for records with results.
LEMMA FinalDdsModeIs ==
  ASSUME NEW s \in Pair
  PROVE  LET r == FinalDdsMode(s)
         IN  /\ r \in Pair
             /\ Agree(r.o, s.o, (OptsFields \cup OptsRest) \ {"dds_mode"})
             /\ Agree(r.g, s.g, (GlobFields \cup GlobRest) \ {"dds_mode"})
             /\ s.o.dds_mode = s.g.dds_mode => r.o.dds_mode = r.g.dds_mode
             /\ s.o.zrd_wanted /\ s.o.zrd_dds => r.o.dds_mode = DDS_TABLE_MODE
  <1> DEFINE r == FinalDdsMode(s)
  <1>1. s.o \in OptsType /\ s.g \in GlobType
    BY DEF Pair
  <1>2. CASE s.o.zrd_wanted /\ s.o.zrd_dds
    <2>1. /\ r.o = [s.o EXCEPT !.dds_mode = 2] /\ r.g = [s.g EXCEPT !.dds_mode = 2]
          /\ r = [o |-> r.o, g |-> r.g]
      BY <1>2 DEF FinalDdsMode, DDS_TABLE_MODE, Pair
    <2>2. r.g \in GlobType
      BY <1>1, <2>1 DEF GlobType
    <2>3. r.o \in OptsType
      BY <1>1, <2>1 DEF OptsType
    <2>4. /\ Agree(r.g, s.g, (GlobFields \cup GlobRest) \ {"dds_mode"})
          /\ r.g.dds_mode = 2
      BY <1>1, <2>1 DEF GlobType, Agree, GlobFields, GlobRest
    <2>5. /\ Agree(r.o, s.o, (OptsFields \cup OptsRest) \ {"dds_mode"})
          /\ r.o.dds_mode = 2
      BY <1>1, <2>1 DEF OptsType, Agree, OptsFields, OptsRest
    <2>. QED BY <2>1, <2>2, <2>3, <2>4, <2>5 DEF Pair, DDS_TABLE_MODE
  <1>3. CASE ~(s.o.zrd_wanted /\ s.o.zrd_dds)
    <2>1. r = s
      BY <1>3 DEF FinalDdsMode
    <2>. QED BY <1>1, <1>3, <2>1 DEF Agree
  <1>. QED BY <1>2, <1>3

\* The deals to generate: the same number in the option and the global.
LEMMA FinalGenerateIs ==
  ASSUME NEW s \in Pair
  PROVE  LET r == FinalGenerate(s)
             g == IF s.o.max_generate # 0 THEN s.o.max_generate ELSE s.g.maxgenerate
         IN  /\ r \in Pair
             /\ Agree(r.o, s.o, (OptsFields \cup OptsRest) \ {"max_generate"})
             /\ Agree(r.g, s.g, (GlobFields \cup GlobRest) \ {"maxgenerate"})
             /\ r.o.max_generate = g /\ r.g.maxgenerate = g
  <1> DEFINE r == FinalGenerate(s)
  <1>1. s.o \in OptsType /\ s.g \in GlobType /\ s.o.max_generate \in Nat
    BY DEF Pair, OptsType
  <1>2. CASE s.o.max_generate > 0
    <2>1. /\ r.o = s.o /\ r.g = [s.g EXCEPT !.maxgenerate = s.o.max_generate]
          /\ r = [o |-> r.o, g |-> r.g]
      BY <1>2 DEF FinalGenerate, Pair
    <2>2. r.g \in GlobType
      BY <1>1, <2>1 DEF GlobType
    <2>3. /\ Agree(r.g, s.g, (GlobFields \cup GlobRest) \ {"maxgenerate"})
          /\ r.g.maxgenerate = s.o.max_generate
      BY <1>1, <2>1 DEF GlobType, Agree, GlobFields, GlobRest
    <2>4. s.o.max_generate # 0
      BY <1>1, <1>2
    <2>. QED BY <1>1, <2>1, <2>2, <2>3, <2>4 DEF Pair, Agree
  <1>3. CASE ~(s.o.max_generate > 0)
    <2>1. /\ r.g = s.g /\ r.o = [s.o EXCEPT !.max_generate = s.g.maxgenerate]
          /\ r = [o |-> r.o, g |-> r.g]
      BY <1>3 DEF FinalGenerate, Pair
    <2>2. r.o \in OptsType
      BY <1>1, <2>1 DEF OptsType, GlobType
    <2>3. /\ Agree(r.o, s.o, (OptsFields \cup OptsRest) \ {"max_generate"})
          /\ r.o.max_generate = s.g.maxgenerate
      BY <1>1, <2>1 DEF OptsType, Agree, OptsFields, OptsRest
    <2>4. s.o.max_generate = 0
      BY <1>1, <1>3
    <2>. QED BY <1>1, <2>1, <2>2, <2>3, <2>4 DEF Pair, Agree
  <1>. QED BY <1>2, <1>3

\* The seed: the switch's, else the input file's, also as a place in a library.
LEMMA FinalSeedIs ==
  ASSUME NEW s \in Pair
  PROVE  LET r == FinalSeed(s)
             seed == IF s.o.seed_provided > 0 THEN s.o.seed ELSE s.g.seed
         IN  /\ r \in Pair
             /\ Agree(r.o, s.o, (OptsFields \cup OptsRest) \ {"seed", "seed_provided"})
             /\ Agree(r.g, s.g, (GlobFields \cup GlobRest) \ {"seed", "seed_provided"})
             /\ r.o.seed = seed /\ r.g.seed = seed /\ r.o.zrd_seed = seed
  <1> DEFINE r == FinalSeed(s)
  <1>1. s.o \in OptsType /\ s.g \in GlobType
    BY DEF Pair
  <1>2. CASE s.o.seed_provided > 0
    <2>1. /\ r.o = [s.o EXCEPT !.zrd_seed = s.o.seed]
          /\ r.g = [s.g EXCEPT !.seed_provided = 1, !.seed = s.o.seed]
          /\ r = [o |-> r.o, g |-> r.g]
      BY <1>2 DEF FinalSeed, Pair
    <2>2. r.g \in GlobType
      BY <1>1, <2>1 DEF OptsType, GlobType
    <2>3. r.o \in OptsType
      BY <1>1, <2>1 DEF OptsType
    <2>4. /\ Agree(r.g, s.g, (GlobFields \cup GlobRest) \ {"seed", "seed_provided"})
          /\ r.g.seed = s.o.seed
      BY <1>1, <2>1 DEF GlobType, Agree, GlobFields, GlobRest
    <2>5. /\ Agree(r.o, s.o, (OptsFields \cup OptsRest) \ {"seed", "seed_provided"})
          /\ r.o.seed = s.o.seed /\ r.o.zrd_seed = s.o.seed
      BY <1>1, <2>1 DEF OptsType, Agree, OptsFields, OptsRest
    <2>. QED BY <1>2, <2>1, <2>2, <2>3, <2>4, <2>5 DEF Pair
  <1>3. CASE ~(s.o.seed_provided > 0)
    <2>1. /\ r.g = s.g
          /\ r.o = [s.o EXCEPT !.seed_provided = s.g.seed_provided,
                               !.seed = s.g.seed, !.zrd_seed = s.g.seed]
          /\ r = [o |-> r.o, g |-> r.g]
      BY <1>3 DEF FinalSeed, Pair
    <2>2. r.o \in OptsType
      BY <1>1, <2>1 DEF OptsType, GlobType
    <2>3. /\ Agree(r.o, s.o, (OptsFields \cup OptsRest) \ {"seed", "seed_provided"})
          /\ r.o.seed = s.g.seed /\ r.o.zrd_seed = s.g.seed
      BY <1>1, <2>1 DEF OptsType, Agree, OptsFields, OptsRest
    <2>. QED BY <1>1, <1>3, <2>1, <2>2, <2>3 DEF Pair, Agree
  <1>. QED BY <1>2, <1>3

\* All steps together: command line before input file before default.
LEMMA MergedIs ==
  ASSUME opts \in OptsType, glob \in GlobType, SwitchesRead, StatementsRead,
         args \in Seq(Word(Switch)), stmts \in Seq(Word(Stmt)),
         NEW s, s = Merged
  PROVE  /\ s \in Pair
         /\ Agree(s.o, opts, OptsRest) /\ Agree(s.g, glob, GlobRest)
         /\ s.o.title = Titled
         /\ s.o.title # "none" => s.g.title = s.o.title
         /\ s.o.dds_mode = s.g.dds_mode
         /\ LastOf(args, "Z", "N") # "N" => s.o.dds_mode = DDS_TABLE_MODE
         /\ s.o.max_generate = Asked("g", "generate")
         /\ s.g.maxgenerate = Asked("g", "generate")
         /\ s.o.seed = AskedSeed /\ s.g.seed = AskedSeed /\ s.o.zrd_seed = AskedSeed
  <1> DEFINE r0 == [o |-> opts, g |-> glob]
             r1 == FinalOpener(r0)
             r2 == FinalTitle(r1)
             r3 == FinalDdsMode(r2)
             r4 == FinalGenerate(r3)
  <1>a. \A n, d : IF Places(args, n) = {} THEN LastOf(args, n, d) = d
                 ELSE /\ LastOf(args, n, d) \in Asks(Switch, n)
                      /\ \A e : LastOf(args, n, d) = LastOf(args, n, e)
    <2>. SUFFICES ASSUME NEW n, NEW d
                  PROVE  IF Places(args, n) = {} THEN LastOf(args, n, d) = d
                         ELSE /\ LastOf(args, n, d) \in Asks(Switch, n)
                              /\ \A e : LastOf(args, n, d) = LastOf(args, n, e)
      OBVIOUS
    <2>. QED BY LastIsAsked
  <1>b. \A n, d : IF Places(stmts, n) = {} THEN LastOf(stmts, n, d) = d
                 ELSE /\ LastOf(stmts, n, d) \in Asks(Stmt, n)
                      /\ \A e : LastOf(stmts, n, d) = LastOf(stmts, n, e)
    <2>. SUFFICES ASSUME NEW n, NEW d
                  PROVE  IF Places(stmts, n) = {} THEN LastOf(stmts, n, d) = d
                         ELSE /\ LastOf(stmts, n, d) \in Asks(Stmt, n)
                              /\ \A e : LastOf(stmts, n, d) = LastOf(stmts, n, e)
      OBVIOUS
    <2>. QED BY LastIsAsked
  <1>1. s = FinalSeed(r4)
    BY DEF Merged
  <1>2. r0 \in Pair /\ r0.o = opts /\ r0.g = glob
    BY DEF Pair
  <1> HIDE DEF r0
  <1>3. /\ r1 \in Pair /\ r1.o = opts
        /\ Agree(r1.g, glob, GlobFields \cup GlobRest)
    BY <1>2, FinalOpenerIs
  <1> HIDE DEF r1
  <1>4. /\ r2 \in Pair
        /\ Agree(r2.o, r1.o, (OptsFields \cup OptsRest) \ {"title"})
        /\ Agree(r2.g, r1.g, (GlobFields \cup GlobRest) \ {"title"})
        /\ r2.o.title = IF r1.o.title = "none" /\ r1.g.title # "" THEN r1.g.title
                        ELSE r1.o.title
        /\ r2.o.title # "none" => r2.g.title = r2.o.title
    BY <1>3, FinalTitleIs
  <1> HIDE DEF r2
  <1>5. /\ r3 \in Pair
        /\ Agree(r3.o, r2.o, (OptsFields \cup OptsRest) \ {"dds_mode"})
        /\ Agree(r3.g, r2.g, (GlobFields \cup GlobRest) \ {"dds_mode"})
        /\ r2.o.dds_mode = r2.g.dds_mode => r3.o.dds_mode = r3.g.dds_mode
        /\ r2.o.zrd_wanted /\ r2.o.zrd_dds => r3.o.dds_mode = DDS_TABLE_MODE
    BY <1>4, FinalDdsModeIs
  <1> HIDE DEF r3
  <1>6. LET g == IF r3.o.max_generate # 0 THEN r3.o.max_generate ELSE r3.g.maxgenerate
        IN  /\ r4 \in Pair
            /\ Agree(r4.o, r3.o, (OptsFields \cup OptsRest) \ {"max_generate"})
            /\ Agree(r4.g, r3.g, (GlobFields \cup GlobRest) \ {"maxgenerate"})
            /\ r4.o.max_generate = g /\ r4.g.maxgenerate = g
    BY <1>5, FinalGenerateIs
  <1> HIDE DEF r4
  <1>7. LET seed == IF r4.o.seed_provided > 0 THEN r4.o.seed ELSE r4.g.seed
        IN  /\ s \in Pair
            /\ Agree(s.o, r4.o, (OptsFields \cup OptsRest) \ {"seed", "seed_provided"})
            /\ Agree(s.g, r4.g, (GlobFields \cup GlobRest) \ {"seed", "seed_provided"})
            /\ s.o.seed = seed /\ s.g.seed = seed /\ s.o.zrd_seed = seed
    BY <1>1, <1>6, FinalSeedIs
  <1>8. Agree(s.o, opts, OptsRest) /\ Agree(s.g, glob, GlobRest)
    <2>1. \A f \in OptsRest :
              /\ r2.o[f] = opts[f] /\ r3.o[f] = r2.o[f]
              /\ r4.o[f] = r3.o[f] /\ s.o[f] = r4.o[f]
      BY <1>3, <1>4, <1>5, <1>6, <1>7 DEF Agree, OptsFields, OptsRest
    <2>2. \A f \in GlobRest :
              /\ r1.g[f] = glob[f] /\ r2.g[f] = r1.g[f] /\ r3.g[f] = r2.g[f]
              /\ r4.g[f] = r3.g[f] /\ s.g[f] = r4.g[f]
      BY <1>3, <1>4, <1>5, <1>6, <1>7 DEF Agree, GlobFields, GlobRest
    <2>. QED BY <2>1, <2>2 DEF Agree
  <1>9. /\ s.o.title = IF opts.title = "none" /\ glob.title # "" THEN glob.title
                       ELSE opts.title
        /\ s.o.title # "none" => s.g.title = s.o.title
    BY ZenonT(80), <1>3, <1>4, <1>5, <1>6, <1>7 DEF Agree, OptsFields, GlobFields
  <1>10. s.o.title = Titled
    <2>1. CASE Given("T")
      <3>1. opts.title = LastOf(args, "T", "none") /\ Places(args, "T") # {}
        BY <2>1 DEF Given, SwitchesRead
      <3>3. LastOf(args, "T", "none") \in Asks(Switch, "T")
            /\ \A e : LastOf(args, "T", "none") = LastOf(args, "T", e)
        BY Zenon, <1>a, <3>1
      <3>4. Titled = LastOf(args, "T", IF AskedTitle = "" THEN "none" ELSE AskedTitle)
        BY Zenon DEF Titled
      <3>5. opts.title = Titled
        BY Zenon, <3>1, <3>3, <3>4
      <3>2. opts.title # "none"
        BY <3>1, <3>3, OptionsAssumption
      <3>. QED BY <1>9, <3>2, <3>5
    <2>2. CASE ~Given("T")
      <3>1. /\ opts.title = "none"
            /\ Titled = IF AskedTitle = "" THEN "none" ELSE AskedTitle
            /\ glob.title = LastOf(stmts, "title", "none")
        BY <2>2, <1>a, <1>b DEF Given, SwitchesRead, StatementsRead, Titled
      <3>2. CASE Stated("title")
        <4>1. AskedTitle = glob.title /\ AskedTitle \in Asks(Stmt, "title")
          BY <3>1, <3>2, <1>a, <1>b DEF Stated, AskedTitle
        <4>2. AskedTitle # "none"
          BY <4>1, OptionsAssumption
        <4>. QED BY <1>9, <3>1, <4>1, <4>2
      <3>3. CASE ~Stated("title")
        <4>1. AskedTitle = "" /\ glob.title = "none"
          BY <3>1, <3>3, <1>a, <1>b DEF Stated, AskedTitle
        <4>. QED BY <1>9, <3>1, <4>1
      <3>. QED BY <3>2, <3>3
    <2>. QED BY <2>1, <2>2
  <1>11. /\ s.o.dds_mode = s.g.dds_mode
         /\ LastOf(args, "Z", "N") # "N" => s.o.dds_mode = DDS_TABLE_MODE
    <2>1. LastOf(args, "Z", "N") # "N" => opts.zrd_wanted /\ opts.zrd_dds
      BY <1>a, <1>b DEF SwitchesRead, Given
    <2>2. /\ r2.o.dds_mode = opts.dds_mode /\ r2.g.dds_mode = glob.dds_mode
          /\ r2.o.zrd_wanted = opts.zrd_wanted /\ r2.o.zrd_dds = opts.zrd_dds
      BY <1>3, <1>4 DEF Agree, OptsFields, GlobFields
    <2>3. s.o.dds_mode = r3.o.dds_mode /\ s.g.dds_mode = r3.g.dds_mode
      BY <1>6, <1>7 DEF Agree, OptsFields, GlobFields
    <2>4. opts.dds_mode = glob.dds_mode
      BY DEF SwitchesRead
    <2>. QED BY <1>5, <2>1, <2>2, <2>3, <2>4
  <1>12. /\ s.o.max_generate = Asked("g", "generate")
         /\ s.g.maxgenerate = Asked("g", "generate")
    <2>1. r3.o.max_generate = opts.max_generate /\ r3.g.maxgenerate = glob.maxgenerate
      BY <1>3, <1>4, <1>5 DEF Agree, OptsFields, GlobFields
    <2>2. s.o.max_generate = r4.o.max_generate /\ s.g.maxgenerate = r4.g.maxgenerate
      BY <1>7 DEF Agree, OptsFields, GlobFields
    <2>3. /\ r3.o.max_generate = LastOf(args, "g", 0)
          /\ r3.g.maxgenerate = Asked("g", "generate")
      BY <2>1 DEF SwitchesRead, StatementsRead
    <2>4. r4.o.max_generate = Asked("g", "generate")
          /\ r4.g.maxgenerate = Asked("g", "generate")
      <3>1. CASE r3.o.max_generate # 0
        <4>1. Asked("g", "generate") = r3.o.max_generate
          BY <2>3, <3>1 DEF Asked
        <4>. QED BY <1>6, <3>1, <4>1
      <3>2. CASE ~(r3.o.max_generate # 0)
        <4>1. r4.o.max_generate = r3.g.maxgenerate /\ r4.g.maxgenerate = r3.g.maxgenerate
          BY <1>6, <3>2
        <4>. QED BY <2>3, <4>1
      <3>. QED BY <3>1, <3>2
    <2>. QED BY <2>2, <2>4
  <1>13. s.o.seed = AskedSeed /\ s.g.seed = AskedSeed /\ s.o.zrd_seed = AskedSeed
    <2>1. /\ r4.o.seed = opts.seed /\ r4.o.seed_provided = opts.seed_provided
          /\ r4.g.seed = glob.seed
      <3>1. /\ r1.o = opts /\ r2.o.seed = r1.o.seed /\ r3.o.seed = r2.o.seed
            /\ r4.o.seed = r3.o.seed
        BY <1>3, <1>4, <1>5, <1>6 DEF Agree, OptsFields
      <3>2. /\ r2.o.seed_provided = r1.o.seed_provided
            /\ r3.o.seed_provided = r2.o.seed_provided
            /\ r4.o.seed_provided = r3.o.seed_provided
        BY <1>4, <1>5, <1>6 DEF Agree, OptsFields
      <3>3. /\ r1.g.seed = glob.seed /\ r2.g.seed = r1.g.seed /\ r3.g.seed = r2.g.seed
            /\ r4.g.seed = r3.g.seed
        BY <1>3, <1>4, <1>5, <1>6 DEF Agree, GlobFields
      <3>. QED BY <3>1, <3>2, <3>3
    <2>2. CASE Given("s")
      <3>1. opts.seed_provided > 0 /\ opts.seed = AskedSeed
        BY <2>2, <1>a, <1>b DEF SwitchesRead, Given, AskedSeed
      <3>. QED BY <1>7, <2>1, <3>1
    <2>3. CASE ~Given("s")
      <3>1. ~(opts.seed_provided > 0) /\ glob.seed = AskedSeed
        BY <2>3, <1>a, <1>b DEF SwitchesRead, StatementsRead, Given, AskedSeed
      <3>. QED BY <1>7, <2>1, <3>1
    <2>. QED BY <2>2, <2>3
  <1>. QED BY <1>7, <1>8, <1>9, <1>10, <1>11, <1>12, <1>13

-----------------------------------------------------------------------------
(* setDealMode(): one way of dealing, and what is taken back of the others.  *)

\* Updates of the options ...
LEMMA OptsTyped ==
  ASSUME NEW r \in OptsType
  PROVE  /\ [r EXCEPT !.swapping = 0] \in OptsType
         /\ \A p \in [Seats -> {"none", "cmd"}] :
                [r EXCEPT !.preDeal = p, !.swapping = 0] \in OptsType
         /\ \A g, p \in Nat :
                [r EXCEPT !.dds_mode = 2, !.swapping = 0, !.max_generate = g,
                          !.max_produce = p] \in OptsType
  <1>1. [r EXCEPT !.swapping = 0] \in OptsType
    BY DEF OptsType
  <1>2. \A p \in [Seats -> {"none", "cmd"}] :
            [r EXCEPT !.preDeal = p, !.swapping = 0] \in OptsType
    BY DEF OptsType
  <1>3. \A g, p \in Nat :
            [r EXCEPT !.dds_mode = 2, !.swapping = 0, !.max_generate = g,
                      !.max_produce = p] \in OptsType
    BY DEF OptsType
  <1>. QED BY <1>1, <1>2, <1>3

\* ... and of the globals keep their types.
LEMMA GlobTyped ==
  ASSUME NEW r \in GlobType, NEW p \in [Seats -> {"none", "cmd", "file"}]
  PROVE  /\ [r EXCEPT !.stacked = p] \in GlobType
         /\ \A n \in Int, g, m \in Nat :
                [r EXCEPT !.dds_mode = 2, !.swapping = 0, !.recnum = n,
                          !.maxgenerate = g, !.maxproduce = m] \in GlobType
  <1>1. [r EXCEPT !.stacked = p] \in GlobType
    BY DEF GlobType
  <1>2. \A n \in Int, g, m \in Nat :
            [r EXCEPT !.dds_mode = 2, !.swapping = 0, !.recnum = n,
                      !.maxgenerate = g, !.maxproduce = m] \in GlobType
    BY DEF GlobType
  <1>. QED BY <1>1, <1>2

\* What setDealMode() takes back of the ways of dealing not chosen.
LEMMA DiscardIs ==
  ASSUME NEW s \in Pair
  PROVE  LET r == Discard(s)
             m == RunMode(s)
         IN  /\ r \in Pair
             /\ Agree(r.o, s.o, (OptsFields \cup OptsRest) \ {"preDeal", "swapping"})
             /\ Agree(r.g, s.g, (GlobFields \cup GlobRest) \ {"stacked", "bias_deal_wanted"})
             /\ r.o.zrd_seed = s.o.zrd_seed
             /\ m = "LIB" => r.g.bias_deal_wanted = FALSE
             /\ m \in {"LIB", "BIAS"} => r.o.preDeal = NoHands
             /\ m = "PREDEAL" =>
                    r.g.stacked = IF CmdPredeal(s) /\ FilePredeal(s) THEN s.o.preDeal
                                  ELSE s.g.stacked
             /\ r.o.swapping = IF \/ m \in {"LIB", "BIAS"}
                                  \/ m = "PREDEAL" /\ (FilePredeal(s) \/ ~CmdPredeal(s))
                               THEN 0 ELSE s.o.swapping
  <1> DEFINE r == Discard(s)
             m == RunMode(s)
  <1>1. s.o \in OptsType /\ s.g \in GlobType
    BY DEF Pair
  <1>2. m \in {"LIB", "BIAS", "PREDEAL", "SWAP", "DEF"}
    BY DEF RunMode
  <1>3. NoHands \in [Seats -> {"none", "cmd"}]
    BY DEF NoHands
  <1> HIDE DEF m
  <1>4. CASE m = "LIB"
    <2>1. /\ r.o = [s.o EXCEPT !.preDeal = NoHands, !.swapping = 0]
          /\ r.g = [s.g EXCEPT !.bias_deal_wanted = FALSE]
          /\ r = [o |-> r.o, g |-> r.g]
      BY <1>4 DEF Discard, Pair, m
    <2>2. r.g \in GlobType
      BY <1>1, <2>1 DEF GlobType
    <2>3. r.o \in OptsType
      <3>1. [s.o EXCEPT !.preDeal = NoHands, !.swapping = 0] \in OptsType
        BY <1>1, <1>3, OptsTyped, Zenon
      <3>. QED BY <2>1, <3>1, Zenon
    <2>4. /\ Agree(r.o, s.o, (OptsFields \cup OptsRest) \ {"preDeal", "swapping"})
          /\ r.o.zrd_seed = s.o.zrd_seed
          /\ r.o.preDeal = NoHands /\ r.o.swapping = 0
      BY <1>1, <2>1 DEF OptsType, Agree, OptsFields, OptsRest
    <2>5. /\ Agree(r.g, s.g, (GlobFields \cup GlobRest) \ {"stacked", "bias_deal_wanted"})
          /\ r.g.bias_deal_wanted = FALSE
      BY <1>1, <2>1 DEF GlobType, Agree, GlobFields, GlobRest
    <2>. QED BY <1>4, <2>1, <2>2, <2>3, <2>4, <2>5 DEF Pair, m
  <1>5. CASE m = "BIAS"
    <2>1. /\ r.o = [s.o EXCEPT !.preDeal = NoHands, !.swapping = 0]
          /\ r.g = s.g
          /\ r = [o |-> r.o, g |-> r.g]
      BY <1>5 DEF Discard, Pair, m
    <2>2. r.o \in OptsType
      BY <1>1, <1>3, <2>1, OptsTyped
    <2>3. /\ Agree(r.o, s.o, (OptsFields \cup OptsRest) \ {"preDeal", "swapping"})
          /\ r.o.zrd_seed = s.o.zrd_seed
          /\ r.o.preDeal = NoHands /\ r.o.swapping = 0
      BY <1>1, <2>1 DEF OptsType, Agree, OptsFields, OptsRest
    <2>. QED BY <1>1, <1>5, <2>1, <2>2, <2>3 DEF Pair, Agree, m
  <1>6. CASE m = "PREDEAL" /\ CmdPredeal(s) /\ FilePredeal(s)
    <2>1. /\ r.o = [s.o EXCEPT !.swapping = 0]
          /\ r.g = [s.g EXCEPT !.stacked = s.o.preDeal]
          /\ r = [o |-> r.o, g |-> r.g]
      BY <1>6 DEF Discard, Pair, m
    <2>2. r.g \in GlobType
      <3>1. s.o.preDeal \in [Seats -> {"none", "cmd", "file"}]
        BY <1>1 DEF OptsType
      <3>. QED BY <1>1, <2>1, <3>1 DEF GlobType
    <2>3. r.o \in OptsType
      BY <1>1, <2>1, OptsTyped
    <2>4. /\ Agree(r.o, s.o, (OptsFields \cup OptsRest) \ {"preDeal", "swapping"})
          /\ r.o.zrd_seed = s.o.zrd_seed
          /\ r.o.swapping = 0
      BY <1>1, <2>1 DEF OptsType, Agree, OptsFields, OptsRest
    <2>5. /\ Agree(r.g, s.g, (GlobFields \cup GlobRest) \ {"stacked", "bias_deal_wanted"})
          /\ r.g.stacked = s.o.preDeal
      BY <1>1, <2>1 DEF GlobType, Agree, GlobFields, GlobRest
    <2>. QED BY <1>6, <2>1, <2>2, <2>3, <2>4, <2>5 DEF Pair, m
  <1>7. CASE m = "PREDEAL" /\ ~CmdPredeal(s)
    <2>1. /\ r.o = [s.o EXCEPT !.swapping = 0]
          /\ r.g = s.g
          /\ r = [o |-> r.o, g |-> r.g]
      BY <1>7 DEF Discard, Pair, m
    <2>2. r.o \in OptsType
      BY <1>1, <2>1, OptsTyped
    <2>3. /\ Agree(r.o, s.o, (OptsFields \cup OptsRest) \ {"preDeal", "swapping"})
          /\ r.o.zrd_seed = s.o.zrd_seed
          /\ r.o.swapping = 0
      BY <1>1, <2>1 DEF OptsType, Agree, OptsFields, OptsRest
    <2>. QED BY <1>1, <1>7, <2>1, <2>2, <2>3 DEF Pair, Agree, m
  <1>8. CASE m \in {"SWAP", "DEF"} \/ (m = "PREDEAL" /\ CmdPredeal(s) /\ ~FilePredeal(s))
    <2>1. r = s
      BY <1>8 DEF Discard, m
    <2>. QED BY <1>8, <2>1 DEF Agree, m
  <1>. QED BY <1>2, <1>4, <1>5, <1>6, <1>7, <1>8

\* A record to start from is a number, and 0 for an empty file.
LEMMA StartRecordIs ==
  ASSUME NEW seed \in Int, NEW recs \in Nat
  PROVE  /\ Loop!StartRecord(seed, recs) \in Int
         /\ Loop!StartRecord(seed, 0) = 0
  <1>1. Loop!BlockSize(recs) \in {1, 10, 100, 1000} /\ Loop!BlockSize(0) = 1
    BY DEF Loop!BlockSize
  <1>2. recs \div Loop!BlockSize(recs) \in Int /\ 0 \div 1 = 0
    BY <1>1
  <1>3. Loop!MaxSeed(recs) \in Int /\ Loop!MaxSeed(0) = -1
    BY <1>1, <1>2 DEF Loop!MaxSeed, Loop!ZRD_MAX_SEED
  <1>4. /\ Loop!Lesser(seed, Loop!MaxSeed(recs)) \in Int
        /\ Loop!Lesser(seed, -1) < 0
    BY <1>3 DEF Loop!Lesser
  <1>. QED BY <1>1, <1>3, <1>4 DEF Loop!StartRecord

\* The last part of setDealMode() without a library changes the deck only.
LEMMA CleanUpPlain ==
  ASSUME NEW s \in Pair, NEW m \in {"DEF", "SWAP", "BIAS", "PREDEAL"}
  PROVE  LET r == CleanUp(s, m)
         IN  /\ r \in Pair /\ r.o = s.o
             /\ Agree(r.g, s.g, (GlobFields \cup GlobRest) \ {"stacked"})
             /\ r.g.stacked = IF m = "PREDEAL" THEN s.g.stacked ELSE NoHands
  <1> DEFINE r == CleanUp(s, m)
  <1>1. s.o \in OptsType /\ s.g \in GlobType
    BY DEF Pair
  <1>2. CASE m = "PREDEAL"
    <2>1. r = s
      BY <1>2 DEF CleanUp
    <2>. QED BY <1>2, <2>1 DEF Agree
  <1>3. CASE m # "PREDEAL"
    <2>1. /\ r.o = s.o /\ r.g = [s.g EXCEPT !.stacked = NoHands]
          /\ r = [o |-> r.o, g |-> r.g]
      BY <1>3 DEF CleanUp, Pair
    <2>2. r.g \in GlobType
      <3>1. NoHands \in [Seats -> {"none", "cmd", "file"}]
        BY DEF NoHands
      <3>. QED BY <1>1, <2>1, <3>1 DEF GlobType
    <2>3. /\ Agree(r.g, s.g, (GlobFields \cup GlobRest) \ {"stacked"})
          /\ r.g.stacked = NoHands
      BY <1>1, <2>1 DEF GlobType, Agree, GlobFields, GlobRest
    <2>. QED BY <1>1, <1>3, <2>1, <2>2, <2>3 DEF Pair
  <1>. QED BY <1>2, <1>3

\* enforce_zrdlib_mode(): the limits bounded by the library.
LEMMA EnforceIs ==
  ASSUME NEW s \in Pair, s.g.fzrdlib \in DOMAIN Records
  PROVE  LET r == EnforceLibrary(s)
             recs == Records[s.g.fzrdlib]
             over == s.o.max_generate > recs
             less == over /\ s.o.max_produce > recs
         IN  /\ r \in Pair
             /\ Agree(r.o, s.o, (OptsFields \cup OptsRest) \
                    {"max_generate", "max_produce", "dds_mode", "swapping"})
             /\ Agree(r.g, s.g, (GlobFields \cup GlobRest) \
                    {"maxgenerate", "maxproduce", "dds_mode", "swapping", "recnum"})
             /\ r.o.zrd_seed = s.o.zrd_seed
             /\ r.o.dds_mode = DDS_TABLE_MODE /\ r.g.dds_mode = DDS_TABLE_MODE
             /\ r.o.swapping = 0 /\ r.g.swapping = 0
             /\ r.g.recnum = Loop!StartRecord(s.o.zrd_seed, recs)
             /\ r.o.max_generate = IF over THEN recs ELSE s.o.max_generate
             /\ r.g.maxgenerate = IF over THEN recs ELSE s.g.maxgenerate
             /\ r.g.maxproduce = IF less THEN recs ELSE s.g.maxproduce
  <1> DEFINE r == EnforceLibrary(s)
             recs == Records[s.g.fzrdlib]
             over == s.o.max_generate > recs
             less == over /\ s.o.max_produce > recs
             n == Loop!StartRecord(s.o.zrd_seed, recs)
             maxg == IF over THEN recs ELSE s.o.max_generate
             maxp == IF less THEN recs ELSE s.o.max_produce
             gmaxg == IF over THEN recs ELSE s.g.maxgenerate
             gmaxp == IF less THEN recs ELSE s.g.maxproduce
  <1>1. s.o \in OptsType /\ s.g \in GlobType
    BY DEF Pair
  <1>2. recs \in Nat
    BY OptionsAssumption
  <1>3. /\ maxg \in Nat /\ maxp \in Nat /\ gmaxg \in Nat /\ gmaxp \in Nat
        /\ s.o.zrd_seed \in Int
    BY <1>1, <1>2 DEF OptsType, GlobType
  <1>4. n \in Int
    BY <1>2, <1>3, StartRecordIs
  <1>5. /\ r.o = [s.o EXCEPT !.dds_mode = 2, !.swapping = 0, !.max_generate = maxg,
                             !.max_produce = maxp]
        /\ r.g = [s.g EXCEPT !.dds_mode = 2, !.swapping = 0,
                             !.recnum = n, !.maxgenerate = gmaxg,
                             !.maxproduce = gmaxp]
        /\ r = [o |-> r.o, g |-> r.g]
    <2>1. r.o = [s.o EXCEPT !.dds_mode = 2, !.swapping = 0, !.max_generate = maxg,
                            !.max_produce = maxp]
      BY <1>1 DEF EnforceLibrary, DDS_TABLE_MODE, OptsType
    <2>2. r.g = [s.g EXCEPT !.dds_mode = 2, !.swapping = 0,
                            !.recnum = n, !.maxgenerate = gmaxg,
                            !.maxproduce = gmaxp]
      BY <1>1 DEF EnforceLibrary, DDS_TABLE_MODE, GlobType
    <2>3. r = [o |-> r.o, g |-> r.g]
      BY DEF EnforceLibrary
    <2>. QED BY <2>1, <2>2, <2>3
  <1> HIDE DEF r, maxg, maxp, gmaxg, gmaxp, n
  <1>6. r.o \in OptsType
    <2>1. [s.o EXCEPT !.dds_mode = 2, !.swapping = 0, !.max_generate = maxg,
                      !.max_produce = maxp] \in OptsType
      BY <1>1, <1>3, OptsTyped, Zenon
    <2>. QED BY <1>5, <2>1
  <1>7. r.g \in GlobType
    <2>1. NoHands \in [Seats -> {"none", "cmd", "file"}]
      BY DEF NoHands
    <2>2. [s.g EXCEPT !.dds_mode = 2, !.swapping = 0, !.recnum = n,
                      !.maxgenerate = gmaxg, !.maxproduce = gmaxp] \in GlobType
      BY <1>1, <1>3, <1>4, <2>1, GlobTyped, Zenon
    <2>. QED BY <1>5, <2>2
  <1>8. /\ Agree(r.o, s.o, (OptsFields \cup OptsRest) \
               {"max_generate", "max_produce", "dds_mode", "swapping"})
        /\ r.o.zrd_seed = s.o.zrd_seed
        /\ r.o.dds_mode = 2 /\ r.o.swapping = 0 /\ r.o.max_generate = maxg
    BY <1>1, <1>5 DEF OptsType, Agree, OptsFields, OptsRest
  <1>9. /\ Agree(r.g, s.g, (GlobFields \cup GlobRest) \
               {"maxgenerate", "maxproduce", "dds_mode", "swapping", "recnum"})
        /\ r.g.dds_mode = 2 /\ r.g.swapping = 0
        /\ r.g.recnum = n /\ r.g.maxgenerate = gmaxg /\ r.g.maxproduce = gmaxp
    BY <1>1, <1>5 DEF GlobType, Agree, GlobFields, GlobRest
  <1>. QED
    BY <1>5, <1>6, <1>7, <1>8, <1>9
    DEF Pair, DDS_TABLE_MODE, maxg, gmaxg, gmaxp, n, r

\* The last part of setDealMode() with a library.
LEMMA CleanUpLibrary ==
  ASSUME NEW s \in Pair, s.g.fzrdlib \in DOMAIN Records
  PROVE  LET r == CleanUp(s, "LIB")
             recs == Records[s.g.fzrdlib]
             over == s.o.max_generate > recs
             less == over /\ s.o.max_produce > recs
         IN  /\ r \in Pair
             /\ Agree(r.o, s.o, (OptsFields \cup OptsRest) \
                    {"max_generate", "max_produce", "dds_mode", "swapping"})
             /\ Agree(r.g, s.g, (GlobFields \cup GlobRest) \
                    {"maxgenerate", "maxproduce", "dds_mode", "swapping",
                     "stacked", "recnum"})
             /\ r.o.zrd_seed = s.o.zrd_seed
             /\ r.o.dds_mode = DDS_TABLE_MODE /\ r.g.dds_mode = DDS_TABLE_MODE
             /\ r.o.swapping = 0 /\ r.g.swapping = 0
             /\ r.g.stacked = NoHands
             /\ r.g.recnum = Loop!StartRecord(s.o.zrd_seed, recs)
             /\ r.o.max_generate = IF over THEN recs ELSE s.o.max_generate
             /\ r.g.maxgenerate = IF over THEN recs ELSE s.g.maxgenerate
             /\ r.g.maxproduce = IF less THEN recs ELSE s.g.maxproduce
  <1> DEFINE x == [s EXCEPT !.g.stacked = NoHands]
             r == CleanUp(s, "LIB")
             recs == Records[s.g.fzrdlib]
             over == s.o.max_generate > recs
             less == over /\ s.o.max_produce > recs
  <1>1. s.o \in OptsType /\ s.g \in GlobType
    BY DEF Pair
  <1>2. recs \in Nat
    BY OptionsAssumption
  <1>3. NoHands \in [Seats -> {"none", "cmd", "file"}]
    BY DEF NoHands
  <1>4. x.o = s.o /\ x.g = [s.g EXCEPT !.stacked = NoHands] /\ x = [o |-> x.o, g |-> x.g]
    BY DEF Pair
  <1>5. /\ x.g \in GlobType
        /\ Agree(x.g, s.g, (GlobFields \cup GlobRest) \ {"stacked"})
        /\ x.g.stacked = NoHands
    <2>1. x.g \in GlobType
      BY <1>1, <1>3, <1>4, GlobTyped
    <2>. QED BY <1>1, <1>4, <2>1 DEF GlobType, Agree, GlobFields, GlobRest
  <1>6. x \in Pair /\ x.g.fzrdlib = s.g.fzrdlib
    BY <1>1, <1>4, <1>5 DEF Pair, Agree, GlobFields, GlobRest
  <1>7. r = EnforceLibrary(x)
    BY DEF CleanUp
  <1> HIDE DEF x
  <1>8. LET q == EnforceLibrary(x)
        IN  /\ q \in Pair
            /\ Agree(q.o, x.o, (OptsFields \cup OptsRest) \
                   {"max_generate", "max_produce", "dds_mode", "swapping"})
            /\ Agree(q.g, x.g, (GlobFields \cup GlobRest) \
                   {"maxgenerate", "maxproduce", "dds_mode", "swapping", "recnum"})
            /\ q.o.zrd_seed = x.o.zrd_seed
            /\ q.o.dds_mode = DDS_TABLE_MODE /\ q.g.dds_mode = DDS_TABLE_MODE
            /\ q.o.swapping = 0 /\ q.g.swapping = 0
            /\ q.g.recnum = Loop!StartRecord(x.o.zrd_seed, recs)
            /\ q.o.max_generate = IF over THEN recs ELSE x.o.max_generate
            /\ q.g.maxgenerate = IF over THEN recs ELSE x.g.maxgenerate
            /\ q.g.maxproduce = IF less THEN recs ELSE x.g.maxproduce
    BY <1>4, <1>6, EnforceIs
  <1>9. x.g.maxgenerate = s.g.maxgenerate /\ x.g.maxproduce = s.g.maxproduce
    BY <1>5 DEF Agree, GlobFields
  <1>10. /\ Agree(r.g, s.g, (GlobFields \cup GlobRest) \
                {"maxgenerate", "maxproduce", "dds_mode", "swapping",
                 "stacked", "recnum"})
         /\ r.g.stacked = NoHands
    BY <1>5, <1>7, <1>8 DEF Agree, GlobFields, GlobRest
  <1> HIDE DEF over, less, recs, r
  <1>. QED
    BY <1>4, <1>7, <1>8, <1>9, <1>10 DEF over, less, recs, r

-----------------------------------------------------------------------------
(* finalize_options() as a whole. *)

\* finalize_options() settles limits, seed, title and double dummy mode ...
LEMMA FinalizeSettles ==
  ASSUME opts \in OptsType, glob \in GlobType, SwitchesRead, StatementsRead,
         args \in Seq(Word(Switch)), stmts \in Seq(Word(Stmt)),
         ~NoLibrary, args' = args, stmts' = stmts,
         NEW s, s = CleanUp(Discard(Merged), RunMode(Merged)),
         DealMode' = RunMode(Merged), opts' = s.o, glob' = s.g
  PROVE  opts' \in OptsType /\ glob' \in GlobType /\ Settled'
  <1> DEFINE t == Merged
             d == Discard(t)
             m == RunMode(t)
             g == Asked("g", "generate")
             p == Asked("p", "produce")
  <1>1. /\ t \in Pair
        /\ Agree(t.o, opts, OptsRest) /\ Agree(t.g, glob, GlobRest)
        /\ t.o.title = Titled
        /\ t.o.title # "none" => t.g.title = t.o.title
        /\ t.o.dds_mode = t.g.dds_mode
        /\ LastOf(args, "Z", "N") # "N" => t.o.dds_mode = DDS_TABLE_MODE
        /\ t.o.max_generate = g /\ t.g.maxgenerate = g
        /\ t.o.seed = AskedSeed /\ t.g.seed = AskedSeed /\ t.o.zrd_seed = AskedSeed
    BY MergedIs
  <1> HIDE DEF t
  <1>2. /\ d \in Pair
        /\ Agree(d.o, t.o, (OptsFields \cup OptsRest) \ {"preDeal", "swapping"})
        /\ Agree(d.g, t.g, (GlobFields \cup GlobRest) \ {"stacked", "bias_deal_wanted"})
        /\ d.o.zrd_seed = t.o.zrd_seed
    BY <1>1, DiscardIs
  <1>3. /\ m \in {"LIB", "BIAS", "PREDEAL", "SWAP", "DEF"}
        /\ m = "LIB" <=> t.o.zrdlib_mode = 1
    BY DEF RunMode
  <1>4. DealMode' = m /\ s = CleanUp(d, m)
    BY DEF t
  <1> HIDE DEF d, m
  <1>5. /\ d.o.title = Titled
        /\ d.o.title # "none" => d.g.title = d.o.title
        /\ d.o.dds_mode = d.g.dds_mode
        /\ LastOf(args, "Z", "N") # "N" => d.o.dds_mode = DDS_TABLE_MODE
        /\ d.o.max_generate = g /\ d.g.maxgenerate = g
        /\ d.o.seed = AskedSeed /\ d.g.seed = AskedSeed /\ d.o.zrd_seed = AskedSeed
    BY <1>1, <1>2 DEF Agree, OptsFields, GlobFields
  <1>6. /\ d.o.max_produce = LastOf(args, "p", 0)
        /\ d.g.maxproduce = p /\ d.g.will_print = AskedPrint
        /\ d.g.recnum = 0 /\ d.g.fzrdlib = glob.fzrdlib
        /\ t.o.zrdlib_mode = opts.zrdlib_mode
    <2>1. /\ opts.max_produce = LastOf(args, "p", 0)
          /\ glob.maxproduce = p /\ glob.will_print = AskedPrint /\ glob.recnum = 0
      BY DEF SwitchesRead, StatementsRead
    <2>2. t.o.max_produce = opts.max_produce /\ t.o.zrdlib_mode = opts.zrdlib_mode
      BY <1>1 DEF Agree, OptsRest
    <2>3. \A f \in {"maxproduce", "will_print", "recnum", "fzrdlib"} : t.g[f] = glob[f]
      BY <1>1 DEF Agree, GlobRest
    <2>4. d.o.max_produce = t.o.max_produce
      BY <1>2 DEF Agree, OptsFields
    <2>5. \A f \in {"maxproduce", "will_print", "recnum", "fzrdlib"} : d.g[f] = t.g[f]
      BY <1>2 DEF Agree, GlobFields, GlobRest
    <2>6. /\ d.g.maxproduce = glob.maxproduce /\ d.g.will_print = glob.will_print
          /\ d.g.recnum = glob.recnum /\ d.g.fzrdlib = glob.fzrdlib
      BY <2>3, <2>5
    <2>7. /\ d.o.max_produce = LastOf(args, "p", 0) /\ d.g.maxproduce = p
          /\ d.g.recnum = 0
      BY <2>1, <2>2, <2>4, <2>6
    <2>8. d.g.will_print = AskedPrint
      BY Zenon, <2>1, <2>6
    <2>. QED BY Zenon, <2>2, <2>6, <2>7, <2>8
  <1>7. /\ g \in Nat /\ p \in Nat /\ AskedSeed \in Int
        /\ LastOf(args, "p", 0) > 0 => p = LastOf(args, "p", 0)
        /\ LastOf(args, "p", 0) \in Nat
    <2>1. g \in Nat /\ p \in Nat /\ AskedSeed \in Int /\ d.o.max_produce \in Nat
      <3>1. d.o \in OptsType /\ d.g \in GlobType
        BY <1>2 DEF Pair
      <3>2. d.o.max_generate \in Nat /\ d.o.seed \in Int /\ d.o.max_produce \in Nat
        BY <3>1 DEF OptsType
      <3>3. d.g.maxproduce \in Nat
        BY <3>1 DEF GlobType
      <3>. QED BY <1>5, <1>6, <3>2, <3>3
    <2>. QED BY <1>6, <2>1 DEF Asked
  <1>8. /\ g' = g /\ p' = p /\ AskedSeed' = AskedSeed /\ Titled' = Titled
        /\ AskedPrint' = AskedPrint
    BY DEF Asked, AskedSeed, Titled, AskedTitle, AskedPrint
  <1> HIDE DEF g, p
  <1>9. CASE m = "LIB"
    <2> DEFINE recs == Records[glob.fzrdlib]
    <2>1. glob.fzrdlib \in DOMAIN Records
      BY <1>3, <1>6, <1>9 DEF NoLibrary, GlobType, Lib
    <2>2. recs \in Nat
      BY <2>1, OptionsAssumption
    <2>3. LET over == d.o.max_generate > recs
              less == over /\ d.o.max_produce > recs
          IN  /\ s \in Pair
              /\ Agree(s.o, d.o, (OptsFields \cup OptsRest) \
                     {"max_generate", "max_produce", "dds_mode", "swapping"})
              /\ Agree(s.g, d.g, (GlobFields \cup GlobRest) \
                     {"maxgenerate", "maxproduce", "dds_mode", "swapping",
                      "stacked", "recnum"})
              /\ s.o.zrd_seed = d.o.zrd_seed
              /\ s.o.dds_mode = DDS_TABLE_MODE /\ s.g.dds_mode = DDS_TABLE_MODE
              /\ s.g.recnum = Loop!StartRecord(d.o.zrd_seed, recs)
              /\ s.o.max_generate = IF over THEN recs ELSE d.o.max_generate
              /\ s.g.maxgenerate = IF over THEN recs ELSE d.g.maxgenerate
              /\ s.g.maxproduce = IF less THEN recs ELSE d.g.maxproduce
      <3>1. d.g.fzrdlib \in DOMAIN Records /\ recs = Records[d.g.fzrdlib]
        BY <1>6, <2>1
      <3>2. s = CleanUp(d, "LIB")
        BY <1>4, <1>9
      <3>3. d \in Pair /\ d.g.fzrdlib \in DOMAIN Records
        BY <1>2, <3>1
      <3> HIDE DEF recs
      <3>. QED BY ZenonT(80), <3>1, <3>2, <3>3, CleanUpLibrary
    <2>4. /\ s.o.title = d.o.title /\ s.g.title = d.g.title
          /\ s.o.seed = d.o.seed /\ s.g.seed = d.g.seed
          /\ s.g.will_print = d.g.will_print /\ s.g.fzrdlib = d.g.fzrdlib
      BY <2>3 DEF Agree, OptsFields, OptsRest, GlobFields, GlobRest
    <2>5. Library'.recs = recs
      BY <1>4, <1>6, <1>9, <2>4 DEF Library
    <2>6. /\ s.g.maxgenerate = IF g > recs THEN recs ELSE g
          /\ s.o.max_generate = s.g.maxgenerate
          /\ \/ s.g.maxproduce = p
             \/ p > recs /\ s.g.maxgenerate = recs /\ s.g.maxproduce = recs
      BY <1>5, <1>6, <1>7, <2>2, <2>3
    <2>7. s.o \in OptsType /\ s.g \in GlobType
      BY <2>3 DEF Pair
    <2> HIDE DEF recs
    <2>. QED
      BY <1>4, <1>5, <1>6, <1>8, <1>9, <2>1, <2>3, <2>4, <2>5, <2>6, <2>7
      DEF Settled, g, p
  <1>10. CASE m # "LIB"
    <2>1. /\ s \in Pair /\ s.o = d.o
          /\ Agree(s.g, d.g, (GlobFields \cup GlobRest) \ {"stacked"})
      <3>1. m \in {"DEF", "SWAP", "BIAS", "PREDEAL"}
        BY <1>3, <1>10
      <3>. QED BY <1>2, <1>4, <3>1, CleanUpPlain
    <2>2. \A f \in {"maxgenerate", "maxproduce", "title", "seed", "will_print",
                    "dds_mode", "recnum"} : s.g[f] = d.g[f]
      BY <2>1 DEF Agree, GlobFields, GlobRest
    <2>3. Library'.recs = 0
      BY <1>4, <1>10 DEF Library
    <2>4. Loop!StartRecord(AskedSeed, 0) = 0
      BY <1>7, StartRecordIs
    <2>5. s.o \in OptsType /\ s.g \in GlobType
      BY <2>1 DEF Pair
    <2>. QED
      BY <1>3, <1>4, <1>5, <1>6, <1>8, <1>10, <2>1, <2>2, <2>3, <2>4, <2>5
      DEF Settled, g, p
  <1>. QED BY <1>9, <1>10

\* ... and leaves one way of dealing.
LEMMA FinalizeChooses ==
  ASSUME opts \in OptsType, glob \in GlobType, SwitchesRead, StatementsRead,
         args \in Seq(Word(Switch)), stmts \in Seq(Word(Stmt)),
         ~NoLibrary, args' = args, stmts' = stmts,
         NEW s, s = CleanUp(Discard(Merged), RunMode(Merged)),
         DealMode' = RunMode(Merged), opts' = s.o, glob' = s.g
  PROVE  OneDealMode'
  <1> DEFINE t == Merged
             d == Discard(t)
             m == RunMode(t)
             held == {c \in Seats : s.g.stacked[c] # "none"}
             way == CASE Given("L") -> "LIB"
                      [] ~Given("L") /\ Stated("bias") -> "BIAS"
                      [] ~Given("L") /\ ~Stated("bias")
                             /\ CmdHands \cup FileHands # {} -> "PREDEAL"
                      [] OTHER -> IF LastOf(args, "x", 0) > 0 THEN "SWAP" ELSE "DEF"
  <1>1. /\ t \in Pair
        /\ Agree(t.o, opts, OptsRest) /\ Agree(t.g, glob, GlobRest)
    BY MergedIs
  <1> HIDE DEF t
  <1>2. /\ t.o.zrdlib_mode = opts.zrdlib_mode /\ t.o.preDeal = opts.preDeal
        /\ t.o.swapping = LastOf(args, "x", 0)
        /\ t.o.options_error = opts.options_error
        /\ t.g.bias_deal_wanted = Stated("bias") /\ t.g.stacked = glob.stacked
        /\ t.g.fzrdlib = glob.fzrdlib
    BY <1>1 DEF Agree, OptsRest, GlobRest, SwitchesRead, StatementsRead
  <1>3. /\ \A c \in Seats : t.o.preDeal[c] = IF c \in CmdHands THEN "cmd" ELSE "none"
        /\ \A c \in Seats : t.g.stacked[c] = IF c \in FileHands THEN "file" ELSE "none"
        /\ CmdHands \subseteq Seats /\ FileHands \subseteq Seats
        /\ CmdPredeal(t) <=> CmdHands # {}
        /\ FilePredeal(t) <=> FileHands # {}
    <2>1. /\ \A c \in Seats : t.o.preDeal[c] = IF c \in CmdHands THEN "cmd" ELSE "none"
          /\ \A c \in Seats : t.g.stacked[c] = IF c \in FileHands THEN "file" ELSE "none"
      BY <1>2 DEF SwitchesRead, StatementsRead
    <2>2. CmdHands \subseteq Seats /\ FileHands \subseteq Seats
      BY DEF CmdHands, FileHands
    <2>3. CmdPredeal(t) <=> CmdHands # {}
      BY <2>1, <2>2 DEF CmdPredeal
    <2>4. FilePredeal(t) <=> FileHands # {}
      BY <2>1, <2>2 DEF FilePredeal
    <2>. QED BY <2>1, <2>2, <2>3, <2>4
  <1>4. /\ d \in Pair
        /\ Agree(d.o, t.o, (OptsFields \cup OptsRest) \ {"preDeal", "swapping"})
        /\ Agree(d.g, t.g, (GlobFields \cup GlobRest) \ {"stacked", "bias_deal_wanted"})
        /\ m = "LIB" => d.g.bias_deal_wanted = FALSE
        /\ m \in {"LIB", "BIAS"} => d.o.preDeal = NoHands
        /\ m = "PREDEAL" =>
               d.g.stacked = IF CmdPredeal(t) /\ FilePredeal(t) THEN t.o.preDeal
                             ELSE t.g.stacked
        /\ d.o.swapping = IF \/ m \in {"LIB", "BIAS"}
                             \/ m = "PREDEAL" /\ (FilePredeal(t) \/ ~CmdPredeal(t))
                          THEN 0 ELSE t.o.swapping
    BY <1>1, DiscardIs
  <1>5. /\ m = CASE opts.zrdlib_mode = 1 -> "LIB"
                 [] opts.zrdlib_mode # 1 /\ Stated("bias") -> "BIAS"
                 [] opts.zrdlib_mode # 1 /\ ~Stated("bias")
                        /\ CmdHands \cup FileHands # {} -> "PREDEAL"
                 [] OTHER -> IF LastOf(args, "x", 0) > 0 THEN "SWAP" ELSE "DEF"
    <2>1. CmdPredeal(t) \/ FilePredeal(t) <=> CmdHands \cup FileHands # {}
      BY <1>3
    <2>. QED BY <1>2, <2>1 DEF RunMode
  <1>6. DealMode' = m /\ s = CleanUp(d, m)
    BY DEF t
  <1> HIDE DEF d, m
  <1>7. /\ m = "LIB" => Given("L") /\ glob.fzrdlib \in DOMAIN Records
        /\ opts.options_error = 0 => (opts.zrdlib_mode = 1 <=> Given("L"))
    <2>1. /\ m = "LIB" => opts.zrdlib_mode = 1
          /\ opts.zrdlib_mode = 1 => Given("L")
          /\ opts.options_error = 0 /\ Given("L") => opts.zrdlib_mode = 1
      BY <1>5 DEF SwitchesRead
    <2>2. opts.zrdlib_mode = 1 => glob.fzrdlib \in DOMAIN Records
      BY DEF NoLibrary, GlobType, Lib
    <2>. QED BY <2>1, <2>2
  <1>8. opts.options_error = 0 => m = way
    BY <1>5, <1>7
  <1>9. m = "LIB" => way = "LIB"
    BY <1>7
  <1>10. LastOf(args, "x", 0) \in Nat
    BY DEF SwitchesRead, OptsType
  <1>11. m = "DEF" => LastOf(args, "x", 0) = 0
    BY <1>5, <1>10
  <1>12. d.o.options_error = opts.options_error
    BY <1>2, <1>4 DEF Agree, OptsFields, OptsRest
  <1>13. d.g.fzrdlib = glob.fzrdlib
    BY <1>2, <1>4 DEF Agree, GlobFields, GlobRest
  <1>14. /\ m = "LIB" => /\ s.o.options_error = opts.options_error
                         /\ s.o.preDeal = NoHands /\ s.o.swapping = 0
                         /\ s.g.swapping = 0 /\ s.g.bias_deal_wanted = FALSE
                         /\ s.g.stacked = NoHands /\ s.g.fzrdlib \in DOMAIN Records
    <2> SUFFICES ASSUME m = "LIB"
                 PROVE  /\ s.o.options_error = opts.options_error
                        /\ s.o.preDeal = NoHands /\ s.o.swapping = 0
                        /\ s.g.swapping = 0 /\ s.g.bias_deal_wanted = FALSE
                        /\ s.g.stacked = NoHands /\ s.g.fzrdlib \in DOMAIN Records
      OBVIOUS
    <2>1. d.g.fzrdlib \in DOMAIN Records /\ s = CleanUp(d, "LIB")
      BY <1>6, <1>7, <1>13
    <2>2. /\ Agree(s.o, d.o, (OptsFields \cup OptsRest) \
                 {"max_generate", "max_produce", "dds_mode", "swapping"})
          /\ Agree(s.g, d.g, (GlobFields \cup GlobRest) \
                 {"maxgenerate", "maxproduce", "dds_mode", "swapping",
                  "stacked", "recnum"})
          /\ s.o.swapping = 0 /\ s.g.swapping = 0 /\ s.g.stacked = NoHands
      BY <1>4, <2>1, CleanUpLibrary
    <2>3. s.o.options_error = d.o.options_error /\ s.o.preDeal = d.o.preDeal
      BY <2>2 DEF Agree, OptsFields, OptsRest
    <2>4. s.g.bias_deal_wanted = d.g.bias_deal_wanted /\ s.g.fzrdlib = d.g.fzrdlib
      BY <2>2 DEF Agree, GlobFields, GlobRest
    <2>. QED BY <1>4, <1>12, <2>1, <2>2, <2>3, <2>4
  <1>15. m # "LIB" => /\ s.o = d.o
                      /\ s.g.stacked = IF m = "PREDEAL" THEN d.g.stacked ELSE NoHands
    <2>1. m \in {"LIB", "DEF", "SWAP", "BIAS", "PREDEAL"}
      BY DEF m, RunMode
    <2>2. m # "LIB" => m \in {"DEF", "SWAP", "BIAS", "PREDEAL"}
      BY <2>1
    <2>. QED BY <1>4, <1>6, <2>2, CleanUpPlain
  <1>16. m # "PREDEAL" => held = {}
    BY <1>14, <1>15 DEF NoHands
  <1>17. m = "PREDEAL" /\ FileHands # {} =>
             held = (IF CmdHands # {} THEN CmdHands ELSE FileHands)
    BY <1>3, <1>4, <1>15
  <1>18. m # "SWAP" /\ s.o.swapping > 0 => CmdHands # {} /\ FileHands = {}
    <2>1. m \in {"LIB", "DEF", "SWAP", "BIAS", "PREDEAL"}
      BY DEF m, RunMode
    <2>2. m = "PREDEAL" /\ s.o.swapping > 0 => CmdHands # {} /\ FileHands = {}
      BY <1>3, <1>4, <1>15
    <2>3. m \in {"LIB", "DEF", "BIAS"} => s.o.swapping = 0
      BY <1>2, <1>4, <1>11, <1>14, <1>15
    <2>. QED BY <2>1, <2>2, <2>3
  <1>19. /\ s.o.options_error = opts.options_error
         /\ m \in {"LIB", "BIAS"} => s.o.preDeal = NoHands
    BY <1>4, <1>12, <1>14, <1>15
  <1>20. CmdHands' = CmdHands /\ FileHands' = FileHands
    BY DEF CmdHands, FileHands
  <1> HIDE DEF held
  <1>. QED
    BY <1>6, <1>7, <1>8, <1>9, <1>14, <1>16, <1>17, <1>18, <1>19, <1>20
    DEF OneDealMode, held, Given, Stated

-----------------------------------------------------------------------------
(* init_runtime(). *)

\* setup_rng() and the number of threads.
LEMMA SetupIs ==
  ASSUME NEW s \in Pair
  PROVE  LET r    == SetupDdsMode(SetupRng(s))
             seed == IF s.o.seed = 0 THEN KernelSeed ELSE s.o.seed
         IN  /\ r \in Pair
             /\ Agree(r.o, s.o, (OptsFields \cup OptsRest) \ {"seed", "nThreads"})
             /\ Agree(r.g, s.g, (GlobFields \cup GlobRest) \ {"seed"})
             /\ r.o.zrd_seed = s.o.zrd_seed
             /\ r.o.seed = seed /\ r.g.seed = seed
             /\ r.o.dds_mode = DDS_TABLE_MODE => r.o.nThreads >= 2
  <1> DEFINE q    == SetupRng(s)
             r    == SetupDdsMode(q)
             seed == IF s.o.seed = 0 THEN KernelSeed ELSE s.o.seed
  <1>1. s.o \in OptsType /\ s.g \in GlobType
    BY DEF Pair
  <1>2. seed \in Int
    BY <1>1, OptionsAssumption DEF OptsType
  <1>3. /\ q.o = [s.o EXCEPT !.seed = seed] /\ q.g = [s.g EXCEPT !.seed = seed]
        /\ q = [o |-> q.o, g |-> q.g]
    BY DEF SetupRng, Pair
  <1> HIDE DEF q, seed
  <1>4. q.g \in GlobType
    BY <1>1, <1>2, <1>3 DEF GlobType
  <1>5. q.o \in OptsType
    BY <1>1, <1>2, <1>3 DEF OptsType
  <1>6. /\ Agree(q.g, s.g, (GlobFields \cup GlobRest) \ {"seed"})
        /\ q.g.seed = seed
    BY <1>1, <1>3 DEF GlobType, Agree, GlobFields, GlobRest
  <1>7. /\ Agree(q.o, s.o, (OptsFields \cup OptsRest) \ {"seed"})
        /\ q.o.seed = seed /\ q.o.zrd_seed = s.o.zrd_seed
    BY <1>1, <1>3 DEF OptsType, Agree, OptsFields, OptsRest
  <1>8. q.o.nThreads \in Int
    BY <1>5 DEF OptsType
  <1>9. CASE q.o.dds_mode = 2 /\ q.o.nThreads < 2
    <2>1. /\ r.o = [q.o EXCEPT !.nThreads = 8] /\ r.g = q.g
          /\ r = [o |-> r.o, g |-> r.g]
      BY <1>3, <1>9 DEF SetupDdsMode, TblModeThreads
    <2>2. r.o \in OptsType
      BY <1>5, <2>1 DEF OptsType
    <2>3. /\ Agree(r.o, q.o, (OptsFields \cup OptsRest) \ {"nThreads"})
          /\ r.o.nThreads = 8 /\ r.o.zrd_seed = q.o.zrd_seed
      BY <1>5, <2>1 DEF OptsType, Agree, OptsFields, OptsRest
    <2>4. /\ Agree(r.o, s.o, (OptsFields \cup OptsRest) \ {"seed", "nThreads"})
          /\ r.o.seed = seed
      BY <1>7, <2>3 DEF Agree, OptsFields
    <2>. QED BY <1>4, <1>6, <1>7, <2>1, <2>2, <2>3, <2>4 DEF Pair, seed, q
  <1>10. CASE ~(q.o.dds_mode = 2 /\ q.o.nThreads < 2)
    <2>1. r = q
      BY <1>10 DEF SetupDdsMode
    <2>2. q \in Pair
      BY <1>3, <1>4, <1>5 DEF Pair
    <2>3. q.o.dds_mode = DDS_TABLE_MODE => q.o.nThreads >= 2
      BY <1>8, <1>10 DEF DDS_TABLE_MODE
    <2>4. Agree(q.o, s.o, (OptsFields \cup OptsRest) \ {"seed", "nThreads"})
      BY <1>7 DEF Agree
    <2>. QED BY <1>6, <1>7, <2>1, <2>2, <2>3, <2>4 DEF seed, q
  <1>. QED BY <1>9, <1>10

\* The default for the deals to generate, bounded by the library.
LEMMA DefaultGenerateIs ==
  ASSUME NEW s \in Pair, DealMode = "LIB" => s.g.fzrdlib \in DOMAIN Records,
         s.o.max_generate = s.g.maxgenerate
  PROVE  LET r == DefaultGenerate(s)
             recs == Records[s.g.fzrdlib]
             maxg == IF s.g.maxgenerate # 0 THEN s.g.maxgenerate
                     ELSE IF DealMode = "LIB" /\ DefMaxGen > recs THEN recs
                     ELSE DefMaxGen
         IN  /\ r \in Pair
             /\ Agree(r.o, s.o, ((OptsFields \cup OptsRest) \ {"max_generate"})
                                    \cup {"nThreads"})
             /\ Agree(r.g, s.g, (GlobFields \cup GlobRest) \ {"maxgenerate"})
             /\ r.o.zrd_seed = s.o.zrd_seed
             /\ r.g.maxgenerate = maxg /\ r.o.max_generate = maxg /\ maxg \in Nat
  <1> DEFINE r == DefaultGenerate(s)
             recs == Records[s.g.fzrdlib]
             maxg == IF s.g.maxgenerate # 0 THEN s.g.maxgenerate
                     ELSE IF DealMode = "LIB" /\ DefMaxGen > recs THEN recs
                     ELSE DefMaxGen
  <1>1. s.o \in OptsType /\ s.g \in GlobType
    BY DEF Pair
  <1>2. maxg \in Nat
    BY <1>1, OptionsAssumption DEF GlobType
  <1>3. CASE s.g.maxgenerate # 0
    BY <1>1, <1>2, <1>3 DEF DefaultGenerate, Agree
  <1>4. CASE s.g.maxgenerate = 0
    <2>1. /\ r.o = [s.o EXCEPT !.max_generate = maxg]
          /\ r.g = [s.g EXCEPT !.maxgenerate = maxg]
          /\ r = [o |-> r.o, g |-> r.g]
      BY <1>4 DEF DefaultGenerate, Pair
    <2> HIDE DEF maxg, r
    <2>2. r.o \in OptsType
      BY <1>1, <1>2, <2>1 DEF OptsType
    <2>3. r.g \in GlobType
      BY <1>1, <1>2, <2>1 DEF GlobType
    <2>4. /\ Agree(r.o, s.o, ((OptsFields \cup OptsRest) \ {"max_generate"})
                                  \cup {"nThreads"})
          /\ r.o.zrd_seed = s.o.zrd_seed /\ r.o.max_generate = maxg
      BY <1>1, <2>1 DEF OptsType, Agree, OptsFields, OptsRest
    <2>5. /\ Agree(r.g, s.g, (GlobFields \cup GlobRest) \ {"maxgenerate"})
          /\ r.g.maxgenerate = maxg
      BY <1>1, <2>1 DEF GlobType, Agree, GlobFields, GlobRest
    <2>. QED BY <1>2, <2>1, <2>2, <2>3, <2>4, <2>5 DEF Pair, maxg, r
  <1>. QED BY <1>3, <1>4

\* The default for the deals to produce, bounded by those to generate.
LEMMA DefaultProduceIs ==
  ASSUME NEW s \in Pair
  PROVE  LET r == DefaultProduce(s)
             maxp == IF s.g.maxproduce # 0 THEN s.g.maxproduce
                     ELSE IF s.g.will_print THEN 40 ELSE s.g.maxgenerate
         IN  /\ r \in Pair /\ r.o = s.o
             /\ Agree(r.g, s.g, (GlobFields \cup GlobRest) \ {"maxproduce"})
             /\ r.g.maxproduce = IF maxp > s.g.maxgenerate THEN s.g.maxgenerate
                                 ELSE maxp
  <1> DEFINE r == DefaultProduce(s)
             maxp == IF s.g.maxproduce # 0 THEN s.g.maxproduce
                     ELSE IF s.g.will_print THEN 40 ELSE s.g.maxgenerate
             n == IF maxp > s.g.maxgenerate THEN s.g.maxgenerate ELSE maxp
  <1>1. s.o \in OptsType /\ s.g \in GlobType
    BY DEF Pair
  <1>2. n \in Nat
    BY <1>1 DEF GlobType
  <1>3. r.o = s.o /\ r.g = [s.g EXCEPT !.maxproduce = n] /\ r = [o |-> r.o, g |-> r.g]
    BY DEF DefaultProduce, Pair
  <1> HIDE DEF n, r
  <1>4. r.g \in GlobType
    BY <1>1, <1>2, <1>3 DEF GlobType
  <1>5. /\ Agree(r.g, s.g, (GlobFields \cup GlobRest) \ {"maxproduce"})
        /\ r.g.maxproduce = n
    BY <1>1, <1>3 DEF GlobType, Agree, GlobFields, GlobRest
  <1>. QED BY <1>1, <1>3, <1>4, <1>5 DEF Pair, n, r

\* What init_runtime() makes of the options and the globals.
LEMMA RuntimeIs ==
  ASSUME NEW s \in Pair, DealMode = "LIB" => s.g.fzrdlib \in DOMAIN Records,
         s.o.max_generate = s.g.maxgenerate,
         NEW u, u = DefaultProduce(DefaultGenerate(
                        IF DealMode = "LIB" THEN s ELSE SetupDdsMode(SetupRng(s))))
  PROVE  LET recs == Records[s.g.fzrdlib]
             maxg == IF s.g.maxgenerate # 0 THEN s.g.maxgenerate
                     ELSE IF DealMode = "LIB" /\ DefMaxGen > recs THEN recs
                     ELSE DefMaxGen
             maxp == IF s.g.maxproduce # 0 THEN s.g.maxproduce
                     ELSE IF s.g.will_print THEN 40 ELSE maxg
             seed == IF s.o.seed = 0 THEN KernelSeed ELSE s.o.seed
         IN  /\ u \in Pair
             /\ Agree(u.o, s.o, (OptsFields \cup OptsRest)
                                    \ {"seed", "nThreads", "max_generate"})
             /\ Agree(u.g, s.g, (GlobFields \cup GlobRest)
                                    \ {"seed", "maxgenerate", "maxproduce"})
             /\ u.o.zrd_seed = s.o.zrd_seed
             /\ DealMode # "LIB" => /\ u.o.seed = seed /\ u.g.seed = seed
                                    /\ u.o.dds_mode = DDS_TABLE_MODE
                                           => u.o.nThreads >= 2
             /\ maxg \in Nat
             /\ u.g.maxgenerate = maxg /\ u.o.max_generate = maxg
             /\ u.g.maxproduce = IF maxp > maxg THEN maxg ELSE maxp
  <1> DEFINE t    == IF DealMode = "LIB" THEN s ELSE SetupDdsMode(SetupRng(s))
             v    == DefaultGenerate(t)
             recs == Records[s.g.fzrdlib]
             maxg == IF s.g.maxgenerate # 0 THEN s.g.maxgenerate
                     ELSE IF DealMode = "LIB" /\ DefMaxGen > recs THEN recs
                     ELSE DefMaxGen
             maxp == IF s.g.maxproduce # 0 THEN s.g.maxproduce
                     ELSE IF s.g.will_print THEN 40 ELSE maxg
             seed == IF s.o.seed = 0 THEN KernelSeed ELSE s.o.seed
  <1>1. /\ t \in Pair
        /\ Agree(t.o, s.o, (OptsFields \cup OptsRest) \ {"seed", "nThreads"})
        /\ Agree(t.g, s.g, (GlobFields \cup GlobRest) \ {"seed"})
        /\ t.o.zrd_seed = s.o.zrd_seed
        /\ DealMode # "LIB" => /\ t.o.seed = seed /\ t.g.seed = seed
                               /\ t.o.dds_mode = DDS_TABLE_MODE
                                      => t.o.nThreads >= 2
    <2>1. CASE DealMode = "LIB"
      BY <2>1 DEF Agree
    <2>2. CASE DealMode # "LIB"
      BY <2>2, SetupIs
    <2>. QED BY <2>1, <2>2
  <1>2. u = DefaultProduce(v)
    OBVIOUS
  <1> HIDE DEF t, seed
  <1>3. /\ t.o.max_generate = t.g.maxgenerate
        /\ t.g.fzrdlib = s.g.fzrdlib /\ t.g.maxgenerate = s.g.maxgenerate
    <2>1. t.o.max_generate = s.o.max_generate
      BY <1>1 DEF Agree, OptsFields
    <2>2. t.g.fzrdlib = s.g.fzrdlib /\ t.g.maxgenerate = s.g.maxgenerate
      BY <1>1 DEF Agree, GlobFields, GlobRest
    <2>. QED BY <2>1, <2>2
  <1>4. /\ v \in Pair
        /\ Agree(v.o, t.o, ((OptsFields \cup OptsRest) \ {"max_generate"})
                               \cup {"nThreads"})
        /\ Agree(v.g, t.g, (GlobFields \cup GlobRest) \ {"maxgenerate"})
        /\ v.o.zrd_seed = t.o.zrd_seed
        /\ v.g.maxgenerate = maxg /\ v.o.max_generate = maxg /\ maxg \in Nat
    <2> DEFINE maxt == IF t.g.maxgenerate # 0 THEN t.g.maxgenerate
                       ELSE IF DealMode = "LIB" /\ DefMaxGen > Records[t.g.fzrdlib]
                            THEN Records[t.g.fzrdlib]
                       ELSE DefMaxGen
    <2>1. maxt = maxg
      BY <1>3
    <2>2. DealMode = "LIB" => t.g.fzrdlib \in DOMAIN Records
      BY <1>3
    <2>3. /\ v \in Pair
          /\ Agree(v.o, t.o, ((OptsFields \cup OptsRest) \ {"max_generate"})
                                 \cup {"nThreads"})
          /\ Agree(v.g, t.g, (GlobFields \cup GlobRest) \ {"maxgenerate"})
          /\ v.o.zrd_seed = t.o.zrd_seed
          /\ v.g.maxgenerate = maxt /\ v.o.max_generate = maxt /\ maxt \in Nat
      BY <1>1, <1>3, <2>2, DefaultGenerateIs
    <2> HIDE DEF maxt, maxg, v
    <2>. QED BY <2>1, <2>3
  <1> HIDE DEF v, maxg
  <1>5. v.g.maxproduce = s.g.maxproduce /\ v.g.will_print = s.g.will_print
    BY <1>1, <1>4 DEF Agree, GlobFields, GlobRest
  <1>6. /\ u \in Pair /\ u.o = v.o
        /\ Agree(u.g, v.g, (GlobFields \cup GlobRest) \ {"maxproduce"})
        /\ u.g.maxproduce = IF maxp > maxg THEN maxg ELSE maxp
    BY <1>2, <1>4, <1>5, DefaultProduceIs
  <1>7. u.g.maxgenerate = v.g.maxgenerate
    BY <1>6 DEF Agree, GlobFields
  <1>8. u.o.seed = t.o.seed /\ u.o.dds_mode = t.o.dds_mode /\ u.o.nThreads = t.o.nThreads
    BY <1>4, <1>6 DEF Agree, OptsFields, OptsRest
  <1>9. u.g.seed = t.g.seed
    BY <1>4, <1>6 DEF Agree, GlobFields, GlobRest
  <1>10. Agree(u.o, s.o, (OptsFields \cup OptsRest) \ {"seed", "nThreads", "max_generate"})
    BY <1>1, <1>4, <1>6 DEF Agree
  <1>11. Agree(u.g, s.g, (GlobFields \cup GlobRest) \ {"seed", "maxgenerate", "maxproduce"})
    BY <1>1, <1>4, <1>6 DEF Agree
  <1> HIDE DEF maxp
  <1>12. DealMode # "LIB" => /\ u.o.seed = seed /\ u.g.seed = seed
                             /\ u.o.dds_mode = DDS_TABLE_MODE => u.o.nThreads >= 2
    BY <1>1, <1>8, <1>9
  <1>. QED
    BY <1>1, <1>4, <1>6, <1>7, <1>10, <1>11, <1>12 DEF maxg, maxp, seed

\* init_runtime() starts the main loop from what was asked.
LEMMA RuntimeStarts ==
  ASSUME TypeOK, pc = "init", Settled, OneDealMode, InitRuntime
  PROVE  /\ opts' \in OptsType /\ glob' \in GlobType
         /\ StartsTheLoop' /\ Precedence' /\ OneDealMode'
  <1> DEFINE s    == [o |-> opts, g |-> glob]
             lib  == DealMode = "LIB"
             recs == Library.recs
             g    == Asked("g", "generate")
             p    == Asked("p", "produce")
             maxg == IF glob.maxgenerate # 0 THEN glob.maxgenerate
                     ELSE IF lib /\ DefMaxGen > recs THEN recs ELSE DefMaxGen
             maxp == IF glob.maxproduce # 0 THEN glob.maxproduce
                     ELSE IF glob.will_print THEN 40 ELSE maxg
             seed == IF opts.seed = 0 THEN KernelSeed ELSE opts.seed
  <1>1. /\ opts \in OptsType /\ glob \in GlobType /\ s \in Pair
        /\ s.o = opts /\ s.g = glob
        /\ args \in Seq(Word(Switch)) /\ stmts \in Seq(Word(Stmt))
    BY DEF TypeOK, Pair
  <1>2. /\ lib => glob.fzrdlib \in DOMAIN Records
        /\ glob.maxgenerate = IF lib /\ g > recs THEN recs ELSE g
        /\ opts.max_generate = glob.maxgenerate
        /\ glob.maxproduce = p \/ (lib /\ p > recs /\ glob.maxgenerate = recs
                                       /\ glob.maxproduce = recs)
        /\ opts.seed = AskedSeed /\ glob.seed = AskedSeed
        /\ opts.zrd_seed = AskedSeed
        /\ glob.recnum = Loop!StartRecord(AskedSeed, recs)
        /\ opts.title = Titled
        /\ opts.title # "none" => glob.title = opts.title
        /\ opts.dds_mode = glob.dds_mode
        /\ lib \/ LastOf(args, "Z", "N") # "N" => opts.dds_mode = DDS_TABLE_MODE
        /\ glob.will_print = AskedPrint
    BY DEF Settled
  <1>3. /\ recs = IF lib THEN Records[glob.fzrdlib] ELSE 0
        /\ recs \in Nat
    BY <1>2, OptionsAssumption DEF Library
  <1>4. UNCHANGED <<DealMode, args, stmts>> /\ pc' = "run"
    BY DEF InitRuntime
  <1>5. /\ opts' \in OptsType /\ glob' \in GlobType
        /\ Agree(opts', opts, (OptsFields \cup OptsRest)
                                  \ {"seed", "nThreads", "max_generate"})
        /\ Agree(glob', glob, (GlobFields \cup GlobRest)
                                  \ {"seed", "maxgenerate", "maxproduce"})
        /\ opts'.zrd_seed = opts.zrd_seed
        /\ ~lib => /\ opts'.seed = seed /\ glob'.seed = seed
                   /\ opts'.dds_mode = DDS_TABLE_MODE => opts'.nThreads >= 2
        /\ maxg \in Nat /\ glob'.maxgenerate = maxg /\ opts'.max_generate = maxg
        /\ glob'.maxproduce = IF maxp > maxg THEN maxg ELSE maxp
    <2> DEFINE u == DefaultProduce(DefaultGenerate(
                        IF DealMode = "LIB" THEN s ELSE SetupDdsMode(SetupRng(s))))
    <2>1. opts' = u.o /\ glob' = u.g
      BY DEF InitRuntime
    <2>2. s.o.max_generate = s.g.maxgenerate
      BY <1>2
    <2>3. DealMode = "LIB" => s.g.fzrdlib \in DOMAIN Records
      BY <1>2
    <2> DEFINE rs == Records[s.g.fzrdlib]
               mg == IF s.g.maxgenerate # 0 THEN s.g.maxgenerate
                     ELSE IF DealMode = "LIB" /\ DefMaxGen > rs THEN rs
                     ELSE DefMaxGen
               mp == IF s.g.maxproduce # 0 THEN s.g.maxproduce
                     ELSE IF s.g.will_print THEN 40 ELSE mg
               sd == IF s.o.seed = 0 THEN KernelSeed ELSE s.o.seed
    <2>4. mg = maxg /\ mp = maxp /\ sd = seed
      BY <1>3
    <2> HIDE DEF u
    <2>5. /\ u \in Pair
          /\ Agree(u.o, s.o, (OptsFields \cup OptsRest)
                                 \ {"seed", "nThreads", "max_generate"})
          /\ Agree(u.g, s.g, (GlobFields \cup GlobRest)
                                 \ {"seed", "maxgenerate", "maxproduce"})
          /\ u.o.zrd_seed = s.o.zrd_seed
          /\ DealMode # "LIB" => /\ u.o.seed = sd /\ u.g.seed = sd
                                 /\ u.o.dds_mode = DDS_TABLE_MODE
                                        => u.o.nThreads >= 2
          /\ mg \in Nat
          /\ u.g.maxgenerate = mg /\ u.o.max_generate = mg
          /\ u.g.maxproduce = IF mp > mg THEN mg ELSE mp
      BY <1>1, <2>2, <2>3, RuntimeIs DEF u
    <2> HIDE DEF mg, mp, sd, maxg, maxp, seed
    <2>6. opts' \in OptsType /\ glob' \in GlobType
      BY <2>1, <2>5 DEF Pair
    <2>. QED BY <1>1, <2>1, <2>4, <2>5, <2>6
  <1>6. /\ glob.maxgenerate \in Nat /\ glob.maxproduce \in Nat
        /\ glob.will_print \in BOOLEAN
    BY <1>1 DEF GlobType
  <1>7. g \in Numbers /\ p \in Numbers /\ g \in Nat /\ p \in Nat
    <2>1. ASSUME NEW opt \in {"g", "p"}, NEW key \in {"generate", "produce"}
          PROVE  Asked(opt, key) \in {0} \cup Asks(Switch, opt) \cup Asks(Stmt, key)
      <3>1. LastOf(args, opt, 0) \in {0} \cup Asks(Switch, opt)
        BY <1>1, LastIsAsked
      <3>2. FirstNonZero(stmts, key) \in {0} \cup Asks(Stmt, key)
        BY <1>1, FirstIsAsked
      <3>. QED BY <3>1, <3>2 DEF Asked
    <2>2. g \in {0} \cup Asks(Switch, "g") \cup Asks(Stmt, "generate")
      BY <2>1
    <2>3. p \in {0} \cup Asks(Switch, "p") \cup Asks(Stmt, "produce")
      BY <2>1
    <2> HIDE DEF g, p
    <2>4. g \in Numbers /\ p \in Numbers
      BY <2>2, <2>3 DEF Numbers
    <2>5. Numbers \subseteq Nat
      BY OptionsAssumption DEF Numbers
    <2>. QED BY <2>4, <2>5
  <1>8. /\ maxg = Loop!MaxGenerate(g, lib, recs)
        /\ (IF maxp > maxg THEN maxg ELSE maxp)
               = Loop!MaxProduce(p, glob.will_print, maxg)
    \* Bounding what is asked by the library first and taking defaults after
    \* gives the limits of DealLoop.
    <2> DEFINE g0 == glob.maxgenerate
               p0 == glob.maxproduce
    <2>a. /\ g \in Nat /\ p \in Nat /\ recs \in Nat /\ g0 \in Nat /\ p0 \in Nat
          /\ g0 = IF lib /\ g > recs THEN recs ELSE g
      BY <1>2, <1>3, <1>6, <1>7
    <2>b. p0 = p \/ (lib /\ p > recs /\ g0 = recs /\ p0 = recs)
      BY <1>2
    <2>c. /\ maxg = IF g0 # 0 THEN g0
                    ELSE IF lib /\ DefMaxGen > recs THEN recs ELSE DefMaxGen
          /\ maxp = IF p0 # 0 THEN p0 ELSE IF glob.will_print THEN 40 ELSE maxg
      OBVIOUS
    <2> HIDE DEF g, p, recs, lib, g0, p0, maxg, maxp
    <2>1. DefMaxGen \in Nat \ {0}
      BY OptionsAssumption
    <2>2. maxg = Loop!MaxGenerate(g, lib, recs)
      <3>1. CASE lib
        BY <2>1, <2>a, <2>c, <3>1 DEF Loop!MaxGenerate, Loop!Lesser
      <3>2. CASE ~lib
        BY <2>1, <2>a, <2>c, <3>2 DEF Loop!MaxGenerate, Loop!Lesser
      <3>. QED BY <3>1, <3>2
    <2>3. maxg \in Nat /\ maxp \in Nat
      BY <2>1, <2>a, <2>c
    <2> DEFINE least == IF maxp > maxg THEN maxg ELSE maxp
               want  == IF p > 0 THEN p ELSE IF glob.will_print THEN 40 ELSE maxg
    <2>4. \A m, n \in Nat : (IF m > n THEN n ELSE m) = Loop!Lesser(m, n)
      BY DEF Loop!Lesser
    <2>5. want \in Nat /\ Loop!MaxProduce(p, glob.will_print, maxg) = Loop!Lesser(want, maxg)
      BY <2>3, <2>a DEF Loop!MaxProduce
    <2>6. CASE p0 = p
      <3>1. p0 # 0 <=> p > 0
        BY <2>6, <2>a
      <3>2. maxp = want
        BY <2>6, <2>c, <3>1
      <3> HIDE DEF want
      <3>3. (IF want > maxg THEN maxg ELSE want) = Loop!Lesser(want, maxg)
        BY <2>3, <2>4, <2>5
      <3>. QED BY <2>2, <2>5, <3>2, <3>3
    <2>7. CASE lib /\ p > recs /\ g0 = recs /\ p0 = recs
      <3>1. CASE recs = 0
        <4>1. maxg = 0
          BY <2>1, <2>7, <2>a, <2>c, <3>1
        <4>2. \A m \in Nat : (IF m > 0 THEN 0 ELSE m) = 0 /\ Loop!Lesser(m, 0) = 0
          BY DEF Loop!Lesser
        <4>. QED BY <2>2, <2>3, <2>5, <4>1, <4>2
      <3>2. CASE recs # 0
        <4>1. maxg = recs /\ maxp = recs
          BY <2>7, <2>c, <3>2
        <4>2. want = p /\ p >= recs
          <5>1. p > 0 /\ p >= recs
            BY <2>7, <2>a
          <5>. QED BY <5>1
        <4>3. \A m \in Nat, n \in Nat : n >= m =>
                 (IF m > m THEN m ELSE m) = m /\ Loop!Lesser(n, m) = m
          BY DEF Loop!Lesser
        <4>. QED BY <2>2, <2>5, <2>a, <4>1, <4>2, <4>3
      <3>. QED BY <3>1, <3>2
    <2>. QED BY <2>6, <2>7, <2>b
  <1> HIDE DEF maxg, maxp, seed, g, p, recs
  <1>9. /\ opts'.title = opts.title /\ opts'.dds_mode = opts.dds_mode
        /\ opts'.swapping = opts.swapping /\ opts'.preDeal = opts.preDeal
        /\ opts'.options_error = opts.options_error
    BY <1>5 DEF Agree, OptsFields, OptsRest
  <1>10. /\ glob'.fzrdlib = glob.fzrdlib /\ glob'.recnum = glob.recnum
         /\ glob'.title = glob.title /\ glob'.dds_mode = glob.dds_mode
         /\ glob'.swapping = glob.swapping /\ glob'.stacked = glob.stacked
         /\ glob'.bias_deal_wanted = glob.bias_deal_wanted
    BY <1>5 DEF Agree, GlobFields, GlobRest
  <1>11. Library' = Library /\ Mode' = Mode
    BY <1>4, <1>10 DEF Library, Mode
  <1>12. /\ Asked("g", "generate")' = g /\ Asked("p", "produce")' = p
         /\ AskedPrint' = AskedPrint /\ AskedSeed' = AskedSeed
         /\ Given("L")' = Given("L") /\ Stated("bias")' = Stated("bias")
         /\ CmdHands' = CmdHands /\ FileHands' = FileHands
         /\ Titled' = Titled
    BY <1>4 DEF g, p, Asked, AskedPrint, AskedSeed, AskedTitle, Given, Stated,
                CmdHands, FileHands, Titled
  <1>13. StartsTheLoop'
    <2>1. /\ Mode' \in {"library", "bias", "random"}
          /\ Mode' = "library" <=> lib
      BY <1>11 DEF Mode
    <2>2. Library' \in IF Mode' = "library"
                       THEN {[recs |-> Records[f], hdrs |-> {}] : f \in DOMAIN Records}
                       ELSE {Loop!NoFile}
      <3>1. CASE lib
        <4>1. Library = [recs |-> Records[glob.fzrdlib], hdrs |-> {}]
          BY <3>1 DEF Library
        <4>. QED BY <1>2, <1>11, <2>1, <3>1, <4>1
      <3>2. CASE ~lib
        BY <1>11, <2>1, <3>2 DEF Library, Loop!NoFile
      <3>. QED BY <3>1, <3>2
    <2>3. Library'.recs = recs
      BY <1>11 DEF recs
    <2>4. /\ opts'.zrd_seed \in Int
          /\ glob'.recnum = Loop!StartRecord(opts'.zrd_seed, Library'.recs)
      <3>1. opts'.zrd_seed \in Int
        BY <1>5 DEF OptsType
      <3>. QED BY <1>2, <1>5, <1>10, <2>3, <3>1
    <2>5. glob'.maxgenerate = Loop!MaxGenerate(g, Mode' = "library", Library'.recs)
      <3>1. glob'.maxgenerate = Loop!MaxGenerate(g, lib, recs)
        BY <1>5, <1>8
      <3>2. CASE lib
        BY <2>1, <2>3, <3>1, <3>2 DEF Loop!MaxGenerate
      <3>3. CASE ~lib
        BY <2>1, <2>3, <3>1, <3>3 DEF Loop!MaxGenerate
      <3>. QED BY <3>2, <3>3
    <2>6. glob'.maxproduce = Loop!MaxProduce(p, glob.will_print, glob'.maxgenerate)
      BY <1>5, <1>8
    <2>7. Loop!Init'
      BY <1>6, <1>7, <2>1, <2>2, <2>4, <2>5, <2>6 DEF Loop!Init
    <2>8. glob'.maxgenerate = Loop!MaxGenerate(Asked("g", "generate")',
                                  DealMode' = "LIB", Library'.recs)
      BY <1>4, <1>5, <1>8, <1>12, <2>3
    <2>9. glob'.maxproduce = Loop!MaxProduce(Asked("p", "produce")', AskedPrint',
                                 glob'.maxgenerate)
      BY <1>2, <1>12, <2>6
    <2>10. opts'.max_generate = glob'.maxgenerate
      BY <1>5
    <2>. QED BY <2>7, <2>8, <2>9, <2>10 DEF StartsTheLoop
  <1>14. Precedence'
    <2>1. IF DealMode' = "LIB" THEN opts'.zrd_seed = AskedSeed'
          ELSE /\ glob'.seed = IF AskedSeed' = 0 THEN KernelSeed ELSE AskedSeed'
               /\ opts'.seed = glob'.seed
      BY <1>2, <1>4, <1>5, <1>12 DEF seed
    <2>2. /\ opts'.title = Titled'
          /\ opts'.title # "none" => glob'.title = opts'.title
          /\ opts'.dds_mode = glob'.dds_mode
      BY <1>2, <1>9, <1>10, <1>12
    <2>3. /\ (DealMode' = "LIB" \/ LastOf(args', "Z", "N") # "N") =>
                 opts'.dds_mode = DDS_TABLE_MODE
          /\ opts'.dds_mode = DDS_TABLE_MODE /\ DealMode' # "LIB"
                 => opts'.nThreads >= 2
      BY <1>2, <1>4, <1>5, <1>9
    <2>. QED BY <2>1, <2>2, <2>3 DEF Precedence, Titled
  <1>15. OneDealMode'
    BY <1>4, <1>9, <1>10, <1>12 DEF OneDealMode
  <1>. QED BY <1>5, <1>13, <1>14, <1>15

-----------------------------------------------------------------------------
(* The theorems. *)

\* Nothing is read yet.
LEMMA InitInv == Init => Inv
  <1> SUFFICES ASSUME Init PROVE Inv
    OBVIOUS
  <1>1. /\ pc = "args" /\ DealMode = "none" /\ args = << >> /\ stmts = << >>
    BY DEF Init
  <1>2. opts \in OptsType
    BY DEF Init, OptsType, NoHands, Title, Opener, Seats
  <1>3. glob \in GlobType
    BY DEF Init, GlobType, NoHands, Title, Opener, Seats, Lib
  <1>4. TypeOK
    BY <1>1, <1>2, <1>3 DEF TypeOK
  <1>5. CmdHands = {}
    BY <1>1 DEF CmdHands
  <1>6. ~Given("s") /\ ~Given("Z") /\ ~Given("L")
    BY <1>1, NothingRead DEF Given
  <1>7. SwitchesRead
    <2>1. \A n, d : LastOf(args, n, d) = d
      BY <1>1, NothingRead
    <2>2. \A c \in Seats : opts.preDeal[c] = IF c \in CmdHands THEN "cmd" ELSE "none"
      BY <1>5 DEF Init, NoHands
    <2>3. /\ opts.max_generate = 0 /\ opts.max_produce = 0 /\ opts.seed = 0
          /\ opts.seed_provided = -1 /\ opts.title = "none" /\ opts.swapping = 0
          /\ opts.dds_mode = glob.dds_mode /\ opts.zrd_wanted = FALSE
          /\ opts.zrd_dds = FALSE /\ opts.zrdlib_mode = 0
      BY DEF Init
    <2>4. opts.zrd_dds = (LastOf(args, "Z", "N") # "N")
      BY <2>1, <2>3
    <2>5. opts.zrd_wanted = Given("Z")
      <3>1. Given("Z") = FALSE
        BY <1>1, NothingRead DEF Given
      <3>. QED BY <2>3, <3>1
    <2>. QED BY <1>6, <2>1, <2>2, <2>3, <2>4, <2>5 DEF SwitchesRead
  <1>8. GlobArgs
    BY <1>1, <1>6, NothingRead DEF Init, GlobArgs
  <1>. QED
    BY <1>1, <1>4, <1>7, <1>8
    DEF Inv, AsRead, StartsTheLoop, Precedence, OneDealMode

\* The invariant is inductive: one case for each action.
LEMMA StepInv == Inv /\ [Next]_vars => Inv'
  <1> SUFFICES ASSUME Inv, [Next]_vars PROVE Inv'
    OBVIOUS
  <1>1. TypeOK /\ AsRead
    BY DEF Inv
  <1>2. ASSUME pc' \notin {"init", "run"}
        PROVE  /\ pc' = "init" => Settled'
               /\ StartsTheLoop' /\ Precedence' /\ OneDealMode'
    BY <1>2 DEF StartsTheLoop, Precedence, OneDealMode
  <1>3. CASE GetOption
    <2> DEFINE Reads(w) ==
                 \/ OptGenerate(w) \/ OptProduce(w) \/ OptSeed(w)
                 \/ OptVerbose(w) \/ OptSwapping(w) \/ OptHelp(w)
                 \/ OptInvalid(w) \/ OptFile(w) \/ OptZrd(w)
                 \/ OptLibrary(w) \/ OptDdsMode(w) \/ OptOpener(w)
                 \/ OptParVul(w) \/ OptThreads(w) \/ OptTitle(w)
                 \/ OptPredeal(w) \/ OptScript(w)
    <2>0. PICK o \in DOMAIN Switch : \E v \in Switch[o] :
             LET w == [name |-> o, val |-> v]
             IN  /\ args' = Append(args, w)
                 /\ \/ Reads(w) /\ pc' = IF SeedOverflow(w) THEN "exit" ELSE pc
                    \/ w.name = "V" /\ Fail(3) /\ pc' = "exit"
      BY <1>3 DEF GetOption
    <2>1. PICK v \in Switch[o] :
             LET w == [name |-> o, val |-> v]
             IN  /\ args' = Append(args, w)
                 /\ \/ Reads(w) /\ pc' = IF SeedOverflow(w) THEN "exit" ELSE pc
                    \/ w.name = "V" /\ Fail(3) /\ pc' = "exit"
      BY <2>0
    <2> DEFINE sw == [name |-> o, val |-> v]
    <2>2. pc = "args" /\ UNCHANGED <<DealMode, stmts>>
      BY <1>3 DEF GetOption
    <2>3. sw \in Word(Switch)
      BY DEF Word
    <2>4. args' \in Seq(Word(Switch))
      BY <1>1, <2>1, <2>3, OneMore DEF TypeOK
    <2>5. Reading /\ stmts = << >>
      BY <1>1, <2>2 DEF TypeOK, AsRead, Reading
    <2>6. CASE sw.name = "V" /\ Fail(3) /\ pc' = "exit"
      <3>1. opts' = [opts EXCEPT !.options_error = 3] /\ glob' = glob
        BY <2>6 DEF Fail
      <3>2. opts' \in OptsType
        <4>1. 3 \in Int
          OBVIOUS
        <4>. QED BY <2>5, <3>1, <4>1, OptsUpdates, Zenon DEF Reading
      <3>4. glob' \in GlobType
        BY <2>5, <3>1 DEF Reading
      <3>3. TypeOK'
        BY <1>1, <2>2, <2>4, <2>6, <3>2, <3>4 DEF TypeOK
      <3>. QED BY <1>2, <2>6, <3>3 DEF Inv, AsRead
    <2>7. CASE ~(sw.name = "V" /\ Fail(3) /\ pc' = "exit")
      <3>1. pc' \in {"args", "exit"}
        BY <2>1, <2>2, <2>7
      <3>2. Reading'
        BY <1>1, <2>1, <2>5, <2>7, SwitchKeeps DEF TypeOK
      <3>3. TypeOK'
        BY <1>1, <2>2, <2>4, <3>1, <3>2 DEF TypeOK, Reading
      <3>4. AsRead'
        BY <2>2, <2>5, <3>1, <3>2 DEF AsRead, Reading
      <3>. QED BY <1>2, <2>2, <3>1, <3>3, <3>4 DEF Inv
    <2>. QED BY <2>6, <2>7
  <1>4. CASE OptionsRead
    <2>1. /\ pc = "args" /\ pc' \in {"exit", "file"}
          /\ UNCHANGED <<opts, glob, DealMode, args, stmts>>
      BY <1>4 DEF OptionsRead
    <2>2. TypeOK'
      BY <1>1, <2>1 DEF TypeOK
    <2>3. SwitchesRead /\ GlobArgs /\ stmts = << >>
      BY <1>1, <2>1 DEF AsRead
    <2>4. StatementsRead
      BY <1>1, <2>3, NothingStated DEF TypeOK
    <2>5. SwitchesRead' /\ StatementsRead'
      BY <2>1, <2>3, <2>4
      DEF SwitchesRead, StatementsRead, Given, Stated, Asked, CmdHands, FileHands,
          AskedPrint
    <2>6. AsRead'
      BY <2>1, <2>5 DEF AsRead
    <2>. QED BY <1>2, <2>1, <2>2, <2>6 DEF Inv
  <1>5. CASE ParseStatement
    <2>0. PICK k \in DOMAIN Stmt : \E v \in Stmt[k] :
             /\ stmts' = Append(stmts, [name |-> k, val |-> v])
             /\ Statement([name |-> k, val |-> v])
      BY <1>5 DEF ParseStatement
    <2>1. PICK v \in Stmt[k] :
             /\ stmts' = Append(stmts, [name |-> k, val |-> v])
             /\ Statement([name |-> k, val |-> v])
      BY <2>0
    <2>2. pc = "file" /\ UNCHANGED <<pc, opts, DealMode, args>>
      BY <1>5 DEF ParseStatement
    <2>3. [name |-> k, val |-> v] \in Word(Stmt)
      BY DEF Word
    <2>4. stmts' \in Seq(Word(Stmt))
      BY <1>1, <2>1, <2>3, OneMore DEF TypeOK
    <2>5. SwitchesRead /\ StatementsRead
      BY <1>1, <2>2 DEF AsRead
    <2>6. glob' \in GlobType /\ SwitchesRead' /\ StatementsRead'
      BY <1>1, <2>1, <2>2, <2>5, StatementKeeps DEF TypeOK
    <2>7. TypeOK'
      BY <1>1, <2>2, <2>4, <2>6 DEF TypeOK
    <2>8. AsRead'
      BY <2>2, <2>6 DEF AsRead
    <2>. QED BY <1>2, <2>2, <2>7, <2>8 DEF Inv
  <1>6. CASE ParseEnds
    <2>1. /\ pc = "file" /\ pc' = "final"
          /\ UNCHANGED <<opts, glob, DealMode, args, stmts>>
      BY <1>6 DEF ParseEnds
    <2>2. TypeOK'
      BY <1>1, <2>1 DEF TypeOK
    <2>3. SwitchesRead /\ StatementsRead
      BY <1>1, <2>1 DEF AsRead
    <2>4. SwitchesRead' /\ StatementsRead'
      BY <2>1, <2>3
      DEF SwitchesRead, StatementsRead, Given, Stated, Asked, CmdHands, FileHands,
          AskedPrint
    <2>5. AsRead'
      BY <2>1, <2>4 DEF AsRead
    <2>. QED BY <1>2, <2>1, <2>2, <2>5 DEF Inv
  <1>7. CASE FinalizeOptions
    <2> DEFINE m == RunMode(Merged)
               s == CleanUp(Discard(Merged), m)
    <2>1. /\ pc = "final" /\ pc' = "init" /\ ~NoLibrary
          /\ DealMode' = m /\ opts' = s.o /\ glob' = s.g
          /\ args' = args /\ stmts' = stmts
      BY <1>7 DEF FinalizeOptions
    <2>2. SwitchesRead /\ StatementsRead
      BY <1>1, <2>1 DEF AsRead
    <2>3. /\ opts \in OptsType /\ glob \in GlobType
          /\ args \in Seq(Word(Switch)) /\ stmts \in Seq(Word(Stmt))
      BY <1>1 DEF TypeOK
    <2>4. opts' \in OptsType /\ glob' \in GlobType /\ Settled'
      BY <2>1, <2>2, <2>3, FinalizeSettles
    <2>5. OneDealMode'
      BY <2>1, <2>2, <2>3, FinalizeChooses
    <2>6. DealMode' \in {"LIB", "BIAS", "PREDEAL", "SWAP", "DEF"}
      BY <2>4 DEF Settled
    <2> HIDE DEF s, m
    <2>7. TypeOK'
      BY <2>1, <2>3, <2>4, <2>6 DEF TypeOK
    <2>. QED BY <2>1, <2>4, <2>5, <2>7 DEF Inv, AsRead, StartsTheLoop, Precedence
  <1>8. CASE FinalizeCrashes
    <2>1. /\ pc' = "crash" /\ UNCHANGED <<opts, glob, DealMode, args, stmts>>
      BY <1>8 DEF FinalizeCrashes
    <2>2. TypeOK'
      BY <1>1, <2>1 DEF TypeOK
    <2>. QED BY <1>2, <2>1, <2>2 DEF Inv, AsRead
  <1>9. CASE InitRuntime
    <2>1. pc = "init" /\ pc' = "run" /\ UNCHANGED <<DealMode, args, stmts>>
      BY <1>9 DEF InitRuntime
    <2>2. Settled /\ OneDealMode
      BY <2>1 DEF Inv
    <2>3. /\ opts' \in OptsType /\ glob' \in GlobType
          /\ StartsTheLoop' /\ Precedence' /\ OneDealMode'
      BY <1>1, <1>9, <2>1, <2>2, RuntimeStarts
    <2>4. TypeOK'
      BY <1>1, <2>1, <2>3 DEF TypeOK
    <2>. QED BY <2>1, <2>3, <2>4 DEF Inv, AsRead
  <1>10. CASE UNCHANGED vars
    <2>1. UNCHANGED <<Library, Mode, CmdHands, FileHands>>
      BY <1>10 DEF vars, Library, Mode, CmdHands, FileHands
    <2>2. TypeOK'
      BY <1>1, <1>10 DEF TypeOK, vars
    <2>3. AsRead'
      BY <1>1, <1>10, <2>1
      DEF vars, AsRead, SwitchesRead, StatementsRead, GlobArgs, Given, Stated,
          Asked,
          AskedPrint
    <2>4. pc' = "init" => Settled'
      BY <1>10, <2>1
      DEF Inv, vars, Settled, Asked, AskedSeed, Titled, AskedTitle, AskedPrint
    <2>5. StartsTheLoop'
      BY <1>10, <2>1 DEF Inv, vars, StartsTheLoop, Asked, AskedPrint, Loop!Init
    <2>6. Precedence'
      BY <1>10, <2>1 DEF Inv, vars, Precedence, AskedSeed, AskedTitle
    <2>7. OneDealMode'
      BY <1>10, <2>1 DEF Inv, vars, OneDealMode, Given, Stated
    <2>. QED BY <2>2, <2>3, <2>4, <2>5, <2>6, <2>7 DEF Inv
  <1>. QED BY <1>3, <1>4, <1>5, <1>6, <1>7, <1>8, <1>9, <1>10 DEF Next

\* The options and the globals are, at every moment, what the switches and the
\* statements read so far ask for, for command lines and files of any length.
THEOREM Invariance == Spec => []Inv
  BY InitInv, StepInv, PTL DEF Spec

\* The main loop starts in a state of DealLoop, with the limits asked for.
THEOREM LoopStarted == Spec => []StartsTheLoop
  <1>1. Inv => StartsTheLoop
    BY DEF Inv
  <1>. QED BY <1>1, Invariance, PTL

\* Seed, title and double dummy mode: the command line before the input file.
THEOREM CommandLineFirst == Spec => []Precedence
  <1>1. Inv => Precedence
    BY DEF Inv
  <1>. QED BY <1>1, Invariance, PTL

\* One way of dealing is in effect, and nothing is left of the others.
THEOREM OneMode == Spec => []OneDealMode
  <1>1. Inv => OneDealMode
    BY DEF Inv
  <1>. QED BY <1>1, Invariance, PTL
=============================================================================
