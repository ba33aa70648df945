------------------------------ MODULE Options ------------------------------
(***************************************************************************)
(* What a run is asked for, and what it does: get_options() reads the      *)
(* command line into the option record and some globals, the scanner sets  *)
(* globals from the input file, finalize_options() merges the two and      *)
(* setDealMode() chooses one way of dealing, init_runtime() sets limits.   *)
(*                                                                         *)
(* A switch is a letter ("invalid" for others, "script" for the digits)    *)
(* and a value, a statement a keyword and a value; a file to open is a     *)
(* name, present or not; a hand to predeal is only where it was asked for. *)
(* "none" is an absent title or file.                                      *)
(***************************************************************************)
EXTENDS Integers, Sequences, SequencesExt

CONSTANTS
    Switch,         \* switch -> values it may have on the command line
    Stmt,           \* keyword -> values it may have in the input file
    MaxSwitches, MaxStmts, MaxInput,    \* bounds on their number
    LongEnds,       \* LONG_MIN and LONG_MAX: a seed atol() could not hold
    Records,        \* library file -> number of records, for those present
    KernelSeed,     \* what SRANDOM(0) gets from the kernel
    DefMaxGen       \* deals to generate when nothing is asked (10000000)

Asks(input, name) == IF name \in DOMAIN input THEN input[name] ELSE {}

Seats == 0 .. 3
CompassName == {"north", "east", "south", "west"}
VulName == {"none", "both", "ns", "ew", "all"}

\* Numbers to generate or produce are not negative; the other values are of the
\* kind their switch or statement takes.
ASSUME OptionsAssumption ==
    /\ \A n \in {"g", "p", "x"} : Asks(Switch, n) \subseteq Nat
    /\ \A n \in {"s", "R"} : Asks(Switch, n) \subseteq Int
    /\ \A n \in {"N", "E", "S", "W"} : Asks(Switch, n) \subseteq Seats
    /\ \A n \in {"generate", "produce"} : Asks(Stmt, n) \subseteq Nat
    /\ \A n \in {"seed", "startboard"} : Asks(Stmt, n) \subseteq Int
    /\ \A n \in {"opener", "dealer", "predeal"} :
           Asks(Stmt, n) \subseteq CompassName
    /\ Asks(Stmt, "vulnerable") \subseteq VulName
    /\ "none" \notin Asks(Switch, "T") \cup Asks(Stmt, "title")
    /\ "none" \notin DOMAIN Records
    /\ \A file \in DOMAIN Records : Records[file] \in Nat
    /\ LongEnds \subseteq Int
    /\ KernelSeed \in Int /\ DefMaxGen \in Nat \ {0}

VARIABLES
    pc,             \* "args", "file", "final", "init", "run", "exit", "crash"
    opts,           \* struct options_st
    glob,           \* the globals get_options(), flex and yacc set
    DealMode,
    args, stmts     \* history: the switches and statements read

vars == <<pc, opts, glob, DealMode, args, stmts>>

FATAL_OPTS_ERR == -10
DDS_TABLE_MODE == 2
TblModeThreads == 8

NoHands == [s \in Seats |-> "none"]

\* init_globals() and the start of get_options(); title_len is -1 while title
\* is "none".
Init ==
    /\ pc = "args" /\ DealMode = "none"
    /\ args = <<>> /\ stmts = <<>>
    /\ opts = [max_generate |-> 0, max_produce |-> 0, seed |-> 0,
               seed_provided |-> -1, zrd_seed |-> 0, title |-> "none",
               opener |-> 3, dds_mode |-> 1, nThreads |-> 1, swapping |-> 0,
               par_vuln |-> 0, preDeal |-> NoHands, zrdlib_mode |-> 0,
               zrd_wanted |-> FALSE, zrd_dds |-> FALSE, verbose |-> TRUE,
               options_error |-> 0]
    /\ glob = [maxgenerate |-> 0, maxproduce |-> 0, seed |-> 0,
               seed_provided |-> -1, title |-> "none", Opener |-> 3,
               dds_mode |-> 1, swapping |-> 0, stacked |-> NoHands,
               bias_deal_wanted |-> FALSE, maxdealer |-> -1, maxvuln |-> -1,
               boardoffset |-> 0, fzrdlib |-> "none", recnum |-> 0,
               will_print |-> TRUE, scripting |-> FALSE, server |-> FALSE]

-----------------------------------------------------------------------------
(* get_options(): one operator per case of its switch. *)

Fail(rc) == opts' = [opts EXCEPT !.options_error = rc] /\ UNCHANGED glob

OptGenerate(sw) ==
    /\ sw.name = "g"
    /\ opts' = [opts EXCEPT !.max_generate = sw.val]
    /\ glob' = [glob EXCEPT !.maxgenerate = sw.val]

OptProduce(sw) ==
    /\ sw.name = "p"
    /\ opts' = [opts EXCEPT !.max_produce = sw.val]
    /\ glob' = [glob EXCEPT !.maxproduce = sw.val]

SeedOverflow(sw) == sw.name = "s" /\ sw.val \in LongEnds

OptSeed(sw) ==
    /\ sw.name = "s"
    /\ opts' = [opts EXCEPT !.seed_provided = 1, !.seed = sw.val,
                            !.zrd_seed = sw.val]
    /\ glob' = [glob EXCEPT !.seed_provided = 1, !.seed = sw.val]

OptVerbose(sw) ==
    /\ sw.name = "v"
    /\ opts' = [opts EXCEPT !.verbose = ~opts.verbose]
    /\ UNCHANGED glob

OptSwapping(sw) ==
    /\ sw.name = "x"
    /\ opts' = [opts EXCEPT !.swapping = sw.val]
    /\ glob' = [glob EXCEPT !.swapping = sw.val]

OptHelp(sw) == sw.name = "h" /\ Fail(4)

OptInvalid(sw) == sw.name = "invalid" /\ Fail(3)

\* The file of -C, -X, -l and -U can be opened, or it cannot.
FileError == [C |-> -11, X |-> -13, U |-> -14, l |-> -18, Z |-> -18]

OptFile(sw) ==
    /\ sw.name \in {"C", "X", "U", "l"}
    /\ \/ sw.val = "ok" /\ UNCHANGED <<opts, glob>>
       \/ sw.val = "bad" /\ Fail(FileError[sw.name])

\* "N:" before the file name: no double dummy results.
OptZrd(sw) ==
    /\ sw.name = "Z"
    /\ opts' = [opts EXCEPT !.zrd_wanted = TRUE, !.zrd_dds = sw.val # "N",
                            !.options_error = IF sw.val = "bad"
                                              THEN FileError.Z ELSE @]
    /\ UNCHANGED glob

\* "=" is for the full library.
LibFile(val) == IF val = "=" THEN "biglib" ELSE val

OptLibrary(sw) ==
    /\ sw.name = "L"
    /\ IF LibFile(sw.val) \in DOMAIN Records
       THEN /\ opts' = [opts EXCEPT !.zrdlib_mode = 1, !.zrd_seed =
                            IF opts.seed_provided > 0 THEN opts.seed ELSE 0]
            /\ glob' = [glob EXCEPT !.fzrdlib = LibFile(sw.val)]
       ELSE /\ opts' = [opts EXCEPT !.options_error = FATAL_OPTS_ERR - 2]
            /\ glob' = [glob EXCEPT !.fzrdlib = "none"]

OptDdsMode(sw) ==
    /\ sw.name = "M"
    /\ IF sw.val \in 1 .. 2
       THEN /\ opts' = [opts EXCEPT !.dds_mode = sw.val]
            /\ glob' = [glob EXCEPT !.dds_mode = sw.val]
       ELSE /\ opts' = [opts EXCEPT !.dds_mode = glob.dds_mode]
            /\ UNCHANGED glob

OptOpener(sw) ==
    sw.name = "O" /\ opts' = [opts EXCEPT !.opener = sw.val] /\ UNCHANGED glob

OptParVul(sw) ==
    /\ sw.name = "P"
    /\ opts' = IF sw.val \in 0 .. 3 THEN [opts EXCEPT !.par_vuln = sw.val]
               ELSE [opts EXCEPT !.par_vuln = 0, !.options_error = 6]
    /\ UNCHANGED glob

OptThreads(sw) ==
    /\ sw.name = "R"
    /\ opts' = IF sw.val <= 10 THEN [opts EXCEPT !.nThreads = sw.val]
               ELSE [opts EXCEPT !.nThreads = 8, !.options_error = 6]
    /\ UNCHANGED glob

OptTitle(sw) ==
    /\ sw.name = "T"
    /\ opts' = [opts EXCEPT !.title = sw.val]
    /\ glob' = [glob EXCEPT !.title = sw.val]

OptPredeal(sw) ==
    /\ sw.name \in {"N", "E", "S", "W"}
    /\ opts' = [opts EXCEPT !.preDeal[sw.val] = "cmd"]
    /\ UNCHANGED glob

OptScript(sw) ==
    /\ sw.name = "script"
    /\ glob' = [glob EXCEPT !.scripting = TRUE]
    /\ UNCHANGED opts

\* Reads one switch; -V returns at once and a seed too large exits, the others
\* go on.
GetOption ==
    /\ pc = "args" /\ Len(args) < MaxSwitches
    /\ \E o \in DOMAIN Switch : \E v \in Switch[o] :
       LET sw == [name |-> o, val |-> v]
       IN /\ args' = Append(args, sw)
          /\ \/ /\ \/ OptGenerate(sw) \/ OptProduce(sw) \/ OptSeed(sw)
                   \/ OptVerbose(sw) \/ OptSwapping(sw) \/ OptHelp(sw)
                   \/ OptInvalid(sw) \/ OptFile(sw) \/ OptZrd(sw)
                   \/ OptLibrary(sw) \/ OptDdsMode(sw) \/ OptOpener(sw)
                   \/ OptParVul(sw) \/ OptThreads(sw) \/ OptTitle(sw)
                   \/ OptPredeal(sw) \/ OptScript(sw)
                /\ pc' = IF SeedOverflow(sw) THEN "exit" ELSE pc
             \/ sw.name = "V" /\ Fail(3) /\ pc' = "exit"
    /\ UNCHANGED <<DealMode, stmts>>

\* main() looks at the error recorded last.
OptionsRead ==
    /\ pc = "args"
    /\ pc' = IF opts.options_error \in {3, 4}
                \/ opts.options_error <= FATAL_OPTS_ERR THEN "exit" ELSE "file"
    /\ UNCHANGED <<opts, glob, DealMode, args, stmts>>

-----------------------------------------------------------------------------
(* yyparse(): flex sets the globals itself for most statements. *)

\* The first generate or produce counts, and none after a switch.
FirstOf(old, new) == IF old = 0 THEN new ELSE old

vul2int(s) ==
    CASE s \in {"none", "both"} -> 0    \* both have an o
      [] s = "ns"               -> 1
      [] s = "ew"               -> 2
      [] s = "all"              -> 3

compass2int == [north |-> 0, east |-> 1, south |-> 2, west |-> 3]

Statement(st) ==
    \/ /\ st.name = "generate"
       /\ glob' = [glob EXCEPT !.maxgenerate = FirstOf(@, st.val)]
    \/ /\ st.name = "produce"
       /\ glob' = [glob EXCEPT !.maxproduce = FirstOf(@, st.val)]
    \/ /\ st.name = "seed"
       /\ glob' = [glob EXCEPT !.seed = st.val, !.seed_provided = 1]
    \/ st.name = "title" /\ glob' = [glob EXCEPT !.title = st.val]
    \/ /\ st.name = "opener"
       /\ glob' = [glob EXCEPT !.Opener = compass2int[st.val]]
    \/ /\ st.name = "dealer"
       /\ glob' = [glob EXCEPT !.maxdealer = compass2int[st.val]]
    \/ /\ st.name = "vulnerable"
       /\ glob' = [glob EXCEPT !.maxvuln = vul2int(st.val)]
    \/ /\ st.name = "startboard"
       /\ glob' = [glob EXCEPT !.boardoffset = st.val - 1]
    \/ /\ st.name = "predeal"
       /\ glob' = [glob EXCEPT !.stacked[compass2int[st.val]] = "file"]
    \/ /\ st.name = "bias"
       /\ glob' = [glob EXCEPT !.bias_deal_wanted = TRUE]
    \/ /\ st.name = "usereval"
       /\ glob' = [glob EXCEPT !.server = TRUE]
    \/ /\ st.name = "action"
       /\ glob' = [glob EXCEPT !.will_print = (st.val = "print")]

ParseStatement ==
    /\ pc = "file"
    /\ Len(stmts) < MaxStmts /\ Len(args) + Len(stmts) < MaxInput
    /\ \E k \in DOMAIN Stmt : \E v \in Stmt[k] :
          /\ stmts' = Append(stmts, [name |-> k, val |-> v])
          /\ Statement([name |-> k, val |-> v])
    /\ UNCHANGED <<pc, opts, DealMode, args>>

ParseEnds ==
    /\ pc = "file" /\ pc' = "final"
    /\ UNCHANGED <<opts, glob, DealMode, args, stmts>>

-----------------------------------------------------------------------------
(* finalize_options(), in its order; s holds the options and the globals. *)

\* How DealLoop sees the outcome.
Mode ==
    CASE DealMode = "LIB"  -> "library"
      [] DealMode = "BIAS" -> "bias"
      [] OTHER             -> "random"

Library ==
    IF DealMode = "LIB" THEN [recs |-> Records[glob.fzrdlib], hdrs |-> {}]
    ELSE [recs |-> 0, hdrs |-> {}]

\* 0, and what may be asked for.
Numbers ==
    {0} \cup Asks(Switch, "g") \cup Asks(Switch, "p")
        \cup Asks(Stmt, "generate") \cup Asks(Stmt, "produce")

Loop == INSTANCE DealLoop WITH
    Libraries <- {[recs |-> Records[f], hdrs |-> {}] : f \in DOMAIN Records},
    Seeds <- Int, Wanted <- Numbers,
    Modes <- {"library", "bias", "random"}, Faults <- {},
    mode <- Mode, lib <- Library, zrd_seed <- opts.zrd_seed,
    start <- glob.recnum, maxgenerate <- glob.maxgenerate,
    maxproduce <- glob.maxproduce, ngen <- 1, nprod <- 0, pc <- "loop",
    fpos <- glob.recnum, zrdlib_pass_num <- 0, zrd_cnt <- 0, rec <- -1,
    generated <- 0

\* opc_opener is never empty, so the option's default wins over the file's
\* opener too.
FinalOpener(s) == [s EXCEPT !.g.Opener = s.o.opener]

\* Deviation: a title of the input file replaces the switch's.
FinalTitle_FileWins(s) ==
    IF s.g.title \notin {"none", ""} THEN [s EXCEPT !.o.title = s.g.title] ELSE s

FinalTitle(s) ==
    CASE s.o.title # "none" -> [s EXCEPT !.g.title = s.o.title]
      [] s.o.title = "none" /\ s.g.title \notin {"none", ""} ->
             [s EXCEPT !.o.title = s.g.title]
      [] OTHER -> s

\* Library records with results need all twenty.
FinalDdsMode(s) ==
    IF s.o.zrd_wanted /\ s.o.zrd_dds
    THEN [s EXCEPT !.o.dds_mode = DDS_TABLE_MODE, !.g.dds_mode = DDS_TABLE_MODE]
    ELSE s

FinalGenerate(s) ==
    IF s.o.max_generate > 0 THEN [s EXCEPT !.g.maxgenerate = s.o.max_generate]
    ELSE [s EXCEPT !.o.max_generate = s.g.maxgenerate]

\* seed_provided is -1 with no seed at all: true in C.
FinalSeed(s) ==
    IF s.o.seed_provided > 0
    THEN [s EXCEPT !.g.seed_provided = 1, !.g.seed = s.o.seed,
                   !.o.zrd_seed = s.o.seed]
    ELSE [s EXCEPT !.o.seed_provided = s.g.seed_provided, !.o.seed = s.g.seed,
                   !.o.zrd_seed = s.g.seed]

CmdPredeal(s) == \E c \in Seats : s.o.preDeal[c] # "none"
FilePredeal(s) == \E c \in Seats : s.g.stacked[c] # "none"

\* The first part of setDealMode(): the way of dealing chosen.
RunMode(s) ==
    CASE s.o.zrdlib_mode = 1 -> "LIB"
      [] s.o.zrdlib_mode # 1 /\ s.g.bias_deal_wanted -> "BIAS"
      [] s.o.zrdlib_mode # 1 /\ ~s.g.bias_deal_wanted
         /\ (CmdPredeal(s) \/ FilePredeal(s)) -> "PREDEAL"
      [] OTHER -> IF s.o.swapping > 0 THEN "SWAP" ELSE "DEF"

\* ... and what it takes back of the others.  predeal_cmdparms() is reached
\* only when the input file predeals too.
Discard(s) ==
    CASE RunMode(s) = "LIB" ->
             [s EXCEPT !.g.bias_deal_wanted = FALSE, !.o.preDeal = NoHands,
                       !.o.swapping = 0]
      [] RunMode(s) = "BIAS" ->
             [s EXCEPT !.o.preDeal = NoHands, !.o.swapping = 0]
      [] RunMode(s) = "PREDEAL" /\ CmdPredeal(s) /\ FilePredeal(s) ->
             [s EXCEPT !.g.stacked = s.o.preDeal, !.o.swapping = 0]
      [] RunMode(s) = "PREDEAL" /\ ~CmdPredeal(s) ->
             [s EXCEPT !.o.swapping = 0]
      [] OTHER -> s

\* enforce_zrdlib_mode(): the library bounds the deals, and its seed is a place.
EnforceLibrary(s) ==
    LET recs == Records[s.g.fzrdlib]
        over == s.o.max_generate > recs
        maxg == IF over THEN recs ELSE s.o.max_generate
        less == over /\ s.o.max_produce > recs
    IN  [o |-> [s.o EXCEPT !.dds_mode = DDS_TABLE_MODE, !.swapping = 0,
                           !.max_generate = maxg,
                           !.max_produce = IF less THEN recs ELSE @],
         g |-> [s.g EXCEPT !.dds_mode = DDS_TABLE_MODE, !.swapping = 0,
                           !.recnum = Loop!StartRecord(s.o.zrd_seed, recs),
                           !.maxgenerate = IF over THEN recs ELSE @,
                           !.maxproduce = IF less THEN recs ELSE @]]

\* Deviation: the deck is not made whole again for plain deals.
CleanUp_KeepDeck(s, m) ==
    CASE m = "LIB"              -> EnforceLibrary([s EXCEPT !.g.stacked = NoHands])
      [] m \in {"DEF", "SWAP", "BIAS", "PREDEAL"} -> s

\* The last part of setDealMode(): init_cards() but for predealt hands.
CleanUp(s, m) ==
    CASE m = "LIB"              -> EnforceLibrary([s EXCEPT !.g.stacked = NoHands])
      [] m \in {"DEF", "SWAP", "BIAS"} -> [s EXCEPT !.g.stacked = NoHands]
      [] m = "PREDEAL"          -> s

Merged ==
    FinalSeed(FinalGenerate(FinalDdsMode(FinalTitle(FinalOpener(
        [o |-> opts, g |-> glob])))))

\* In library mode after a -L that failed, the file read from is NULL.
NoLibrary == opts.zrdlib_mode = 1 /\ glob.fzrdlib = "none"

FinalizeOptions ==
    /\ pc = "final" /\ ~NoLibrary
    /\ LET m == RunMode(Merged)
           s == CleanUp(Discard(Merged), m)
       IN  DealMode' = m /\ opts' = s.o /\ glob' = s.g
    /\ pc' = "init"
    /\ UNCHANGED <<args, stmts>>

FinalizeCrashes ==
    /\ pc = "final" /\ NoLibrary /\ pc' = "crash"
    /\ UNCHANGED <<opts, glob, DealMode, args, stmts>>

-----------------------------------------------------------------------------
(* init_runtime() *)

\* setup_rng(): SRANDOM(0) asks the kernel.
SetupRng(s) ==
    LET got == IF s.o.seed = 0 THEN KernelSeed ELSE s.o.seed
    IN  [o |-> [s.o EXCEPT !.seed = got], g |-> [s.g EXCEPT !.seed = got]]

SetupDdsMode(s) ==
    IF s.o.dds_mode = 2 /\ s.o.nThreads < 2
    THEN [s EXCEPT !.o.nThreads = TblModeThreads] ELSE s

\* Deviation: a library does not bound the default.
DefaultGenerate_NoLibrary(s) ==
    IF s.g.maxgenerate # 0 THEN s
    ELSE [s EXCEPT !.g.maxgenerate = DefMaxGen, !.o.max_generate = DefMaxGen]

DefaultGenerate(s) ==
    IF s.g.maxgenerate # 0 THEN s
    ELSE LET maxg == IF DealMode = "LIB" /\ DefMaxGen > Records[s.g.fzrdlib]
                     THEN Records[s.g.fzrdlib] ELSE DefMaxGen
         IN  [s EXCEPT !.g.maxgenerate = maxg, !.o.max_generate = maxg]

DefaultProduce(s) ==
    LET maxp == IF s.g.maxproduce # 0 THEN s.g.maxproduce
                ELSE IF s.g.will_print THEN 40 ELSE s.g.maxgenerate
    IN  [s EXCEPT !.g.maxproduce =
            IF maxp > s.g.maxgenerate THEN s.g.maxgenerate ELSE maxp]

InitRuntime ==
    /\ pc = "init"
    /\ LET s == [o |-> opts, g |-> glob]
           t == IF DealMode = "LIB" THEN s ELSE SetupDdsMode(SetupRng(s))
           u == DefaultProduce(DefaultGenerate(t))
       IN  opts' = u.o /\ glob' = u.g
    /\ pc' = "run"
    /\ UNCHANGED <<DealMode, args, stmts>>

Next ==
    \/ GetOption \/ OptionsRead \/ ParseStatement \/ ParseEnds
    \/ FinalizeOptions \/ FinalizeCrashes \/ InitRuntime

Spec == Init /\ [][Next]_vars

-----------------------------------------------------------------------------
(* What was asked, read off the history. *)

Places(input, name) == {n \in DOMAIN input : input[n].name = name}
Given(name)  == Places(args, name) # {}
Stated(name) == Places(stmts, name) # {}

\* The last value read for a name, or d without one.
LastOf(input, name, d) ==
    IF Places(input, name) = {} THEN d ELSE input[Max(Places(input, name))].val

\* The first value read for a name that is not 0, or 0 without one.
FirstNonZero(input, name) ==
    LET places == {n \in Places(input, name) : input[n].val # 0}
    IN  IF places = {} THEN 0 ELSE input[Min(places)].val

\* The last -g or -p; if there is none, or 0 is asked, the first number other
\* than 0 in the input file; 0 when nothing is asked.
Asked(opt, key) ==
    IF LastOf(args, opt, 0) # 0 THEN LastOf(args, opt, 0)
    ELSE FirstNonZero(stmts, key)

AskedSeed == LastOf(args, "s", LastOf(stmts, "seed", 0))
AskedTitle == LastOf(stmts, "title", "")
AskedPrint == LastOf(stmts, "action", "print") = "print"

\* The hands the command line and the input file ask to predeal.
CmdHands  == {c \in Seats : \E n \in DOMAIN args :
                 args[n].name \in {"N", "E", "S", "W"} /\ args[n].val = c}
FileHands == {c \in Seats : \E n \in DOMAIN stmts :
                 stmts[n].name = "predeal" /\ compass2int[stmts[n].val] = c}

\* The main loop starts from what was asked: DealLoop's initial states, with
\* the limits the user gave on the command line, or else in the input file, or
\* else the defaults, whatever the order of switches and statements; never
\* more to produce than to generate, nor more than the library holds.
StartsTheLoop ==
    pc = "run" =>
        /\ Loop!Init
        /\ LET g == Asked("g", "generate")
           IN  glob.maxgenerate = Loop!MaxGenerate(g, DealMode = "LIB", Library.recs)
        /\ glob.maxproduce = Loop!MaxProduce(Asked("p", "produce"),
               AskedPrint, glob.maxgenerate)
        /\ opts.max_generate = glob.maxgenerate

\* Command line before input file before default, and the option record in
\* step with the globals: the seed, or place in the library, the title, and
\* the double dummy mode, which writing records or reading a library decides.
Precedence ==
    pc = "run" =>
        /\ IF DealMode = "LIB" THEN opts.zrd_seed = AskedSeed
           ELSE /\ glob.seed = IF AskedSeed = 0 THEN KernelSeed ELSE AskedSeed
                /\ opts.seed = glob.seed
        /\ opts.title = LastOf(args, "T",
                               IF AskedTitle = "" THEN "none" ELSE AskedTitle)
        /\ opts.title # "none" => glob.title = opts.title
        /\ opts.dds_mode = glob.dds_mode
        /\ (DealMode = "LIB" \/ LastOf(args, "Z", "N") # "N") =>
               opts.dds_mode = DDS_TABLE_MODE
        /\ opts.dds_mode = DDS_TABLE_MODE /\ DealMode # "LIB" => opts.nThreads >= 2

\* Of several ways of dealing asked for one is in effect, library before bias
\* before predealing before swapping, and nothing is left of the others: no
\* card is out of the deck unless hands are predealt, and those are of one
\* source, the command line's if it has any.  (Hands predealt on the command
\* line alone are never dealt, src/dealinit_subs.c:494.)
OneDealMode ==
    LET held == {c \in Seats : glob.stacked[c] # "none"}
        way == CASE Given("L") -> "LIB"
                 [] ~Given("L") /\ Stated("bias") -> "BIAS"
                 [] ~Given("L") /\ ~Stated("bias")
                        /\ CmdHands \cup FileHands # {} -> "PREDEAL"
                 [] OTHER -> IF LastOf(args, "x", 0) > 0 THEN "SWAP" ELSE "DEF"
    IN  pc \in {"init", "run"} =>
            /\ DealMode = "LIB" => way = "LIB" /\ glob.fzrdlib \in DOMAIN Records
            /\ opts.options_error = 0 => DealMode = way
            /\ DealMode # "PREDEAL" => held = {}
            /\ DealMode \in {"LIB", "BIAS"} => opts.preDeal = NoHands
            /\ DealMode = "PREDEAL" /\ FileHands # {} =>
                   held = (IF CmdHands # {} THEN CmdHands ELSE FileHands)
            /\ DealMode # "SWAP" /\ opts.swapping > 0
                   => CmdHands # {} /\ FileHands = {}
            /\ DealMode = "LIB" => glob.swapping = 0 /\ ~glob.bias_deal_wanted
=============================================================================
