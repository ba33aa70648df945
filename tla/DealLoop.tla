------------------------------ MODULE DealLoop ------------------------------
(***************************************************************************)
(* dealer's main loop and the library of solved deals it may read from.    *)
(*                                                                         *)
(* The loop deals until maxproduce deals have met the condition or         *)
(* maxgenerate deals have been tried.  A library (-L) is a file of records *)
(* read in order from a place the seed names; at its end dealer rewinds,   *)
(* once.  Some records are headers, segments of a title, to be skipped.    *)
(*                                                                         *)
(* A record is abstracted to its number in the file and to whether it is a *)
(* header; a deal to the record it comes from.                             *)
(***************************************************************************)
EXTENDS Integers, FiniteSets

CONSTANTS
    Libraries,      \* the files: number of records, which are headers
    Seeds,          \* -s, or the input file's seed
    Wanted,         \* what -g and -p, or the input file, may ask; 0: nothing
    Modes,          \* ways of dealing: "library", "bias" and "random"
    DefMaxGen,      \* deals to generate when nothing is asked (10000000)
    Faults          \* {"write"} when writing a record (-Z, -l) may fail

ASSUME LibraryAssumption ==
    \A lib \in Libraries : lib.recs \in Nat /\ lib.hdrs \subseteq 0 .. lib.recs - 1

ASSUME WantedAssumption ==
    Wanted \subseteq Nat /\ DefMaxGen \in Nat \ {0} /\ Seeds \subseteq Int

VARIABLES
    mode,           \* how deals are made
    lib,            \* the library file
    zrd_seed,
    start,          \* the record it is first read from
    maxgenerate, maxproduce,
    ngen, nprod,
    pc,             \* where main() is
    fpos,           \* records before the file position
    zrdlib_pass_num,
    zrd_cnt,        \* deal records read
    rec,            \* the record last read
    generated       \* history: deals made

runVars  == <<mode, lib, zrd_seed, start, maxgenerate, maxproduce>>
fileVars == <<fpos, zrdlib_pass_num, zrd_cnt, rec>>
vars == <<runVars, fileVars, ngen, nprod, pc, generated>>

-----------------------------------------------------------------------------
(* What finalize_options() and init_runtime() make of the options. *)

Lesser(m, n) == IF m <= n THEN m ELSE n

\* set_zrdlib_vars(): records to a block, and the last block a seed may name.
BlockSize(recs) ==
    CASE recs < 100                    -> 1
      [] recs >= 100 /\ recs < 1000    -> 10
      [] recs >= 1000 /\ recs < 10000  -> 100
      [] recs >= 10000                 -> 1000

ZRD_MAX_SEED == 10485

MaxSeed(recs) ==
    LET blocks == recs \div BlockSize(recs)
    IN  IF recs >= 10000 /\ ZRD_MAX_SEED < blocks THEN ZRD_MAX_SEED
        ELSE blocks - 1

\* Deviation: a seed past the end is used as it is.
StartRecord_NoClamp(seed, recs) ==
    IF seed < 0 THEN 0 ELSE seed * BlockSize(recs)

\* enforce_zrdlib_mode() and zrd_seekfpos(): the seed, at most the largest, is
\* a number of blocks to skip; -1 for an empty file counts as 0.
StartRecord(seed, recs) ==
    LET myseed == Lesser(seed, MaxSeed(recs))
    IN  IF seed < 0 \/ myseed < 0 THEN 0 ELSE myseed * BlockSize(recs)

\* Deviation: a library does not bound the deals to generate.
MaxGenerate_Unbounded(g, isLib, recs) == IF g = 0 THEN DefMaxGen ELSE g

MaxGenerate(g, isLib, recs) ==
    LET asked == IF g = 0 THEN DefMaxGen ELSE g
    IN  IF isLib THEN Lesser(asked, recs) ELSE asked

\* 40 when the action list will print every deal.
MaxProduce(p, prints, maxgen) ==
    Lesser(IF p > 0 THEN p ELSE IF prints THEN 40 ELSE maxgen, maxgen)

NoFile == [recs |-> 0, hdrs |-> {}]

Init ==
    /\ mode \in Modes
    /\ lib \in (IF mode = "library" THEN Libraries ELSE {NoFile})
    /\ zrd_seed \in Seeds
    /\ start = StartRecord(zrd_seed, lib.recs)
    /\ \E g \in Wanted :
           maxgenerate = MaxGenerate(g, mode = "library", lib.recs)
    /\ \E p \in Wanted, prints \in BOOLEAN :
           maxproduce = MaxProduce(p, prints, maxgenerate)
    /\ ngen = 1 /\ nprod = 0
    /\ pc = "loop"
    /\ fpos = start
    /\ zrdlib_pass_num = 0 /\ zrd_cnt = 0 /\ rec = -1
    /\ generated = 0

-----------------------------------------------------------------------------
(* deal_cards() *)

More == ngen <= maxgenerate /\ nprod < maxproduce

\* A shuffle, with or without predealt cards: always a deal.
DealRandom ==
    /\ pc = "loop" /\ More
    /\ mode # "library"
    /\ generated' = generated + 1
    /\ pc' = "dealt"
    /\ UNCHANGED <<runVars, fileVars, ngen, nprod>>

\* A bias deal that cannot be completed: tried, and discarded.
DealBiasFails ==
    /\ pc = "loop" /\ More
    /\ mode = "bias"
    /\ generated' = generated + 1
    /\ ngen' = ngen + 1
    /\ UNCHANGED <<runVars, fileVars, nprod, pc>>

DealLibrary ==
    /\ pc = "loop" /\ More
    /\ mode = "library"
    /\ pc' = "read"
    /\ UNCHANGED <<runVars, fileVars, ngen, nprod, generated>>

AtEOF == fpos >= lib.recs

\* Deviation: a rewind is not counted.
ReadRecord_NoCount ==
    /\ pc = "read"
    /\ rec' = IF AtEOF THEN 0 ELSE fpos
    /\ fpos' = rec' + 1
    /\ pc' = IF zrdlib_pass_num < 2 /\ rec' \in lib.hdrs THEN "read" ELSE "got"
    /\ UNCHANGED <<runVars, zrdlib_pass_num, zrd_cnt, ngen, nprod, generated>>

\* zrd_getrec(), and the loop of zrd_getdeal() around it: at the end of the
\* file rewind and read its first record; read on past headers.
ReadRecord ==
    /\ pc = "read"
    /\ rec' = IF AtEOF THEN 0 ELSE fpos
    /\ fpos' = rec' + 1
    /\ zrdlib_pass_num' = zrdlib_pass_num + (IF AtEOF THEN 1 ELSE 0)
    /\ pc' = IF zrdlib_pass_num' < 2 /\ rec' \in lib.hdrs THEN "read" ELSE "got"
    /\ UNCHANGED <<runVars, zrd_cnt, ngen, nprod, generated>>

\* zrd_decode_deal(): the record becomes curdeal.
Decode ==
    /\ pc = "got"
    /\ zrdlib_pass_num < 2
    /\ zrd_cnt' = zrd_cnt + 1
    /\ generated' = generated + 1
    /\ pc' = "dealt"
    /\ UNCHANGED <<runVars, fpos, zrdlib_pass_num, rec, ngen, nprod>>

\* Deviation: the first end of the file ends the run.
LibraryEnds_FirstPass ==
    /\ pc = "got"
    /\ zrdlib_pass_num >= 1
    /\ pc' = "ended"
    /\ UNCHANGED <<runVars, fileVars, ngen, nprod, generated>>

\* ENOLIB_DL: "Too Many Passes through Library. Ending Run Now".
LibraryEnds ==
    /\ pc = "got"
    /\ zrdlib_pass_num >= 2
    /\ pc' = "ended"
    /\ UNCHANGED <<runVars, fileVars, ngen, nprod, generated>>

-----------------------------------------------------------------------------
(* The rest of a turn, and the end of the run. *)

\* interesting() says yes: the actions are done and the records written.
Produce ==
    /\ pc = "dealt"
    /\ nprod' = nprod + 1
    /\ ngen' = ngen + 1
    /\ pc' = "loop"
    /\ UNCHANGED <<runVars, fileVars, generated>>

Discard ==
    /\ pc = "dealt"
    /\ ngen' = ngen + 1
    /\ pc' = "loop"
    /\ UNCHANGED <<runVars, fileVars, nprod, generated>>

WriteFails ==
    /\ "write" \in Faults
    /\ pc = "dealt"
    /\ nprod' = nprod + 1
    /\ pc' = "aborted"
    /\ UNCHANGED <<runVars, fileVars, ngen, generated>>

LoopExit ==
    /\ pc = "loop" /\ ~More
    /\ pc' = "ended"
    /\ UNCHANGED <<runVars, fileVars, ngen, nprod, generated>>

\* Deviation: ngen is reported as the loop leaves it.
FinalNgen_AsLeft == ngen

FinalNgen ==
    IF ngen >= maxgenerate THEN maxgenerate
    ELSE IF ngen >= 2 THEN ngen - 1 ELSE ngen

\* The counts are reported, and the end of run actions done.
Report ==
    /\ pc = "ended"
    /\ ngen' = FinalNgen
    /\ pc' = "done"
    /\ UNCHANGED <<runVars, fileVars, nprod, generated>>

Stopped == pc \in {"done", "aborted"} /\ UNCHANGED vars

Dealing == DealRandom \/ DealBiasFails \/ DealLibrary \/ ReadRecord \/ Decode
           \/ LibraryEnds

Next == Dealing \/ Produce \/ Discard \/ WriteFails \/ LoopExit \/ Report
        \/ Stopped

SafeSpec == Init /\ [][Next]_vars

\* One process that never waits for another: it keeps running.
Spec == SafeSpec /\ WF_vars(Next)

-----------------------------------------------------------------------------
TypeOK ==
    /\ mode \in Modes /\ lib \in Libraries \cup {NoFile}
    /\ zrd_seed \in Seeds
    /\ start \in Nat /\ (lib.recs > 0 => start < lib.recs)
    /\ maxgenerate \in Nat
    /\ maxproduce \in 0 .. maxgenerate
    /\ ngen \in 0 .. maxgenerate + 1
    /\ nprod \in 0 .. maxproduce
    /\ pc \in {"loop", "read", "got", "dealt", "ended", "done", "aborted"}
    /\ fpos \in Nat /\ (lib.recs > 0 => fpos \in 0 .. lib.recs)
    /\ zrdlib_pass_num \in 0 .. 2
    /\ zrd_cnt \in Nat
    /\ rec \in Nat \cup {-1}
    /\ generated \in Nat

DealRecords(S) == Cardinality(S \ lib.hdrs)

\* "it will wrap-around and start again at the beginning. But it will only do
\* this once" (user guide).  Whatever the seed, a library run deals the deal
\* records from the seed's place on, round to the beginning, and stops before
\* it comes round again: no deal comes from a third pass, and in the second
\* the bound on maxgenerate (set_zrdlib_vars()) lets at most as many come up
\* again as the file has headers, which the bound takes for deals.
DealtWhatWasPassed ==
    pc = "dealt" /\ mode = "library" =>
        /\ zrdlib_pass_num < 2
        /\ generated =
             IF zrdlib_pass_num = 0 THEN DealRecords(start .. rec)
             ELSE DealRecords(start .. lib.recs - 1) + DealRecords(0 .. rec)
        /\ zrdlib_pass_num = 1 /\ rec >= start
             => DealRecords(start .. rec) <= Cardinality(lib.hdrs)

\* A run that ends has a reason to: enough deals produced, or all the deals
\* asked for tried, or the library at its end for the second time.
EndsForAReason ==
    pc = "done" =>
        \/ nprod = maxproduce
        \/ generated = maxgenerate
        \/ mode = "library" /\ zrdlib_pass_num = 2

\* The number of deals reported is the number dealt, but when the run ends one
\* deal short of maxgenerate or finds no deal in its library: then one more.
ReportedNearly ==
    pc = "done" =>
        \/ ngen = generated
        \/ ngen = generated + 1 /\ ngen \in {1, maxgenerate}

\* Every run ends: a condition nothing meets, a library of headers only and a
\* bias that never works out included.
Terminates == <>(pc \in {"done", "aborted"})
=============================================================================
