----------------------------- MODULE EvalCaches -----------------------------
(***************************************************************************)
(* The caches evaltree() keeps between the nodes of one deal: the double   *)
(* dummy results (dds_res_bin, in board or in table mode), GIB's tricks    *)
(* (dd) and the OPC values of each side (opc_value).  None is cleared when *)
(* the main loop deals again: each compares the number of the deal it was  *)
(* filled for with ngen when it is next asked.                             *)
(*                                                                         *)
(* A cached number is abstracted to the deal it was computed for, 0 if for *)
(* none: what was lying where a call that failed should have put a result. *)
(* The code goes on with it and caches it.  (If it is not a number of      *)
(* tricks, an assertion of CheckCache() ends the run when it is next       *)
(* tested: up to there, such a run is one of those modelled here.)         *)
(***************************************************************************)
EXTENDS Integers, FiniteSets

CONSTANTS
    Hand, Strain,   \* declarers, and the four suits and notrump
    LibModes,       \* with TRUE, deals may come solved, from a library (-L)
    FaultSets,      \* which of the programs asked may fail in one run
    MaxGen          \* bound: deals generated

South   == 2
NoTrump == 4

ASSUME EntryAssumption ==
    /\ 0 \in Hand /\ South \in Hand /\ IsFiniteSet(Hand)
    /\ 0 \in Strain /\ NoTrump \in Strain /\ IsFiniteSet(Strain)
    /\ LibModes \subseteq BOOLEAN /\ MaxGen \in Nat
    /\ FaultSets \subseteq SUBSET {"dds", "gib", "dop"}

VARIABLES
    LibMode,        \* is this run on a library of solved deals?
    faults,         \* which programs may fail in it
    ngen,           \* number of the deal in curdeal
    dds_mode,       \* "board" or "table"
    dds_dealnum,    \* the deal dds_res_bin was last filled for
    trix,           \* dds_res_bin.tricks
    par,            \* the deal parScores_NS were computed for
    gib_dealnum,    \* cached_ngen in dd()
    gib,            \* cached_tricks in dd()
    opc_dealnum,
    opc_cached,     \* per side: ss_cached
    opc,            \* per side: the deal and side its OPC values are of
    opcRes,         \* what DOP last printed: the deal and side it was run for
    answer,         \* of the last value returned: by which cache, the deal it
                    \* was asked about, the deal it is of, and an OPC's side
    solved,         \* history: results dds gave for this deal, by mode
    failed,         \* history, per cache: the deal its last call failed for
    dopFailed       \* history, per side: the deal DOP last failed for

ddsVars == <<dds_mode, dds_dealnum, trix, par, solved>>
gibVars == <<gib_dealnum, gib>>
opcVars == <<opc_dealnum, opc_cached, opc, opcRes, dopFailed>>
vars == <<LibMode, faults, ngen, ddsVars, gibVars, opcVars, answer, failed>>

-----------------------------------------------------------------------------
INV_TRIX == -1
Entry == Hand \X Strain
Side  == {0, 1}

Init ==
    /\ LibMode \in LibModes
    /\ faults \in FaultSets
    /\ ngen = 0
    /\ dds_mode \in (IF LibMode THEN {"table"} ELSE {"board", "table"})
    /\ dds_dealnum = -1
    /\ trix = [e \in Entry |-> INV_TRIX]
    /\ par = 0
    /\ gib_dealnum = -1
    /\ gib = [e \in Entry |-> INV_TRIX]
    /\ opc_dealnum = -1
    /\ opc_cached = [sd \in Side |-> FALSE]
    /\ opcRes = [gen |-> 0, side |-> 0]
    /\ opc = [sd \in Side |-> opcRes]
    /\ answer = [by |-> "trix", about |-> 0, of |-> 0, side |-> -1]
    /\ solved = [board |-> 0, table |-> 0]
    /\ failed = [trix |-> 0, par |-> 0, gib |-> 0]
    /\ dopFailed = [sd \in Side |-> 0]

\* deal_cards().  A library record brings its 20 results with it.
NextDeal ==
    /\ ngen < MaxGen
    /\ ngen' = ngen + 1
    /\ IF LibMode
       THEN /\ trix' = [e \in Entry |-> ngen + 1]
            /\ dds_dealnum' = ngen + 1
       ELSE UNCHANGED <<trix, dds_dealnum>>
    /\ solved' = [board |-> 0, table |-> 0]
    /\ UNCHANGED <<LibMode, faults, dds_mode, par, answer, failed, gibVars,
                   opcVars>>

-----------------------------------------------------------------------------
Returns(by, gen) == [by |-> by, about |-> ngen, of |-> gen, side |-> -1]

CheckCache(dealnum, e) ==
    IF dealnum # ngen THEN "INV"
    ELSE IF trix[e] = INV_TRIX THEN "UPD" ELSE "OK"

\* ddsParCalcs(): the par scores of a table of deal gen, or what SidesParBin()
\* left when it failed.  The table itself failed for deal t, 0 if it did not.
DdsParCalcs(gen, t) ==
    \/ par' = gen /\ failed' = [failed EXCEPT !.trix = t, !.par = t]
    \/ /\ "dds" \in faults
       /\ par' = 0 /\ failed' = [failed EXCEPT !.trix = t, !.par = ngen]

\* true_CalcTable(): all 20 results and the par scores of this deal.
TableCalculated ==
    /\ trix' = [e \in Entry |-> ngen]
    /\ DdsParCalcs(ngen, 0)
    /\ solved' = [solved EXCEPT !.table = @ + 1]

\* CalcDDtable() failed: that is printed, and an uninitialised Res_20 is taken
\* for the table.
TableFailed ==
    /\ "dds" \in faults
    /\ trix' \in [Entry -> {0, INV_TRIX}]
    /\ DdsParCalcs(0, ngen)
    /\ UNCHANGED solved

\* Either is marked as of this deal, with CACHE_OK.
CalcTable ==
    /\ TableCalculated \/ TableFailed
    /\ dds_dealnum' = ngen

\* true_SolveBoard(): one result; what was known of another deal is dropped.
\* If SolveBoard() fails an assertion ends the run.
SolveBoard(e, known) ==
    /\ trix' = [known EXCEPT ![e] = ngen]
    /\ dds_dealnum' = ngen
    /\ solved' = [solved EXCEPT !.board = @ + 1]
    /\ UNCHANGED <<par, failed>>

\* Deviation: the other results of this deal are dropped too.
KnownTrix_Forget(dealnum) == [f \in Entry |-> INV_TRIX]

\* What is known of this deal.
KnownTrix(dealnum) ==
    IF dealnum = ngen THEN trix ELSE [f \in Entry |-> INV_TRIX]

DdsTricks(e) ==
    /\ ngen > 0
    /\ \/ /\ CheckCache(dds_dealnum, e) = "OK"
          /\ UNCHANGED <<dds_dealnum, trix, par, solved, failed>>
       \/ /\ CheckCache(dds_dealnum, e) # "OK"
          /\ dds_mode = "table" /\ CalcTable
       \/ /\ CheckCache(dds_dealnum, e) # "OK"
          /\ dds_mode = "board" /\ SolveBoard(e, KnownTrix(dds_dealnum))
    /\ answer' = Returns("trix", trix'[e])
    /\ UNCHANGED <<LibMode, faults, ngen, dds_mode, gibVars, opcVars>>

\* Deviation: going over to table mode does not force a call of the library.
TableDealnum_Keep == dds_dealnum

\* The number dds_parscore() and csv_trix() compare: -1 when they first have
\* to leave board mode.
TableDealnum == IF dds_mode = "table" THEN dds_dealnum ELSE -1

\* A table of this deal, as entry e tells, from the cache or from the library.
WholeTable(e) ==
    /\ dds_mode' = "table"
    /\ \/ /\ CheckCache(TableDealnum, e) = "OK"
          /\ UNCHANGED <<dds_dealnum, trix, par, solved, failed>>
       \/ /\ CheckCache(TableDealnum, e) # "OK"
          /\ CalcTable

\* dds_parscore(): rplib_Par() in library mode, else from a full table.
ParScore ==
    /\ ngen > 0
    /\ IF LibMode
       THEN /\ DdsParCalcs(trix[<<0, 0>>], failed.trix)
            /\ dds_dealnum' = ngen
            /\ UNCHANGED <<dds_mode, trix, solved>>
       ELSE WholeTable(<<0, 0>>)
    /\ answer' = Returns("par", par')
    /\ UNCHANGED <<LibMode, faults, ngen, gibVars, opcVars>>

\* csv_trix(): the results of every strain for one hand of the mask.
CsvTrix(h) ==
    /\ ngen > 0
    /\ WholeTable(<<South, NoTrump>>)
    /\ \E s \in Strain : answer' = Returns("trix", trix'[<<h, s>>])
    /\ UNCHANGED <<LibMode, faults, ngen, gibVars, opcVars>>

-----------------------------------------------------------------------------
GibKnown ==
    IF gib_dealnum = ngen THEN gib ELSE [e \in Entry |-> INV_TRIX]

\* true_dd(): GIB prints the tricks, or cannot be run or prints nothing:
\* what is read then is an uninitialised character.
TrueDD(e) ==
    \/ /\ gib' = [GibKnown EXCEPT ![e] = ngen]
       /\ UNCHANGED failed
    \/ /\ "gib" \in faults
       /\ \E t \in {0, INV_TRIX} : gib' = [GibKnown EXCEPT ![e] = t]
       /\ failed' = [failed EXCEPT !.gib = ngen]

\* dd(): one hand and strain at a time, whatever true_dd() makes of it.
GibTricks(e) ==
    /\ ngen > 0
    /\ gib_dealnum' = ngen
    /\ IF GibKnown[e] = INV_TRIX
       THEN TrueDD(e)
       ELSE gib' = GibKnown /\ UNCHANGED failed
    /\ answer' = Returns("gib", gib'[e])
    /\ UNCHANGED <<LibMode, faults, ngen, ddsVars, opcVars>>

\* Deviation: only the side that is asked is marked out of date.
OpcKnown_OneSide(sd) ==
    IF opc_dealnum = ngen THEN opc_cached
    ELSE [opc_cached EXCEPT ![sd] = FALSE]

OpcKnown(sd) ==
    IF opc_dealnum = ngen THEN opc_cached ELSE [p \in Side |-> FALSE]

\* get_opc_vals(): DOP prints the values of the side it is given, or cannot be
\* run and prints nothing: opcRes then keeps what it held, for either side.
GetOpcVals(sd) ==
    /\ opcRes' = [gen |-> ngen, side |-> sd]
    /\ UNCHANGED dopFailed

GetOpcValsFails(sd) ==
    /\ "dop" \in faults
    /\ dopFailed' = [dopFailed EXCEPT ![sd] = ngen]
    /\ UNCHANGED opcRes

\* opc_value(): DOP is run for one side of the deal; what opcRes holds then is
\* taken for the side's values, and they are cached, whether it could or not.
OpcValue(sd) ==
    /\ ngen > 0
    /\ IF OpcKnown(sd)[sd]
       THEN UNCHANGED opcVars
       ELSE /\ GetOpcVals(sd) \/ GetOpcValsFails(sd)
            /\ opc' = [opc EXCEPT ![sd] = opcRes']
            /\ opc_cached' = [OpcKnown(sd) EXCEPT ![sd] = TRUE]
            /\ opc_dealnum' = ngen
    /\ answer' = [by |-> "opc", about |-> ngen, side |-> sd,
                  of |-> IF opc'[sd].side = sd THEN opc'[sd].gen ELSE 0]
    /\ UNCHANGED <<LibMode, faults, ngen, ddsVars, gibVars, failed>>

-----------------------------------------------------------------------------
Next ==
    \/ NextDeal
    \/ \E e \in Entry : DdsTricks(e) \/ GibTricks(e)
    \/ ParScore
    \/ \E h \in Hand : CsvTrix(h)
    \/ \E sd \in Side : OpcValue(sd)

Spec == Init /\ [][Next]_vars

-----------------------------------------------------------------------------
Gen  == 0 .. MaxGen
Trix == Gen \cup {INV_TRIX}

TypeOK ==
    /\ LibMode \in LibModes
    /\ faults \in FaultSets
    /\ ngen \in Gen
    /\ dds_mode \in {"board", "table"}
    /\ dds_dealnum \in Gen \cup {-1}
    /\ trix \in [Entry -> Trix]
    /\ par \in Trix
    /\ gib_dealnum \in Gen \cup {-1}
    /\ gib \in [Entry -> Trix]
    /\ opc_dealnum \in Gen \cup {-1}
    /\ opc_cached \in [Side -> BOOLEAN]
    /\ opcRes \in [gen : Gen, side : Side]
    /\ opc \in [Side -> [gen : Gen, side : Side]]
    /\ answer \in [by : {"trix", "par", "gib", "opc"}, about : Gen, of : Trix,
                   side : Side \cup {-1}]
    /\ solved \in [board : Nat, table : Nat]
    /\ failed \in [trix : Gen, par : Gen, gib : Gen]
    /\ dopFailed \in [Side -> Gen]

\* Whatever mix of dds(), par(), trix(), tricks() and opc() a deal is asked,
\* and whatever earlier deals were asked, the value returned is of this deal
\* and this side: every cache notices that curdeal has changed under it.  Only
\* when the last call behind it, of the library, GIB or DOP for this side,
\* failed for this very deal is it not, since the code goes on all the same:
\* a failure is not felt in the next deal, or in what another program answers.
AnswerCurrent ==
    \/ answer.about = answer.of
    \/ answer.by = "opc" /\ dopFailed[answer.side] = answer.about
    \/ answer.by # "opc" /\ failed[answer.by] = answer.about

\* In table mode a table filled for this deal is whole, and its par scores are
\* this deal's (library deals have theirs computed when asked), unless the last
\* call for this very deal failed: dds_parscore() and csv_trix() look at one
\* entry to decide about all.
TableWhole ==
    dds_mode = "table" /\ dds_dealnum = ngen =>
        /\ (\A e \in Entry : trix[e] = ngen) \/ failed.trix = ngen
        /\ LibMode \/ par = ngen \/ failed.par = ngen

Known == {e \in Entry : dds_dealnum = ngen /\ trix[e] # INV_TRIX}

\* Nothing is solved twice for a deal: in board mode every call of the solver
\* brought a result that is still known, a whole table is made at most once,
\* and in library mode, which "returns all 20 results" (dealinit_subs.c:234),
\* the solver is never called.
SolvedOnce ==
    /\ dds_mode = "board" =>
           solved = [board |-> Cardinality(Known), table |-> 0]
    /\ solved.table <= 1 /\ solved.board <= Cardinality(Entry)
    /\ LibMode => solved = [board |-> 0, table |-> 0]
=============================================================================
