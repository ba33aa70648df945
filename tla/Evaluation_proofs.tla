-------------------------- MODULE Evaluation_proofs --------------------------
(***************************************************************************)
(* Proofs about what evaltree() reads.  The caches (EvalCaches), for any   *)
(* hands, strains and number of deals, in library mode and out of it: no   *)
(* value is of another deal.  The hand and the shapes (Analysis), for any  *)
(* suit, any order of its cards and any lists of shapes: the losers are    *)
(* those of the holding, and up to the sixteenth shape statement a hand    *)
(* meets the shapes that their lists say.                                  *)
(*                                                                         *)
(* The two modules share no state: their theorems are side by side.        *)
(***************************************************************************)
EXTENDS EvalCaches, Analysis, FiniteSetTheorems, WellFoundedInduction, TLAPS

-----------------------------------------------------------------------------
(* The caches. *)


\* A cache that claims to be of this deal holds nothing of another one, unless
\* the last call behind it failed, and none claims to be of a deal to come.  In
\* board mode no table was ever asked for.
DdsSound ==
    /\ dds_dealnum <= ngen
    /\ dds_dealnum = ngen =>
           failed.trix = ngen \/ \A e \in Entry : trix[e] \in {INV_TRIX, ngen}
    /\ dds_mode = "board" => failed.trix = 0
    /\ TableWhole

GibSound ==
    /\ gib_dealnum <= ngen
    /\ gib_dealnum = ngen =>
           failed.gib = ngen \/ \A e \in Entry : gib[e] \in {INV_TRIX, ngen}

\* Unless DOP failed for this side of this deal, a record is of them.
OpcRight(r, sd) == r = [gen |-> ngen, side |-> sd] \/ dopFailed[sd] = ngen

OpcSound ==
    /\ opc_dealnum <= ngen
    /\ opc_dealnum = ngen =>
           \A sd \in Side : opc_cached[sd] => OpcRight(opc[sd], sd)

\* In library mode every deal comes with a whole table.
LibSound ==
    LibMode =>
        /\ dds_mode = "table" /\ failed.trix = 0
        /\ ngen > 0 => dds_dealnum = ngen

\* A table that was made for this deal is still there.
SolvedSound ==
    /\ SolvedOnce
    /\ solved.table = 1 =>
           dds_mode = "table" /\ dds_dealnum = ngen /\ failed.trix # ngen

IInv ==
    /\ TypeOK /\ AnswerCurrent
    /\ DdsSound /\ GibSound /\ OpcSound /\ LibSound /\ SolvedSound

-----------------------------------------------------------------------------
\* The entries dds_parscore() and csv_trix() test are among the entries.
LEMMA Tested == <<0, 0>> \in Entry /\ <<South, NoTrump>> \in Entry
  BY EntryAssumption DEF Entry

\* What is known is at most every entry.
LEMMA KnownCounts ==
    /\ IsFiniteSet(Known) /\ Cardinality(Known) \in Nat
    /\ Cardinality(Entry) \in Nat
    /\ Cardinality(Known) <= Cardinality(Entry)
  <1>1. IsFiniteSet(Entry)
    BY EntryAssumption, FS_Product DEF Entry
  <1>2. Known \subseteq Entry
    BY DEF Known
  <1>. QED
    BY <1>1, <1>2, FS_Subset, FS_CardinalityType

\* The initial state satisfies the invariant.
LEMMA InitIInv == Init => IInv
  <1> SUFFICES ASSUME Init PROVE IInv
    OBVIOUS
  <1>1. TypeOK
    BY EntryAssumption, SMTT(30) DEF Init, TypeOK, Trix, INV_TRIX, Gen, Side
  <1>2. AnswerCurrent /\ DdsSound /\ GibSound /\ OpcSound /\ LibSound
    BY EntryAssumption, SMTT(30)
    DEF Init, AnswerCurrent, DdsSound, TableWhole, GibSound, OpcSound,
        OpcRight, LibSound, INV_TRIX, Side
  <1>3. SolvedSound
    <2>1. Known = {}
      BY DEF Init, Known
    <2>2. Cardinality(Known) = 0
      BY <2>1, FS_EmptySet
    <2>. QED
      BY <2>2, KnownCounts DEF Init, SolvedSound, SolvedOnce
  <1>. QED
    BY <1>1, <1>2, <1>3 DEF IInv

\* A new deal leaves every cache of an earlier deal, or brings a whole table.
LEMMA NextDealIInv == IInv /\ NextDeal => IInv'
  <1> SUFFICES ASSUME IInv, NextDeal PROVE IInv'
    OBVIOUS
  <1> USE EntryAssumption DEF IInv, NextDeal, TypeOK, Trix, Gen, INV_TRIX, gibVars,
                              opcVars
  <1>1. TypeOK'
    <2>1. ngen' \in Gen /\ dds_dealnum' \in Gen \cup {-1}
      OBVIOUS
    <2>2. trix' \in [Entry -> Gen \cup {INV_TRIX}]
      BY <2>1
    <2>3. solved' \in [board : Nat, table : Nat]
      OBVIOUS
    <2>. QED
      BY <2>1, <2>2, <2>3
  <1>2. AnswerCurrent'
    BY DEF AnswerCurrent
  <1>3. DdsSound'
    BY DEF DdsSound, TableWhole, LibSound
  <1>4. GibSound'
    BY DEF GibSound
  <1>5. OpcSound'
    BY DEF OpcSound
  <1>6. LibSound'
    BY DEF LibSound
  <1>7. SolvedSound'
    <2>1. dds_mode' = "board" => Known' = {}
      BY DEF Known, DdsSound, LibSound
    <2>2. dds_mode' = "board" => Cardinality(Known)' = 0
      BY <2>1, FS_EmptySet
    <2>. QED
      BY <2>2, KnownCounts DEF SolvedSound, SolvedOnce
  <1>. QED
    BY <1>1, <1>2, <1>3, <1>4, <1>5, <1>6, <1>7

-----------------------------------------------------------------------------
\* A table as the nodes may use it: of this deal and whole, or one of which the
\* failure is known.
TableMade ==
    /\ dds_mode = "table" /\ dds_dealnum = ngen
    /\ failed.trix = ngen \/ \A e \in Entry : trix[e] = ngen
    /\ LibMode \/ failed.par = ngen \/ par = ngen

\* true_CalcTable() leaves a table of this deal, and is not called again after
\* it could make one.
LEMMA CalcTableSound ==
  ASSUME IInv, CalcTable, ngen' = ngen, ngen > 0, ~LibMode, ~LibMode',
         dds_mode' = "table",
         NEW e \in Entry,
         dds_mode = "board" \/ CheckCache(dds_dealnum, e) # "OK"
  PROVE  /\ TableMade' /\ DdsSound' /\ LibSound' /\ SolvedSound'
         /\ trix' \in [Entry -> Trix] /\ par' \in Trix
         /\ solved' \in [board : Nat, table : Nat]
         /\ failed' \in [trix : Gen, par : Gen, gib : Gen]
         /\ failed'.gib = failed.gib
  <1> USE DEF IInv
  <1>0. /\ ngen \in Gen /\ ngen \in Nat /\ ngen # INV_TRIX
        /\ 0 \in Trix /\ ngen \in Trix /\ INV_TRIX \in Trix /\ 0 \in Gen
        /\ solved.table \in Nat /\ solved.board \in Nat
        /\ solved \in [board : Nat, table : Nat]
        /\ failed \in [trix : Gen, par : Gen, gib : Gen]
    BY EntryAssumption DEF TypeOK, Gen, Trix, INV_TRIX
  <1>1. solved.table = 0
    <2> SUFFICES ASSUME solved.table = 1 PROVE FALSE
      BY <1>0 DEF SolvedSound, SolvedOnce
    <2>1. dds_mode = "table" /\ dds_dealnum = ngen /\ trix[e] = ngen
      BY DEF SolvedSound, DdsSound, TableWhole
    <2>. QED
      BY <1>0, <2>1 DEF CheckCache
  <1>2. solved.board <= Cardinality(Entry)
    BY DEF SolvedSound, SolvedOnce
  <1>3. /\ dds_dealnum' = ngen
        /\ trix' \in [Entry -> Trix] /\ par' \in Trix
        /\ solved' \in [board : Nat, table : Nat]
        /\ failed' \in [trix : Gen, par : Gen, gib : Gen]
        /\ failed'.gib = failed.gib
        /\ solved'.board = solved.board
        /\ failed'.par = ngen \/ par' = ngen
        /\ \/ failed'.trix = ngen /\ solved'.table = 0
           \/ /\ \A f \in Entry : trix'[f] = ngen
              /\ failed'.trix # ngen /\ solved'.table = 1
    <2>1. CASE TableCalculated
      <3>1. /\ trix' = [f \in Entry |-> ngen]
            /\ solved' = [solved EXCEPT !.table = @ + 1]
            /\ \/ par' = ngen /\ failed' = [failed EXCEPT !.trix = 0, !.par = 0]
               \/ par' = 0 /\ failed' = [failed EXCEPT !.trix = 0, !.par = ngen]
        BY <2>1 DEF TableCalculated, DdsParCalcs
      <3>2. /\ trix' \in [Entry -> Trix]
            /\ \A f \in Entry : trix'[f] = ngen
        BY <1>0, <3>1
      <3>3. /\ solved' \in [board : Nat, table : Nat]
            /\ solved'.board = solved.board /\ solved'.table = 1
        BY <1>0, <1>1, <3>1
      <3>4. /\ failed' \in [trix : Gen, par : Gen, gib : Gen]
            /\ failed'.gib = failed.gib /\ failed'.trix = 0
            /\ par' \in Trix
            /\ failed'.par = ngen \/ par' = ngen
        <4>1. CASE par' = ngen /\ failed' = [failed EXCEPT !.trix = 0, !.par = 0]
          BY <1>0, <4>1
        <4>2. CASE par' = 0 /\ failed' = [failed EXCEPT !.trix = 0, !.par = ngen]
          BY <1>0, <4>2
        <4>. QED
          BY <3>1, <4>1, <4>2
      <3>. QED
        BY <1>0, <3>2, <3>3, <3>4 DEF CalcTable
    <2>2. CASE TableFailed
      <3>1. /\ trix' \in [Entry -> {0, INV_TRIX}]
            /\ solved' = solved /\ par' = 0
            /\ failed' = [failed EXCEPT !.trix = ngen, !.par = ngen]
        BY <2>2 DEF TableFailed, DdsParCalcs
      <3>2. trix' \in [Entry -> Trix]
        BY <1>0, <3>1
      <3>. QED
        BY <1>0, <1>1, <3>1, <3>2 DEF CalcTable
    <2>. QED
      BY <2>1, <2>2 DEF CalcTable
  <1>4. TableMade' /\ DdsSound' /\ LibSound'
    BY <1>0, <1>3 DEF TableMade, DdsSound, TableWhole, LibSound
  <1>5. SolvedSound'
    BY <1>0, <1>2, <1>3 DEF SolvedSound, SolvedOnce
  <1>. QED
    BY <1>3, <1>4, <1>5

\* dds_parscore() and csv_trix() go on with a table of this deal.
LEMMA WholeTableSound ==
  ASSUME IInv, NEW e \in Entry, WholeTable(e), ngen' = ngen, ngen > 0,
         LibMode' = LibMode
  PROVE  /\ TableMade' /\ DdsSound' /\ LibSound' /\ SolvedSound'
         /\ trix' \in [Entry -> Trix] /\ par' \in Trix
         /\ dds_dealnum' \in Gen \cup {-1}
         /\ solved' \in [board : Nat, table : Nat]
         /\ failed' \in [trix : Gen, par : Gen, gib : Gen]
         /\ failed'.gib = failed.gib
  <1> USE DEF IInv
  <1>0. ngen \in Nat /\ ngen \in Gen /\ ngen # INV_TRIX
    BY EntryAssumption DEF TypeOK, Gen, INV_TRIX
  <1>1. CASE CheckCache(TableDealnum, e) = "OK"
    <2>1. /\ dds_mode = "table" /\ dds_dealnum = ngen /\ dds_mode' = "table"
          /\ UNCHANGED <<dds_dealnum, trix, par, solved, failed>>
      BY <1>0, <1>1 DEF WholeTable, CheckCache, TableDealnum
    <2>2. DdsSound' /\ TableMade' /\ LibSound'
      BY <1>0, <2>1 DEF TableMade, DdsSound, TableWhole, LibSound
    <2>3. SolvedSound'
      BY <1>0, <2>1 DEF SolvedSound, SolvedOnce
    <2>. QED
      BY <2>1, <2>2, <2>3 DEF TypeOK
  <1>2. CASE CheckCache(TableDealnum, e) # "OK"
    <2>1. CalcTable /\ dds_mode' = "table"
      BY <1>2 DEF WholeTable
    <2>2. dds_mode = "board" \/ CheckCache(dds_dealnum, e) # "OK"
      BY <1>2 DEF TableDealnum, TypeOK
    <2>3. ~LibMode
      BY <1>0, <2>2 DEF LibSound, CheckCache, DdsSound, TableWhole
    <2>4. dds_dealnum' = ngen
      BY <2>1 DEF CalcTable
    <2>. QED
      BY <1>0, <2>1, <2>2, <2>3, <2>4, CalcTableSound
  <1>. QED
    BY <1>1, <1>2

\* What the answers of the other programs rest on is as before.
LEMMA OthersSound ==
  ASSUME IInv, UNCHANGED <<LibMode, faults, ngen, gibVars, opcVars>>,
         failed'.gib = failed.gib,
         DdsSound', LibSound', SolvedSound', AnswerCurrent',
         dds_mode' \in {"board", "table"}, dds_dealnum' \in Gen \cup {-1},
         trix' \in [Entry -> Trix], par' \in Trix,
         solved' \in [board : Nat, table : Nat],
         failed' \in [trix : Gen, par : Gen, gib : Gen],
         answer' \in [by : {"trix", "par", "gib", "opc"}, about : Gen,
                      of : Trix, side : Side \cup {-1}]
  PROVE  IInv'
  <1>1. TypeOK'
    BY DEF IInv, TypeOK, gibVars, opcVars
  <1>2. GibSound' /\ OpcSound'
    BY DEF IInv, GibSound, OpcSound, OpcRight, gibVars, opcVars
  <1>. QED
    BY <1>1, <1>2 DEF IInv

\* dds() answers from, and leaves, results of this deal.
LEMMA DdsIInv == ASSUME IInv, NEW e \in Entry, DdsTricks(e) PROVE IInv'
  <1> USE DEF IInv
  <1>0. /\ ngen \in Nat /\ ngen \in Gen /\ ngen > 0 /\ ngen # INV_TRIX
        /\ ngen \in Trix /\ INV_TRIX \in Trix
        /\ UNCHANGED <<LibMode, faults, ngen, dds_mode, gibVars, opcVars>>
        /\ answer' = [by |-> "trix", about |-> ngen, of |-> trix'[e], side |-> -1]
    BY EntryAssumption DEF TypeOK, Gen, Trix, INV_TRIX, DdsTricks, Returns
  <1>1. /\ DdsSound' /\ LibSound' /\ SolvedSound'
        /\ trix'[e] = ngen \/ failed'.trix = ngen
        /\ dds_dealnum' \in Gen \cup {-1}
        /\ trix' \in [Entry -> Trix] /\ par' \in Trix
        /\ solved' \in [board : Nat, table : Nat]
        /\ failed' \in [trix : Gen, par : Gen, gib : Gen]
        /\ failed'.gib = failed.gib
    <2>1. CASE CheckCache(dds_dealnum, e) = "OK"
      <3>1. /\ UNCHANGED <<dds_dealnum, trix, par, solved, failed>>
            /\ trix[e] = ngen \/ failed.trix = ngen
        BY <1>0, <2>1 DEF DdsTricks, CheckCache, DdsSound
      <3>2. DdsSound' /\ LibSound'
        BY <1>0, <3>1 DEF DdsSound, TableWhole, LibSound
      <3>3. Known' = Known
        BY <1>0, <3>1 DEF Known
      <3>4. SolvedSound'
        BY <1>0, <3>1, <3>3 DEF SolvedSound, SolvedOnce
      <3>. QED
        BY <1>0, <3>1, <3>2, <3>4 DEF TypeOK
    <2>2. CASE CheckCache(dds_dealnum, e) # "OK" /\ dds_mode = "table"
      <3>1. CalcTable /\ ~LibMode /\ dds_mode' = "table"
        BY <1>0, <2>2
        DEF DdsTricks, CheckCache, DdsSound, TableWhole, LibSound
      <3>2. TableMade' /\ dds_dealnum' = ngen
        BY <1>0, <2>2, <3>1, CalcTableSound DEF CalcTable
      <3>. QED
        BY <1>0, <2>2, <3>1, <3>2, CalcTableSound DEF TableMade
    <2>3. CASE CheckCache(dds_dealnum, e) # "OK" /\ dds_mode = "board"
      <3> DEFINE known == KnownTrix(dds_dealnum)
      <3>1. SolveBoard(e, known) /\ ~LibMode /\ failed.trix = 0
        BY <2>3 DEF DdsTricks, LibSound, DdsSound
      <3>2. /\ known \in [Entry -> Trix]
            /\ \A f \in Entry : known[f] \in {INV_TRIX, ngen}
            /\ \A f \in Entry : known[f] # INV_TRIX <=> f \in Known
        BY <1>0, <3>1 DEF KnownTrix, DdsSound, TypeOK, Known
      <3>3. /\ dds_dealnum' = ngen /\ par' = par /\ failed' = failed
            /\ trix' = [known EXCEPT ![e] = ngen]
            /\ solved' = [solved EXCEPT !.board = @ + 1]
        BY <3>1 DEF SolveBoard
      <3>4. e \notin Known
        BY <1>0, <2>3 DEF CheckCache, Known
      <3> HIDE DEF known
      <3>5. /\ trix' \in [Entry -> Trix]
            /\ trix'[e] = ngen
            /\ \A f \in Entry : trix'[f] \in {INV_TRIX, ngen}
        BY <1>0, <3>2, <3>3
      <3>6. DdsSound' /\ LibSound'
        BY <1>0, <2>3, <3>1, <3>3, <3>5 DEF DdsSound, TableWhole, LibSound
      <3>7. Known' = Known \cup {e}
        <4>1. \A f \in Entry : trix'[f] # INV_TRIX <=> f \in Known \/ f = e
          BY <1>0, <3>2, <3>3
        <4>2. Known' = {f \in Entry : trix'[f] # INV_TRIX}
          BY <1>0, <3>3 DEF Known
        <4>3. Known \subseteq Entry
          BY DEF Known
        <4>. QED
          BY <4>1, <4>2, <4>3
      <3>8. Cardinality(Known') = Cardinality(Known) + 1
        BY <3>4, <3>7, KnownCounts, FS_AddElement
      <3>9. Cardinality(Known') <= Cardinality(Entry)
        <4>1. Known' \subseteq Entry
          BY <3>7 DEF Known
        <4>2. IsFiniteSet(Entry)
          BY EntryAssumption, FS_Product DEF Entry
        <4>. QED
          BY <4>1, <4>2, FS_Subset
      <3>10. SolvedSound'
        <4>1. solved = [board |-> Cardinality(Known), table |-> 0]
          BY <2>3 DEF SolvedSound, SolvedOnce
        <4>2. solved' = [board |-> Cardinality(Known'), table |-> 0]
          BY <3>3, <3>8, <4>1
        <4>. QED
          BY <1>0, <3>1, <3>9, <4>2 DEF SolvedSound, SolvedOnce
      <3>11. solved' \in [board : Nat, table : Nat]
        BY <3>3 DEF TypeOK
      <3>. QED
        BY <1>0, <3>3, <3>5, <3>6, <3>10, <3>11 DEF TypeOK
    <2>. QED
      BY <2>1, <2>2, <2>3 DEF TypeOK
  <1>2. AnswerCurrent'
    BY <1>0, <1>1 DEF AnswerCurrent
  <1>3. answer' \in [by : {"trix", "par", "gib", "opc"}, about : Gen,
                     of : Trix, side : Side \cup {-1}]
    BY <1>0, <1>1
  <1>4. dds_mode' \in {"board", "table"}
    BY <1>0 DEF TypeOK
  <1>. QED
    BY <1>0, <1>1, <1>2, <1>3, <1>4, OthersSound

\* par() returns, and leaves, par scores of this deal.
LEMMA ParIInv == IInv /\ ParScore => IInv'
  <1> SUFFICES ASSUME IInv, ParScore PROVE IInv'
    OBVIOUS
  <1> USE DEF IInv
  <1>0. /\ ngen \in Nat /\ ngen \in Gen /\ ngen > 0 /\ ngen # INV_TRIX
        /\ 0 \in Trix /\ ngen \in Trix /\ 0 \in Gen
        /\ failed \in [trix : Gen, par : Gen, gib : Gen]
        /\ UNCHANGED <<LibMode, faults, ngen, gibVars, opcVars>>
        /\ answer' = [by |-> "par", about |-> ngen, of |-> par', side |-> -1]
    BY EntryAssumption DEF TypeOK, Gen, Trix, INV_TRIX, ParScore, Returns
  <1>1. /\ DdsSound' /\ LibSound' /\ SolvedSound'
        /\ par' = ngen \/ failed'.par = ngen
        /\ dds_mode' \in {"board", "table"}
        /\ dds_dealnum' \in Gen \cup {-1}
        /\ trix' \in [Entry -> Trix] /\ par' \in Trix
        /\ solved' \in [board : Nat, table : Nat]
        /\ failed' \in [trix : Gen, par : Gen, gib : Gen]
        /\ failed'.gib = failed.gib
    <2>1. CASE LibMode
      <3>1. /\ trix[<<0, 0>>] = ngen /\ dds_mode = "table" /\ failed.trix = 0
            /\ dds_dealnum = ngen
        BY <1>0, <2>1, Tested DEF LibSound, DdsSound, TableWhole
      <3>2. /\ UNCHANGED <<dds_dealnum, dds_mode, trix, solved>>
            /\ \/ par' = ngen /\ failed' = [failed EXCEPT !.trix = 0, !.par = 0]
               \/ par' = 0 /\ failed' = [failed EXCEPT !.trix = 0, !.par = ngen]
        BY <2>1, <3>1 DEF ParScore, DdsParCalcs
      <3>3. /\ failed' \in [trix : Gen, par : Gen, gib : Gen]
            /\ failed'.gib = failed.gib /\ failed'.trix = 0
            /\ par' = ngen \/ failed'.par = ngen
            /\ par' \in Trix
        <4>1. CASE par' = ngen /\ failed' = [failed EXCEPT !.trix = 0, !.par = 0]
          BY <1>0, <4>1
        <4>2. CASE par' = 0 /\ failed' = [failed EXCEPT !.trix = 0, !.par = ngen]
          BY <1>0, <4>2
        <4>. QED
          BY <3>2, <4>1, <4>2
      <3>4. DdsSound' /\ LibSound'
        BY <1>0, <2>1, <3>1, <3>2, <3>3 DEF DdsSound, TableWhole, LibSound
      <3>5. SolvedSound'
        BY <1>0, <3>1, <3>2, <3>3 DEF SolvedSound, SolvedOnce
      <3>. QED
        BY <3>1, <3>2, <3>3, <3>4, <3>5 DEF TypeOK
    <2>2. CASE ~LibMode
      <3>1. WholeTable(<<0, 0>>)
        BY <2>2 DEF ParScore
      <3>2. TableMade'
        BY <1>0, <3>1, Tested, WholeTableSound
      <3>. QED
        BY <1>0, <2>2, <3>1, <3>2, Tested, WholeTableSound DEF TableMade
    <2>. QED
      BY <2>1, <2>2
  <1>2. AnswerCurrent'
    BY <1>0, <1>1 DEF AnswerCurrent
  <1>3. answer' \in [by : {"trix", "par", "gib", "opc"}, about : Gen,
                     of : Trix, side : Side \cup {-1}]
    BY <1>0, <1>1
  <1>. QED
    BY <1>0, <1>1, <1>2, <1>3, OthersSound

\* trix() returns entries of a table of this deal.
LEMMA CsvIInv == ASSUME IInv, NEW h \in Hand, CsvTrix(h) PROVE IInv'
  <1> USE DEF IInv
  <1>0. /\ ngen \in Nat /\ ngen \in Gen /\ ngen > 0
        /\ UNCHANGED <<LibMode, faults, ngen, gibVars, opcVars>>
        /\ WholeTable(<<South, NoTrump>>)
    BY EntryAssumption DEF TypeOK, Gen, CsvTrix
  <1>1. /\ TableMade' /\ DdsSound' /\ LibSound' /\ SolvedSound'
        /\ trix' \in [Entry -> Trix] /\ par' \in Trix
        /\ dds_dealnum' \in Gen \cup {-1}
        /\ solved' \in [board : Nat, table : Nat]
        /\ failed' \in [trix : Gen, par : Gen, gib : Gen]
        /\ failed'.gib = failed.gib
    BY <1>0, Tested, WholeTableSound
  <1>2. PICK s \in Strain : answer' = Returns("trix", trix'[<<h, s>>])
    BY DEF CsvTrix
  <1>3. /\ trix'[<<h, s>>] \in Trix
        /\ trix'[<<h, s>>] = ngen \/ failed'.trix = ngen
    BY <1>0, <1>1 DEF Entry, TableMade
  <1>4. answer' = [by |-> "trix", about |-> ngen, of |-> trix'[<<h, s>>], side |-> -1]
    BY <1>2 DEF Returns
  <1>5. AnswerCurrent'
    BY <1>0, <1>3, <1>4 DEF AnswerCurrent
  <1>6. answer' \in [by : {"trix", "par", "gib", "opc"}, about : Gen,
                     of : Trix, side : Side \cup {-1}]
    BY <1>0, <1>3, <1>4
  <1>7. dds_mode' \in {"board", "table"}
    BY <1>1 DEF TableMade
  <1>. QED
    BY <1>0, <1>1, <1>5, <1>6, <1>7, OthersSound

-----------------------------------------------------------------------------
\* tricks() keeps GIB's cache of this deal only.
LEMMA GibIInv == ASSUME IInv, NEW e \in Entry, GibTricks(e) PROVE IInv'
  <1> USE DEF IInv
  <1>0. /\ ngen \in Nat /\ ngen \in Gen /\ ngen > 0 /\ ngen # INV_TRIX
        /\ 0 \in Trix /\ ngen \in Trix /\ INV_TRIX \in Trix
        /\ failed \in [trix : Gen, par : Gen, gib : Gen]
        /\ UNCHANGED <<LibMode, faults, ngen, ddsVars, opcVars>>
        /\ gib_dealnum' = ngen
        /\ answer' = [by |-> "gib", about |-> ngen, of |-> gib'[e], side |-> -1]
    BY EntryAssumption DEF TypeOK, Gen, Trix, INV_TRIX, GibTricks, Returns
  <1>1. /\ GibKnown \in [Entry -> Trix]
        /\ failed.gib = ngen \/ \A f \in Entry : GibKnown[f] \in {INV_TRIX, ngen}
    BY <1>0 DEF GibKnown, GibSound, TypeOK
  <1>2. /\ gib' \in [Entry -> Trix]
        /\ \/ failed'.gib = ngen
           \/ /\ gib'[e] = ngen
              /\ \A f \in Entry : gib'[f] \in {INV_TRIX, ngen}
        /\ failed' \in [trix : Gen, par : Gen, gib : Gen]
        /\ failed'.trix = failed.trix /\ failed'.par = failed.par
    <2>1. CASE GibKnown[e] = INV_TRIX
      <3>1. TrueDD(e)
        BY <2>1 DEF GibTricks
      <3> HIDE DEF GibKnown
      <3>2. CASE gib' = [GibKnown EXCEPT ![e] = ngen] /\ failed' = failed
        BY <1>0, <1>1, <3>2
      <3>3. CASE \E t \in {0, INV_TRIX} :
                     /\ gib' = [GibKnown EXCEPT ![e] = t]
                     /\ failed' = [failed EXCEPT !.gib = ngen]
        BY <1>0, <1>1, <3>3
      <3>. QED
        BY <3>1, <3>2, <3>3 DEF TrueDD
    <2>2. CASE GibKnown[e] # INV_TRIX
      <3>1. gib' = GibKnown /\ failed' = failed
        BY <2>2 DEF GibTricks
      <3> HIDE DEF GibKnown
      <3>. QED
        BY <1>0, <1>1, <2>2, <3>1
    <2>. QED
      BY <2>1, <2>2
  <1>3. answer' \in [by : {"trix", "par", "gib", "opc"}, about : Gen,
                     of : Trix, side : Side \cup {-1}]
    BY <1>0, <1>2
  <1>4. TypeOK'
    BY <1>0, <1>2, <1>3 DEF TypeOK, ddsVars, opcVars
  <1>5. AnswerCurrent' /\ GibSound'
    BY <1>0, <1>2 DEF AnswerCurrent, GibSound
  <1>6. DdsSound' /\ OpcSound' /\ LibSound'
    BY <1>0, <1>2 DEF DdsSound, TableWhole, OpcSound, OpcRight, LibSound,
                      ddsVars, opcVars
  <1>7. SolvedSound'
    <2>1. Known' = Known
      BY <1>0 DEF Known, ddsVars
    <2>. QED
      BY <1>0, <1>2, <2>1 DEF SolvedSound, SolvedOnce, ddsVars
  <1>. QED
    BY <1>4, <1>5, <1>6, <1>7

\* opc() trusts a side's values only when they are of this deal, or DOP failed.
LEMMA OpcIInv == ASSUME IInv, NEW sd \in Side, OpcValue(sd) PROVE IInv'
  <1> USE DEF IInv, OpcValue, ddsVars, gibVars
  <1>0. /\ ngen \in Nat /\ ngen \in Gen /\ ngen > 0 /\ ngen' = ngen
        /\ failed' = failed
    BY EntryAssumption DEF TypeOK, Gen
  <1>1. /\ OpcSound' /\ OpcRight(opc[sd], sd)'
        /\ opcRes' \in [gen : Gen, side : Side]
        /\ opc' \in [Side -> [gen : Gen, side : Side]]
        /\ opc_cached' \in [Side -> BOOLEAN]
        /\ opc_dealnum' \in Gen \cup {-1}
        /\ dopFailed' \in [Side -> Gen]
    <2>1. CASE OpcKnown(sd)[sd]
      BY <1>0, <2>1 DEF OpcKnown, OpcSound, OpcRight, TypeOK, opcVars
    <2>2. CASE ~OpcKnown(sd)[sd]
      <3>1. /\ OpcKnown(sd) \in [Side -> BOOLEAN]
            /\ \A p \in Side : OpcKnown(sd)[p] => OpcRight(opc[p], p)
        BY DEF OpcKnown, OpcSound, TypeOK
      <3> HIDE DEF OpcKnown
      <3>2. /\ opc' = [opc EXCEPT ![sd] = opcRes']
            /\ opc_cached' = [OpcKnown(sd) EXCEPT ![sd] = TRUE]
            /\ opc_dealnum' = ngen
            /\ GetOpcVals(sd) \/ GetOpcValsFails(sd)
        BY <2>2
      <3>3. /\ opcRes' \in [gen : Gen, side : Side]
            /\ dopFailed' \in [Side -> Gen]
            /\ \A p \in Side : dopFailed[p] = ngen => dopFailed'[p] = ngen
            /\ OpcRight(opcRes, sd)'
        <4>1. CASE GetOpcVals(sd)
          BY <1>0, <4>1 DEF GetOpcVals, OpcRight, TypeOK
        <4>2. CASE GetOpcValsFails(sd)
          BY <1>0, <4>2 DEF GetOpcValsFails, OpcRight, TypeOK
        <4>. QED
          BY <3>2, <4>1, <4>2
      <3>4. opc' \in [Side -> [gen : Gen, side : Side]] /\ opc'[sd] = opcRes'
        BY <3>2, <3>3 DEF TypeOK
      <3>5. ASSUME NEW p \in Side, opc_cached'[p]
            PROVE  OpcRight(opc[p], p)'
        <4>1. CASE p = sd
          BY <3>3, <3>4, <4>1 DEF OpcRight
        <4>2. CASE p # sd
          <5>1. opc'[p] = opc[p] /\ OpcKnown(sd)[p]
            BY <3>1, <3>2, <3>5, <4>2 DEF TypeOK
          <5>. QED
            BY <1>0, <3>1, <3>3, <5>1 DEF OpcRight
        <4>. QED
          BY <4>1, <4>2
      <3>6. opc_cached' \in [Side -> BOOLEAN]
        BY <3>1, <3>2
      <3>7. OpcSound'
        BY <1>0, <3>2, <3>5 DEF OpcSound
      <3>8. OpcRight(opc[sd], sd)'
        BY <3>3, <3>4 DEF OpcRight
      <3>. QED
        BY <1>0, <3>2, <3>3, <3>4, <3>6, <3>7, <3>8
    <2>. QED
      BY <2>1, <2>2
  <1>2. answer' = [by |-> "opc", about |-> ngen, side |-> sd,
                   of |-> IF opc'[sd].side = sd THEN opc'[sd].gen ELSE 0]
    OBVIOUS
  <1>3. answer' \in [by : {"trix", "par", "gib", "opc"}, about : Gen,
                     of : Trix, side : Side \cup {-1}]
    <2>1. 0 \in Gen /\ opc'[sd] \in [gen : Gen, side : Side]
      <3>1. 0 \in Gen
        BY EntryAssumption DEF Gen
      <3>. QED
        BY <1>1, <3>1
    <2>2. opc'[sd].gen \in Trix /\ 0 \in Trix
      BY <2>1 DEF Trix
    <2>. QED
      BY <1>0, <1>2, <2>1, <2>2
  <1>4. TypeOK'
    BY <1>0, <1>1, <1>3 DEF TypeOK
  <1>5. AnswerCurrent'
    BY <1>0, <1>1, <1>2 DEF AnswerCurrent, OpcRight
  <1>6. DdsSound' /\ GibSound' /\ LibSound'
    BY <1>0, <1>1 DEF DdsSound, TableWhole, GibSound, LibSound
  <1>7. SolvedSound'
    <2>1. Known' = Known
      BY <1>0 DEF Known
    <2>. QED
      BY <1>0, <2>1 DEF SolvedSound, SolvedOnce
  <1>. QED
    BY <1>1, <1>4, <1>5, <1>6, <1>7

-----------------------------------------------------------------------------
\* No step leaves the invariant.
LEMMA StepIInv == IInv /\ [Next]_vars => IInv'
  <1> SUFFICES ASSUME IInv, [Next]_vars PROVE IInv'
    OBVIOUS
  <1>1. CASE NextDeal
    BY <1>1, NextDealIInv
  <1>2. CASE \E e \in Entry : DdsTricks(e)
    BY <1>2, DdsIInv
  <1>3. CASE \E e \in Entry : GibTricks(e)
    BY <1>3, GibIInv
  <1>4. CASE ParScore
    BY <1>4, ParIInv
  <1>5. CASE \E h \in Hand : CsvTrix(h)
    BY <1>5, CsvIInv
  <1>6. CASE \E sd \in Side : OpcValue(sd)
    BY <1>6, OpcIInv
  <1>7. CASE UNCHANGED vars
    BY <1>7 DEF vars, ddsVars, gibVars, opcVars, IInv, TypeOK, AnswerCurrent,
                DdsSound, TableWhole, GibSound, OpcSound, OpcRight, LibSound,
                SolvedSound, SolvedOnce, Known
  <1>. QED
    BY <1>1, <1>2, <1>3, <1>4, <1>5, <1>6, <1>7 DEF Next

\* The invariant of the caches of evaltree().
THEOREM Inductive == Spec => []IInv
  BY InitIInv, StepIInv, PTL DEF Spec

\* Every value returned is of the current deal, unless the call behind it
\* failed for this very deal.
THEOREM Fresh == Spec => []AnswerCurrent
  <1>1. IInv => AnswerCurrent
    BY DEF IInv
  <1>. QED
    BY <1>1, Inductive, PTL

\* A table of the current deal is whole, unless its call failed.
THEOREM Whole == Spec => []TableWhole
  <1>1. IInv => TableWhole
    BY DEF IInv, DdsSound
  <1>. QED
    BY <1>1, Inductive, PTL

\* Nothing is solved twice for a deal, and no solved deal is solved again.
THEOREM Once == Spec => []SolvedOnce
  <1>1. IInv => SolvedOnce
    BY DEF IInv, SolvedSound
  <1>. QED
    BY <1>1, Inductive, PTL

\* Every variable holds a value of its kind.
THEOREM TypeCorrect == Spec => []TypeOK
  <1>1. IInv => TypeOK
    BY DEF IInv
  <1>. QED
    BY <1>1, Inductive, PTL

-----------------------------------------------------------------------------
(* Losers: the three top cards, and what countltc() makes of them. *)

\* The weights of the cards, and which of them tell the card.
LEMMA Weights ==
  ASSUME NEW r \in 0 .. 12
  PROVE  LET w == idxLTCwts(r)
         IN  /\ w \in {64, 32, 16, 8, 4, 1}
             /\ (w = 64 <=> r = 12) /\ (w = 32 <=> r = 11) /\ (w = 16 <=> r = 10)
             /\ (w = 8 <=> r = 9) /\ (w = 4 <=> r = 8)
  BY DEF idxLTCwts

\* Cards a, b and c are the highest of h, and t has their weights.
Three(t, h, a, b, c) ==
    /\ a \in h /\ b \in h /\ c \in h /\ a # b /\ a # c /\ b # c
    /\ t = <<idxLTCwts(a), idxLTCwts(b), idxLTCwts(c)>>
    /\ idxLTCwts(a) >= idxLTCwts(b) /\ idxLTCwts(b) >= idxLTCwts(c)
    /\ \A d \in h : d # a /\ d # b => idxLTCwts(d) <= idxLTCwts(c)

\* t has the weights of the highest cards of h, the void's where there are none.
Tops(t, h) ==
    \/ h = {} /\ t = <<128, 128, 128>>
    \/ \E a \in 0 .. 12 : h = {a} /\ t = <<idxLTCwts(a), 128, 128>>
    \/ \E a, b \in 0 .. 12 :
          /\ a # b /\ h = {a, b}
          /\ t = <<idxLTCwts(a), idxLTCwts(b), 128>> /\ idxLTCwts(a) >= idxLTCwts(b)
    \/ \E a, b, c \in 0 .. 12 : Three(t, h, a, b, c)

\* upd_topcards() keeps them so with one card more.
LEMMA TopsKept ==
  ASSUME NEW h, h \subseteq 0 .. 12, NEW t, Tops(t, h), NEW r \in 0 .. 12, r \notin h
  PROVE  Tops(upd_topcards(t, idxLTCwts(r)), h \cup {r})
  <1> DEFINE w == idxLTCwts(r)
             u == upd_topcards(t, w)
             g == h \cup {r}
  <1>1. \A c \in 0 .. 12 : idxLTCwts(c) \in Int /\ idxLTCwts(c) < 128
    BY Weights
  <1>2. w \in Int /\ w < 128
    BY <1>1
  <1> HIDE DEF w, g
  <1>3. CASE h = {} /\ t = <<128, 128, 128>>
    <2>1. u = <<w, 128, 128>>
      BY <1>3 DEF upd_topcards, LTC_VOID_WEIGHT
    <2>2. g = {r}
      BY <1>3 DEF g
    <2> HIDE DEF u
    <2>. QED
      BY <2>1, <2>2 DEF Tops, u, w, g
  <1>4. ASSUME NEW a \in 0 .. 12, h = {a}, t = <<idxLTCwts(a), 128, 128>>
        PROVE  Tops(u, g)
    <2> DEFINE x == idxLTCwts(a)
    <2>1. a # r /\ g = {a, r} /\ g = {r, a}
      BY <1>4 DEF g
    <2>2. x \in Int /\ x < 128
      BY <1>1
    <2>3. t[1] = x /\ t[2] = 128 /\ t[3] = 128
      BY <1>4
    <2> HIDE DEF x
    <2>4. CASE x < w
      <3>1. u = <<w, x, 128>>
        BY <2>2, <2>3, <2>4, <1>2 DEF upd_topcards, LTC_VOID_WEIGHT
      <3>2. w >= x
        BY <1>2, <2>2, <2>4
      <3> HIDE DEF u
      <3>. QED
        BY <2>1, <3>1, <3>2 DEF Tops, x, w
    <2>5. CASE ~(x < w)
      <3>1. u = <<x, w, 128>>
        BY <2>2, <2>3, <2>5, <1>2 DEF upd_topcards, LTC_VOID_WEIGHT
      <3>2. x >= w
        BY <1>2, <2>2, <2>5
      <3> HIDE DEF u
      <3>. QED
        BY <2>1, <3>1, <3>2 DEF Tops, x, w
    <2>. QED
      BY <2>4, <2>5
  <1>5. ASSUME NEW a \in 0 .. 12, NEW b \in 0 .. 12, NEW c \in 0 .. 12,
               NEW v, Three(v, g, a, b, c)
        PROVE  Tops(v, g)
    BY <1>5 DEF Tops
  <1>6. ASSUME NEW a \in 0 .. 12, NEW b \in 0 .. 12, a # b, h = {a, b},
               t = <<idxLTCwts(a), idxLTCwts(b), 128>>, idxLTCwts(a) >= idxLTCwts(b)
        PROVE  Tops(u, g)
    <2> DEFINE x == idxLTCwts(a)
               y == idxLTCwts(b)
    <2>1. a # r /\ b # r /\ g = {a, b, r}
      BY <1>6 DEF g
    <2>2. x \in Int /\ x < 128 /\ y \in Int /\ y < 128 /\ x >= y
      BY <1>1, <1>6
    <2>3. t[1] = x /\ t[2] = y /\ t[3] = 128
      BY <1>6
    <2> HIDE DEF x, y
    <2>4. CASE x < w
      <3>1. u = <<w, x, y>>
        BY <2>2, <2>3, <2>4, <1>2 DEF upd_topcards, LTC_VOID_WEIGHT
      <3>2. w >= x
        BY <1>2, <2>2, <2>4
      <3> HIDE DEF u
      <3>3. Three(u, g, r, a, b)
        BY <1>6, <2>1, <2>2, <3>1, <3>2 DEF Three, x, y, w
      <3>. QED
        BY <1>5, <3>3
    <2>5. CASE ~(x < w) /\ y < w
      <3>1. u = <<x, w, y>>
        BY <2>2, <2>3, <2>5, <1>2 DEF upd_topcards, LTC_VOID_WEIGHT
      <3>2. x >= w /\ w >= y
        BY <1>2, <2>2, <2>5
      <3> HIDE DEF u
      <3>3. Three(u, g, a, r, b)
        BY <1>6, <2>1, <2>2, <3>1, <3>2 DEF Three, x, y, w
      <3>. QED
        BY <1>5, <3>3
    <2>6. CASE ~(x < w) /\ ~(y < w)
      <3>1. u = <<x, y, w>>
        BY <2>2, <2>3, <2>6, <1>2 DEF upd_topcards, LTC_VOID_WEIGHT
      <3>2. y >= w
        BY <1>2, <2>2, <2>6
      <3> HIDE DEF u
      <3>3. Three(u, g, a, b, r)
        BY <1>2, <1>6, <2>1, <2>2, <3>1, <3>2 DEF Three, x, y, w
      <3>. QED
        BY <1>5, <3>3
    <2>. QED
      BY <2>4, <2>5, <2>6
  <1>7. ASSUME NEW a \in 0 .. 12, NEW b \in 0 .. 12, NEW c \in 0 .. 12, Three(t, h, a, b, c)
        PROVE  Tops(u, g)
    <2> DEFINE x == idxLTCwts(a)
               y == idxLTCwts(b)
               z == idxLTCwts(c)
    <2>1. /\ a # r /\ b # r /\ c # r /\ a # b /\ a # c /\ b # c
          /\ a \in g /\ b \in g /\ c \in g /\ r \in g
      BY <1>7 DEF g, Three
    <2>2. /\ x \in Int /\ x < 128 /\ y \in Int /\ y < 128 /\ z \in Int /\ z < 128
          /\ x >= y /\ y >= z
      BY <1>1, <1>7 DEF Three
    <2>3. t[1] = x /\ t[2] = y /\ t[3] = z /\ t = <<x, y, z>>
      BY <1>7 DEF Three
    <2>4. \A d \in g : d # a /\ d # b /\ d # r => idxLTCwts(d) <= z
      BY <1>7 DEF Three, g
    <2>5. \A d \in g : idxLTCwts(d) \in Int
      BY <1>1 DEF g
    <2> HIDE DEF x, y, z
    <2>6. CASE x < w
      <3>1. u = <<w, x, y>>
        BY <2>2, <2>3, <2>6, <1>2 DEF upd_topcards, LTC_VOID_WEIGHT
      <3>2. w >= x
        BY <1>2, <2>2, <2>6
      <3>3. \A d \in g : d # r /\ d # a => idxLTCwts(d) <= y
        BY <2>2, <2>4, <2>5 DEF y
      <3> HIDE DEF u
      <3>4. Three(u, g, r, a, b)
        BY <2>1, <2>2, <3>1, <3>2, <3>3 DEF Three, x, y, w
      <3>. QED
        BY <1>5, <3>4
    <2>7. CASE ~(x < w) /\ y < w
      <3>1. u = <<x, w, y>>
        BY <2>2, <2>3, <2>7, <1>2 DEF upd_topcards, LTC_VOID_WEIGHT
      <3>2. x >= w /\ w >= y
        BY <1>2, <2>2, <2>7
      <3>3. \A d \in g : d # a /\ d # r => idxLTCwts(d) <= y
        BY <2>2, <2>4, <2>5 DEF y
      <3> HIDE DEF u
      <3>4. Three(u, g, a, r, b)
        BY <2>1, <2>2, <3>1, <3>2, <3>3 DEF Three, x, y, w
      <3>. QED
        BY <1>5, <3>4
    <2>8. CASE ~(x < w) /\ ~(y < w) /\ z < w
      <3>1. u = <<x, y, w>>
        BY <2>2, <2>3, <2>8, <1>2 DEF upd_topcards, LTC_VOID_WEIGHT
      <3>2. y >= w
        BY <1>2, <2>2, <2>8
      <3>3. \A d \in g : d # a /\ d # b => idxLTCwts(d) <= w
        BY <1>2, <2>2, <2>4, <2>5, <2>8 DEF w
      <3> HIDE DEF u
      <3>4. Three(u, g, a, b, r)
        BY <2>1, <2>2, <3>1, <3>2, <3>3 DEF Three, x, y, w
      <3>. QED
        BY <1>5, <3>4
    <2>9. CASE ~(x < w) /\ ~(y < w) /\ ~(z < w)
      <3>1. u = <<x, y, z>>
        BY <2>2, <2>3, <2>9, <1>2 DEF upd_topcards, LTC_VOID_WEIGHT
      <3>2. w <= z
        BY <1>2, <2>2, <2>9
      <3>3. \A d \in g : d # a /\ d # b => idxLTCwts(d) <= z
        BY <2>4, <3>2 DEF w
      <3> HIDE DEF u
      <3>4. Three(u, g, a, b, c)
        BY <2>1, <2>2, <3>1, <3>3 DEF Three, x, y, z
      <3>. QED
        BY <1>5, <3>4
    <2>. QED
      BY <2>6, <2>7, <2>8, <2>9
  <1>. QED
    BY <1>3, <1>4, <1>6, <1>7 DEF Tops, w, g

\* What two or three top cards missing leave.
LEMMA OneOf ==
  ASSUME NEW h, NEW a
  PROVE  Cardinality({a} \ h) = IF a \in h THEN 0 ELSE 1
  <1>1. CASE a \in h
    <2>1. {a} \ h = {}
      BY <1>1
    <2>. QED
      BY <1>1, <2>1, FS_EmptySet
  <1>2. CASE a \notin h
    <2>1. {a} \ h = {a}
      BY <1>2
    <2>. QED
      BY <1>2, <2>1, FS_Singleton
  <1>. QED
    BY <1>1, <1>2

LEMMA OneMoreOf ==
  ASSUME NEW h, NEW S, IsFiniteSet(S), NEW a, a \notin S
  PROVE  Cardinality((S \cup {a}) \ h) = Cardinality(S \ h) + (IF a \in h THEN 0 ELSE 1)
  <1>1. IsFiniteSet(S \ h) /\ Cardinality(S \ h) \in Nat
    BY FS_Difference, FS_CardinalityType
  <1>2. CASE a \in h
    <2>1. (S \cup {a}) \ h = S \ h
      BY <1>2
    <2>. QED
      BY <1>1, <1>2, <2>1
  <1>3. CASE a \notin h
    <2>1. (S \cup {a}) \ h = (S \ h) \cup {a} /\ a \notin S \ h
      BY <1>3
    <2>2. Cardinality((S \ h) \cup {a}) = Cardinality(S \ h) + 1
      BY <1>1, <2>1, FS_AddElement
    <2>. QED
      BY <1>3, <2>1, <2>2
  <1>. QED
    BY <1>2, <1>3

LEMMA Missing ==
  ASSUME NEW h
  PROVE  /\ Cardinality({12} \ h) = IF 12 \in h THEN 0 ELSE 1
         /\ Cardinality({12, 11} \ h) = (IF 12 \in h THEN 0 ELSE 1) + (IF 11 \in h THEN 0 ELSE 1)
         /\ Cardinality({12, 11, 10} \ h) =
                (IF 12 \in h THEN 0 ELSE 1) + (IF 11 \in h THEN 0 ELSE 1) + (IF 10 \in h THEN 0 ELSE 1)
  <1>1. Cardinality({12} \ h) = IF 12 \in h THEN 0 ELSE 1
    BY OneOf
  <1>2. IsFiniteSet({12}) /\ IsFiniteSet({12, 11})
    BY FS_Singleton, FS_AddElement
  <1>3. {12, 11} = {12} \cup {11} /\ {12, 11, 10} = {12, 11} \cup {10} /\ 11 \notin {12} /\ 10 \notin {12, 11}
    OBVIOUS
  <1>4. Cardinality({12, 11} \ h) = Cardinality({12} \ h) + (IF 11 \in h THEN 0 ELSE 1)
    BY <1>2, <1>3, OneMoreOf
  <1>5. Cardinality({12, 11, 10} \ h) = Cardinality({12, 11} \ h) + (IF 10 \in h THEN 0 ELSE 1)
    BY <1>2, <1>3, OneMoreOf
  <1>. QED
    BY <1>1, <1>4, <1>5

\* The losers countltc() finds by the weights x, y and z of the three highest cards,
\* as they are cards that differ unless they are low.
Highest(x, y, z) ==
    /\ x \in {64, 32, 16, 8, 4, 1} /\ y \in {64, 32, 16, 8, 4, 1} /\ z \in {64, 32, 16, 8, 4, 1}
    /\ x >= y /\ y >= z /\ (x = y => x = 1) /\ (y = z => y = 1)

\* What countltc() makes of a sum of weights: each of the fifty it knows.
LEMMA LtcSums ==
  ASSUME NEW t, NEW w \in Int, w = t[1] + t[2] + t[3]
  PROVE  /\ w \in {384, 320, 224, 112} => countltc(t) = <<0, 0>>
         /\ w \in {288, 208, 104, 88} => countltc(t) = <<50, 1>>
         /\ w \in {49, 52, 56, 81, 84, 97, 100, 161, 164, 168, 176, 193,
                     196, 200, 257, 260, 264, 272} => countltc(t) = <<100, 1>>
         /\ w \in {44, 76} => countltc(t) = <<150, 2>>
         /\ w \in {25, 28, 34, 37, 41, 66, 69, 73, 130, 133, 137, 140,
                     145, 148, 152} => countltc(t) = <<200, 2>>
         /\ w \in {18, 21} => countltc(t) = <<250, 2>>
         /\ w \in {3, 6, 10, 13} => countltc(t) = <<300, 3>>
  <1> DEFINE A == {384, 320, 224, 112}
             B == {288, 208, 104, 88}
             C == {49, 52, 56, 81, 84, 97, 100, 161, 164, 168, 176, 193, 196,
                   200, 257, 260, 264, 272}
             D == {44, 76}
             E == {25, 28, 34, 37, 41, 66, 69, 73, 130, 133, 137, 140, 145,
                   148, 152}
             F == {18, 21}
             G == {3, 6, 10, 13}
  <1>1. countltc(t) = CASE w \in A -> <<0, 0>>
                        [] w \in B -> <<50, 1>>
                        [] w \in C -> <<100, 1>>
                        [] w \in D -> <<150, 2>>
                        [] w \in E -> <<200, 2>>
                        [] w \in F -> <<250, 2>>
                        [] w \in G -> <<300, 3>>
    BY Zenon DEF countltc
  <1>2. w \in A => w \notin B /\ w \notin C /\ w \notin D /\ w \notin E /\ w \notin F /\ w \notin G
    OBVIOUS
  <1>3. w \in B => w \notin C /\ w \notin D /\ w \notin E /\ w \notin F /\ w \notin G
    OBVIOUS
  <1>4. w \in C => w \notin D /\ w \notin E /\ w \notin F /\ w \notin G
    OBVIOUS
  <1>5. w \in D => w \notin E /\ w \notin F /\ w \notin G
    OBVIOUS
  <1>6. w \in E => w \notin F /\ w \notin G
    OBVIOUS
  <1>7. w \in F => w \notin G
    OBVIOUS
  <1> HIDE DEF A, B, C, D, E, F, G
  <1>8. w \in A => countltc(t) = <<0, 0>>
    BY <1>1, <1>2, <1>3, <1>4, <1>5, <1>6, <1>7
  <1>9. w \in B => countltc(t) = <<50, 1>>
    BY <1>1, <1>2, <1>3, <1>4, <1>5, <1>6, <1>7
  <1>10. w \in C => countltc(t) = <<100, 1>>
    BY <1>1, <1>2, <1>3, <1>4, <1>5, <1>6, <1>7
  <1>11. w \in D => countltc(t) = <<150, 2>>
    BY <1>1, <1>2, <1>3, <1>4, <1>5, <1>6, <1>7
  <1>12. w \in E => countltc(t) = <<200, 2>>
    BY <1>1, <1>2, <1>3, <1>4, <1>5, <1>6, <1>7
  <1>13. w \in F => countltc(t) = <<250, 2>>
    BY <1>1, <1>2, <1>3, <1>4, <1>5, <1>6, <1>7
  <1>14. w \in G => countltc(t) = <<300, 3>>
    BY <1>1, <1>2, <1>3, <1>4, <1>5, <1>6, <1>7
  <1>. QED
    BY <1>8, <1>9, <1>10, <1>11, <1>12, <1>13, <1>14 DEF A, B, C, D, E, F, G

\* The losers of three cards or more, by the cards ...
Losing(h) ==
    LET losers == Cardinality({12, 11, 10} \ h)
        A == 12 \in h  K == 11 \in h  Q == 10 \in h  J == 9 \in h  T == 8 \in h
        less == (A /\ J /\ (K # Q)) \/ ((A # K) /\ ~Q /\ J /\ T)
        more == ~A /\ ~K /\ Q /\ ~J
    IN  <<100 * losers + (IF less THEN -50 ELSE IF more THEN 50 ELSE 0), losers>>

\* ... of whose weights x, y and z are the three highest.
WeightsOf(h, x, y, z) ==
    /\ 12 \in h <=> x = 64
    /\ 11 \in h <=> x = 32 \/ y = 32
    /\ 10 \in h <=> x = 16 \/ y = 16 \/ z = 16
    /\ x = 8 \/ y = 8 \/ z = 8 => 9 \in h
    /\ 9 \in h => x = 8 \/ y = 8 \/ z = 8 \/ z > 8
    /\ x = 4 \/ y = 4 \/ z = 4 => 8 \in h
    /\ 8 \in h => x = 4 \/ y = 4 \/ z = 4 \/ z > 4

LEMMA LtcOfThree ==
  ASSUME NEW h, NEW x, NEW y, NEW z, Highest(x, y, z), WeightsOf(h, x, y, z)
  PROVE  countltc(<<x, y, z>>) = Losing(h)
  <1> DEFINE c == countltc(<<x, y, z>>)
             m == Cardinality({12, 11, 10} \ h)
  <1>1. m = (IF 12 \in h THEN 0 ELSE 1) + (IF 11 \in h THEN 0 ELSE 1) + (IF 10 \in h THEN 0 ELSE 1)
    BY Missing
  <1>2. Losing(h) =
           <<100 * m + (IF \/ 12 \in h /\ 9 \in h /\ ~(11 \in h <=> 10 \in h)
                           \/ ~(12 \in h <=> 11 \in h) /\ ~(10 \in h) /\ 9 \in h /\ 8 \in h
                        THEN -50
                        ELSE IF 12 \notin h /\ 11 \notin h /\ 10 \in h /\ 9 \notin h THEN 50 ELSE 0), m>>
    BY DEF Losing
  <1> HIDE DEF m
  <1>3. <<x, y, z>>[1] = x /\ <<x, y, z>>[2] = y /\ <<x, y, z>>[3] = z
    OBVIOUS
  <1> DEFINE t == <<x, y, z>>
  <1> HIDE DEF t
  <1>4. CASE x = 64 /\ y = 32 /\ z = 16
    <2>1. c = <<0, 0>>
      <3>1. t[1] + t[2] + t[3] = 112
        BY <1>3, <1>4 DEF t
      <3>. QED
        BY <3>1, LtcSums DEF t
    <2>. QED
      BY <1>1, <1>2, <1>4, <2>1 DEF WeightsOf
  <1>5. CASE x = 64 /\ y = 32 /\ z = 8
    <2>1. c = <<50, 1>>
      <3>1. t[1] + t[2] + t[3] = 104
        BY <1>3, <1>5 DEF t
      <3>. QED
        BY <3>1, LtcSums DEF t
    <2>. QED
      BY <1>1, <1>2, <1>5, <2>1 DEF WeightsOf
  <1>6. CASE x = 64 /\ y = 32 /\ z = 4
    <2>1. c = <<100, 1>>
      <3>1. t[1] + t[2] + t[3] = 100
        BY <1>3, <1>6 DEF t
      <3>. QED
        BY <3>1, LtcSums DEF t
    <2>. QED
      BY <1>1, <1>2, <1>6, <2>1 DEF WeightsOf
  <1>7. CASE x = 64 /\ y = 32 /\ z = 1
    <2>1. c = <<100, 1>>
      <3>1. t[1] + t[2] + t[3] = 97
        BY <1>3, <1>7 DEF t
      <3>. QED
        BY <3>1, LtcSums DEF t
    <2>. QED
      BY <1>1, <1>2, <1>7, <2>1 DEF WeightsOf
  <1>8. CASE x = 64 /\ y = 16 /\ z = 8
    <2>1. c = <<50, 1>>
      <3>1. t[1] + t[2] + t[3] = 88
        BY <1>3, <1>8 DEF t
      <3>. QED
        BY <3>1, LtcSums DEF t
    <2>. QED
      BY <1>1, <1>2, <1>8, <2>1 DEF WeightsOf
  <1>9. CASE x = 64 /\ y = 16 /\ z = 4
    <2>1. c = <<100, 1>>
      <3>1. t[1] + t[2] + t[3] = 84
        BY <1>3, <1>9 DEF t
      <3>. QED
        BY <3>1, LtcSums DEF t
    <2>. QED
      BY <1>1, <1>2, <1>9, <2>1 DEF WeightsOf
  <1>10. CASE x = 64 /\ y = 16 /\ z = 1
    <2>1. c = <<100, 1>>
      <3>1. t[1] + t[2] + t[3] = 81
        BY <1>3, <1>10 DEF t
      <3>. QED
        BY <3>1, LtcSums DEF t
    <2>. QED
      BY <1>1, <1>2, <1>10, <2>1 DEF WeightsOf
  <1>11. CASE x = 64 /\ y = 8 /\ z = 4
    <2>1. c = <<150, 2>>
      <3>1. t[1] + t[2] + t[3] = 76
        BY <1>3, <1>11 DEF t
      <3>. QED
        BY <3>1, LtcSums DEF t
    <2>. QED
      BY <1>1, <1>2, <1>11, <2>1 DEF WeightsOf
  <1>12. CASE x = 64 /\ y = 8 /\ z = 1
    <2>1. c = <<200, 2>>
      <3>1. t[1] + t[2] + t[3] = 73
        BY <1>3, <1>12 DEF t
      <3>. QED
        BY <3>1, LtcSums DEF t
    <2>. QED
      BY <1>1, <1>2, <1>12, <2>1 DEF WeightsOf
  <1>13. CASE x = 64 /\ y = 4 /\ z = 1
    <2>1. c = <<200, 2>>
      <3>1. t[1] + t[2] + t[3] = 69
        BY <1>3, <1>13 DEF t
      <3>. QED
        BY <3>1, LtcSums DEF t
    <2>. QED
      BY <1>1, <1>2, <1>13, <2>1 DEF WeightsOf
  <1>14. CASE x = 64 /\ y = 1 /\ z = 1
    <2>1. c = <<200, 2>>
      <3>1. t[1] + t[2] + t[3] = 66
        BY <1>3, <1>14 DEF t
      <3>. QED
        BY <3>1, LtcSums DEF t
    <2>. QED
      BY <1>1, <1>2, <1>14, <2>1 DEF WeightsOf
  <1>15. CASE x = 32 /\ y = 16 /\ z = 8
    <2>1. c = <<100, 1>>
      <3>1. t[1] + t[2] + t[3] = 56
        BY <1>3, <1>15 DEF t
      <3>. QED
        BY <3>1, LtcSums DEF t
    <2>. QED
      BY <1>1, <1>2, <1>15, <2>1 DEF WeightsOf
  <1>16. CASE x = 32 /\ y = 16 /\ z = 4
    <2>1. c = <<100, 1>>
      <3>1. t[1] + t[2] + t[3] = 52
        BY <1>3, <1>16 DEF t
      <3>. QED
        BY <3>1, LtcSums DEF t
    <2>. QED
      BY <1>1, <1>2, <1>16, <2>1 DEF WeightsOf
  <1>17. CASE x = 32 /\ y = 16 /\ z = 1
    <2>1. c = <<100, 1>>
      <3>1. t[1] + t[2] + t[3] = 49
        BY <1>3, <1>17 DEF t
      <3>. QED
        BY <3>1, LtcSums DEF t
    <2>. QED
      BY <1>1, <1>2, <1>17, <2>1 DEF WeightsOf
  <1>18. CASE x = 32 /\ y = 8 /\ z = 4
    <2>1. c = <<150, 2>>
      <3>1. t[1] + t[2] + t[3] = 44
        BY <1>3, <1>18 DEF t
      <3>. QED
        BY <3>1, LtcSums DEF t
    <2>. QED
      BY <1>1, <1>2, <1>18, <2>1 DEF WeightsOf
  <1>19. CASE x = 32 /\ y = 8 /\ z = 1
    <2>1. c = <<200, 2>>
      <3>1. t[1] + t[2] + t[3] = 41
        BY <1>3, <1>19 DEF t
      <3>. QED
        BY <3>1, LtcSums DEF t
    <2>. QED
      BY <1>1, <1>2, <1>19, <2>1 DEF WeightsOf
  <1>20. CASE x = 32 /\ y = 4 /\ z = 1
    <2>1. c = <<200, 2>>
      <3>1. t[1] + t[2] + t[3] = 37
        BY <1>3, <1>20 DEF t
      <3>. QED
        BY <3>1, LtcSums DEF t
    <2>. QED
      BY <1>1, <1>2, <1>20, <2>1 DEF WeightsOf
  <1>21. CASE x = 32 /\ y = 1 /\ z = 1
    <2>1. c = <<200, 2>>
      <3>1. t[1] + t[2] + t[3] = 34
        BY <1>3, <1>21 DEF t
      <3>. QED
        BY <3>1, LtcSums DEF t
    <2>. QED
      BY <1>1, <1>2, <1>21, <2>1 DEF WeightsOf
  <1>22. CASE x = 16 /\ y = 8 /\ z = 4
    <2>1. c = <<200, 2>>
      <3>1. t[1] + t[2] + t[3] = 28
        BY <1>3, <1>22 DEF t
      <3>. QED
        BY <3>1, LtcSums DEF t
    <2>. QED
      BY <1>1, <1>2, <1>22, <2>1 DEF WeightsOf
  <1>23. CASE x = 16 /\ y = 8 /\ z = 1
    <2>1. c = <<200, 2>>
      <3>1. t[1] + t[2] + t[3] = 25
        BY <1>3, <1>23 DEF t
      <3>. QED
        BY <3>1, LtcSums DEF t
    <2>. QED
      BY <1>1, <1>2, <1>23, <2>1 DEF WeightsOf
  <1>24. CASE x = 16 /\ y = 4 /\ z = 1
    <2>1. c = <<250, 2>>
      <3>1. t[1] + t[2] + t[3] = 21
        BY <1>3, <1>24 DEF t
      <3>. QED
        BY <3>1, LtcSums DEF t
    <2>. QED
      BY <1>1, <1>2, <1>24, <2>1 DEF WeightsOf
  <1>25. CASE x = 16 /\ y = 1 /\ z = 1
    <2>1. c = <<250, 2>>
      <3>1. t[1] + t[2] + t[3] = 18
        BY <1>3, <1>25 DEF t
      <3>. QED
        BY <3>1, LtcSums DEF t
    <2>. QED
      BY <1>1, <1>2, <1>25, <2>1 DEF WeightsOf
  <1>26. CASE x = 8 /\ y = 4 /\ z = 1
    <2>1. c = <<300, 3>>
      <3>1. t[1] + t[2] + t[3] = 13
        BY <1>3, <1>26 DEF t
      <3>. QED
        BY <3>1, LtcSums DEF t
    <2>. QED
      BY <1>1, <1>2, <1>26, <2>1 DEF WeightsOf
  <1>27. CASE x = 8 /\ y = 1 /\ z = 1
    <2>1. c = <<300, 3>>
      <3>1. t[1] + t[2] + t[3] = 10
        BY <1>3, <1>27 DEF t
      <3>. QED
        BY <3>1, LtcSums DEF t
    <2>. QED
      BY <1>1, <1>2, <1>27, <2>1 DEF WeightsOf
  <1>28. CASE x = 4 /\ y = 1 /\ z = 1
    <2>1. c = <<300, 3>>
      <3>1. t[1] + t[2] + t[3] = 6
        BY <1>3, <1>28 DEF t
      <3>. QED
        BY <3>1, LtcSums DEF t
    <2>. QED
      BY <1>1, <1>2, <1>28, <2>1 DEF WeightsOf
  <1>29. CASE x = 1 /\ y = 1 /\ z = 1
    <2>1. c = <<300, 3>>
      <3>1. t[1] + t[2] + t[3] = 3
        BY <1>3, <1>29 DEF t
      <3>. QED
        BY <3>1, LtcSums DEF t
    <2>. QED
      BY <1>1, <1>2, <1>29, <2>1 DEF WeightsOf
  <1>. QED
    BY <1>4, <1>5, <1>6, <1>7, <1>8, <1>9, <1>10, <1>11, <1>12, <1>13, <1>14, <1>15, <1>16, <1>17, <1>18, <1>19, <1>20, <1>21, <1>22, <1>23, <1>24, <1>25, <1>26, <1>27, <1>28, <1>29 DEF Highest

\* The weights of the three highest cards tell the cards.
LEMMA WeightsTell ==
  ASSUME NEW h, h \subseteq 0 .. 12, NEW t, NEW a, NEW b, NEW c, Three(t, h, a, b, c)
  PROVE  LET x == idxLTCwts(a)  y == idxLTCwts(b)  z == idxLTCwts(c)
         IN  t = <<x, y, z>> /\ Highest(x, y, z) /\ WeightsOf(h, x, y, z)
  <1> DEFINE x == idxLTCwts(a)
             y == idxLTCwts(b)
             z == idxLTCwts(c)
  <1>1. /\ a \in 0 .. 12 /\ b \in 0 .. 12 /\ c \in 0 .. 12 /\ a # b /\ b # c /\ a # c
        /\ a \in h /\ b \in h /\ c \in h
        /\ t = <<x, y, z>> /\ x >= y /\ y >= z
    BY DEF Three
  <1>2. /\ x \in {64, 32, 16, 8, 4, 1} /\ y \in {64, 32, 16, 8, 4, 1} /\ z \in {64, 32, 16, 8, 4, 1}
    BY <1>1, Weights
  <1>3. /\ (x = 64 <=> a = 12) /\ (x = 32 <=> a = 11) /\ (x = 16 <=> a = 10)
        /\ (x = 8 <=> a = 9) /\ (x = 4 <=> a = 8)
    BY <1>1, Weights
  <1>4. /\ (y = 64 <=> b = 12) /\ (y = 32 <=> b = 11) /\ (y = 16 <=> b = 10)
        /\ (y = 8 <=> b = 9) /\ (y = 4 <=> b = 8)
    BY <1>1, Weights
  <1>5. /\ (z = 64 <=> c = 12) /\ (z = 32 <=> c = 11) /\ (z = 16 <=> c = 10)
        /\ (z = 8 <=> c = 9) /\ (z = 4 <=> c = 8)
    BY <1>1, Weights
  <1>6. \A d \in h : d = a \/ d = b \/ d = c \/ idxLTCwts(d) <= z
    BY DEF Three
  <1>7. /\ idxLTCwts(12) = 64 /\ idxLTCwts(11) = 32 /\ idxLTCwts(10) = 16
        /\ idxLTCwts(9) = 8 /\ idxLTCwts(8) = 4
    BY Weights
  <1>8. /\ 12 \in h => a = 12 \/ b = 12 \/ c = 12 \/ 64 <= z
        /\ 11 \in h => a = 11 \/ b = 11 \/ c = 11 \/ 32 <= z
        /\ 10 \in h => a = 10 \/ b = 10 \/ c = 10 \/ 16 <= z
        /\ 9 \in h => a = 9 \/ b = 9 \/ c = 9 \/ 8 <= z
        /\ 8 \in h => a = 8 \/ b = 8 \/ c = 8 \/ 4 <= z
    BY <1>6, <1>7
  <1> HIDE DEF x, y, z
  <1>9. (x = y => x = 1) /\ (y = z => y = 1)
    BY <1>1, <1>2, <1>3, <1>4, <1>5
  <1>10. Highest(x, y, z)
    BY <1>1, <1>2, <1>9 DEF Highest
  <1>11. /\ 12 \in h <=> x = 64
         /\ 11 \in h <=> x = 32 \/ y = 32
         /\ 10 \in h <=> x = 16 \/ y = 16 \/ z = 16
    <2>1. x = 64 => 12 \in h
      BY <1>1, <1>3
    <2>2. x = 32 \/ y = 32 => 11 \in h
      BY <1>1, <1>3, <1>4
    <2>3. x = 16 \/ y = 16 \/ z = 16 => 10 \in h
      BY <1>1, <1>3, <1>4, <1>5
    <2>4. y # 64 /\ z # 64 /\ z # 32
      BY <1>1, <1>2, <1>9
    <2>5. ~(16 <= z) \/ z = 16
      BY <1>1, <1>2, <1>9
    <2>6. ~(64 <= z) /\ ~(32 <= z)
      BY <1>2, <2>4
    <2>7. 12 \in h => x = 64
      BY <1>3, <1>4, <1>5, <1>8, <2>4, <2>6
    <2>8. 11 \in h => x = 32 \/ y = 32
      BY <1>3, <1>4, <1>5, <1>8, <2>4, <2>6
    <2>9. 10 \in h => x = 16 \/ y = 16 \/ z = 16
      BY <1>3, <1>4, <1>5, <1>8, <2>5
    <2>. QED
      BY <2>1, <2>2, <2>3, <2>7, <2>8, <2>9
  <1>12. /\ x = 8 \/ y = 8 \/ z = 8 => 9 \in h
         /\ x = 4 \/ y = 4 \/ z = 4 => 8 \in h
    BY <1>1, <1>3, <1>4, <1>5
  <1>13. /\ 9 \in h => x = 8 \/ y = 8 \/ z = 8 \/ z > 8
         /\ 8 \in h => x = 4 \/ y = 4 \/ z = 4 \/ z > 4
    <2>1. (8 <= z => z = 8 \/ z > 8) /\ (4 <= z => z = 4 \/ z > 4)
      BY <1>2
    <2>. QED
      BY <1>3, <1>4, <1>5, <1>8, <2>1
  <1>14. WeightsOf(h, x, y, z)
    BY <1>11, <1>12, <1>13 DEF WeightsOf
  <1>. QED
    BY <1>1, <1>10, <1>14 DEF x, y, z

\* What LosersByHolding says of the cards h and their losers c.
Right(h, c) ==
    LET n == Cardinality(h)
        losers == Cardinality({r \in {12, 11, 10} : 12 - r < n} \ h)
        A == 12 \in h  K == 11 \in h  Q == 10 \in h  J == 9 \in h  T == 8 \in h
        less == \/ n = 1 /\ K
                \/ n = 2 /\ A /\ Q
                \/ n >= 3 /\ A /\ J /\ (K # Q)
                \/ n >= 3 /\ (A # K) /\ ~Q /\ J /\ T
        more == n >= 3 /\ ~A /\ ~K /\ Q /\ ~J
    IN  c = <<100 * losers + (IF less THEN -50 ELSE IF more THEN 50 ELSE 0), losers>>

\* The three highest cards tell the losers.
LEMMA TopsTell ==
  ASSUME NEW h, h \subseteq 0 .. 12, NEW t, Tops(t, h)
  PROVE  Right(h, countltc(t))
  <1> DEFINE n == Cardinality(h)
             tops == {r \in {12, 11, 10} : 12 - r < n}
             c == countltc(t)
  <1>0. IsFiniteSet(h) /\ n \in Nat
    <2>1. IsFiniteSet(0 .. 12)
      <3>1. PICK m, k \in Int : m = 0 /\ k = 12
        OBVIOUS
      <3>2. IsFiniteSet(m .. k)
        BY FS_Interval
      <3>. QED
        BY <3>1, <3>2
    <2>. QED
      BY <2>1, FS_Subset, FS_CardinalityType
  <1>1. CASE h = {} /\ t = <<128, 128, 128>>
    <2>1. n = 0
      BY <1>1, FS_EmptySet
    <2>2. tops \ h = {}
      BY <2>1
    <2>3. Cardinality(tops \ h) = 0
      BY <2>2, FS_EmptySet
    <2>4. c = <<0, 0>>
      <3>1. t[1] + t[2] + t[3] = 384
        BY <1>1
      <3>. QED
        BY <3>1, LtcSums
    <2> HIDE DEF n, c, tops
    <2>5. Right(h, c)
      BY <2>1, <2>3, <2>4 DEF Right, n, tops
    <2>. QED
      BY <2>5 DEF c
  <1>2. ASSUME NEW a \in 0 .. 12, h = {a}, t = <<idxLTCwts(a), 128, 128>>
        PROVE  Right(h, c)
    <2>1. n = 1
      BY <1>2, FS_Singleton
    <2>2. tops = {12}
      BY <2>1
    <2>3. Cardinality(tops \ h) = IF 12 \in h THEN 0 ELSE 1
      BY <2>2, Missing
    <2> DEFINE x == idxLTCwts(a)
    <2>4. /\ x \in {64, 32, 16, 8, 4, 1} /\ (x = 64 <=> 12 \in h) /\ (x = 32 <=> 11 \in h)
      BY <1>2, Weights
    <2>5. t[1] = x /\ t[2] = 128 /\ t[3] = 128
      BY <1>2
    <2> HIDE DEF x
    <2>6. c = IF x = 64 THEN <<0, 0>> ELSE IF x = 32 THEN <<50, 1>> ELSE <<100, 1>>
      <3>1. PICK w \in Int : w = x + 256
        BY <2>4
      <3>2. w = t[1] + t[2] + t[3] /\ w \in {320, 288, 272, 264, 260, 257}
        BY <2>4, <2>5, <3>1
      <3>3. /\ w = 320 => c = <<0, 0>> /\ x = 64
            /\ w = 288 => c = <<50, 1>> /\ x = 32
            /\ w \in {272, 264, 260, 257} => c = <<100, 1>> /\ x # 64 /\ x # 32
        BY <2>4, <3>1, <3>2, LtcSums
      <3>. QED
        BY <3>2, <3>3
    <2>7. ~(12 \in h /\ 11 \in h)
      BY <1>2
    <2> HIDE DEF n, c, tops
    <2>8. Right(h, c)
      BY <2>1, <2>3, <2>4, <2>6, <2>7 DEF Right, n, tops
    <2>. QED
      BY <2>8 DEF c
  <1>3. ASSUME NEW a \in 0 .. 12, NEW b \in 0 .. 12, a # b, h = {a, b},
               t = <<idxLTCwts(a), idxLTCwts(b), 128>>, idxLTCwts(a) >= idxLTCwts(b)
        PROVE  Right(h, c)
    <2>1. n = 2
      <3>1. IsFiniteSet({a}) /\ Cardinality({a}) = 1 /\ h = {a} \cup {b} /\ b \notin {a}
        BY <1>3, FS_Singleton
      <3>. QED
        BY <3>1, FS_AddElement
    <2>2. tops = {12, 11}
      BY <2>1
    <2>3. Cardinality(tops \ h) = (IF 12 \in h THEN 0 ELSE 1) + (IF 11 \in h THEN 0 ELSE 1)
      BY <2>2, Missing
    <2> DEFINE x == idxLTCwts(a)
               y == idxLTCwts(b)
    <2>4. /\ x \in {64, 32, 16, 8, 4, 1} /\ (x = 64 <=> a = 12) /\ (x = 32 <=> a = 11)
          /\ (x = 16 <=> a = 10) /\ (x = 8 <=> a = 9) /\ (x = 4 <=> a = 8)
      BY <1>3, Weights
    <2>5. /\ y \in {64, 32, 16, 8, 4, 1} /\ (y = 64 <=> b = 12) /\ (y = 32 <=> b = 11)
          /\ (y = 16 <=> b = 10) /\ (y = 8 <=> b = 9) /\ (y = 4 <=> b = 8)
      BY <1>3, Weights
    <2>6. t[1] = x /\ t[2] = y /\ t[3] = 128 /\ x >= y
      BY <1>3
    <2>7. /\ 12 \in h <=> a = 12 \/ b = 12
          /\ 11 \in h <=> a = 11 \/ b = 11
          /\ 10 \in h <=> a = 10 \/ b = 10
      BY <1>3
    <2> HIDE DEF x, y
    <2>8. x = y => x = 1
      BY <1>3, <2>4, <2>5
    <2>9. /\ 12 \in h <=> x = 64
          /\ 11 \in h <=> x = 32 \/ y = 32
          /\ 10 \in h <=> x = 16 \/ y = 16
      BY <2>4, <2>5, <2>6, <2>7, <2>8
    <2>10. PICK w \in Int : w = x + y + 128
      BY <2>4, <2>5
    <2>11. w = t[1] + t[2] + t[3]
      BY <2>6, <2>10
    <2>12. CASE x = 64
      <3>1. w \in {224, 208, 200, 196, 193} /\ (w = 224 <=> y = 32) /\ (w = 208 <=> y = 16)
        BY <2>5, <2>6, <2>8, <2>10, <2>12
      <3>2. c = IF y = 32 THEN <<0, 0>> ELSE IF y = 16 THEN <<50, 1>> ELSE <<100, 1>>
        BY <2>11, <3>1, LtcSums
      <3> HIDE DEF n, c, tops
      <3>3. Right(h, c)
        BY <2>1, <2>3, <2>9, <2>12, <3>2 DEF Right, n, tops
      <3>. QED
        BY <3>3 DEF c
    <2>13. CASE x = 32
      <3>1. w \in {176, 168, 164, 161}
        BY <2>5, <2>6, <2>8, <2>10, <2>13
      <3>2. c = <<100, 1>>
        BY <2>11, <3>1, LtcSums
      <3> HIDE DEF n, c, tops
      <3>3. Right(h, c)
        BY <2>1, <2>3, <2>9, <2>13, <3>2 DEF Right, n, tops
      <3>. QED
        BY <3>3 DEF c
    <2>14. CASE x # 64 /\ x # 32
      <3>1. w \in {152, 148, 145, 140, 137, 133, 130} /\ y # 32
        BY <2>4, <2>5, <2>6, <2>8, <2>10, <2>14
      <3>2. c = <<200, 2>>
        BY <2>11, <3>1, LtcSums
      <3> HIDE DEF n, c, tops
      <3>3. Right(h, c)
        BY <2>1, <2>3, <2>9, <2>14, <3>1, <3>2 DEF Right, n, tops
      <3>. QED
        BY <3>3 DEF c
    <2>. QED
      BY <2>12, <2>13, <2>14
  <1>4. ASSUME NEW a \in 0 .. 12, NEW b \in 0 .. 12, NEW d \in 0 .. 12, Three(t, h, a, b, d)
        PROVE  Right(h, c)
    <2>1. n >= 3
      <3>1. IsFiniteSet({a, b}) /\ Cardinality({a, b}) = 2
        <4>1. IsFiniteSet({a}) /\ Cardinality({a}) = 1 /\ {a, b} = {a} \cup {b} /\ b \notin {a}
          BY <1>4, FS_Singleton DEF Three
        <4>. QED
          BY <4>1, FS_AddElement
      <3>2. {a, b, d} = {a, b} \cup {d} /\ d \notin {a, b} /\ {a, b, d} \subseteq h
        BY <1>4 DEF Three
      <3>3. Cardinality({a, b, d}) = 3
        BY <3>1, <3>2, FS_AddElement
      <3>. QED
        BY <1>0, <3>2, <3>3, FS_Subset
    <2>2. tops = {12, 11, 10}
      BY <1>0, <2>1
    <2>3. c = Losing(h)
      <3> DEFINE x == idxLTCwts(a)
                 y == idxLTCwts(b)
                 z == idxLTCwts(d)
      <3>1. t = <<x, y, z>> /\ Highest(x, y, z) /\ WeightsOf(h, x, y, z)
        BY <1>4, WeightsTell
      <3> HIDE DEF x, y, z
      <3>2. countltc(<<x, y, z>>) = Losing(h)
        BY <3>1, LtcOfThree
      <3>. QED
        BY <3>1, <3>2
    <2>4. n # 1 /\ n # 2
      BY <1>0, <2>1
    <2> HIDE DEF c
    <2>5. Right(h, c)
      BY <2>1, <2>2, <2>3, <2>4 DEF Right, Losing
    <2>. QED
      BY <2>5 DEF c
  <1>. QED
    BY <1>1, <1>2, <1>3, <1>4 DEF Tops

\* The top cards are always those of the cards dealt ...
TopsInv == held \subseteq 0 .. 12 /\ Tops(hs.topcards, held)

LEMMA TopsInvHolds == AnalysisSpec => []TopsInv
  <1>1. AnalysisInit => TopsInv
    BY DEF AnalysisInit, TopsInv, Tops, init_tops, LTC_VOID_WEIGHT
  <1>2. TopsInv /\ [AnalysisNext]_analysisVars => TopsInv'
    <2> SUFFICES ASSUME TopsInv, [AnalysisNext]_analysisVars PROVE TopsInv'
      OBVIOUS
    <2>1. CASE ShapeStatement
      BY <2>1 DEF ShapeStatement, TopsInv
    <2>2. CASE PointCount
      BY <2>2 DEF PointCount, TopsInv
    <2>3. CASE Analyze
      <3>1. held' = {} /\ hs'.topcards = <<128, 128, 128>>
        BY <2>3 DEF Analyze, init_tops, LTC_VOID_WEIGHT
      <3>. QED
        BY <3>1 DEF TopsInv, Tops
    <2>4. CASE NextCard
      <3>1. PICK r \in Ranks \ held :
               /\ hs' = [length   |-> hs.length + 1,
                         points   |-> hs.points + points[r],
                         control  |-> hs.control + idxControls(r),
                         topcards |-> upd_topcards(hs.topcards, idxLTCwts(r))]
               /\ held' = held \cup {r}
        BY <2>4 DEF NextCard
      <3>2. r \in 0 .. 12 /\ r \notin held
        BY AnalysisAssumption
      <3>3. hs'.topcards = upd_topcards(hs.topcards, idxLTCwts(r))
        BY <3>1
      <3>4. Tops(upd_topcards(hs.topcards, idxLTCwts(r)), held \cup {r})
        BY <3>2, TopsKept DEF TopsInv
      <3>. QED
        BY <3>1, <3>2, <3>3, <3>4 DEF TopsInv
    <2>5. CASE Dealt
      BY <2>5 DEF Dealt, TopsInv
    <2>6. CASE UNCHANGED analysisVars
      BY <2>6 DEF analysisVars, TopsInv
    <2>. QED
      BY <2>1, <2>2, <2>3, <2>4, <2>5, <2>6 DEF AnalysisNext
  <1>. QED
    BY <1>1, <1>2, PTL DEF AnalysisSpec

\* ... so losers and half losers are those of the holding, in whatever order the
\* cards came.
THEOREM LosersOfTheHolding == AnalysisSpec => []LosersByHolding
  <1>1. TopsInv => LosersByHolding
    <2> SUFFICES ASSUME TopsInv PROVE LosersByHolding
      OBVIOUS
    <2> DEFINE c == countltc(hs.topcards)
    <2>1. Right(held, c)
      BY TopsTell DEF TopsInv
    <2> HIDE DEF c
    <2>2. c = <<c[1], c[2]>>
      BY <2>1 DEF Right
    <2>. QED
      BY <2>1, <2>2 DEF Right, LosersByHolding, c
  <1>. QED
    BY <1>1, TopsInvHolds, PTL

-----------------------------------------------------------------------------
(* Shapes: insertshape() finds the distributions an element covers. *)

\* Lengths l are some that shape s may stand for.
Match(s, l) == \A k \in 1 .. 4 : s[k] = X \/ s[k] = l[k]

\* No x among the first m.
Filled(s, m) == \A k \in 1 .. m : s[k] # X

\* The leftmost x, if there is one ...
LEMMA Leftmost ==
  ASSUME NEW s, Xs(s) # {}
  PROVE  LET i == CHOOSE k \in Xs(s) : \A l \in Xs(s) : k <= l
         IN  i \in 1 .. 4 /\ s[i] = X /\ \A k \in 1 .. 4 : k < i => s[k] # X
  <1> DEFINE i == CHOOSE k \in Xs(s) : \A l \in Xs(s) : k <= l
  <1>1. \A k \in 1 .. 4 : k = 1 \/ k = 2 \/ k = 3 \/ k = 4
    OBVIOUS
  <1>2. \E k \in Xs(s) : \A l \in Xs(s) : k <= l
    <2>1. CASE 1 \in Xs(s)
      BY <2>1 DEF Xs
    <2>2. CASE 1 \notin Xs(s) /\ 2 \in Xs(s)
      BY <1>1, <2>2 DEF Xs
    <2>3. CASE 1 \notin Xs(s) /\ 2 \notin Xs(s) /\ 3 \in Xs(s)
      BY <1>1, <2>3 DEF Xs
    <2>4. CASE 1 \notin Xs(s) /\ 2 \notin Xs(s) /\ 3 \notin Xs(s)
      BY <1>1, <2>4 DEF Xs
    <2>. QED
      BY <2>1, <2>2, <2>3, <2>4
  <1>3. i \in Xs(s) /\ \A l \in Xs(s) : i <= l
    BY <1>2
  <1> HIDE DEF i
  <1>. QED
    BY <1>3 DEF Xs, i

\* ... is what fillx() fills in, and nothing else.
LEMMA FillsOne ==
  ASSUME NEW s \in Shape, Xs(s) # {}
  PROVE  \E i \in 1 .. 4 :
            /\ s[i] = X /\ \A k \in 1 .. 4 : k < i => s[k] # X
            /\ fillx(s) = {[s EXCEPT ![i] = j] :
                              j \in IF Cardinality(Xs(s)) = 1 THEN {Left(s)} ELSE 0 .. Left(s)}
  <1> DEFINE i == CHOOSE k \in Xs(s) : \A l \in Xs(s) : k <= l
  <1>1. i \in 1 .. 4 /\ s[i] = X /\ \A k \in 1 .. 4 : k < i => s[k] # X
    BY Leftmost
  <1>2. fillx(s) = {[s EXCEPT ![i] = j] :
                       j \in IF Cardinality(Xs(s)) = 1 THEN {Left(s)} ELSE 0 .. Left(s)}
    BY Zenon DEF fillx
  <1> HIDE DEF i
  <1>. QED
    BY <1>1, <1>2

\* With no other x it is the only one.
LEMMA OnlyX ==
  ASSUME NEW s, NEW i \in 1 .. 4, s[i] = X
  PROVE  Cardinality(Xs(s)) = 1 <=> \A k \in 1 .. 4 : k # i => s[k] # X
  <1>1. IsFiniteSet(Xs(s)) /\ i \in Xs(s)
    <2>1. IsFiniteSet(1 .. 4)
      <3>1. PICK m, k \in Int : m = 1 /\ k = 4
        OBVIOUS
      <3>2. IsFiniteSet(m .. k)
        BY FS_Interval
      <3>. QED
        BY <3>1, <3>2
    <2>2. Xs(s) \subseteq 1 .. 4
      BY DEF Xs
    <2>3. i \in Xs(s)
      BY DEF Xs
    <2>. QED
      BY <2>1, <2>2, <2>3, FS_Subset
  <1>2. ASSUME Cardinality(Xs(s)) = 1 PROVE \A k \in 1 .. 4 : k # i => s[k] # X
    <2>1. PICK x : Xs(s) = {x}
      BY <1>1, <1>2, FS_Singleton
    <2>. QED
      BY <1>1, <2>1 DEF Xs
  <1>3. ASSUME \A k \in 1 .. 4 : k # i => s[k] # X PROVE Cardinality(Xs(s)) = 1
    <2>1. Xs(s) = {i}
      BY <1>1, <1>3 DEF Xs
    <2>. QED
      BY <2>1, FS_Singleton
  <1>. QED
    BY <1>2, <1>3

\* What the lengths leave once one is filled in.
LEMMA LeftAfter ==
  ASSUME NEW s \in [1 .. 4 -> {X} \cup 0 .. 13], NEW i \in 1 .. 4, s[i] = X, NEW j \in Nat
  PROVE  Left([s EXCEPT ![i] = j]) = Left(s) - j /\ Left(s) \in Int
  <1> DEFINE t == [s EXCEPT ![i] = j]
             K(n) == IF n = X THEN 0 ELSE n
  <1>1. \A k \in 1 .. 4 : t[k] = IF k = i THEN j ELSE s[k]
    OBVIOUS
  <1>2. \A k \in 1 .. 4 : K(s[k]) \in Int
    BY DEF X
  <1>3. K(j) = j /\ K(s[i]) = 0
    BY DEF X
  <1>4. Left(t) = 13 - (K(t[1]) + K(t[2]) + K(t[3]) + K(t[4]))
    BY DEF Left
  <1>5. Left(s) = 13 - (K(s[1]) + K(s[2]) + K(s[3]) + K(s[4]))
    BY DEF Left
  <1>6. \A k \in 1 .. 4 : K(t[k]) = IF k = i THEN j ELSE K(s[k])
    BY <1>1, <1>3
  <1> HIDE DEF K, t
  <1>7. i = 1 \/ i = 2 \/ i = 3 \/ i = 4
    OBVIOUS
  <1>8. 1 \in 1 .. 4 /\ 2 \in 1 .. 4 /\ 3 \in 1 .. 4 /\ 4 \in 1 .. 4
    OBVIOUS
  <1>9. K(s[1]) \in Int /\ K(s[2]) \in Int /\ K(s[3]) \in Int /\ K(s[4]) \in Int
    BY <1>2, <1>8
  <1>10. Left(t) = Left(s) - j
    <2>1. CASE i = 1
      BY <1>3, <1>4, <1>5, <1>6, <1>8, <1>9, <2>1
    <2>2. CASE i = 2
      BY <1>3, <1>4, <1>5, <1>6, <1>8, <1>9, <2>2
    <2>3. CASE i = 3
      BY <1>3, <1>4, <1>5, <1>6, <1>8, <1>9, <2>3
    <2>4. CASE i = 4
      BY <1>3, <1>4, <1>5, <1>6, <1>8, <1>9, <2>4
    <2>. QED
      BY <1>7, <2>1, <2>2, <2>3, <2>4
  <1>. QED
    BY <1>5, <1>9, <1>10 DEF t

\* A shape filled in is one again, with the lengths it had, and one x less.
LEMMA FillKeeps ==
  ASSUME NEW s \in Shape, NEW t \in fillx(s)
  PROVE  /\ t \in Shape
         /\ \A k \in 1 .. 4 : s[k] # X => t[k] = s[k]
         /\ \A m \in 0 .. 3 : Filled(s, m) => Filled(t, m + 1)
  <1>1. CASE Xs(s) = {}
    <2>1. t = s
      BY <1>1 DEF fillx
    <2>2. \A k \in 1 .. 4 : s[k] # X
      BY <1>1 DEF Xs
    <2>. QED
      BY <2>1, <2>2 DEF Filled
  <1>2. CASE Xs(s) # {}
    <2>1. s \in [1 .. 4 -> {X} \cup 0 .. 13] /\ Left(s) >= 0
      BY DEF Shape
    <2>2. PICK i \in 1 .. 4 :
             /\ s[i] = X /\ \A k \in 1 .. 4 : k < i => s[k] # X
             /\ fillx(s) = {[s EXCEPT ![i] = j] :
                               j \in IF Cardinality(Xs(s)) = 1 THEN {Left(s)} ELSE 0 .. Left(s)}
      BY <1>2, FillsOne
    <2>3. Left(s) \in Int
      BY <2>1, <2>2, LeftAfter
    <2>4. PICK j \in 0 .. Left(s) : t = [s EXCEPT ![i] = j] /\ (Cardinality(Xs(s)) = 1 => j = Left(s))
      BY <2>1, <2>2, <2>3
    <2>5. Left(s) <= 13
      <3> DEFINE K(n) == IF n = X THEN 0 ELSE n
      <3>1. \A k \in 1 .. 4 : K(s[k]) \in Nat
        BY <2>1
      <3>2. Left(s) = 13 - (K(s[1]) + K(s[2]) + K(s[3]) + K(s[4]))
        BY DEF Left
      <3>3. K(s[1]) \in Nat /\ K(s[2]) \in Nat /\ K(s[3]) \in Nat /\ K(s[4]) \in Nat
        BY <3>1
      <3> HIDE DEF K
      <3>. QED
        BY <3>2, <3>3
    <2>6. j \in 0 .. 13 /\ j \in Nat /\ j # X
      BY <2>3, <2>5 DEF X
    <2>7. /\ t \in [1 .. 4 -> {X} \cup 0 .. 13] /\ t[i] = j
          /\ \A k \in 1 .. 4 : k # i => t[k] = s[k]
      BY <2>1, <2>4, <2>6
    <2>8. Left(t) = Left(s) - j
      BY <2>1, <2>2, <2>4, <2>6, LeftAfter
    <2>9. Xs(t) = {} => Left(t) = 0
      <3>1. ASSUME Xs(t) = {} PROVE j = Left(s)
        <4>1. \A k \in 1 .. 4 : k # i => s[k] # X
          BY <2>7, <3>1 DEF Xs
        <4>. QED
          BY <2>2, <2>4, <4>1, OnlyX
      <3>. QED
        BY <2>3, <2>8, <3>1
    <2>10. t \in Shape
      <3>1. Left(t) >= 0
        BY <2>3, <2>4, <2>8
      <3>. QED
        BY <2>7, <2>9, <3>1, Zenon DEF Shape
    <2>11. \A k \in 1 .. 4 : s[k] # X => t[k] = s[k]
      BY <2>2, <2>7
    <2>12. ASSUME NEW m \in 0 .. 3, Filled(s, m) PROVE Filled(t, m + 1)
      <3>1. ASSUME NEW k \in 1 .. m + 1 PROVE t[k] # X
        <4>1. k \in 1 .. 4 /\ (k \in 1 .. m \/ k = m + 1)
          OBVIOUS
        <4>2. i > m
          BY <2>2, <2>12 DEF Filled
        <4>3. CASE k = i
          BY <2>6, <2>7, <4>3
        <4>4. CASE k # i
          <5>1. k < i \/ k \in 1 .. m
            BY <4>1, <4>2, <4>4
          <5>. QED
            BY <2>2, <2>7, <2>12, <4>1, <4>4, <5>1 DEF Filled
        <4>. QED
          BY <4>3, <4>4
      <3>. QED
        BY <3>1 DEF Filled
    <2>. QED
      BY <2>10, <2>11, <2>12
  <1>. QED
    BY <1>1, <1>2

\* What matches the shape matches one it is filled in to.
LEMMA FillMatches ==
  ASSUME NEW s \in Shape, NEW l \in Lengths, Match(s, l)
  PROVE  \E t \in fillx(s) : Match(t, l)
  <1>1. CASE Xs(s) = {}
    BY <1>1 DEF fillx
  <1>2. CASE Xs(s) # {}
    <2>1. s \in [1 .. 4 -> {X} \cup 0 .. 13]
      BY DEF Shape
    <2>2. PICK i \in 1 .. 4 :
             /\ s[i] = X /\ \A k \in 1 .. 4 : k < i => s[k] # X
             /\ fillx(s) = {[s EXCEPT ![i] = j] :
                               j \in IF Cardinality(Xs(s)) = 1 THEN {Left(s)} ELSE 0 .. Left(s)}
      BY <1>2, FillsOne
    <2>3. l \in [1 .. 4 -> 0 .. 13] /\ l[1] + l[2] + l[3] + l[4] = 13
      BY DEF Lengths
    <2> DEFINE K(n) == IF n = X THEN 0 ELSE n
               j == l[i]
               t == [s EXCEPT ![i] = j]
    <2>4. /\ \A k \in 1 .. 4 : l[k] \in Nat /\ K(s[k]) \in Nat /\ K(s[k]) <= l[k]
          /\ \A k \in 1 .. 4 : s[k] # X => K(s[k]) = l[k]
          /\ K(s[i]) = 0
      BY <2>1, <2>2, <2>3 DEF Match
    <2>5. Left(s) = 13 - (K(s[1]) + K(s[2]) + K(s[3]) + K(s[4]))
      BY DEF Left
    <2>6. 1 \in 1 .. 4 /\ 2 \in 1 .. 4 /\ 3 \in 1 .. 4 /\ 4 \in 1 .. 4
          /\ (i = 1 \/ i = 2 \/ i = 3 \/ i = 4)
      OBVIOUS
    <2> HIDE DEF K
    <2>7. /\ l[1] \in Nat /\ l[2] \in Nat /\ l[3] \in Nat /\ l[4] \in Nat
          /\ K(s[1]) \in Nat /\ K(s[2]) \in Nat /\ K(s[3]) \in Nat /\ K(s[4]) \in Nat
          /\ K(s[1]) <= l[1] /\ K(s[2]) <= l[2] /\ K(s[3]) <= l[3] /\ K(s[4]) <= l[4]
      BY <2>4, <2>6
    <2>8. j \in 0 .. Left(s)
      <3>1. CASE i = 1
        BY <2>3, <2>4, <2>5, <2>7, <3>1
      <3>2. CASE i = 2
        BY <2>3, <2>4, <2>5, <2>7, <3>2
      <3>3. CASE i = 3
        BY <2>3, <2>4, <2>5, <2>7, <3>3
      <3>4. CASE i = 4
        BY <2>3, <2>4, <2>5, <2>7, <3>4
      <3>. QED
        BY <2>6, <3>1, <3>2, <3>3, <3>4
    <2>9. ASSUME Cardinality(Xs(s)) = 1 PROVE j = Left(s)
      <3>0. \A k \in 1 .. 4 : k # i => K(s[k]) = l[k]
        BY <2>2, <2>4, <2>9, OnlyX
      <3>1. CASE i = 1
        BY <2>3, <2>4, <2>5, <2>6, <2>7, <3>0, <3>1
      <3>2. CASE i = 2
        BY <2>3, <2>4, <2>5, <2>6, <2>7, <3>0, <3>2
      <3>3. CASE i = 3
        BY <2>3, <2>4, <2>5, <2>6, <2>7, <3>0, <3>3
      <3>4. CASE i = 4
        BY <2>3, <2>4, <2>5, <2>6, <2>7, <3>0, <3>4
      <3>. QED
        BY <2>6, <3>1, <3>2, <3>3, <3>4
    <2>10. t \in fillx(s)
      <3> HIDE DEF j
      <3>1. j \in IF Cardinality(Xs(s)) = 1 THEN {Left(s)} ELSE 0 .. Left(s)
        BY <2>8, <2>9
      <3>. QED
        BY <2>2, <3>1
    <2>11. Match(t, l)
      BY <2>1, <2>2 DEF Match
    <2>. QED
      BY <2>10, <2>11
  <1>. QED
    BY <1>1, <1>2

\* Shapes s may be filled in to, the first m places at least.
Fills(s, m) == {t \in Shape : /\ Filled(t, m)
                              /\ \A k \in 1 .. 4 : s[k] # X => t[k] = s[k]}

\* One more x is filled in in all of a set.
LEMMA FillAll ==
  ASSUME NEW s, NEW m \in 0 .. 3, NEW S, S \subseteq Fills(s, m)
  PROVE  UNION {fillx(t) : t \in S} \subseteq Fills(s, m + 1)
  <1> SUFFICES ASSUME NEW t \in S, NEW u \in fillx(t) PROVE u \in Fills(s, m + 1)
    OBVIOUS
  <1>1. t \in Shape /\ Filled(t, m) /\ \A k \in 1 .. 4 : s[k] # X => t[k] = s[k]
    BY DEF Fills
  <1>2. /\ u \in Shape
        /\ \A k \in 1 .. 4 : t[k] # X => u[k] = t[k]
        /\ Filled(u, m + 1)
    BY <1>1, FillKeeps
  <1>3. \A k \in 1 .. 4 : s[k] # X => u[k] = s[k]
    BY <1>1, <1>2
  <1>. QED
    BY <1>2, <1>3 DEF Fills

\* The lengths that match one of a set match one of those it is filled in to.
LEMMA MatchAll ==
  ASSUME NEW S, S \subseteq Shape, NEW l \in Lengths, \E t \in S : Match(t, l)
  PROVE  \E u \in UNION {fillx(t) : t \in S} : Match(u, l)
  <1>1. PICK t \in S : Match(t, l)
    OBVIOUS
  <1>2. PICK u \in fillx(t) : Match(u, l)
    BY <1>1, FillMatches
  <1>. QED
    BY <1>2

\* The shapes found are the lengths that match.
LEMMA FourMatches ==
  ASSUME NEW s \in Shape
  PROVE  Four(s) = {l \in Lengths : Match(s, l)}
  <1> DEFINE one   == fillx(s)
             two   == UNION {fillx(t) : t \in one}
             three == UNION {fillx(t) : t \in two}
             four  == UNION {fillx(t) : t \in three}
  <1>0. Four(s) = four
    BY Zenon DEF Four
  <1>a. one = UNION {fillx(t) : t \in {s}}
    OBVIOUS
  <1>1. one \subseteq Fills(s, 1)
    <2>1. {s} \subseteq Fills(s, 0)
      BY DEF Fills, Filled
    <2>2. UNION {fillx(t) : t \in {s}} \subseteq Fills(s, 0 + 1)
      BY <2>1, FillAll
    <2> HIDE DEF one
    <2>. QED
      BY <1>a, <2>2
  <1>2. two \subseteq Fills(s, 2)
    <2> HIDE DEF one
    <2>1. two \subseteq Fills(s, 1 + 1)
      BY <1>1, FillAll
    <2> HIDE DEF two
    <2>. QED
      BY <2>1
  <1>3. three \subseteq Fills(s, 3)
    <2> HIDE DEF two
    <2>1. three \subseteq Fills(s, 2 + 1)
      BY <1>2, FillAll
    <2> HIDE DEF three
    <2>. QED
      BY <2>1
  <1>4. four \subseteq Fills(s, 4)
    <2> HIDE DEF three
    <2>1. four \subseteq Fills(s, 3 + 1)
      BY <1>3, FillAll
    <2> HIDE DEF four
    <2>. QED
      BY <2>1
  <1>5. ASSUME NEW l \in Lengths, Match(s, l) PROVE \E t \in four : Match(t, l)
    <2>0. one \subseteq Shape /\ two \subseteq Shape /\ three \subseteq Shape
      <3> HIDE DEF one, two, three
      <3>. QED
        BY <1>1, <1>2, <1>3 DEF Fills
    <2>1. \E t \in one : Match(t, l)
      BY <1>5, FillMatches
    <2>2. \E t \in two : Match(t, l)
      <3> HIDE DEF one
      <3>. QED
        BY <2>0, <2>1, MatchAll
    <2>3. \E t \in three : Match(t, l)
      <3> HIDE DEF two
      <3>. QED
        BY <2>0, <2>2, MatchAll
    <2> HIDE DEF three
    <2>. QED
      BY <2>0, <2>3, MatchAll
  <1> HIDE DEF four
  <1>6. ASSUME NEW t \in Fills(s, 4) PROVE t \in Lengths /\ Match(s, t) /\ \A k \in 1 .. 4 : t[k] # X
    <2>1. /\ t \in [1 .. 4 -> {X} \cup 0 .. 13]
          /\ Xs(t) = {} => Left(t) = 0
          /\ \A k \in 1 .. 4 : t[k] # X
          /\ \A k \in 1 .. 4 : s[k] # X => t[k] = s[k]
      BY DEF Fills, Shape, Filled
    <2>2. Left(t) = 0
      BY <2>1 DEF Xs
    <2> DEFINE K(n) == IF n = X THEN 0 ELSE n
    <2>3. Left(t) = 13 - (K(t[1]) + K(t[2]) + K(t[3]) + K(t[4]))
      BY DEF Left
    <2>4. \A k \in 1 .. 4 : K(t[k]) = t[k] /\ t[k] \in 0 .. 13
      BY <2>1
    <2> HIDE DEF K
    <2>5. t[1] + t[2] + t[3] + t[4] = 13
      <3>1. 1 \in 1 .. 4 /\ 2 \in 1 .. 4 /\ 3 \in 1 .. 4 /\ 4 \in 1 .. 4
        OBVIOUS
      <3>. QED
        BY <2>2, <2>3, <2>4, <3>1
    <2>6. t \in [1 .. 4 -> 0 .. 13]
      BY <2>1, <2>4
    <2>. QED
      BY <2>1, <2>5, <2>6 DEF Lengths, Match
  <1>7. ASSUME NEW l \in Lengths, Match(s, l) PROVE l \in four
    <2>1. PICK t \in four : Match(t, l)
      BY <1>5, <1>7
    <2>2. t \in Lengths /\ \A k \in 1 .. 4 : t[k] # X
      BY <1>4, <1>6, <2>1
    <2>3. \A k \in 1 .. 4 : t[k] = l[k]
      BY <2>1, <2>2 DEF Match
    <2>4. t = l
      BY <2>2, <2>3 DEF Lengths
    <2>. QED
      BY <2>1, <2>4
  <1>8. ASSUME NEW t \in four PROVE t \in Lengths /\ Match(s, t)
    BY <1>4, <1>6
  <1>. QED
    BY <1>0, <1>7, <1>8

-----------------------------------------------------------------------------
(* Orders of the suits. *)

\* The orders the definition of covering speaks of.
Backs(any) == IF any THEN Perms ELSE {[k \in 1 .. 4 |-> 5 - k]}

\* What an order is.
LEMMA PermsAre ==
  ASSUME NEW p
  PROVE  p \in Perms <=> /\ p \in [1 .. 4 -> 1 .. 4]
                         /\ \A a, b \in 1 .. 4 : p[a] = p[b] => a = b
                         /\ \A c \in 1 .. 4 : \E a \in 1 .. 4 : p[a] = c
  <1>1. p \in [1 .. 4 -> 1 .. 4] =>
          (IsInjective(p) <=> \A a, b \in 1 .. 4 : p[a] = p[b] => a = b)
    BY DEF IsInjective
  <1>. QED
    BY <1>1 DEF Perms, Bijection, Injection, Surjection

\* An order can be gone through backwards, ...
LEMMA InverseOrder ==
  ASSUME NEW p \in Perms
  PROVE  \E q \in Perms : \A k \in 1 .. 4 : p[q[k]] = k /\ q[p[k]] = k
  <1>1. /\ p \in [1 .. 4 -> 1 .. 4]
        /\ \A a, b \in 1 .. 4 : p[a] = p[b] => a = b
        /\ \A c \in 1 .. 4 : \E a \in 1 .. 4 : p[a] = c
    BY PermsAre
  <1> DEFINE q == [k \in 1 .. 4 |-> CHOOSE a \in 1 .. 4 : p[a] = k]
  <1>2. \A k \in 1 .. 4 : q[k] \in 1 .. 4 /\ p[q[k]] = k
    BY <1>1
  <1>3. q \in [1 .. 4 -> 1 .. 4]
    BY <1>2
  <1> HIDE DEF q
  <1>4. \A k \in 1 .. 4 : q[p[k]] = k
    BY <1>1, <1>2
  <1>5. q \in Perms
    <2>1. \A a, b \in 1 .. 4 : q[a] = q[b] => a = b
      BY <1>2
    <2>2. \A c \in 1 .. 4 : \E a \in 1 .. 4 : q[a] = c
      BY <1>1, <1>4
    <2>. QED
      BY <1>3, <2>1, <2>2, PermsAre
  <1>. QED
    BY <1>2, <1>4, <1>5

\* ... from its other end, ...
LEMMA OtherEnd ==
  ASSUME NEW p \in Perms
  PROVE  [k \in 1 .. 4 |-> 5 - p[k]] \in Perms /\ [k \in 1 .. 4 |-> p[5 - k]] \in Perms
  <1>1. /\ p \in [1 .. 4 -> 1 .. 4]
        /\ \A a, b \in 1 .. 4 : p[a] = p[b] => a = b
        /\ \A c \in 1 .. 4 : \E a \in 1 .. 4 : p[a] = c
    BY PermsAre
  <1>2. \A k \in 1 .. 4 : 5 - k \in 1 .. 4 /\ 5 - (5 - k) = k
    OBVIOUS
  <1> DEFINE q == [k \in 1 .. 4 |-> 5 - p[k]]
             r == [k \in 1 .. 4 |-> p[5 - k]]
  <1>3. q \in Perms
    <2>0. q \in [1 .. 4 -> 1 .. 4]
      BY <1>1
    <2>a. \A k \in 1 .. 4 : q[k] = 5 - p[k] /\ p[k] \in 1 .. 4
      BY <1>1
    <2> HIDE DEF q
    <2>1. \A a, b \in 1 .. 4 : q[a] = q[b] => a = b
      <3>1. \A a, b \in 1 .. 4 : q[a] = q[b] => p[a] = p[b]
        BY <2>a
      <3>. QED
        BY <1>1, <3>1
    <2>2. \A c \in 1 .. 4 : \E a \in 1 .. 4 : q[a] = c
      <3> SUFFICES ASSUME NEW c \in 1 .. 4 PROVE \E a \in 1 .. 4 : q[a] = c
        OBVIOUS
      <3>1. PICK a \in 1 .. 4 : p[a] = 5 - c
        BY <1>1, <1>2
      <3>. QED
        BY <1>2, <2>a, <3>1
    <2>. QED
      BY <2>0, <2>1, <2>2, PermsAre
  <1>4. r \in Perms
    <2>0. r \in [1 .. 4 -> 1 .. 4]
      BY <1>1, <1>2
    <2>a. \A k \in 1 .. 4 : r[k] = p[5 - k]
      OBVIOUS
    <2> HIDE DEF r
    <2>1. \A a, b \in 1 .. 4 : r[a] = r[b] => a = b
      <3> SUFFICES ASSUME NEW a \in 1 .. 4, NEW b \in 1 .. 4, r[a] = r[b] PROVE a = b
        OBVIOUS
      <3>1. 5 - a = 5 - b
        BY <1>1, <1>2, <2>a
      <3>. QED
        BY <3>1
    <2>2. \A c \in 1 .. 4 : \E a \in 1 .. 4 : r[a] = c
      <3> SUFFICES ASSUME NEW c \in 1 .. 4 PROVE \E a \in 1 .. 4 : r[a] = c
        OBVIOUS
      <3>1. PICK a \in 1 .. 4 : p[a] = c
        BY <1>1
      <3>2. 5 - a \in 1 .. 4 /\ r[5 - a] = c
        BY <1>2, <2>a, <3>1
      <3>. QED
        BY <3>2
    <2>. QED
      BY <2>0, <2>1, <2>2, PermsAre
  <1>. QED
    BY <1>3, <1>4

\* ... and either has its counterpart among the others.
LEMMA Counterparts ==
  ASSUME NEW any \in BOOLEAN
  PROVE  /\ \A q \in Orders(any) : \E p \in Backs(any) : \A k \in 1 .. 4 : q[5 - p[k]] = k
         /\ \A p \in Backs(any) : \E q \in Orders(any) : \A k \in 1 .. 4 : p[q[5 - k]] = k
         /\ Backs(any) \subseteq Perms /\ Orders(any) \subseteq Perms
  <1>a. \A k \in 1 .. 4 : 5 - k \in 1 .. 4 /\ 5 - (5 - k) = k
    OBVIOUS
  <1>1. CASE any
    <2>0. Orders(any) = Perms /\ Backs(any) = Perms
      BY <1>1 DEF Orders, Backs
    <2>1. ASSUME NEW q \in Perms PROVE \E p \in Perms : \A k \in 1 .. 4 : q[5 - p[k]] = k
      <3>1. PICK r \in Perms : \A k \in 1 .. 4 : q[r[k]] = k /\ r[q[k]] = k
        BY InverseOrder
      <3>2. \A k \in 1 .. 4 : r[k] \in 1 .. 4
        BY PermsAre
      <3> DEFINE p == [k \in 1 .. 4 |-> 5 - r[k]]
      <3>3. p \in Perms
        BY OtherEnd
      <3>4. \A k \in 1 .. 4 : 5 - p[k] = r[k]
        BY <3>2
      <3> HIDE DEF p
      <3>. QED
        BY <3>1, <3>3, <3>4
    <2>2. ASSUME NEW p \in Perms PROVE \E q \in Perms : \A k \in 1 .. 4 : p[q[5 - k]] = k
      <3>1. PICK r \in Perms : \A k \in 1 .. 4 : p[r[k]] = k /\ r[p[k]] = k
        BY InverseOrder
      <3> DEFINE q == [k \in 1 .. 4 |-> r[5 - k]]
      <3>2. q \in Perms
        BY OtherEnd
      <3>3. \A k \in 1 .. 4 : q[5 - k] = r[k]
        BY <1>a
      <3> HIDE DEF q
      <3>. QED
        BY <3>1, <3>2, <3>3
    <2>. QED
      BY <2>0, <2>1, <2>2
  <1>2. CASE ~any
    <2> DEFINE id == [k \in 1 .. 4 |-> k]
               back == [k \in 1 .. 4 |-> 5 - k]
    <2>0. Orders(any) = {id} /\ Backs(any) = {back}
      BY <1>2, Zenon DEF Orders, Backs
    <2>1. \A k \in 1 .. 4 : id[k] = k /\ back[k] = 5 - k
      OBVIOUS
    <2>2. id \in Perms
      <3>1. id \in [1 .. 4 -> 1 .. 4]
        OBVIOUS
      <3> HIDE DEF id
      <3>. QED
        BY <2>1, <3>1, PermsAre
    <2>3. back \in Perms
      <3>1. [k \in 1 .. 4 |-> 5 - id[k]] \in Perms
        <4> HIDE DEF id, back
        <4>. QED
          BY <2>2, OtherEnd
      <3>2. [k \in 1 .. 4 |-> 5 - id[k]] = back
        OBVIOUS
      <3> HIDE DEF id, back
      <3>. QED
        BY <3>1, <3>2
    <2> HIDE DEF id, back
    <2>4. \A k \in 1 .. 4 : id[5 - back[k]] = k /\ back[id[5 - k]] = k
      BY <1>a, <2>1
    <2>. QED
      BY <2>0, <2>2, <2>3, <2>4
  <1>. QED
    BY <1>1, <1>2

\* Four numbers add up to the same in any order.
LEMMA SumInAnyOrder ==
  ASSUME NEW f, NEW p \in Perms, \A k \in 1 .. 4 : f[k] \in Nat
  PROVE  f[p[1]] + f[p[2]] + f[p[3]] + f[p[4]] = f[1] + f[2] + f[3] + f[4]
  <1>1. /\ p \in [1 .. 4 -> 1 .. 4]
        /\ \A a, b \in 1 .. 4 : p[a] = p[b] => a = b
    BY PermsAre
  <1>2. 1 \in 1 .. 4 /\ 2 \in 1 .. 4 /\ 3 \in 1 .. 4 /\ 4 \in 1 .. 4
    OBVIOUS
  <1>3. /\ p[1] # p[2] /\ p[1] # p[3] /\ p[1] # p[4]
        /\ p[2] # p[3] /\ p[2] # p[4] /\ p[3] # p[4]
    BY <1>1, <1>2
  <1>4. \A k \in 1 .. 4 : p[k] = 1 \/ p[k] = 2 \/ p[k] = 3 \/ p[k] = 4
    BY <1>1
  <1>5. f[1] \in Nat /\ f[2] \in Nat /\ f[3] \in Nat /\ f[4] \in Nat
    BY <1>2
  <1>6. CASE p[1] = 1
    BY <1>2, <1>3, <1>4, <1>5, <1>6
  <1>7. CASE p[1] = 2
    BY <1>2, <1>3, <1>4, <1>5, <1>7
  <1>8. CASE p[1] = 3
    BY <1>2, <1>3, <1>4, <1>5, <1>8
  <1>9. CASE p[1] = 4
    BY <1>2, <1>3, <1>4, <1>5, <1>9
  <1>. QED
    BY <1>2, <1>4, <1>6, <1>7, <1>8, <1>9

\* Lengths in another order are lengths.
LEMMA LengthsInAnyOrder ==
  ASSUME NEW l \in Lengths, NEW p \in Perms
  PROVE  [k \in 1 .. 4 |-> l[p[k]]] \in Lengths
  <1>1. l \in [1 .. 4 -> 0 .. 13] /\ l[1] + l[2] + l[3] + l[4] = 13
    BY DEF Lengths
  <1>2. \A k \in 1 .. 4 : p[k] \in 1 .. 4
    BY PermsAre
  <1>3. l[p[1]] + l[p[2]] + l[p[3]] + l[p[4]] = 13
    <2>1. \A k \in 1 .. 4 : l[k] \in Nat
      BY <1>1
    <2>. QED
      BY <1>1, <2>1, SumInAnyOrder
  <1> DEFINE t == [k \in 1 .. 4 |-> l[p[k]]]
  <1>4. t \in [1 .. 4 -> 0 .. 13]
    BY <1>1, <1>2
  <1>5. t[1] = l[p[1]] /\ t[2] = l[p[2]] /\ t[3] = l[p[3]] /\ t[4] = l[p[4]]
    OBVIOUS
  <1> HIDE DEF t
  <1>6. t \in Lengths
    BY <1>3, <1>4, <1>5 DEF Lengths
  <1>. QED
    BY <1>6 DEF t

\* insertshape() finds the distributions the element covers, and no other.
LEMMA InsertCovers ==
  ASSUME NEW e \in Element
  PROVE  \A l \in Lengths : l \in insertshape(e.shape, e.any) <=> Covers(e, l)
  <1>1. e.shape \in Shape /\ e.any \in BOOLEAN
    BY DEF Element
  <1> DEFINE s == e.shape
             any == e.any
  <1> HIDE DEF s, any
  <1>2. s \in Shape /\ any \in BOOLEAN
    BY <1>1 DEF s, any
  <1>3. insertshape(s, any) = {<<t[p[4]], t[p[3]], t[p[2]], t[p[1]]>> :
                                   t \in Four(s), p \in Orders(any)}
    BY DEF insertshape
  <1>a. \A k \in 1 .. 4 : 5 - k \in 1 .. 4 /\ 5 - (5 - k) = k
    OBVIOUS
  <1>b. \A k \in 1 .. 4 : k = 1 \/ k = 2 \/ k = 3 \/ k = 4
    OBVIOUS
  <1>4. \A l : Covers(e, l) <=> \E p \in Backs(any) : \A k \in 1 .. 4 : s[k] \in {X, l[p[k]]}
    BY Zenon DEF Covers, Backs, s, any
  <1>5. ASSUME NEW l \in Lengths, l \in insertshape(s, any) PROVE Covers(e, l)
    <2>1. PICK t \in Four(s), q \in Orders(any) : l = <<t[q[4]], t[q[3]], t[q[2]], t[q[1]]>>
      BY <1>3, <1>5
    <2>2. PICK p \in Backs(any) : \A k \in 1 .. 4 : q[5 - p[k]] = k
      BY <1>2, Counterparts
    <2>3. \A k \in 1 .. 4 : p[k] \in 1 .. 4
      BY <1>2, Counterparts, PermsAre
    <2>4. \A j \in 1 .. 4 : l[j] = t[q[5 - j]]
      BY <1>b, <2>1
    <2>5. \A k \in 1 .. 4 : l[p[k]] = t[k]
      BY <2>2, <2>3, <2>4
    <2>6. \A k \in 1 .. 4 : s[k] = X \/ s[k] = t[k]
      BY <1>2, <2>1, FourMatches DEF Match
    <2>7. \A k \in 1 .. 4 : s[k] \in {X, l[p[k]]}
      BY <2>5, <2>6
    <2>. QED
      BY <1>4, <2>7
  <1>6. ASSUME NEW l \in Lengths, Covers(e, l) PROVE l \in insertshape(s, any)
    <2>1. PICK p \in Backs(any) : \A k \in 1 .. 4 : s[k] \in {X, l[p[k]]}
      BY <1>4, <1>6
    <2>2. PICK q \in Orders(any) : \A k \in 1 .. 4 : p[q[5 - k]] = k
      BY <1>2, Counterparts
    <2>3. p \in Perms /\ q \in Perms
      BY <1>2, Counterparts
    <2>4. \A k \in 1 .. 4 : q[k] \in 1 .. 4
      BY <2>3, PermsAre
    <2> DEFINE t == [k \in 1 .. 4 |-> l[p[k]]]
    <2>5. t \in Lengths
      BY <2>3, LengthsInAnyOrder
    <2>6. \A k \in 1 .. 4 : t[k] = l[p[k]]
      OBVIOUS
    <2> HIDE DEF t
    <2>7. t \in Four(s)
      <3>1. Match(s, t)
        BY <2>1, <2>6 DEF Match
      <3>. QED
        BY <1>2, <2>5, <3>1, FourMatches
    <2>8. \A k \in 1 .. 4 : l[k] = t[q[5 - k]]
      BY <1>a, <2>2, <2>4, <2>6
    <2>9. l[1] = t[q[4]] /\ l[2] = t[q[3]] /\ l[3] = t[q[2]] /\ l[4] = t[q[1]]
      <3>1. 1 \in 1 .. 4 /\ 2 \in 1 .. 4 /\ 3 \in 1 .. 4 /\ 4 \in 1 .. 4
            /\ 5 - 1 = 4 /\ 5 - 2 = 3 /\ 5 - 3 = 2 /\ 5 - 4 = 1
        OBVIOUS
      <3>2. l[1] = t[q[5 - 1]] /\ l[2] = t[q[5 - 2]] /\ l[3] = t[q[5 - 3]] /\ l[4] = t[q[5 - 4]]
        BY <2>8, <3>1
      <3>. QED
        BY <3>1, <3>2
    <2>10. l = <<t[q[4]], t[q[3]], t[q[2]], t[q[1]]>>
      <3>1. l \in [1 .. 4 -> 0 .. 13]
        BY DEF Lengths
      <3>. QED
        BY <2>9, <3>1
    <2>. QED
      BY <1>3, <2>2, <2>7, <2>10
  <1>7. insertshape(e.shape, e.any) = insertshape(s, any)
    BY DEF s, any
  <1>. QED
    BY <1>5, <1>6, <1>7

-----------------------------------------------------------------------------
(* The elements of a list in turn. *)

\* The order of the natural numbers, as a relation.
NatLess == {p \in Nat \X Nat : p[1] < p[2]}

\* A set of natural numbers that has members has a least one.
LEMMA LeastExists ==
  ASSUME NEW S, S \subseteq Nat, S # {}
  PROVE  \E x \in S : \A y \in S : x <= y
  <1>1. PICK x \in S : \A y \in S : <<y, x>> \notin NatLess
    <2>1. IsWellFoundedOn(NatLess, Nat)
      BY NatLessThanWellFounded DEF OpToRel, NatLess
    <2>. QED
      BY <2>1, WFMin
  <1>2. ASSUME NEW y \in S PROVE x <= y
    <2>1. ~(y < x)
      BY <1>1 DEF NatLess
    <2>2. x \in Nat /\ y \in Nat
      OBVIOUS
    <2>. QED
      BY <2>1, <2>2
  <1>. QED
    BY <1>2

\* Induction, for a set: what holds 0 and with n also n + 1 holds them all.
LEMMA Induction ==
  ASSUME NEW S, 0 \in S, \A n \in Nat : n \in S => n + 1 \in S
  PROVE  Nat \subseteq S
  <1> DEFINE T == Nat \ S
  <1> SUFFICES ASSUME T # {} PROVE FALSE
    OBVIOUS
  <1>1. PICK x \in T : \A y \in T : x <= y
    <2>1. T \subseteq Nat
      OBVIOUS
    <2> HIDE DEF T
    <2>. QED
      BY <2>1, LeastExists
  <1>2. x # 0 /\ x - 1 \in Nat /\ (x - 1) + 1 = x
    BY <1>1
  <1>3. x - 1 \in T
    BY <1>1, <1>2
  <1>. QED
    BY <1>1, <1>3

\* g lists the masks after 0, 1, ..., m elements.
IsAfter(g, maps, list, bit, m) ==
    g = [n \in 0 .. m |-> IF n = 0 THEN maps ELSE setshapebit(g[n - 1], list[n], bit)]

\* The masks setshapebits() is defined by exist, ...
LEMMA AfterExists ==
  ASSUME NEW maps, NEW list, NEW bit
  PROVE  \A n \in Nat : \E g : IsAfter(g, maps, list, bit, n)
  <1> DEFINE S == {n \in Nat : \E g : IsAfter(g, maps, list, bit, n)}
  <1>1. 0 \in S
    <2>1. IsAfter([n \in {0} |-> maps], maps, list, bit, 0)
      BY DEF IsAfter
    <2>. QED
      BY <2>1
  <1>2. ASSUME NEW n \in Nat, n \in S PROVE n + 1 \in S
    <2>1. PICK g : IsAfter(g, maps, list, bit, n)
      BY <1>2
    <2> DEFINE h == [m \in 0 .. n + 1 |->
                        IF m = n + 1 THEN setshapebit(g[n], list[n + 1], bit) ELSE g[m]]
    <2>2. IsAfter(h, maps, list, bit, n + 1)
      BY <2>1 DEF IsAfter
    <2>. QED
      BY <2>2
  <1>. QED
    <2> HIDE DEF S
    <2>1. Nat \subseteq S
      BY <1>1, <1>2, Induction
    <2>. QED
      BY <2>1 DEF S

\* ... so setshapebits() has the last of them.
LEMMA AfterUnfold ==
  ASSUME NEW maps, NEW list, NEW bit, Len(list) \in Nat
  PROVE  \E g : /\ IsAfter(g, maps, list, bit, Len(list))
                /\ setshapebits(maps, list, bit) = g[Len(list)]
  <1> DEFINE after == CHOOSE g : IsAfter(g, maps, list, bit, Len(list))
  <1>1. \E g : IsAfter(g, maps, list, bit, Len(list))
    BY AfterExists
  <1>2. IsAfter(after, maps, list, bit, Len(list))
    BY <1>1
  <1>3. setshapebits(maps, list, bit) = after[Len(list)]
    BY DEF setshapebits, IsAfter
  <1>. QED
    BY <1>2, <1>3

\* The elements that cover l among the first n, and whether the last of them adds.
Covering(list, n, l) == {j \in 1 .. n : Covers(list[j], l)}
Hit(list, n, l) ==
    /\ Covering(list, n, l) # {}
    /\ ~list[CHOOSE j \in Covering(list, n, l) : \A i \in Covering(list, n, l) : i <= j].neg

\* One more element decides if it covers l, and changes nothing if it does not.
LEMMA HitNext ==
  ASSUME NEW list, NEW n \in Nat, NEW l
  PROVE  Hit(list, n + 1, l) <=>
             IF Covers(list[n + 1], l) THEN ~list[n + 1].neg ELSE Hit(list, n, l)
  <1> DEFINE C == Covering(list, n, l)
             D == Covering(list, n + 1, l)
  <1>1. CASE Covers(list[n + 1], l)
    <2>1. n + 1 \in D /\ \A i \in D : i \in Int /\ i <= n + 1
      BY <1>1 DEF Covering
    <2> HIDE DEF D
    <2>2. \A j \in D : (\A i \in D : i <= j) => j = n + 1
      BY <2>1
    <2>3. (CHOOSE j \in D : \A i \in D : i <= j) = n + 1
      BY <2>1, <2>2
    <2>4. Hit(list, n + 1, l) <=> D # {} /\ ~list[CHOOSE j \in D : \A i \in D : i <= j].neg
      BY Zenon DEF Hit, D
    <2>. QED
      BY <1>1, <2>1, <2>3, <2>4
  <1>2. CASE ~Covers(list[n + 1], l)
    <2>1. D = C
      <3>1. \A i : i \in 1 .. n + 1 <=> (i \in 1 .. n \/ i = n + 1)
        OBVIOUS
      <3>. QED
        BY <1>2, <3>1, Zenon DEF Covering
    <2>. QED
      BY <1>2, <2>1 DEF Hit
  <1>. QED
    BY <1>1, <1>2

\* Maps tells of bit what the first n elements say, and of others what was there.
Marked(g, maps, list, bit, n) ==
    /\ DOMAIN g = Lengths
    /\ \A l \in Lengths : /\ bit \in g[l] <=> Hit(list, n, l)
                          /\ \A b : b # bit => (b \in g[l] <=> b \in maps[l])

\* One element more.
LEMMA MarkedNext ==
  ASSUME NEW g, NEW maps, NEW list, NEW bit, NEW n \in Nat,
         Marked(g, maps, list, bit, n), list[n + 1] \in Element
  PROVE  Marked(setshapebit(g, list[n + 1], bit), maps, list, bit, n + 1)
  <1> DEFINE e == list[n + 1]
             covered == insertshape(e.shape, e.any)
             h == setshapebit(g, e, bit)
  <1>1. h = [l \in DOMAIN g |->
                IF l \notin covered THEN g[l]
                ELSE IF e.neg THEN g[l] \ {bit} ELSE g[l] \cup {bit}]
    BY Zenon DEF setshapebit
  <1>2. DOMAIN g = Lengths
    BY DEF Marked
  <1>3. \A l \in Lengths : l \in covered <=> Covers(e, l)
    BY InsertCovers
  <1> HIDE DEF covered, e, h
  <1>4. ASSUME NEW l \in Lengths
        PROVE  /\ bit \in h[l] <=> Hit(list, n + 1, l)
               /\ \A b : b # bit => (b \in h[l] <=> b \in maps[l])
    <2>1. h[l] = IF l \notin covered THEN g[l]
                 ELSE IF e.neg THEN g[l] \ {bit} ELSE g[l] \cup {bit}
      BY <1>1, <1>2
    <2>2. Hit(list, n + 1, l) <=> IF Covers(e, l) THEN ~e.neg ELSE Hit(list, n, l)
      BY HitNext DEF e
    <2>3. /\ bit \in g[l] <=> Hit(list, n, l)
          /\ \A b : b # bit => (b \in g[l] <=> b \in maps[l])
      BY DEF Marked
    <2>4. CASE l \notin covered
      BY <1>3, <2>1, <2>2, <2>3, <2>4
    <2>5. CASE l \in covered /\ e.neg
      BY <1>3, <2>1, <2>2, <2>3, <2>5
    <2>6. CASE l \in covered /\ ~e.neg
      BY <1>3, <2>1, <2>2, <2>3, <2>6
    <2>. QED
      BY <2>4, <2>5, <2>6
  <1>5. DOMAIN h = Lengths
    BY <1>1, <1>2
  <1>6. Marked(h, maps, list, bit, n + 1)
    BY <1>4, <1>5 DEF Marked
  <1>. QED
    BY <1>6 DEF h, e

\* All elements: the bit tells which distributions the list means.
LEMMA BitsMarked ==
  ASSUME NEW maps, NEW list \in Seq(Element), NEW bit, DOMAIN maps = Lengths,
         \A l \in Lengths : bit \notin maps[l]
  PROVE  Marked(setshapebits(maps, list, bit), maps, list, bit, Len(list))
  <1>1. Len(list) \in Nat /\ \A n \in 1 .. Len(list) : list[n] \in Element
    OBVIOUS
  <1>2. PICK g : /\ IsAfter(g, maps, list, bit, Len(list))
                 /\ setshapebits(maps, list, bit) = g[Len(list)]
    BY <1>1, AfterUnfold
  <1> DEFINE S == {n \in Nat : n <= Len(list) => Marked(g[n], maps, list, bit, n)}
  <1>3. 0 \in S
    <2>1. g[0] = maps
      BY <1>1, <1>2 DEF IsAfter
    <2>2. \A l : ~Hit(list, 0, l)
      BY DEF Hit, Covering
    <2>3. Marked(maps, maps, list, bit, 0)
      BY <2>2 DEF Marked
    <2>. QED
      BY <2>1, <2>3
  <1>4. ASSUME NEW n \in Nat, n \in S PROVE n + 1 \in S
    <2> SUFFICES ASSUME n + 1 <= Len(list) PROVE Marked(g[n + 1], maps, list, bit, n + 1)
      OBVIOUS
    <2>1. Marked(g[n], maps, list, bit, n)
      BY <1>1, <1>4
    <2>2. n + 1 \in 0 .. Len(list) /\ n + 1 \in 1 .. Len(list) /\ n + 1 # 0 /\ (n + 1) - 1 = n
      BY <1>1
    <2>3. g[n + 1] = setshapebit(g[n], list[n + 1], bit)
      <3>1. g = [m \in 0 .. Len(list) |->
                    IF m = 0 THEN maps ELSE setshapebit(g[m - 1], list[m], bit)]
        BY <1>2 DEF IsAfter
      <3>2. g[n + 1] = IF n + 1 = 0 THEN maps ELSE setshapebit(g[(n + 1) - 1], list[n + 1], bit)
        BY <2>2, <3>1
      <3>. QED
        BY <2>2, <3>2
    <2>. QED
      BY <1>1, <2>1, <2>2, <2>3, MarkedNext
  <1>5. Len(list) \in S
    <2> HIDE DEF S
    <2>. QED
      BY <1>1, <1>3, <1>4, Induction
  <1>. QED
    BY <1>1, <1>2, <1>5

-----------------------------------------------------------------------------
(* The shape statements of an input file. *)

\* The bits of the masks are of the statements so far, and each tells which
\* distributions its statement means.
ShapesInv ==
    /\ shapes \in Seq(ShapeList) /\ shapeno = FirstShape + Len(shapes)
    /\ Len(shapes) <= MaxShapes
    /\ DOMAIN distrbitmaps = Lengths
    /\ \A l \in Lengths : \A b \in distrbitmaps[l] : b \in Int /\ b < shapeno
    /\ \A k \in 1 .. Len(shapes) : \A l \in Lengths :
          FirstShape + k - 1 \in distrbitmaps[l] <=> Hit(shapes[k], Len(shapes[k]), l)

\* A shape statement keeps it: its bit was free.
LEMMA ShapeStatementKeeps ==
  ASSUME ShapesInv, ShapeStatement
  PROVE  ShapesInv'
  <1>0. FirstShape \in Nat /\ MaxShapes \in Nat /\ ShapeList \subseteq Seq(Element)
    BY AnalysisAssumption
  <1>1. /\ shapes \in Seq(ShapeList) /\ shapeno = FirstShape + Len(shapes)
        /\ Len(shapes) <= MaxShapes /\ Len(shapes) \in Nat
        /\ DOMAIN distrbitmaps = Lengths
    BY DEF ShapesInv
  <1>2. \A l \in Lengths : \A b \in distrbitmaps[l] : b \in Int /\ b < shapeno
    BY DEF ShapesInv
  <1>3. PICK list \in ShapeList : /\ shapes' = Append(shapes, list)
                                  /\ distrbitmaps' = setshapebits(distrbitmaps, list, shapeno)
    BY DEF ShapeStatement
  <1>4. shapeno < FirstShape + MaxShapes /\ shapeno' = shapeno + 1
    BY DEF ShapeStatement
  <1>5. Marked(distrbitmaps', distrbitmaps, list, shapeno, Len(list))
    <2>1. \A l \in Lengths : shapeno \notin distrbitmaps[l]
      BY <1>0, <1>1, <1>2
    <2>. QED
      BY <1>0, <1>1, <1>3, <2>1, BitsMarked
  <1>6. /\ DOMAIN distrbitmaps' = Lengths
        /\ \A l \in Lengths :
              /\ shapeno \in distrbitmaps'[l] <=> Hit(list, Len(list), l)
              /\ \A b : b # shapeno => (b \in distrbitmaps'[l] <=> b \in distrbitmaps[l])
    BY <1>5, Zenon DEF Marked
  <1>7. /\ shapes' \in Seq(ShapeList) /\ Len(shapes') = Len(shapes) + 1
        /\ \A k \in 1 .. Len(shapes) : shapes'[k] = shapes[k]
        /\ shapes'[Len(shapes) + 1] = list
    BY <1>1, <1>3
  <1>8. shapeno' = FirstShape + Len(shapes') /\ Len(shapes') <= MaxShapes
    BY <1>0, <1>1, <1>4, <1>7
  <1>9. ASSUME NEW l \in Lengths, NEW b \in distrbitmaps'[l] PROVE b \in Int /\ b < shapeno'
    <2>1. CASE b = shapeno
      BY <1>0, <1>1, <1>4, <2>1
    <2>2. CASE b # shapeno
      <3>1. b \in distrbitmaps[l]
        BY <1>6, <1>9, <2>2
      <3>2. b \in Int /\ b < shapeno
        BY <1>2, <3>1
      <3>. QED
        BY <1>0, <1>1, <1>4, <3>2
    <2>. QED
      BY <2>1, <2>2
  <1>10. ASSUME NEW k \in 1 .. Len(shapes'), NEW l \in Lengths
         PROVE  FirstShape + k - 1 \in distrbitmaps'[l] <=> Hit(shapes'[k], Len(shapes'[k]), l)
    <2>1. CASE k = Len(shapes) + 1
      <3>1. FirstShape + k - 1 = shapeno
        BY <1>0, <1>1, <2>1
      <3>2. shapes'[k] = list
        BY <1>7, <2>1
      <3>. QED
        BY <1>6, <3>1, <3>2
    <2>2. CASE k # Len(shapes) + 1
      <3>1. k \in 1 .. Len(shapes)
        BY <1>1, <1>7, <2>2
      <3>2. FirstShape + k - 1 # shapeno
        BY <1>0, <1>1, <3>1
      <3>3. shapes'[k] = shapes[k]
        BY <1>7, <3>1
      <3>4. FirstShape + k - 1 \in distrbitmaps[l] <=> Hit(shapes[k], Len(shapes[k]), l)
        BY <3>1 DEF ShapesInv
      <3>. QED
        BY <1>6, <3>2, <3>3, <3>4
    <2>. QED
      BY <2>1, <2>2
  <1>. QED
    BY <1>6, <1>7, <1>8, <1>9, <1>10 DEF ShapesInv

\* The masks are always such.
LEMMA ShapesInvHolds == AnalysisSpec => []ShapesInv
  <1>1. AnalysisInit => ShapesInv
    <2> SUFFICES ASSUME AnalysisInit PROVE ShapesInv
      OBVIOUS
    <2>1. /\ shapes = <<>> /\ shapeno = FirstShape
          /\ distrbitmaps = [l \in Lengths |-> {}]
      BY DEF AnalysisInit
    <2>2. FirstShape \in Nat /\ MaxShapes \in Nat
      BY AnalysisAssumption
    <2>3. /\ DOMAIN distrbitmaps = Lengths
          /\ \A l \in Lengths : \A b \in distrbitmaps[l] : b \in Int /\ b < shapeno
      BY <2>1
    <2>4. /\ shapes \in Seq(ShapeList) /\ Len(shapes) = 0 /\ shapeno = FirstShape + Len(shapes)
          /\ Len(shapes) <= MaxShapes
      BY <2>1, <2>2
    <2>5. \A k \in 1 .. Len(shapes) : FALSE
      BY <2>4
    <2>. QED
      BY <2>3, <2>4, <2>5 DEF ShapesInv
  <1>2. ShapesInv /\ [AnalysisNext]_analysisVars => ShapesInv'
    <2> SUFFICES ASSUME ShapesInv, [AnalysisNext]_analysisVars PROVE ShapesInv'
      OBVIOUS
    <2>1. CASE ShapeStatement
      BY <2>1, ShapeStatementKeeps
    <2>2. CASE UNCHANGED <<distrbitmaps, shapeno, shapes>>
      BY <2>2 DEF ShapesInv
    <2>3. ShapeStatement \/ UNCHANGED <<distrbitmaps, shapeno, shapes>>
      BY DEF AnalysisNext, PointCount, Analyze, NextCard, Dealt, analysisVars
    <2>. QED
      BY <2>1, <2>2, <2>3
  <1>. QED
    BY <1>1, <1>2, PTL DEF AnalysisSpec

\* With no more than sixteen shape statements a hand meets one exactly when the
\* last element of its list that covers the hand adds it, whatever the other
\* statements say: insertshape(), setshapebit() and the bits of hs_bits.  The
\* seventeenth statement breaks it, for hs_bits is a short.
THEOREM ShapesMeanWhatTheySay ==
  ASSUME FirstShape + MaxShapes <= 16
  PROVE  AnalysisSpec => []ShapeMeans
  <1>1. ShapesInv => ShapeMeans
    <2> SUFFICES ASSUME ShapesInv, NEW k \in 1 .. Len(shapes), NEW l \in Lengths
                 PROVE  EvalShape(l, FirstShape + k - 1) <=> Hit(shapes[k], Len(shapes[k]), l)
      BY DEF ShapeMeans, Hit, Covering
    <2>1. FirstShape \in Nat /\ MaxShapes \in Nat
      BY AnalysisAssumption
    <2>2. Len(shapes) <= MaxShapes /\ Len(shapes) \in Nat
      BY DEF ShapesInv
    <2>3. FirstShape + k - 1 \in Int /\ FirstShape + k - 1 <= 15
      BY <2>1, <2>2
    <2>4. EvalShape(l, FirstShape + k - 1) <=> FirstShape + k - 1 \in distrbitmaps[l]
      <3> DEFINE b == FirstShape + k - 1
                 bits == distrbitmaps[l]
      <3>1. EvalShape(l, b) <=> b \in ToShort(bits)
        BY Zenon DEF EvalShape, hs_bits
      <3>2. b \in Int /\ b <= 15
        BY <2>3
      <3> HIDE DEF b, bits
      <3>3. b \in (IF 15 \in bits THEN 15 .. 31 ELSE {}) <=> b = 15 /\ 15 \in bits
        BY <3>2
      <3>4. b \in {c \in bits : c < 15} <=> b \in bits /\ b # 15
        BY <3>2
      <3>5. b \in ToShort(bits) <=> b \in bits
        BY <3>3, <3>4, Zenon DEF ToShort
      <3>6. EvalShape(l, b) <=> b \in bits
        BY <3>1, <3>5
      <3>. QED
        BY <3>6 DEF b, bits
    <2>5. FirstShape + k - 1 \in distrbitmaps[l] <=> Hit(shapes[k], Len(shapes[k]), l)
      BY DEF ShapesInv
    <2>. QED
      BY <2>4, <2>5
  <1>. QED
    BY <1>1, ShapesInvHolds, PTL
=============================================================================
