-------------------------- MODULE DealLoop_proofs --------------------------
(***************************************************************************)
(* Proofs about DealLoop for libraries of any size, any seed and any       *)
(* number of deals asked for.                                              *)
(***************************************************************************)
EXTENDS DealLoop, FiniteSetTheorems, TLAPS

\* Between deals ngen is one more than the deals made.
Counted ==
    /\ pc = "dealt" => generated = ngen
    /\ pc \in {"loop", "read", "got", "ended"} => generated = ngen - 1
    /\ pc # "done" => ngen >= 1
    /\ pc \in {"read", "got", "dealt"} => ngen <= maxgenerate /\ nprod < maxproduce
    /\ pc = "aborted" => ngen <= maxgenerate

\* What ends the loop.
Ending ==
    pc \in {"ended", "done"} =>
        \/ nprod = maxproduce
        \/ generated = maxgenerate
        \/ mode = "library" /\ zrdlib_pass_num = 2

\* The file position while a record is being looked for.
Reading ==
    /\ pc \in {"loop", "read", "dealt"} => zrdlib_pass_num \in {0, 1}
    /\ pc \in {"read", "got"} => mode = "library"
    /\ mode = "library" => maxgenerate <= lib.recs

IInv == TypeOK /\ Counted /\ Ending /\ ReportedNearly /\ Reading

-----------------------------------------------------------------------------
\* A library's blocks fit in it: the seed cannot start past its end.
LEMMA StartInside ==
  ASSUME NEW seed \in Int, NEW recs \in Nat
  PROVE  /\ StartRecord(seed, recs) \in Nat
         /\ recs > 0 => StartRecord(seed, recs) < recs
  <1> DEFINE B == BlockSize(recs)
  <1> DEFINE block == Lesser(seed, MaxSeed(recs))
  <1>1. /\ B \in {1, 10, 100, 1000}
        /\ recs > 0 => B <= recs
    BY DEF BlockSize
  <1> HIDE DEF B
  <1>2. /\ recs \div B \in Nat
        /\ (recs \div B) * B <= recs
    <2>1. /\ recs \div 1 \in Nat /\ (recs \div 1) * 1 <= recs
          /\ recs \div 10 \in Nat /\ (recs \div 10) * 10 <= recs
          /\ recs \div 100 \in Nat /\ (recs \div 100) * 100 <= recs
          /\ recs \div 1000 \in Nat /\ (recs \div 1000) * 1000 <= recs
      OBVIOUS
    <2>2. CASE B = 1
      BY <2>1, <2>2
    <2>3. CASE B = 10
      BY <2>1, <2>3
    <2>4. CASE B = 100
      BY <2>1, <2>4
    <2>5. CASE B = 1000
      BY <2>1, <2>5
    <2>. QED
      BY <1>1, <2>2, <2>3, <2>4, <2>5
  <1>3. MaxSeed(recs) \in Int /\ MaxSeed(recs) <= (recs \div B) - 1
    BY <1>1, <1>2 DEF MaxSeed, ZRD_MAX_SEED, B
  <1>4. block \in Int /\ block <= (recs \div B) - 1
    BY <1>2, <1>3 DEF Lesser
  <1>5. CASE seed < 0 \/ block < 0
    BY <1>5 DEF StartRecord
  <1>6. CASE ~(seed < 0 \/ block < 0)
    <2>1. StartRecord(seed, recs) = block * B
      BY <1>6 DEF StartRecord, B
    <2>2. block * B <= ((recs \div B) - 1) * B
      BY <1>1, <1>2, <1>4, <1>6, SMTT(30)
    <2>3. ((recs \div B) - 1) * B = (recs \div B) * B - B
      BY <1>1, <1>2, SMTT(30)
    <2>4. block * B \in Nat
      BY <1>1, <1>4, <1>6
    <2>. QED
      BY <1>1, <1>2, <2>1, <2>2, <2>3, <2>4
  <1>. QED
    BY <1>5, <1>6

\* Libraries have a natural number of records.
LEMMA LibType == ASSUME TypeOK PROVE lib.recs \in Nat
  BY LibraryAssumption DEF TypeOK, NoFile

\* The initial state satisfies the invariant.
LEMMA InitIInv == Init => IInv
  <1> SUFFICES ASSUME Init PROVE IInv
    OBVIOUS
  <1>1. lib \in Libraries \cup {NoFile} /\ lib.recs \in Nat /\ mode \in Modes
    BY LibraryAssumption DEF Init, NoFile
  <1>2. /\ maxgenerate \in Nat
        /\ mode = "library" => maxgenerate <= lib.recs
    BY <1>1, WantedAssumption DEF Init, MaxGenerate, Lesser
  <1>3. maxproduce \in 0 .. maxgenerate
    BY <1>2, WantedAssumption DEF Init, MaxProduce, Lesser
  <1>4. /\ zrd_seed \in Seeds /\ start \in Nat
        /\ lib.recs > 0 => start < lib.recs
    BY <1>1, WantedAssumption, StartInside DEF Init
  <1>5. TypeOK
    BY <1>1, <1>2, <1>3, <1>4 DEF Init, TypeOK
  <1>. QED
    BY <1>2, <1>3, <1>5 DEF Init, IInv, Counted, Ending, ReportedNearly, Reading

\* No step leaves the invariant.
LEMMA StepIInv == IInv /\ [Next]_vars => IInv'
  <1> SUFFICES ASSUME IInv, [Next]_vars PROVE IInv'
    OBVIOUS
  <1>0. lib.recs \in Nat
    BY LibType DEF IInv
  <1> USE <1>0 DEF IInv, TypeOK, Counted, Ending, ReportedNearly, Reading,
                   runVars, fileVars
  <1>1. CASE DealRandom
    BY <1>1 DEF DealRandom, More
  <1>2. CASE DealBiasFails
    BY <1>2 DEF DealBiasFails, More
  <1>3. CASE DealLibrary
    BY <1>3 DEF DealLibrary, More
  <1>4. CASE ReadRecord
    <2>1. /\ rec' \in Nat /\ fpos' = rec' + 1
          /\ lib.recs > 0 => fpos' \in 0 .. lib.recs
      BY <1>4 DEF ReadRecord, AtEOF
    <2>2. /\ zrdlib_pass_num' \in 0 .. 2
          /\ pc' = "read" => zrdlib_pass_num' \in {0, 1}
          /\ pc' \in {"read", "got"}
      BY <1>4 DEF ReadRecord
    <2>. QED
      BY <1>4, <2>1, <2>2 DEF ReadRecord
  <1>5. CASE Decode
    BY <1>5 DEF Decode
  <1>6. CASE LibraryEnds
    BY <1>6 DEF LibraryEnds
  <1>7. CASE Produce
    BY <1>7 DEF Produce
  <1>8. CASE Discard
    BY <1>8 DEF Discard
  <1>9. CASE WriteFails
    BY <1>9 DEF WriteFails
  <1>10. CASE LoopExit
    BY <1>10 DEF LoopExit, More
  <1>11. CASE Report
    BY <1>11 DEF Report, FinalNgen
  <1>12. CASE UNCHANGED vars
    BY <1>12 DEF vars
  <1>13. CASE Stopped
    BY <1>13 DEF Stopped, vars
  <1>. QED
    BY <1>1, <1>2, <1>3, <1>4, <1>5, <1>6, <1>7, <1>8, <1>9, <1>10, <1>11,
       <1>12, <1>13 DEF Next, Dealing

\* The invariant of the main loop.
THEOREM Inductive == SafeSpec => []IInv
  BY InitIInv, StepIInv, PTL DEF SafeSpec

\* Every variable holds a value of its kind: a run never produces or tries
\* more deals than it should, and never starts a library past its end.
THEOREM TypeCorrect == SafeSpec => []TypeOK
  <1>1. IInv => TypeOK
    BY DEF IInv
  <1>. QED
    BY <1>1, Inductive, PTL

\* A run that ends has a reason to.
THEOREM Reason == SafeSpec => []EndsForAReason
  <1>1. IInv => EndsForAReason
    BY DEF IInv, Ending, EndsForAReason
  <1>. QED
    BY <1>1, Inductive, PTL

\* The number of deals reported is over by one in the two cases named.
THEOREM Reported == SafeSpec => []ReportedNearly
  <1>1. IInv => ReportedNearly
    BY DEF IInv
  <1>. QED
    BY <1>1, Inductive, PTL

-----------------------------------------------------------------------------
(* What is dealt from a library. *)

\* Passing one more record counts it, unless it is a header.
LEMMA NextRecord ==
  ASSUME NEW a \in Int, NEW n \in Int, a <= n
  PROVE  /\ DealRecords(a .. n - 1) \in Nat /\ DealRecords(a .. n) \in Nat
         /\ DealRecords(a .. n) =
                DealRecords(a .. n - 1) + (IF n \in lib.hdrs THEN 0 ELSE 1)
  <1> DEFINE D == (a .. n - 1) \ lib.hdrs
  <1>1. IsFiniteSet(a .. n - 1)
    BY FS_Interval
  <1>2. IsFiniteSet(D)
    BY <1>1, FS_Subset
  <1>3. IsFiniteSet(D \cup {n})
        /\ Cardinality(D \cup {n}) = Cardinality(D) + 1
    <2>1. n \notin D
      OBVIOUS
    <2>. QED
      BY <1>2, <2>1, FS_AddElement
  <1>4. Cardinality(D) \in Nat
    BY <1>2, FS_CardinalityType
  <1>5. (a .. n) \ lib.hdrs = IF n \in lib.hdrs THEN D ELSE D \cup {n}
    OBVIOUS
  <1>6. DealRecords(a .. n - 1) = Cardinality(D)
    BY DEF DealRecords
  <1>7. DealRecords(a .. n)
            = IF n \in lib.hdrs THEN Cardinality(D) ELSE Cardinality(D \cup {n})
    BY <1>5 DEF DealRecords
  <1> HIDE DEF D
  <1>. QED
    BY <1>3, <1>4, <1>6, <1>7

\* The deal records of two parts of a file are those of the whole.
LEMMA Parts ==
  ASSUME NEW a \in Int, NEW b \in Int, NEW c \in Int, a <= b, b <= c + 1
  PROVE  /\ DealRecords(a .. b - 1) \in Nat /\ DealRecords(b .. c) \in Nat
         /\ DealRecords(a .. c) = DealRecords(a .. b - 1) + DealRecords(b .. c)
  <1> DEFINE S == (a .. b - 1) \ lib.hdrs
             T == (b .. c) \ lib.hdrs
  <1>1. IsFiniteSet(a .. b - 1) /\ IsFiniteSet(b .. c)
    BY FS_Interval
  <1>2. IsFiniteSet(S) /\ IsFiniteSet(T)
    BY <1>1, FS_Subset
  <1>3. S \cap T = {} /\ (a .. c) \ lib.hdrs = S \cup T
    OBVIOUS
  <1>4. Cardinality(S \cup T) = Cardinality(S) + Cardinality(T)
    <2>1. Cardinality({}) = 0 /\ Cardinality(S) \in Nat /\ Cardinality(T) \in Nat
      BY <1>2, FS_EmptySet, FS_CardinalityType
    <2>2. Cardinality(S \cup T)
              = Cardinality(S) + Cardinality(T) - Cardinality(S \cap T)
      BY <1>2, FS_Union
    <2>3. Cardinality(S \cap T) = 0
      BY <1>3, <2>1
    <2> HIDE DEF S, T
    <2>. QED
      BY <2>1, <2>2, <2>3
  <1>5. /\ DealRecords(a .. b - 1) = Cardinality(S)
        /\ DealRecords(b .. c) = Cardinality(T)
        /\ DealRecords(a .. c) = Cardinality(S \cup T)
    BY <1>3 DEF DealRecords
  <1> HIDE DEF S, T
  <1>. QED
    BY <1>2, <1>4, <1>5, FS_CardinalityType

\* A file has as many deal records as it has records that are no headers.
LEMMA WholeFile ==
  ASSUME lib \in Libraries
  PROVE  /\ Cardinality(lib.hdrs) \in Nat
         /\ DealRecords(0 .. lib.recs - 1) = lib.recs - Cardinality(lib.hdrs)
  <1> DEFINE F == 0 .. lib.recs - 1
  <1>1. lib.recs \in Nat /\ lib.hdrs \subseteq F
    BY LibraryAssumption
  <1>2. IsFiniteSet(F) /\ Cardinality(F) = lib.recs
    <2>1. 0 \in Int /\ lib.recs - 1 \in Int
      BY <1>1
    <2>2. /\ IsFiniteSet(F)
          /\ Cardinality(F) = IF 0 > lib.recs - 1 THEN 0
                              ELSE lib.recs - 1 - 0 + 1
      BY <2>1, FS_Interval, Zenon
    <2> HIDE DEF F
    <2>. QED
      BY <1>1, <2>2
  <1>3. IsFiniteSet(lib.hdrs)
    BY <1>1, <1>2, FS_Subset
  <1>4. Cardinality(F \ lib.hdrs) = Cardinality(F) - Cardinality(F \cap lib.hdrs)
    BY <1>2, <1>3, FS_Difference
  <1>5. F \cap lib.hdrs = lib.hdrs
    BY <1>1
  <1>. QED
    BY <1>2, <1>3, <1>4, <1>5, FS_CardinalityType DEF DealRecords

\* The deals there are in the records passed before the n-th of this reading.
Before(n) ==
  IF zrdlib_pass_num = 0 THEN DealRecords(start .. n - 1)
  ELSE DealRecords(start .. lib.recs - 1) + DealRecords(0 .. n - 1)

\* The deals made are those of the records passed.
Passed ==
  mode = "library" =>
    /\ lib \in Libraries
    /\ zrdlib_pass_num = 0 /\ pc \in {"loop", "read", "dealt"} => start <= fpos
    /\ pc \in {"loop", "read", "dealt"} => generated = Before(fpos)
    /\ pc = "got" /\ zrdlib_pass_num < 2 =>
          /\ rec \in Nat /\ rec \notin lib.hdrs /\ generated = Before(rec)
          /\ zrdlib_pass_num = 0 => start <= rec
    /\ pc \in {"got", "dealt"} => fpos = rec + 1

\* Before any record is read no deal is made.
LEMMA InitPassed == Init => Passed
  <1> SUFFICES ASSUME Init, mode = "library" PROVE Passed
    BY DEF Passed
  <1>1. lib \in Libraries /\ fpos = start /\ zrdlib_pass_num = 0
        /\ pc = "loop" /\ generated = 0
    BY DEF Init
  <1>2. start \in Nat
    BY <1>1, InitIInv DEF IInv, TypeOK
  <1>3. Cardinality((start .. start - 1) \ lib.hdrs) = 0
    <2>1. (start .. start - 1) \ lib.hdrs = {}
      BY <1>2
    <2>. QED
      BY <2>1, FS_EmptySet
  <1>. QED
    BY <1>1, <1>2, <1>3 DEF Passed, Before, DealRecords

\* What a step leaves of the library counts the same after it.
LEMMA BeforeNext ==
  ASSUME UNCHANGED <<lib, start>>
  PROVE  /\ Before(fpos)' = IF zrdlib_pass_num' = 0
                            THEN DealRecords(start .. fpos' - 1)
                            ELSE DealRecords(start .. lib.recs - 1)
                                 + DealRecords(0 .. fpos' - 1)
         /\ Before(rec)' = IF zrdlib_pass_num' = 0
                           THEN DealRecords(start .. rec' - 1)
                           ELSE DealRecords(start .. lib.recs - 1)
                                + DealRecords(0 .. rec' - 1)
  BY DEF Before, DealRecords

\* Reading a record passes the headers and stops at a deal, or at the end of
\* the file's second reading.
LEMMA ReadPassed ==
  ASSUME IInv, Passed, ReadRecord
  PROVE  Passed'
  <1>1. /\ mode = "library" /\ lib \in Libraries /\ lib.recs \in Nat
        /\ lib.recs > 0 /\ fpos \in 0 .. lib.recs /\ start \in Nat
        /\ start < lib.recs /\ zrdlib_pass_num \in {0, 1} /\ pc = "read"
        /\ zrdlib_pass_num = 0 => start <= fpos
        /\ generated = Before(fpos) /\ generated \in Nat
    BY LibType DEF IInv, TypeOK, Counted, Reading, Passed, ReadRecord
  <1>2. /\ UNCHANGED <<mode, lib, start, generated>>
        /\ fpos' = rec' + 1
        /\ pc' \in {"read", "got"}
        /\ pc' = "got" /\ zrdlib_pass_num' < 2 => rec' \notin lib.hdrs
        /\ pc' = "read" => rec' \in lib.hdrs /\ zrdlib_pass_num' < 2
    BY DEF ReadRecord, runVars
  <1>3. CASE zrdlib_pass_num' < 2
    \* The deals made are those before the record read.
    <2>1. /\ rec' \in Nat /\ zrdlib_pass_num' \in {0, 1}
          /\ generated = Before(rec)'
          /\ zrdlib_pass_num' = 0 => start <= rec'
      <3>1. CASE AtEOF
        <4>1. fpos = lib.recs /\ rec' = 0
              /\ zrdlib_pass_num = 0 /\ zrdlib_pass_num' = 1
          BY <1>1, <1>3, <3>1 DEF AtEOF, ReadRecord
        <4>2. DealRecords(0 .. rec' - 1) = 0
          <5>1. (0 .. rec' - 1) \ lib.hdrs = {}
            BY <4>1
          <5>. QED
            BY <5>1, FS_EmptySet DEF DealRecords
        <4>3. generated = DealRecords(start .. lib.recs - 1)
          BY <1>1, <4>1 DEF Before
        <4>. QED
          BY <1>1, <1>2, <4>1, <4>2, <4>3, BeforeNext
      <3>2. CASE ~AtEOF
        <4>1. rec' = fpos /\ zrdlib_pass_num' = zrdlib_pass_num
          BY <1>1, <3>2 DEF ReadRecord
        <4>2. Before(rec)' = Before(fpos)
          BY <1>2, <4>1, BeforeNext DEF Before
        <4>. QED
          BY <1>1, <4>1, <4>2
      <3>. QED
        BY <3>1, <3>2
    <2>a. fpos' - 1 = rec'
      <3>1. rec' \in Nat /\ fpos' = rec' + 1
        BY <1>2, <2>1
      <3>2. \A n, m : m \in Nat /\ n = m + 1 => n - 1 = m
        OBVIOUS
      <3>. QED
        BY <3>1, <3>2, Zenon
    <2>2. pc' = "read" => Before(fpos)' = Before(rec)'
      <3> SUFFICES ASSUME pc' = "read" PROVE Before(fpos)' = Before(rec)'
        OBVIOUS
      <3>1. rec' \in lib.hdrs
        BY <1>2
      <3>2. \A a \in 0 .. rec' :
                DealRecords(a .. rec') = DealRecords(a .. rec' - 1)
        <4> SUFFICES ASSUME NEW a \in 0 .. rec'
                     PROVE  DealRecords(a .. rec') = DealRecords(a .. rec' - 1)
          OBVIOUS
        <4>1. a \in Int /\ rec' \in Int /\ a <= rec'
          BY <2>1
        <4>2. /\ DealRecords(a .. rec' - 1) \in Nat
              /\ DealRecords(a .. rec') = DealRecords(a .. rec' - 1)
                     + (IF rec' \in lib.hdrs THEN 0 ELSE 1)
          BY <4>1, NextRecord, Zenon
        <4>. QED
          BY <3>1, <4>2
      <3>3. 0 \in 0 .. rec' /\ (zrdlib_pass_num' = 0 => start \in 0 .. rec')
        BY <1>1, <2>1
      <3>4. CASE zrdlib_pass_num' = 0
        <4>1. DealRecords(start .. rec') = DealRecords(start .. rec' - 1)
          BY <3>2, <3>3, <3>4
        <4>2. /\ Before(fpos)' = DealRecords(start .. fpos' - 1)
              /\ Before(rec)' = DealRecords(start .. rec' - 1)
          BY <1>2, <3>4, BeforeNext
        <4>. QED
          BY <2>a, <4>1, <4>2, Zenon
      <3>5. CASE zrdlib_pass_num' # 0
        <4>1. DealRecords(0 .. rec') = DealRecords(0 .. rec' - 1)
          BY <3>2, <3>3
        <4>2. /\ Before(fpos)' = DealRecords(start .. lib.recs - 1)
                                 + DealRecords(0 .. fpos' - 1)
              /\ Before(rec)' = DealRecords(start .. lib.recs - 1)
                                + DealRecords(0 .. rec' - 1)
          BY <1>2, <3>5, BeforeNext
        <4>. QED
          BY <2>a, <4>1, <4>2, Zenon
      <3>. QED
        BY <3>4, <3>5
    <2>3. zrdlib_pass_num' = 0 => start <= fpos'
      <3>1. /\ start \in Nat /\ rec' \in Nat /\ fpos' = rec' + 1
            /\ zrdlib_pass_num' = 0 => start <= rec'
        BY <1>1, <1>2, <2>1
      <3>2. \A n, k, m : k \in Nat /\ m \in Nat /\ n = m + 1 /\ k <= m => k <= n
        OBVIOUS
      <3>. QED
        BY <3>1, <3>2, Zenon
    <2>. QED
      BY <1>1, <1>2, <2>1, <2>2, <2>3 DEF Passed
  <1>4. CASE ~(zrdlib_pass_num' < 2)
    <2>1. pc' = "got" /\ zrdlib_pass_num' # 0
      BY <1>1, <1>2, <1>4 DEF ReadRecord
    <2>. QED
      BY <1>1, <1>2, <1>4, <2>1 DEF Passed
  <1>. QED
    BY <1>3, <1>4

\* A deal decoded is one more than those before its record.
LEMMA DecodePassed ==
  ASSUME IInv, Passed, Decode
  PROVE  Passed'
  <1>1. /\ UNCHANGED <<mode, lib, start, fpos, zrdlib_pass_num, rec>>
        /\ generated' = generated + 1 /\ pc' = "dealt"
    BY DEF Decode, runVars
  <1>2. /\ mode = "library" /\ lib \in Libraries /\ start \in Nat
        /\ rec \in Nat /\ rec \notin lib.hdrs /\ generated = Before(rec)
        /\ zrdlib_pass_num = 0 => start <= rec
        /\ fpos = rec + 1
    BY DEF IInv, TypeOK, Reading, Passed, Decode
  <1>3. Before(fpos)' = Before(rec) + 1
    <2>1. \A a \in 0 .. rec :
              /\ DealRecords(a .. rec - 1) \in Nat
              /\ DealRecords(a .. rec) = DealRecords(a .. rec - 1) + 1
      <3> SUFFICES ASSUME NEW a \in 0 .. rec
                   PROVE  /\ DealRecords(a .. rec - 1) \in Nat
                          /\ DealRecords(a .. rec) = DealRecords(a .. rec - 1) + 1
        OBVIOUS
      <3>1. a \in Int /\ rec \in Int /\ a <= rec
        BY <1>2
      <3>2. /\ DealRecords(a .. rec - 1) \in Nat
            /\ DealRecords(a .. rec) = DealRecords(a .. rec - 1)
                   + (IF rec \in lib.hdrs THEN 0 ELSE 1)
        BY <3>1, NextRecord, Zenon
      <3>. QED
        BY <1>2, <3>2
    <2>2. 0 \in 0 .. rec /\ (zrdlib_pass_num = 0 => start \in 0 .. rec)
      BY <1>2
    <2>3. DealRecords(start .. lib.recs - 1) \in Nat
      <3>1. IsFiniteSet((start .. lib.recs - 1) \ lib.hdrs)
        <4>1. start \in Int /\ lib.recs - 1 \in Int
          BY <1>2, LibType DEF IInv
        <4>2. IsFiniteSet(start .. lib.recs - 1)
          BY <4>1, FS_Interval
        <4>. QED
          BY <4>2, FS_Subset
      <3>. QED
        BY <3>1, FS_CardinalityType DEF DealRecords
    <2>4. fpos' - 1 = rec
      BY <1>1, <1>2
    <2>. QED
      <3>1. CASE zrdlib_pass_num = 0
        <4>1. /\ Before(fpos)' = DealRecords(start .. rec)
              /\ Before(rec) = DealRecords(start .. rec - 1)
          BY <1>1, <2>4, <3>1, BeforeNext DEF Before
        <4>. QED
          BY <2>1, <2>2, <3>1, <4>1
      <3>2. CASE zrdlib_pass_num # 0
        <4>1. /\ Before(fpos)' = DealRecords(start .. lib.recs - 1)
                                 + DealRecords(0 .. rec)
              /\ Before(rec) = DealRecords(start .. lib.recs - 1)
                               + DealRecords(0 .. rec - 1)
          BY <1>1, <2>4, <3>2, BeforeNext DEF Before
        <4>. QED
          BY <2>1, <2>2, <2>3, <4>1
      <3>. QED
        BY <3>1, <3>2
  <1>. QED
    BY <1>1, <1>2, <1>3 DEF Passed

\* Every step makes the deals of the records it passes.
LEMMA StepPassed == IInv /\ Passed /\ [Next]_vars => Passed'
  <1> SUFFICES ASSUME IInv, Passed, [Next]_vars PROVE Passed'
    OBVIOUS
  <1>1. CASE ReadRecord
    BY <1>1, ReadPassed
  <1>2. CASE Decode
    BY <1>2, DecodePassed
  \* The other steps leave the library, and in library mode the deals, alone.
  <1>3. CASE UNCHANGED <<runVars, fileVars>>
             /\ (mode = "library" => generated' = generated)
             /\ (pc' \in {"loop", "read", "dealt"} /\ mode = "library"
                     => pc \in {"loop", "read", "dealt"})
             /\ (pc' = "got" => pc = "got")
             /\ (pc' = "dealt" /\ mode = "library" => pc = "dealt")
    <2>1. /\ UNCHANGED <<mode, lib, start, fpos, rec, zrdlib_pass_num>>
      BY <1>3 DEF runVars, fileVars
    <2>2. Before(fpos)' = Before(fpos) /\ Before(rec)' = Before(rec)
      BY <2>1, BeforeNext DEF Before
    <2>. QED
      BY <1>3, <2>1, <2>2 DEF Passed
  <1>4. CASE \/ DealRandom \/ DealBiasFails \/ DealLibrary \/ LibraryEnds
             \/ Produce \/ Discard \/ WriteFails \/ LoopExit \/ Report
             \/ Stopped \/ UNCHANGED vars
    BY <1>3, <1>4 DEF DealRandom, DealBiasFails, DealLibrary, LibraryEnds,
       Produce, Discard, WriteFails, LoopExit, Report, Stopped, vars
  <1>. QED
    BY <1>1, <1>2, <1>4 DEF Next, Dealing

\* What the two invariants say of a deal from a library: in the second reading
\* the bound on the deals to generate leaves room for the headers only.
LEMMA PassedOnce == IInv /\ Passed => DealtWhatWasPassed
  <1> SUFFICES ASSUME IInv, Passed, pc = "dealt", mode = "library"
               PROVE  /\ zrdlib_pass_num < 2
                      /\ generated =
                           IF zrdlib_pass_num = 0 THEN DealRecords(start .. rec)
                           ELSE DealRecords(start .. lib.recs - 1)
                                + DealRecords(0 .. rec)
                      /\ zrdlib_pass_num = 1 /\ rec >= start
                           => DealRecords(start .. rec) <= Cardinality(lib.hdrs)
    BY DEF DealtWhatWasPassed
  <1>1. /\ lib \in Libraries /\ lib.recs \in Nat /\ start \in Nat
        /\ zrdlib_pass_num \in {0, 1} /\ rec \in Int
        /\ lib.recs > 0 => start < lib.recs
        /\ generated = Before(fpos) /\ fpos = rec + 1
    BY LibType DEF IInv, TypeOK, Reading, Passed
  <1>2. generated \in Nat /\ generated <= lib.recs /\ lib.recs > 0
    BY <1>1 DEF IInv, TypeOK, Counted, Reading
  <1>3. generated = IF zrdlib_pass_num = 0 THEN DealRecords(start .. rec)
                    ELSE DealRecords(start .. lib.recs - 1)
                         + DealRecords(0 .. rec)
    <2>1. fpos - 1 = rec
      BY <1>1
    <2>. QED
      BY <1>1, <2>1 DEF Before
  <1>4. ASSUME zrdlib_pass_num = 1, rec >= start
        PROVE  DealRecords(start .. rec) <= Cardinality(lib.hdrs)
    <2>1. /\ 0 \in Int /\ start \in Int /\ lib.recs - 1 \in Int /\ rec \in Int
          /\ 0 <= start /\ start <= rec + 1 /\ start <= lib.recs - 1 + 1
      BY <1>1, <1>2, <1>4
    <2>2. /\ DealRecords(0 .. start - 1) \in Nat
          /\ DealRecords(start .. rec) \in Nat
          /\ DealRecords(0 .. rec)
                 = DealRecords(0 .. start - 1) + DealRecords(start .. rec)
      BY <2>1, Parts, Zenon
    <2>3. /\ DealRecords(start .. lib.recs - 1) \in Nat
          /\ DealRecords(0 .. lib.recs - 1) = DealRecords(0 .. start - 1)
                                      + DealRecords(start .. lib.recs - 1)
      BY <2>1, Parts, Zenon
    <2>4. /\ Cardinality(lib.hdrs) \in Nat
          /\ DealRecords(0 .. lib.recs - 1) = lib.recs - Cardinality(lib.hdrs)
      BY <1>1, WholeFile
    <2>5. DealRecords(start .. lib.recs - 1) + DealRecords(0 .. rec) <= lib.recs
      BY <1>2, <1>3, <1>4
    <2> DEFINE A == DealRecords(0 .. start - 1)
               B == DealRecords(start .. rec)
               C == DealRecords(start .. lib.recs - 1)
               H == Cardinality(lib.hdrs)
    <2>6. /\ A \in Nat /\ B \in Nat /\ C \in Nat /\ H \in Nat
          /\ C + (A + B) <= lib.recs
          /\ A + C = lib.recs - H
      BY <2>2, <2>3, <2>4, <2>5
    <2> HIDE DEF A, B, C, H
    <2>7. B <= H
      BY <1>1, <2>6
    <2>. QED
      BY <2>7 DEF B, H
  <1>. QED
    BY <1>1, <1>3, <1>4

\* A library run deals the deal records from the seed's place on, round to the
\* beginning, and in the second reading repeats at most as many deals as the
\* file has headers.
THEOREM DealtAsPassed == SafeSpec => []DealtWhatWasPassed
  BY InitPassed, StepPassed, PassedOnce, Inductive, PTL DEF SafeSpec
=============================================================================
