----------------------------- MODULE MCDealLoop -----------------------------
(***************************************************************************)
(* DealLoop on small libraries and on one large enough for blocks of ten   *)
(* records.                                                                *)
(***************************************************************************)
EXTENDS DealLoop

\* Every library of up to four records, the empty one and those that hold
\* nothing but headers included, and one of 105 records, large enough for
\* seeds that name blocks of ten, whose last block is short: it has two deals
\* in its first block, two in its last, and headers in between.
MCSmall     ==
    UNION {{[recs |-> n, hdrs |-> H] : H \in SUBSET (0 .. n - 1)} : n \in 0 .. 4}
MCBlocks    == [recs |-> 105, hdrs |-> (0 .. 104) \ {0, 5, 95, 104}]
MCLibraries == MCSmall \cup {MCBlocks}

\* None, the blocks of the small files, the last whole block of the large one
\* and one past the end of every file.
MCSeeds  == -1 .. 4 \cup {9, 200}
MCWanted == {0, 1, 2, 3, 5}
MCModes  == {"library", "bias", "random"}
=============================================================================
