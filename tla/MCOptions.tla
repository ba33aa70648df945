----------------------------- MODULE MCOptions -----------------------------
(***************************************************************************)
(* Every command line of up to three switches and input file of up to two  *)
(* statements, four in all: one switch of each kind, two where the value   *)
(* matters.  The full library and the ends of long are small here; the     *)
(* file "missing" cannot be opened.                                        *)
(***************************************************************************)
EXTENDS Options

MCSwitch ==
    [g |-> {7, 60}, p |-> {5, 50}, s |-> {0, 2, 1000}, x |-> {2}, v |-> {0}, h |-> {0},
     invalid |-> {0}, V |-> {0}, X |-> {"ok", "bad"}, Z |-> {"ok", "N", "bad"},
     L |-> {"=", "mine", "missing"}, M |-> {2}, O |-> {0}, P |-> {9},
     R |-> {4}, T |-> {"A", ""}, N |-> {0}, script |-> {0}]

MCStmt ==
    [generate |-> {6, 70}, produce |-> {4, 45}, seed |-> {0, 1},
     title |-> {"B", ""}, opener |-> {"south"}, dealer |-> {"east"},
     vulnerable |-> {"both", "all"}, startboard |-> {9},
     predeal |-> {"north", "west"}, bias |-> {0}, usereval |-> {0},
     action |-> {"print", "average"}]

MCRecords == [biglib |-> 12, mine |-> 55]
=============================================================================
