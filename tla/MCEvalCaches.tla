---------------------------- MODULE MCEvalCaches ----------------------------
(***************************************************************************)
(* EvalCaches with two hands and two strains: the entries that             *)
(* dds_parscore() and csv_trix() test, and two that they do not.           *)
(***************************************************************************)
EXTENDS EvalCaches

MCHand   == {0, South}
MCStrain == {0, NoTrump}

\* One program fails at most; what each fills is kept apart from the others'.
MCFaultSets == {{}, {"dds"}, {"gib"}, {"dop"}}
=============================================================================
