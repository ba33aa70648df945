----------------------------- MODULE MCUserEval -----------------------------
(***************************************************************************)
(* UserEval on a small instance: two metrics that share a results slot.    *)
(***************************************************************************)
EXTENDS UserEvalProps

\* Tag 0 fills both slots, tag 20 one of them: slot 0 then keeps what an
\* earlier query left there.
MCTag   == {0, 20}
MCSlot  == {0, 1}
MCFills == [t \in MCTag |-> IF t = 0 THEN MCSlot ELSE {1}]

\* The queries an input file can also ask: usereval(81, ...) and
\* usereval(-1, ...).
MCAskAll  == MCTag \cup {QuitTag, NoMore}
=============================================================================
