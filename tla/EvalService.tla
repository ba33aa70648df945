---------------------------- MODULE EvalService ----------------------------
(***************************************************************************)
(* What usereval(tag, side, idx) promises the rest of dealer: evaluated on *)
(* the current deal, it returns the value the named metric gives that deal *)
(* and side -- at once, as if there were neither server nor cache.  A slot *)
(* the metric does not fill may hold anything an earlier query left there. *)
(***************************************************************************)
EXTENDS Naturals

CONSTANTS
    Tag, Slot, Fills,   \* as in UserEval
    Request,            \* the queries that can be asked
    Values,             \* what a slot can hold
    None,               \* no query is being answered
    MaxGen              \* bound: deals generated

VARIABLES
    ngen,               \* number of the current deal
    request,            \* the query being answered, or None
    answer              \* the value last returned

svars == <<ngen, request, answer>>

Init == ngen = 0 /\ request = None /\ answer = [gen |-> 0, tag |-> 0]

NewDeal ==
    /\ request = None
    /\ ngen < MaxGen
    /\ ngen' = ngen + 1
    /\ UNCHANGED <<request, answer>>

Call ==
    /\ request = None
    /\ ngen > 0
    /\ request' \in Request
    /\ UNCHANGED <<ngen, answer>>

Promised(q) == q.tag \in Tag /\ q.idx \in Fills[q.tag]

Return ==
    /\ request # None
    /\ answer' \in Values
    /\ Promised(request) => answer' = [gen |-> ngen, tag |-> request.tag]
    /\ request' = None
    /\ UNCHANGED ngen

Next == NewDeal \/ Call \/ Return

SafeSpec == Init /\ [][Next]_svars
Spec == SafeSpec /\ WF_svars(Return)
=============================================================================
