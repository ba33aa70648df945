--------------------------- MODULE UserEvalProps ---------------------------
(***************************************************************************)
(* The properties of the exchange modelled in UserEval.                    *)
(***************************************************************************)
EXTENDS UserEval

\* Every variable holds a value of its kind, and no semaphore is ever posted
\* twice without a wait between (open_semaphore() starts both at 0).
TypeOK ==
    /\ ngen \in Gen /\ asks \in 0 .. MaxAsk
    /\ dpc \in DealerPC
    /\ query \in Query
    /\ answer \in Values
    /\ tricks \in Tricks
    /\ packet \in Packet
    /\ deal \in Gen
    /\ shTricks \in Tricks
    /\ cache \in [Side -> [dealnum : Gen \cup {-1}, qtag : AnyTag]]
    /\ res \in [Side -> [Slot -> Values]]
    /\ qsem \in {0, 1} /\ rsem \in {0, 1}
    /\ spc \in ServerPC
    /\ gbl \in Packet
    /\ todo \in SUBSET Slot

DealerAccess == {"write", "copy", "tricks", "post", "read", "kill", "killpost"}
ServerAccess == {"woke", "prolog", "fill", "reply", "eoj"}

\* Dealer and server are never both at work on the shared page: the two
\* semaphores of true_ask_query() and the server's loop hand it over.
NoRace == ~(dpc \in DealerAccess /\ spc \in ServerAccess)

\* A dealer that sleeps on p_rsem is waiting for exactly one thing: its query
\* is still posted, or the server is at work on it, or the reply is posted.
\* A wakeup is neither lost nor delivered twice.
OneToken ==
    dpc = "wait" =>
        \/ qsem = 1 /\ rsem = 0 /\ spc \notin ServerAccess
        \/ qsem = 0 /\ rsem = 0 /\ spc \in ServerAccess
        \/ qsem = 0 /\ rsem = 1 /\ spc \notin ServerAccess

Current(sd, t) == \A s \in Fills[t] : res[sd][s] = Value(ngen, t)

\* ask_query() reads the results only when every slot the tag's reply function
\* fills holds the value of this deal, this side and this tag, whether the
\* cache or the server answered.
ReplyCurrent ==
    dpc = "read" /\ query.tag \in Tag => Current(query.side, query.tag)

InFlight(sd) ==
    dpc \in {"write", "copy", "tricks", "post", "wait", "upd"}
        /\ query.side = sd

\* A cache entry that cache_chk() would accept is true: the results area of its
\* side still holds what that tag computed for that deal.  The other side's
\* queries and the deals in between leave it alone.
CacheHonest ==
    \A sd \in Side : \A t \in Tag :
        CacheHit(sd, t) /\ ~InFlight(sd) => Current(sd, t)

\* While the server computes, the page's deal is the one the dealer is waiting
\* about and the packet is the query it asked.
ServesTheQuery ==
    spc \in {"fill", "reply"} =>
        /\ deal = ngen
        /\ gbl = [tag |-> query.tag, side |-> query.side]

\* mmap_template.h:61 says of the page's dds_cache: 0 = Stale, 1 = OK.  When
\* the server works on a deal with dds_cache OK, dds_trix is that deal's.
TricksCurrent ==
    spc \in {"prolog", "fill"} /\ shTricks.ok => shTricks.gen = deal

\* A slot changes only under a query of dealer's about that side which the
\* server has been handed: nothing is written behind dealer's back.
WritesOnlyWhenAsked ==
    [][\A sd \in Side : res'[sd] # res[sd] =>
           dpc = "wait" /\ query.side = sd /\ spc = "fill"]_vars

\* A run that breaks off on a failed write ends with no query posted or being
\* answered and no reply left: both semaphores are 0, and the server it leaves
\* behind, as none of cleanup_userserver() is done, has nothing to wake it.
OrphanSleeps ==
    dpc = "aborted" =>
        qsem = 0 /\ rsem = 0 /\ spc \in {"boot", "wait", "exited"}

\* A run ends, and its server with it.
Termination == <>(dpc = "done" /\ spc = "exited")

\* How a run can come to rest: both processes have ended; dealer sleeps on
\* p_rsem, with neither timeout nor SIGCHLD handler, for a server that has
\* gone; or a write failed and the server sleeps on p_qsem, an orphan.
Ended    == dpc = "done" /\ spc = "exited"
Asleep   == dpc = "wait" /\ rsem = 0 /\ spc = "exited"
Orphaned == dpc = "aborted" /\ (spc = "exited" \/ (spc = "wait" /\ qsem = 0))

\* Every run comes to rest in one of these ways and in no other: an ending
\* dealer is never left in waitpid(), nor a server that was told to end.
EndsOrSleeps == <>[](Ended \/ Asleep \/ Orphaned)

-----------------------------------------------------------------------------
(* UserEval implements EvalService. *)
NoRequest == [tag |-> NoMore, side |-> -1, idx |-> -1]
Request == [tag : AskTag, side : Side, idx : Slot]
Asking == {"ask", "write", "copy", "tricks", "post", "wait", "upd", "read"}

Service == INSTANCE EvalService WITH
    None <- NoRequest,
    request <- IF dpc \in Asking THEN query ELSE NoRequest

\* To the rest of dealer a query is one atomic step: the exchange with the
\* server and the cache cannot be told from a call of the metric itself.  Its
\* fairness makes every call return.
ServiceSpec == Service!Spec

\* The same, without the promise that the call returns.
ServiceSafe == Service!SafeSpec
=============================================================================
