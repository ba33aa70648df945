------------------------------ MODULE UserEval ------------------------------
(***************************************************************************)
(* The exchange between dealer and its DealerServer process (usereval()).  *)
(*                                                                         *)
(* Dealer forks one server, shares one mmap page with it and hands control *)
(* to and fro with two semaphores: it posts p_qsem when a query is in the  *)
(* page and waits on p_rsem for the results.  A one entry per side cache,  *)
(* keyed by the generated deal's number and the query tag, spares the      *)
(* exchange when the same metric is asked again about the same deal.       *)
(*                                                                         *)
(* The shared page is modelled area by area (query packet, deal, double    *)
(* dummy tricks, results of each side) and every access to an area is a    *)
(* step of its own, so that a missing hand-over shows as a race.           *)
(*                                                                         *)
(* A deal is identified by ngen, the number the main loop gives it.  What  *)
(* the server computes is abstracted to whom it was computed for: a result *)
(* slot holds the deal and tag of the query that filled it last.           *)
(***************************************************************************)
EXTENDS Integers

CONSTANTS
    Slot,       \* indexes of the results array a usereval() may name
    Tag,        \* the tags with a reply function (unk_reply's included)
    Fills,      \* the slots each tag's reply function fills
    AskTag,     \* the tags the input file asks for
    MaxGen,     \* bound: deals generated
    MaxAsk,     \* bound: usereval() nodes evaluated per deal
    LibDeals,   \* do deals come from a library that has their tricks?
    Faults      \* which of the faults "exec" and "write" can happen

QuitTag == 81       \* 'Q': userfunc() answers it by ending the server
NoMore  == -1       \* there will be no more query
Side    == {0, 1}   \* SIDE_NS, SIDE_EW

ASSUME TagAssumption ==
    /\ 0 \in Tag /\ Tag \subseteq Nat \ {QuitTag}
    /\ AskTag \subseteq Tag \cup {QuitTag, NoMore}

ASSUME FillsAssumption ==
    /\ 0 \in Slot
    /\ Fills \in [Tag -> SUBSET Slot]

ASSUME BoundAssumption ==
    /\ MaxGen \in Nat /\ MaxAsk \in Nat
    /\ LibDeals \in BOOLEAN
    /\ Faults \subseteq {"exec", "write"}

VARIABLES
    ngen,       \* number of the deal in curdeal; 0 before the first
    asks,       \* usereval() nodes evaluated for this deal
    dpc,        \* where dealer is
    query,      \* arguments of the ask_query() being executed
    answer,     \* what the last ask_query() returned
    tricks,     \* dealer's dds_res_bin: its CacheStatus, and whose tricks
    packet,     \* shared: the query packet's tag and side
    deal,       \* shared: whose cards and statistics were copied
    shTricks,   \* shared: dds_cache and whose tricks dds_trix holds
    cache,      \* shared, but dealer's: per side dealnum and qtag
    res,        \* shared: per side, who filled each slot
    qsem, rsem, \* values of the two semaphores
    spc,        \* where the server is
    gbl,        \* the server's copy of the packet
    todo        \* slots its reply function has yet to fill

dealerVars == <<ngen, asks, query, answer, tricks>>
pageVars   == <<packet, deal, shTricks, cache, res>>
semVars    == <<qsem, rsem>>
serverVars == <<spc, gbl, todo>>
vars == <<dealerVars, dpc, pageVars, semVars, serverVars>>

-----------------------------------------------------------------------------
Gen      == 0 .. MaxGen
AnyTag   == Tag \cup {QuitTag, NoMore}
Packet   == [tag : AnyTag, side : Side]
Query    == [tag : AnyTag, side : Side, idx : Slot]
Value(g, t) == [gen |-> g, tag |-> t]
Unset    == Value(0, 0)                 \* a slot of the fresh, zeroed page
Values   == [gen : Gen, tag : AnyTag]
Tricks   == [ok : BOOLEAN, gen : Gen]

DealerPC == {"run", "ask", "write", "copy", "tricks", "post", "wait", "upd",
             "read", "kill", "killpost", "reap", "done", "aborted"}
ServerPC == {"boot", "wait", "woke", "prolog", "fill", "reply", "eoj",
             "exited"}

Init ==
    /\ ngen = 0 /\ asks = 0
    /\ dpc = "run"
    /\ query = [tag |-> 0, side |-> 0, idx |-> 0]
    /\ answer = Unset
    /\ tricks = [ok |-> FALSE, gen |-> 0]
    /\ packet = [tag |-> 0, side |-> 0]
    /\ deal = 0
    /\ shTricks = [ok |-> FALSE, gen |-> 0]
    /\ cache = [sd \in Side |-> [dealnum |-> -1, qtag |-> NoMore]]
    /\ res = [sd \in Side |-> [s \in Slot |-> Unset]]
    /\ qsem = 0 /\ rsem = 0
    /\ spc = "boot"
    /\ gbl = packet
    /\ todo = {}

-----------------------------------------------------------------------------
(* Dealer *)

\* Deviation: a library deal whose tricks are not put in dds_res_bin.
NextDeal_KeepTricks ==
    /\ dpc = "run"
    /\ ngen < MaxGen
    /\ ngen' = ngen + 1
    /\ asks' = 0
    /\ UNCHANGED <<dpc, query, answer, tricks, pageVars, semVars, serverVars>>

\* One turn of the main loop.  A library deal comes with its tricks; any
\* other source leaves dds_res_bin as the previous deal left it.
NextDeal ==
    /\ dpc = "run"
    /\ ngen < MaxGen
    /\ ngen' = ngen + 1
    /\ asks' = 0
    /\ tricks' = IF LibDeals THEN [ok |-> TRUE, gen |-> ngen + 1] ELSE tricks
    /\ UNCHANGED <<dpc, query, answer, pageVars, semVars, serverVars>>

\* The condition or an action asks for the double dummy tricks of this deal.
\* (What a call of the library that fails leaves behind is in EvalCaches.)
EvalTricks ==
    /\ dpc = "run"
    /\ ngen > 0
    /\ tricks' = [ok |-> TRUE, gen |-> ngen]
    /\ UNCHANGED <<ngen, asks, dpc, query, answer, pageVars, semVars,
                   serverVars>>

\* evaltree() reaches a usereval() node.
Ask(q) ==
    /\ dpc = "run"
    /\ ngen > 0 /\ asks < MaxAsk
    /\ query' = q
    /\ asks' = asks + 1
    /\ dpc' = "ask"
    /\ UNCHANGED <<ngen, answer, tricks, pageVars, semVars, serverVars>>

\* Deviation: the cache entry's deal number is not compared.
CacheHit_AnyDeal(sd, t) == cache[sd].dealnum # -1 /\ cache[sd].qtag = t

CacheHit(sd, t) == cache[sd].dealnum = ngen /\ cache[sd].qtag = t

CacheChk ==
    /\ dpc = "ask"
    /\ dpc' = IF CacheHit(query.side, query.tag) THEN "read" ELSE "write"
    /\ UNCHANGED <<dealerVars, pageVars, semVars, serverVars>>

WriteQuery ==
    /\ dpc = "write"
    /\ packet' = [tag |-> query.tag, side |-> query.side]
    /\ dpc' = "copy"
    /\ UNCHANGED <<dealerVars, deal, shTricks, cache, res, semVars,
                   serverVars>>

\* Deviation: the deal is copied for the first query only.
CopyDeal_Once ==
    /\ dpc = "copy"
    /\ deal' = IF deal = 0 THEN ngen ELSE deal
    /\ dpc' = "tricks"
    /\ UNCHANGED <<dealerVars, packet, shTricks, cache, res, semVars,
                   serverVars>>

CopyDeal ==
    /\ dpc = "copy"
    /\ deal' = ngen
    /\ dpc' = "tricks"
    /\ UNCHANGED <<dealerVars, packet, shTricks, cache, res, semVars,
                   serverVars>>

\* dds_cache is only ever set, and only from dealer's own CacheStatus.
CopyTricks ==
    /\ dpc = "tricks"
    /\ shTricks' = IF tricks.ok THEN tricks ELSE shTricks
    /\ dpc' = "post"
    /\ UNCHANGED <<dealerVars, packet, deal, cache, res, semVars, serverVars>>

PostQuery ==
    /\ dpc = "post"
    /\ qsem' = qsem + 1
    /\ dpc' = "wait"
    /\ UNCHANGED <<dealerVars, pageVars, rsem, serverVars>>

\* Deviations: dealer goes on without the reply; it sees the post but does not
\* take it.
WaitReply_NoWait ==
    /\ dpc = "wait"
    /\ dpc' = "upd"
    /\ UNCHANGED <<dealerVars, pageVars, semVars, serverVars>>

WaitReply_NoTake ==
    /\ dpc = "wait"
    /\ rsem > 0
    /\ dpc' = "upd"
    /\ UNCHANGED <<dealerVars, pageVars, semVars, serverVars>>

WaitReply ==
    /\ dpc = "wait"
    /\ rsem > 0
    /\ rsem' = rsem - 1
    /\ dpc' = "upd"
    /\ UNCHANGED <<dealerVars, pageVars, qsem, serverVars>>

\* Deviation: the entries of both sides are marked.
CacheUpd_Both ==
    /\ dpc = "upd"
    /\ cache' = [sd \in Side |-> [dealnum |-> ngen, qtag |-> query.tag]]
    /\ dpc' = "read"
    /\ UNCHANGED <<dealerVars, packet, deal, shTricks, res, semVars,
                   serverVars>>

CacheUpd ==
    /\ dpc = "upd"
    /\ cache' = [cache EXCEPT ![query.side] =
                    [dealnum |-> ngen, qtag |-> query.tag]]
    /\ dpc' = "read"
    /\ UNCHANGED <<dealerVars, packet, deal, shTricks, res, semVars,
                   serverVars>>

\* Deviation: the results pointer is always that of NS.
ReadResult_NS ==
    /\ dpc = "read"
    /\ answer' = res[0][query.idx]
    /\ dpc' = "run"
    /\ UNCHANGED <<ngen, asks, query, tricks, pageVars, semVars, serverVars>>

ReadResult ==
    /\ dpc = "read"
    /\ answer' = res[query.side][query.idx]
    /\ dpc' = "run"
    /\ UNCHANGED <<ngen, asks, query, tricks, pageVars, semVars, serverVars>>

\* The main loop ends, and with it the need for a server.
Finish ==
    /\ dpc = "run"
    /\ dpc' = "kill"
    /\ UNCHANGED <<dealerVars, pageVars, semVars, serverVars>>

\* Deviation: the tag of the last query is left in the packet.
WriteKill_KeepTag ==
    /\ dpc = "kill"
    /\ dpc' = "killpost"
    /\ UNCHANGED <<dealerVars, pageVars, semVars, serverVars>>

WriteKill ==
    /\ dpc = "kill"
    /\ packet' = [packet EXCEPT !.tag = NoMore]
    /\ dpc' = "killpost"
    /\ UNCHANGED <<dealerVars, deal, shTricks, cache, res, semVars,
                   serverVars>>

PostKill ==
    /\ dpc = "killpost"
    /\ qsem' = qsem + 1
    /\ dpc' = "reap"
    /\ UNCHANGED <<dealerVars, pageVars, rsem, serverVars>>

\* waitpid(), then the page and the semaphores are removed.
Reap ==
    /\ dpc = "reap"
    /\ spc = "exited"
    /\ dpc' = "done"
    /\ UNCHANGED <<dealerVars, pageVars, semVars, serverVars>>

\* A record could not be written: main() returns -1 from inside its loop, past
\* cleanup_userserver().  Nothing tells the server.
WriteError ==
    /\ "write" \in Faults
    /\ dpc = "run" /\ ngen > 0
    /\ dpc' = "aborted"
    /\ UNCHANGED <<dealerVars, pageVars, semVars, serverVars>>

AskAny == \E t \in AskTag, sd \in Side, s \in Slot :
              Ask([tag |-> t, side |-> sd, idx |-> s])

Dealer ==
    \/ NextDeal \/ EvalTricks \/ AskAny \/ CacheChk \/ WriteQuery
    \/ CopyDeal \/ CopyTricks \/ PostQuery \/ WaitReply \/ CacheUpd
    \/ ReadResult \/ Finish \/ WriteKill \/ PostKill \/ Reap \/ WriteError

-----------------------------------------------------------------------------
(* Server *)

ServerStart ==
    /\ spc = "boot"
    /\ spc' = "wait"
    /\ UNCHANGED <<dealerVars, dpc, pageVars, semVars, gbl, todo>>

\* execve() failed, or the page or a semaphore could not be opened: die().
ServerFails ==
    /\ "exec" \in Faults
    /\ spc = "boot"
    /\ spc' = "exited"
    /\ UNCHANGED <<dealerVars, dpc, pageVars, semVars, gbl, todo>>

\* Deviation: the server is woken but the semaphore keeps its value.
TakeQuery_NoTake ==
    /\ spc = "wait"
    /\ qsem > 0
    /\ spc' = "woke"
    /\ UNCHANGED <<dealerVars, dpc, pageVars, semVars, gbl, todo>>

TakeQuery ==
    /\ spc = "wait"
    /\ qsem > 0
    /\ qsem' = qsem - 1
    /\ spc' = "woke"
    /\ UNCHANGED <<dealerVars, dpc, pageVars, rsem, gbl, todo>>

\* The server sorts the cards in the page in place: still the same deal.
TestTag ==
    /\ spc = "woke"
    /\ spc' = IF packet.tag < 0 THEN "eoj" ELSE "prolog"
    /\ UNCHANGED <<dealerVars, dpc, pageVars, semVars, gbl, todo>>

\* Deviation: the global copy of the packet is not refreshed.
Userfunc_OldCopy ==
    /\ spc = "prolog"
    /\ IF packet.tag \in Tag
       THEN spc' = "fill" /\ todo' = Fills[packet.tag]
       ELSE spc' = "eoj"  /\ todo' = {}
    /\ UNCHANGED <<dealerVars, dpc, pageVars, semVars, gbl>>

Userfunc ==
    /\ spc = "prolog"
    /\ gbl' = packet
    /\ IF packet.tag \in Tag
       THEN spc' = "fill" /\ todo' = Fills[packet.tag]
       ELSE spc' = "eoj"  /\ todo' = {}
    /\ UNCHANGED <<dealerVars, dpc, pageVars, semVars>>

\* A reply function computes from the deal in the page and saves one value.
FillSlot(s) ==
    /\ spc = "fill"
    /\ s \in todo
    /\ res' = [res EXCEPT ![gbl.side][s] = Value(deal, gbl.tag)]
    /\ todo' = todo \ {s}
    /\ UNCHANGED <<dealerVars, dpc, packet, deal, shTricks, cache, semVars,
                   spc, gbl>>

ReplyDone ==
    /\ spc = "fill"
    /\ todo = {}
    /\ spc' = "reply"
    /\ UNCHANGED <<dealerVars, dpc, pageVars, semVars, gbl, todo>>

PostReply ==
    /\ spc = "reply"
    /\ rsem' = rsem + 1
    /\ spc' = "wait"
    /\ UNCHANGED <<dealerVars, dpc, pageVars, qsem, gbl, todo>>

\* server_eoj(): post once "in case the client is still waiting", and exit.
ServerEoj ==
    /\ spc = "eoj"
    /\ rsem' = rsem + 1
    /\ spc' = "exited"
    /\ UNCHANGED <<dealerVars, dpc, pageVars, qsem, gbl, todo>>

Server ==
    \/ ServerStart \/ ServerFails \/ TakeQuery \/ TestTag \/ Userfunc
    \/ (\E s \in Slot : FillSlot(s)) \/ ReplyDone \/ PostReply \/ ServerEoj

Stopped == dpc = "done" /\ spc = "exited" /\ UNCHANGED vars

Next == Dealer \/ Server \/ Stopped

SafeSpec == Init /\ [][Next]_vars

\* Both are processes the operating system schedules; neither spins.
Spec == SafeSpec /\ WF_vars(Dealer) /\ WF_vars(Server)
=============================================================================
