--------------------------- MODULE UserEval_proofs ---------------------------
(***************************************************************************)
(* Proofs about UserEval for every set of tags, slots and asked queries,   *)
(* every number of deals and queries, and with or without the faults.      *)
(***************************************************************************)
EXTENDS UserEvalProps, TLAPS

\* Who may touch the page, as the semaphores and the program counters tell it.
Control ==
    /\ dpc \notin {"wait", "reap", "done"} =>
           qsem = 0 /\ rsem = 0 /\ spc \notin ServerAccess
    /\ OneToken
    /\ dpc = "reap" =>
           \/ qsem = 1 /\ rsem = 0 /\ spc \notin ServerAccess
           \/ qsem = 0 /\ rsem = 0 /\ spc \in {"woke", "eoj"}
           \/ qsem = 0 /\ rsem = 1 /\ spc = "exited"
    /\ dpc = "done" => spc = "exited"
    /\ dpc \in {"killpost", "reap"} => packet.tag = NoMore

\* What the page holds while a query is on its way.
PageData ==
    /\ dpc \in {"copy", "tricks", "post", "wait", "upd"} =>
           packet = [tag |-> query.tag, side |-> query.side]
    /\ dpc \in {"tricks", "post", "wait", "upd"} => deal = ngen
    /\ spc = "eoj" => packet.tag \notin Tag
    /\ spc \in {"fill", "reply"} => gbl = packet /\ gbl.tag \in Tag

\* The slots not on the server's list any more hold this query's values.
Filled ==
    /\ spc \in {"fill", "reply"} =>
           \A s \in Fills[gbl.tag] \ todo :
               res[gbl.side][s] = Value(ngen, gbl.tag)
    /\ spc = "reply" => todo = {}
    /\ (dpc = "wait" /\ rsem = 1) \/ dpc \in {"upd", "read"} =>
           (query.tag \in Tag => Current(query.side, query.tag))

CacheInv ==
    /\ CacheHonest
    /\ \A sd \in Side : cache[sd].dealnum <= ngen

IInv == TypeOK /\ Control /\ PageData /\ Filled /\ CacheInv

-----------------------------------------------------------------------------
\* The type invariant is inductive only together with Control: that bounds
\* the semaphores.
LEMMA TypeInit == Init => TypeOK
BY TagAssumption, FillsAssumption, BoundAssumption
DEF Init, TypeOK, Gen, DealerPC, ServerPC, Query, Packet, Values, Tricks,
    AnyTag, Side, Unset, Value, QuitTag, NoMore

\* Every step keeps the types: a post finds its semaphore at 0.
LEMMA TypeStep == TypeOK /\ Control /\ PageData /\ [Next]_vars => TypeOK'
<1> SUFFICES ASSUME TypeOK, Control, PageData, [Next]_vars PROVE TypeOK'
    OBVIOUS
<1> USE TagAssumption, FillsAssumption, BoundAssumption
    DEF TypeOK, Gen, DealerPC, ServerPC, dealerVars, pageVars, semVars,
        serverVars
<1>1. CASE NextDeal
  BY <1>1 DEF NextDeal, Tricks
<1>2. CASE EvalTricks
  BY <1>2 DEF EvalTricks, Tricks
<1>3. CASE AskAny
  <2>1. PICK t \in AskTag, sd \in Side, s \in Slot :
            Ask([tag |-> t, side |-> sd, idx |-> s])
    BY <1>3 DEF AskAny
  <2>2. [tag |-> t, side |-> sd, idx |-> s] \in Query
    BY DEF Query, AnyTag
  <2> QED BY <2>1, <2>2 DEF Ask
<1>4. CASE CacheChk
  BY <1>4 DEF CacheChk
<1>5. CASE WriteQuery
  <2>1. packet' \in Packet
    BY <1>5 DEF WriteQuery, Query, Packet
  <2> QED BY <1>5, <2>1 DEF WriteQuery
<1>6. CASE CopyDeal
  BY <1>6 DEF CopyDeal
<1>7. CASE CopyTricks
  BY <1>7 DEF CopyTricks
<1>8. CASE PostQuery
  BY <1>8 DEF PostQuery, Control
<1>9. CASE WaitReply
  BY <1>9 DEF WaitReply
<1>10. CASE CacheUpd
  <2>1. query.side \in Side /\ query.tag \in AnyTag
    BY DEF Query
  <2>2. cache' \in [Side -> [dealnum : Gen \cup {-1}, qtag : AnyTag]]
    BY <1>10, <2>1 DEF CacheUpd
  <2> QED BY <1>10, <2>2 DEF CacheUpd
<1>11. CASE ReadResult
  <2>1. answer' \in Values
    BY <1>11 DEF ReadResult, Query
  <2> QED BY <1>11, <2>1 DEF ReadResult
<1>12. CASE Finish
  BY <1>12 DEF Finish
<1>13. CASE WriteKill
  <2>1. packet' \in Packet
    BY <1>13 DEF WriteKill, Packet, AnyTag
  <2> QED BY <1>13, <2>1 DEF WriteKill
<1>14. CASE PostKill
  BY <1>14 DEF PostKill, Control
<1>15. CASE Reap
  BY <1>15 DEF Reap
<1>16. CASE WriteError
  BY <1>16 DEF WriteError
<1>17. CASE ServerStart
  BY <1>17 DEF ServerStart
<1>18. CASE ServerFails
  BY <1>18 DEF ServerFails
<1>19. CASE TakeQuery
  BY <1>19 DEF TakeQuery
<1>20. CASE TestTag
  BY <1>20 DEF TestTag
<1>21. CASE Userfunc
  <2>0. \A t \in Tag : Fills[t] \in SUBSET Slot
    OBVIOUS
  <2>1. todo' \in SUBSET Slot
    <3>1. CASE packet.tag \in Tag
      <4>1. todo' = Fills[packet.tag]
        BY <1>21, <3>1 DEF Userfunc
      <4> QED BY <2>0, <3>1, <4>1
    <3>2. CASE packet.tag \notin Tag
      BY <1>21, <3>2 DEF Userfunc
    <3> QED BY <3>1, <3>2
  <2>2. gbl' \in Packet /\ spc' \in ServerPC
    BY <1>21 DEF Userfunc
  <2> QED BY <1>21, <2>1, <2>2 DEF Userfunc
<1>22. ASSUME NEW s \in Slot, FillSlot(s) PROVE TypeOK'
  <2>1. gbl.side \in Side /\ gbl.tag \in AnyTag
    BY DEF Packet
  <2>2. Value(deal, gbl.tag) \in Values
    BY <2>1 DEF Value, Values
  <2>3. res' \in [Side -> [Slot -> Values]]
    BY <1>22, <2>1, <2>2 DEF FillSlot
  <2> QED BY <1>22, <2>3 DEF FillSlot
<1>23. CASE ReplyDone
  BY <1>23 DEF ReplyDone
<1>24. CASE PostReply
  BY <1>24 DEF PostReply, Control, OneToken, ServerAccess
<1>25. CASE ServerEoj
  BY <1>25 DEF ServerEoj, Control, OneToken, ServerAccess
<1>26. CASE UNCHANGED vars
  BY <1>26 DEF vars
<1>27. QED
  BY <1>1, <1>2, <1>3, <1>4, <1>5, <1>6, <1>7, <1>8, <1>9, <1>10, <1>11,
     <1>12, <1>13, <1>14, <1>15, <1>16, <1>17, <1>18, <1>19, <1>20, <1>21,
     <1>22, <1>23, <1>24, <1>25, <1>26
  DEF Next, Dealer, Server, Stopped

\* The hand-over survives every step: each post is made by the process that
\* holds the page, and moves it to the other.
LEMMA ControlStep == TypeOK /\ Control /\ PageData /\ [Next]_vars => Control'
<1> SUFFICES ASSUME TypeOK, Control, PageData, [Next]_vars PROVE Control'
    OBVIOUS
<1> DEFINE Pcs == qsem \in {0, 1} /\ rsem \in {0, 1}
                  /\ dpc \in DealerPC /\ spc \in ServerPC
                  /\ query.tag \in AnyTag
<1>0. Pcs /\ packet \in Packet
  BY DEF TypeOK, Query
<1> USE <1>0 DEF Control, OneToken, ServerAccess, DealerPC, ServerPC,
        dealerVars, pageVars, semVars, serverVars
<1>1. CASE NextDeal
  BY <1>1 DEF NextDeal
<1>2. CASE EvalTricks
  BY <1>2 DEF EvalTricks
<1>3. CASE AskAny
  BY <1>3 DEF AskAny, Ask
<1>4. CASE CacheChk
  BY <1>4 DEF CacheChk
<1>5. CASE WriteQuery
  BY <1>5 DEF WriteQuery
<1>6. CASE CopyDeal
  BY <1>6 DEF CopyDeal
<1>7. CASE CopyTricks
  BY <1>7 DEF CopyTricks
<1>8. CASE PostQuery
  BY <1>8 DEF PostQuery
<1>9. CASE WaitReply
  BY <1>9 DEF WaitReply
<1>10. CASE CacheUpd
  BY <1>10 DEF CacheUpd
<1>11. CASE ReadResult
  BY <1>11 DEF ReadResult
<1>12. CASE Finish
  BY <1>12 DEF Finish
<1>13. CASE WriteKill
  BY <1>13 DEF WriteKill
<1>14. CASE PostKill
  BY <1>14 DEF PostKill
<1>15. CASE Reap
  BY <1>15 DEF Reap
<1>16. CASE WriteError
  BY <1>16 DEF WriteError
<1>17. CASE ServerStart
  BY <1>17 DEF ServerStart
<1>18. CASE ServerFails
  BY <1>18 DEF ServerFails
<1>19. CASE TakeQuery
  BY <1>19 DEF TakeQuery
<1>20. CASE TestTag
  BY <1>20 DEF TestTag, NoMore
<1>21. CASE Userfunc
  BY <1>21 DEF Userfunc
<1>22. ASSUME NEW s \in Slot, FillSlot(s) PROVE Control'
  BY <1>22 DEF FillSlot
<1>23. CASE ReplyDone
  BY <1>23 DEF ReplyDone
<1>24. CASE PostReply
  BY <1>24 DEF PostReply
<1>25. CASE ServerEoj
  BY <1>25 DEF ServerEoj
<1>26. CASE UNCHANGED vars
  BY <1>26 DEF vars
<1>27. QED
  BY <1>1, <1>2, <1>3, <1>4, <1>5, <1>6, <1>7, <1>8, <1>9, <1>10, <1>11,
     <1>12, <1>13, <1>14, <1>15, <1>16, <1>17, <1>18, <1>19, <1>20, <1>21,
     <1>22, <1>23, <1>24, <1>25, <1>26
  DEF Next, Dealer, Server, Stopped

\* The page holds what dealer has copied to it so far, for the query in hand.
LEMMA PageDataStep ==
    TypeOK /\ Control /\ PageData /\ [Next]_vars => PageData'
<1> SUFFICES ASSUME TypeOK, Control, PageData, [Next]_vars PROVE PageData'
    OBVIOUS
<1>0. dpc \in DealerPC /\ spc \in ServerPC /\ packet \in Packet
      /\ Tag \subseteq Nat
  BY TagAssumption DEF TypeOK
<1> USE <1>0 DEF PageData, Control, OneToken, ServerAccess, DealerPC,
        ServerPC, dealerVars, pageVars, semVars, serverVars
<1>1. CASE NextDeal
  BY <1>1 DEF NextDeal
<1>2. CASE EvalTricks
  BY <1>2 DEF EvalTricks
<1>3. CASE AskAny
  BY <1>3 DEF AskAny, Ask
<1>4. CASE CacheChk
  BY <1>4 DEF CacheChk
<1>5. CASE WriteQuery
  BY <1>5 DEF WriteQuery
<1>6. CASE CopyDeal
  BY <1>6 DEF CopyDeal
<1>7. CASE CopyTricks
  BY <1>7 DEF CopyTricks
<1>8. CASE PostQuery
  BY <1>8 DEF PostQuery
<1>9. CASE WaitReply
  BY <1>9 DEF WaitReply
<1>10. CASE CacheUpd
  BY <1>10 DEF CacheUpd
<1>11. CASE ReadResult
  BY <1>11 DEF ReadResult
<1>12. CASE Finish
  BY <1>12 DEF Finish
<1>13. CASE WriteKill
  BY <1>13 DEF WriteKill
<1>14. CASE PostKill
  BY <1>14 DEF PostKill
<1>15. CASE Reap
  BY <1>15 DEF Reap
<1>16. CASE WriteError
  BY <1>16 DEF WriteError
<1>17. CASE ServerStart
  BY <1>17 DEF ServerStart
<1>18. CASE ServerFails
  BY <1>18 DEF ServerFails
<1>19. CASE TakeQuery
  BY <1>19 DEF TakeQuery
<1>20. CASE TestTag
  <2>0. \A t \in Tag : t \in Nat
    BY <1>0
  <2>1. packet.tag < 0 => packet.tag \notin Tag
    <3> SUFFICES ASSUME packet.tag < 0, packet.tag \in Tag PROVE FALSE
        OBVIOUS
    <3>1. packet.tag \in Nat
      BY <2>0
    <3> QED BY <3>1
  <2> QED BY <1>20, <2>1 DEF TestTag
<1>21. CASE Userfunc
  BY <1>21 DEF Userfunc
<1>22. ASSUME NEW s \in Slot, FillSlot(s) PROVE PageData'
  BY <1>22 DEF FillSlot
<1>23. CASE ReplyDone
  BY <1>23 DEF ReplyDone
<1>24. CASE PostReply
  BY <1>24 DEF PostReply
<1>25. CASE ServerEoj
  BY <1>25 DEF ServerEoj
<1>26. CASE UNCHANGED vars
  BY <1>26 DEF vars
<1>27. QED
  BY <1>1, <1>2, <1>3, <1>4, <1>5, <1>6, <1>7, <1>8, <1>9, <1>10, <1>11,
     <1>12, <1>13, <1>14, <1>15, <1>16, <1>17, <1>18, <1>19, <1>20, <1>21,
     <1>22, <1>23, <1>24, <1>25, <1>26
  DEF Next, Dealer, Server, Stopped

\* What has been computed stays: no step takes dealer to another deal, or the
\* server to another tag, between the server's first slot and dealer's read.
LEMMA FilledStep ==
    IInv /\ [Next]_vars => Filled'
<1> SUFFICES ASSUME IInv, [Next]_vars PROVE Filled'
    OBVIOUS
<1>0. /\ dpc \in DealerPC /\ spc \in ServerPC /\ query \in Query
      /\ qsem \in {0, 1} /\ rsem \in {0, 1}
      /\ todo \in SUBSET Slot /\ gbl \in Packet
      /\ res \in [Side -> [Slot -> Values]]
      /\ Control /\ PageData /\ Filled /\ CacheInv
  BY DEF IInv, TypeOK
<1> USE <1>0 DEF Filled, PageData, Control, OneToken, ServerAccess, DealerPC,
        ServerPC, Current, dealerVars, pageVars, semVars, serverVars
<1>1. CASE NextDeal
  BY <1>1 DEF NextDeal
<1>2. CASE EvalTricks
  BY <1>2 DEF EvalTricks
<1>3. CASE AskAny
  BY <1>3 DEF AskAny, Ask
<1>4. CASE CacheChk
  <2>1. query.side \in Side
    BY DEF Query
  <2>2. CacheHit(query.side, query.tag) /\ query.tag \in Tag =>
            Current(query.side, query.tag)
    BY <1>4, <2>1 DEF CacheChk, CacheInv, CacheHonest, InFlight
  <2> QED BY <1>4, <2>2 DEF CacheChk
<1>5. CASE WriteQuery
  BY <1>5 DEF WriteQuery
<1>6. CASE CopyDeal
  BY <1>6 DEF CopyDeal
<1>7. CASE CopyTricks
  BY <1>7 DEF CopyTricks
<1>8. CASE PostQuery
  BY <1>8 DEF PostQuery
<1>9. CASE WaitReply
  BY <1>9 DEF WaitReply
<1>10. CASE CacheUpd
  BY <1>10 DEF CacheUpd
<1>11. CASE ReadResult
  BY <1>11 DEF ReadResult
<1>12. CASE Finish
  BY <1>12 DEF Finish
<1>13. CASE WriteKill
  BY <1>13 DEF WriteKill
<1>14. CASE PostKill
  BY <1>14 DEF PostKill
<1>15. CASE Reap
  BY <1>15 DEF Reap
<1>16. CASE WriteError
  BY <1>16 DEF WriteError
<1>17. CASE ServerStart
  BY <1>17 DEF ServerStart
<1>18. CASE ServerFails
  BY <1>18 DEF ServerFails
<1>19. CASE TakeQuery
  BY <1>19 DEF TakeQuery
<1>20. CASE TestTag
  BY <1>20 DEF TestTag
<1>21. CASE Userfunc
  BY <1>21 DEF Userfunc
<1>22. ASSUME NEW s \in Slot, FillSlot(s) PROVE Filled'
  <2>1. gbl.side \in Side /\ deal = ngen
    BY <1>22 DEF FillSlot, Packet
  <2>2. res'[gbl.side] = [res[gbl.side] EXCEPT ![s] = Value(ngen, gbl.tag)]
    BY <1>22, <2>1 DEF FillSlot
  <2>3. \A r \in Fills[gbl.tag] \ todo' :
            res'[gbl.side][r] = Value(ngen, gbl.tag)
    BY <1>22, <2>1, <2>2 DEF FillSlot
  <2> QED BY <1>22, <2>3 DEF FillSlot, Value
<1>23. CASE ReplyDone
  BY <1>23 DEF ReplyDone
<1>24. CASE PostReply
  BY <1>24 DEF PostReply
<1>25. CASE ServerEoj
  BY <1>25 DEF ServerEoj
<1>26. CASE UNCHANGED vars
  BY <1>26 DEF vars
<1>27. QED
  BY <1>1, <1>2, <1>3, <1>4, <1>5, <1>6, <1>7, <1>8, <1>9, <1>10, <1>11,
     <1>12, <1>13, <1>14, <1>15, <1>16, <1>17, <1>18, <1>19, <1>20, <1>21,
     <1>22, <1>23, <1>24, <1>25, <1>26
  DEF Next, Dealer, Server, Stopped

\* The entry of a side is the last query made about it, and only a query about
\* that side writes its results area.
LEMMA CacheStep ==
    IInv /\ [Next]_vars => CacheInv'
<1> SUFFICES ASSUME IInv, [Next]_vars PROVE CacheInv'
    OBVIOUS
<1>0. /\ dpc \in DealerPC /\ spc \in ServerPC /\ query \in Query
      /\ ngen \in Nat
      /\ cache \in [Side -> [dealnum : Gen \cup {-1}, qtag : AnyTag]]
      /\ res \in [Side -> [Slot -> Values]]
      /\ Control /\ PageData /\ Filled /\ CacheInv
  BY BoundAssumption DEF IInv, TypeOK, Gen
<1>a. \A sd \in Side : cache[sd].dealnum \in Int
  BY <1>0, BoundAssumption DEF Gen
<1> USE <1>0 DEF CacheInv, CacheHonest, CacheHit, InFlight, Current, Control,
        OneToken, ServerAccess, DealerPC, ServerPC, dealerVars, pageVars,
        semVars, serverVars
<1>1. CASE NextDeal
  BY <1>1, <1>a DEF NextDeal
<1>2. CASE EvalTricks
  BY <1>2 DEF EvalTricks
<1>3. CASE AskAny
  BY <1>3 DEF AskAny, Ask
<1>4. CASE CacheChk
  BY <1>4 DEF CacheChk
<1>5. CASE WriteQuery
  BY <1>5 DEF WriteQuery
<1>6. CASE CopyDeal
  BY <1>6 DEF CopyDeal
<1>7. CASE CopyTricks
  BY <1>7 DEF CopyTricks
<1>8. CASE PostQuery
  BY <1>8 DEF PostQuery
<1>9. CASE WaitReply
  BY <1>9 DEF WaitReply
<1>10. CASE CacheUpd
  <2>1. query.side \in Side
    BY DEF Query
  <2>2. \A sd \in Side : cache'[sd] =
            IF sd = query.side THEN [dealnum |-> ngen, qtag |-> query.tag]
                               ELSE cache[sd]
    BY <1>10, <2>1 DEF CacheUpd
  <2>3. query.tag \in Tag => Current(query.side, query.tag)
    BY <1>10 DEF CacheUpd, Filled
  <2> QED BY <1>10, <2>2, <2>3 DEF CacheUpd
<1>11. CASE ReadResult
  BY <1>11 DEF ReadResult
<1>12. CASE Finish
  BY <1>12 DEF Finish
<1>13. CASE WriteKill
  BY <1>13 DEF WriteKill
<1>14. CASE PostKill
  BY <1>14 DEF PostKill
<1>15. CASE Reap
  BY <1>15 DEF Reap
<1>16. CASE WriteError
  BY <1>16 DEF WriteError
<1>17. CASE ServerStart
  BY <1>17 DEF ServerStart
<1>18. CASE ServerFails
  BY <1>18 DEF ServerFails
<1>19. CASE TakeQuery
  BY <1>19 DEF TakeQuery
<1>20. CASE TestTag
  BY <1>20 DEF TestTag
<1>21. CASE Userfunc
  BY <1>21 DEF Userfunc
<1>22. ASSUME NEW s \in Slot, FillSlot(s) PROVE CacheInv'
  <2>1. dpc = "wait" /\ gbl.side = query.side
    BY <1>22 DEF FillSlot, PageData
  <2>2. \A sd \in Side : sd # query.side => res'[sd] = res[sd]
    BY <1>22, <2>1 DEF FillSlot
  <2> QED BY <1>22, <2>1, <2>2 DEF FillSlot
<1>23. CASE ReplyDone
  BY <1>23 DEF ReplyDone
<1>24. CASE PostReply
  BY <1>24 DEF PostReply
<1>25. CASE ServerEoj
  BY <1>25 DEF ServerEoj
<1>26. CASE UNCHANGED vars
  BY <1>26 DEF vars
<1>27. QED
  BY <1>1, <1>2, <1>3, <1>4, <1>5, <1>6, <1>7, <1>8, <1>9, <1>10, <1>11,
     <1>12, <1>13, <1>14, <1>15, <1>16, <1>17, <1>18, <1>19, <1>20, <1>21,
     <1>22, <1>23, <1>24, <1>25, <1>26
  DEF Next, Dealer, Server, Stopped

\* The initial state satisfies the invariant.
LEMMA InitIInv == Init => IInv
<1> SUFFICES ASSUME Init PROVE IInv
    OBVIOUS
<1>1. TypeOK
  BY TypeInit
<1>2. Control /\ PageData /\ Filled
  BY DEF Init, Control, OneToken, ServerAccess, PageData, Filled
<1>3. CacheInv
  BY DEF Init, CacheInv, CacheHonest, CacheHit
<1> QED BY <1>1, <1>2, <1>3 DEF IInv

\* No step leaves the invariant.
LEMMA StepIInv == IInv /\ [Next]_vars => IInv'
BY TypeStep, ControlStep, PageDataStep, FilledStep, CacheStep DEF IInv

\* The invariant of the exchange.
THEOREM Inductive == SafeSpec => []IInv
BY InitIInv, StepIInv, PTL DEF SafeSpec

-----------------------------------------------------------------------------
\* Every variable keeps its type, and no semaphore ever exceeds 1.
THEOREM TypeCorrect == SafeSpec => []TypeOK
BY Inductive, PTL DEF IInv

\* The shared page is never in the hands of both processes.
THEOREM MutualExclusion == SafeSpec => []NoRace
<1>1. IInv => NoRace
  BY DEF IInv, Control, OneToken, NoRace, DealerAccess, ServerAccess
<1> QED BY <1>1, Inductive, PTL

\* No wakeup is lost or delivered twice while dealer sleeps on p_rsem.
THEOREM Handover == SafeSpec => []OneToken
BY Inductive, PTL DEF IInv, Control

\* Whatever tags are asked, and even with a server that quits or never starts,
\* a value ask_query() reads is the one its tag computed for this deal.
THEOREM Currency == SafeSpec => []ReplyCurrent
<1>1. IInv => ReplyCurrent
  BY DEF IInv, Filled, ReplyCurrent
<1> QED BY <1>1, Inductive, PTL

\* A cache entry that would be a hit tells the truth.
THEOREM CacheSound == SafeSpec => []CacheHonest
BY Inductive, PTL DEF IInv, CacheInv

\* The server computes from the deal and query dealer waits about.
THEOREM Served == SafeSpec => []ServesTheQuery
<1>1. IInv => ServesTheQuery
  BY DEF IInv, TypeOK, Control, OneToken, ServerAccess, PageData,
         ServesTheQuery, DealerPC
<1> QED BY <1>1, Inductive, PTL

\* Results change only under a query about their side.
THEOREM WritesAsked == SafeSpec => WritesOnlyWhenAsked
<1> DEFINE Asked == \A sd \in Side : res'[sd] # res[sd] =>
                        dpc = "wait" /\ query.side = sd /\ spc = "fill"
<1>1. IInv /\ [Next]_vars => [Asked]_vars
  <2> SUFFICES ASSUME IInv, Next PROVE Asked
      OBVIOUS
  <2>1. ASSUME NEW s \in Slot, FillSlot(s) PROVE Asked
    <3>1. dpc = "wait" /\ gbl.side = query.side /\ spc = "fill"
      BY <2>1 DEF IInv, FillSlot, TypeOK, Control, OneToken, ServerAccess,
                  PageData, DealerPC
    <3>2. \A sd \in Side : sd # query.side => res'[sd] = res[sd]
      BY <2>1, <3>1 DEF IInv, TypeOK, FillSlot
    <3> QED BY <3>1, <3>2
  <2>2. ASSUME ~ \E s \in Slot : FillSlot(s) PROVE res' = res
    BY <2>2 DEF Next, Dealer, Server, Stopped, NextDeal, EvalTricks, AskAny,
       Ask, CacheChk, WriteQuery, CopyDeal, CopyTricks, PostQuery, WaitReply,
       CacheUpd, ReadResult, Finish, WriteKill, PostKill, Reap, WriteError,
       ServerStart, ServerFails, TakeQuery, TestTag, Userfunc, ReplyDone,
       PostReply, ServerEoj, pageVars, vars
  <2> QED BY <2>1, <2>2
<1> QED BY <1>1, Inductive, PTL DEF SafeSpec, WritesOnlyWhenAsked

\* Whenever a write fails, and whatever has been asked before, the server that
\* is left behind has nothing posted to it and owes no reply.
THEOREM OrphanIdle == SafeSpec => []OrphanSleeps
<1>1. IInv => OrphanSleeps
  BY DEF IInv, TypeOK, Control, ServerAccess, ServerPC, OrphanSleeps
<1> QED BY <1>1, Inductive, PTL

-----------------------------------------------------------------------------
(* Tricks of a library's deals. *)

\* With a library dds_res_bin is current all along, and so is its copy in the
\* page while a query is with the server.
LibTricks ==
    /\ tricks.ok => tricks.gen = ngen
    /\ ngen > 0 => tricks.ok
    /\ dpc \in {"ask", "write", "copy", "tricks", "post", "wait"} => ngen > 0
    /\ dpc \in {"post", "wait"} => shTricks = tricks

\* No step of a run on a library disturbs it.
LEMMA LibTricksStep ==
    ASSUME LibDeals, IInv, LibTricks, [Next]_vars PROVE LibTricks'
<1> USE DEF LibTricks, dealerVars, pageVars
<1>0. ngen \in Nat
  BY BoundAssumption DEF IInv, TypeOK, Gen
<1>1. CASE NextDeal
  BY <1>0, <1>1 DEF NextDeal
<1>2. CASE EvalTricks
  BY <1>2 DEF EvalTricks
<1>3. CASE AskAny
  BY <1>3 DEF AskAny, Ask
<1>4. CASE CopyTricks
  BY <1>4 DEF CopyTricks
<1>5. CASE \/ CacheChk \/ WriteQuery \/ CopyDeal \/ PostQuery \/ WaitReply
           \/ CacheUpd \/ ReadResult \/ Finish \/ WriteKill \/ PostKill
           \/ Reap \/ WriteError
  BY <1>5 DEF CacheChk, WriteQuery, CopyDeal, PostQuery, WaitReply, CacheUpd,
     ReadResult, Finish, WriteKill, PostKill, Reap, WriteError
<1>6. CASE Server
  BY <1>6 DEF Server, ServerStart, ServerFails, TakeQuery, TestTag, Userfunc,
     FillSlot, ReplyDone, PostReply, ServerEoj
<1>7. CASE UNCHANGED vars
  BY <1>7 DEF vars
<1> QED BY <1>1, <1>2, <1>3, <1>4, <1>5, <1>6, <1>7 DEF Next, Dealer, Stopped

\* With a library the tricks the server works with are those of the deal in
\* the page (without one they need not be).
THEOREM LibraryTricks == LibDeals /\ SafeSpec => []TricksCurrent
<1> SUFFICES ASSUME LibDeals PROVE SafeSpec => []TricksCurrent
    OBVIOUS
<1>1. Init => LibTricks
  BY DEF Init, LibTricks
<1>2. IInv /\ LibTricks /\ [Next]_vars => LibTricks'
  BY LibTricksStep
<1>3. IInv /\ LibTricks => TricksCurrent
  <2> SUFFICES ASSUME IInv, LibTricks, spc \in {"prolog", "fill"} , shTricks.ok
               PROVE  shTricks.gen = deal
      BY DEF TricksCurrent
  <2>1. dpc = "wait"
    BY DEF IInv, TypeOK, DealerPC, Control, ServerAccess
  <2> QED BY <2>1 DEF IInv, PageData, LibTricks
<1> QED BY <1>1, <1>2, <1>3, Inductive, PTL DEF SafeSpec

-----------------------------------------------------------------------------
(* Refinement: UserEval implements EvalService. *)

\* The exchange starts where the service starts.
LEMMA RefineInit == Init => Service!Init
BY DEF Init, Service!Init, Asking, Unset, Value

\* Every step is a step of the service, or leaves it where it is.
LEMMA RefineStep ==
    IInv /\ [Next]_vars => [Service!Next]_(Service!svars)
<1> SUFFICES ASSUME IInv, [Next]_vars
             PROVE  [Service!Next]_(Service!svars)
    OBVIOUS
<1>0. dpc \in DealerPC /\ query \in Query /\ ngen \in Nat
  BY BoundAssumption DEF IInv, TypeOK, Gen
<1> DEFINE Req == IF dpc \in Asking THEN query ELSE NoRequest
<1> USE <1>0 DEF Asking
<1>a. query # NoRequest
  BY DEF Query, NoRequest, Side, NoMore
<1>1. CASE NextDeal
  BY <1>1 DEF NextDeal, Service!Next, Service!NewDeal
<1>2. CASE AskAny
  <2>1. PICK t \in AskTag, sd \in Side, s \in Slot :
            Ask([tag |-> t, side |-> sd, idx |-> s])
    BY <1>2 DEF AskAny
  <2>2. [tag |-> t, side |-> sd, idx |-> s] \in Request
    BY DEF Request
  <2> QED BY <2>1, <2>2 DEF Ask, Service!Next, Service!Call
<1>3. CASE ReadResult
  <2>1. answer' \in Values
    BY <1>3 DEF ReadResult, IInv, TypeOK, Query
  <2>2. query.tag \in Tag /\ query.idx \in Fills[query.tag] =>
            answer' = [gen |-> ngen, tag |-> query.tag]
    BY <1>3 DEF ReadResult, IInv, Filled, Current, Value
  <2>3. Req = query /\ Req' = NoRequest /\ ngen' = ngen
    BY <1>3 DEF ReadResult
  <2> QED BY <1>a, <2>1, <2>2, <2>3
          DEF Service!Next, Service!Return, Service!Promised
<1>4. CASE \/ EvalTricks \/ CacheChk \/ WriteQuery \/ CopyDeal \/ CopyTricks
           \/ PostQuery \/ WaitReply \/ CacheUpd \/ Finish \/ WriteKill
           \/ PostKill \/ Reap \/ WriteError
  BY <1>4 DEF EvalTricks, CacheChk, WriteQuery, CopyDeal, CopyTricks,
     PostQuery, WaitReply, CacheUpd, Finish, WriteKill, PostKill, Reap,
     WriteError, dealerVars, Service!svars
<1>5. CASE Server
  BY <1>5 DEF Server, ServerStart, ServerFails, TakeQuery, TestTag, Userfunc,
     FillSlot, ReplyDone, PostReply, ServerEoj, dealerVars, Service!svars
<1>6. CASE UNCHANGED vars
  BY <1>6 DEF vars, dealerVars, Service!svars
<1> QED BY <1>1, <1>2, <1>3, <1>4, <1>5, <1>6 DEF Next, Dealer, Stopped

\* Safety half of the refinement: to the rest of dealer a query is one atomic
\* step that returns what its metric gives the current deal.
THEOREM Implements == SafeSpec => ServiceSafe
BY RefineInit, RefineStep, Inductive, PTL
DEF SafeSpec, ServiceSafe, Service!SafeSpec
=============================================================================
