------------------------------ MODULE Library -------------------------------
(***************************************************************************)
(* Records of a library of solved deals: what zrd_write() (-Z) makes of a  *)
(* deal that met the condition, and what dealer makes of it when it reads  *)
(* that library in another run (-L).                                       *)
(*                                                                         *)
(* A record has for every card, spade ace to club deuce, its seat in two   *)
(* bits, and for every strain and seat a number of tricks in four.  One    *)
(* whose first 28 bits are zero would be taken for a header.  zrd_write()  *)
(* keeps its record from call to call.  The text of headers is left out.   *)
(***************************************************************************)
EXTENDS DealCards

CONSTANT
    TrickTables     \* bound: the double dummy results a deal may have; all 0
                    \* when none are wanted (-Z N:)

Strain == 0 .. 4                        \* clubs, .., spades, notrump

ASSUME TricksAssumption ==
    HandSize <= 15 /\ TrickTables \subseteq [Seat -> [Strain -> 0 .. HandSize]]

VARIABLES
    zrd_rec,        \* zrd_write()'s record, as it was last written
    written         \* history: what for, << >> before the first

libVars == <<zrd_rec, written>>

-----------------------------------------------------------------------------
(* Cards of the full pack, from the spade ace down to the club deuce.       *)

C_SUIT(c) == 3 - (c \div HandSize)
C_RANK(c) == HandSize - 1 - (c % HandSize)
MAKECARD(suit, rank) == (3 - suit) * HandSize + (HandSize - 1 - rank)

\* The seats that zWEST, zNORTH, zEAST and zSOUTH, trW, trN, trE and trS, name.
SeatOf(z) == (z + 3) % 4

(* Writing.                                                                 *)

zsuit(s)   == 3 - s
zrpos(r)   == HandSize - 1 - r
zstrain(s) == 4 - s

\* Deviation: the seats as dealer numbers them.
zseat_Same(p) == p

zseat(p) == (p + 1) % 4                 \* W, N, E, S

\* dl52card_to_zrd_dl(): the field of a card.
zcard(c) == HandSize * zsuit(C_SUIT(c)) + zrpos(C_RANK(c))

\* Every card's field gets the seat that holds it; others stay.
dl52_to_zrd_dl(d, zd) ==
    [k \in Slot |->
        IF \E s \in Slot : zcard(d[s]) = k
        THEN zseat((CHOOSE s \in Slot : zcard(d[s]) = k) \div HandSize)
        ELSE zd[k]]

dl52Tricks_to_zrdTricks(t) ==
    [zs \in Strain |-> [z \in Seat |-> t[SeatOf(z)][zstrain(zs)] % 16]]

(* Reading.                                                                 *)

\* zero28: the first 14 fields.
IsHeader(rec) == \A k \in 0 .. HandSize : rec.zd[k] = 0

\* The slot a card is put in: the next of the hand.
FieldSlot(zd, k) == SeatOf(zd[k]) * HandSize
                       + Cardinality({b \in Slot : b < k /\ zd[b] = zd[k]})

\* The last card put in a slot stays there.
zrd_decode_deal(zd) ==
    [s \in Slot |->
        LET put == {k \in Slot : FieldSlot(zd, k) = s}
            n   == CHOOSE k \in put : \A b \in put : b <= k
        IN  IF put = {} THEN NoCard
            ELSE MAKECARD(3 - (n \div HandSize), HandSize - 1 - (n % HandSize))]

zrdTricks_to_dl52Tricks(zt) ==
    [p \in Seat |-> [s \in Strain |-> zt[zstrain(s)][(p + 1) % 4]]]

-----------------------------------------------------------------------------
LibInit ==
    /\ Init
    /\ zrd_rec = [zd |-> [k \in Slot |-> 0],
                  zt |-> [zs \in Strain |-> [z \in Seat |-> 0]]]
    /\ written = << >>

\* The deal meets the condition, and is written after action().
WriteDeal ==
    /\ Use
    /\ \E t \in TrickTables :
          /\ zrd_rec' = [zd |-> dl52_to_zrd_dl(curdeal', zrd_rec.zd),
                         zt |-> dl52Tricks_to_zrdTricks(t)]
          /\ written' = <<Hands(curdeal'), t>>

DealOnly == Next /\ UNCHANGED libVars

LibNext == DealOnly \/ WriteDeal

LibSpec == LibInit /\ [][LibNext]_<<vars, libVars>>

-----------------------------------------------------------------------------
\* What is read back from a record is the deal it was written for, with each
\* card in its hand and the tricks it had, and no deal is taken for a header,
\* whatever the records written before have left in zrd_write()'s buffers.
ReadsBack ==
    written # << >> =>
        /\ ~IsHeader(zrd_rec)
        /\ Hands(zrd_decode_deal(zrd_rec.zd)) = written[1]
        /\ zrdTricks_to_dl52Tricks(zrd_rec.zt) = written[2]
=============================================================================
