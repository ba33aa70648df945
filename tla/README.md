# Verification of DealerV2

DealerV2 deals bridge hands at random, keeps those that meet a condition the
user wrote, and reports on them.  This directory holds TLA+ models of it, the
TLC runs that check them on small instances, and proofs that TLAPS checks for all
values of the constants.  Paths below are relative to the repository root (`src/`
is its main source directory, `UserEval/` that of the server).

## 1. The system

| Component | State | Operations | What is hard |
|---|---|---|---|
| **Evaluation server** `src/dealServer_subs.c`, `UserEval/src/UserServer.c` | one mmap page (query packet, deal, tricks, results per side, a cache entry per side), two semaphores, a forked process | start, query, cache check and update, reply, quit, reap | two processes on one page, lost or doubled wakeups, stale results, a partner that dies |
| **Caches of `evaltree()`** `src/dealdds_subs.c`, `src/dealeval_subs.c` | `dds_res_bin`, board or table mode, GIB's tricks, OPC values per side, each with the deal number it is for | `dds`, `par`, `trix`, `tricks`, `opc` nodes | nothing clears a cache when the deal changes; mode changes in the middle of a deal; an external program that fails |
| **Main loop and library** `src/dealerv2.c`, `src/dealzrd_subs.c`, `src/dealinit_subs.c` | counters, limits, file position, number of rewinds | deal, test, act, write, report; read a record, skip headers, rewind | limits that meet, wrap round, headers, ends of files, what is reported |
| **Options** `src/mainsubs.c`, `src/dealinit_subs.c`, `src/dealflex.l` | option record, globals, deal mode | read switches, read statements, merge, choose a way of dealing, set limits | two sources of every value, merged in several places; modes that exclude each other |
| **Cards** `src/dealcard_subs.c`, `src/dealdeck_subs.c` | `curdeal`, `small_pack`, `stacked_pack`, `swapindex` | shuffle, predeal and merge, swap | state kept between deals, sorted in place by actions |
| **Bias dealing** `src/deal_bias_subs.c` | `bias_pack`, `small_pack`, suits left, excess of each hand | draw, fill the tightest hand, move cards passed over, give up | cards moved inside a pack that is being dealt from; counts kept up to date |
| **Library records** `src/dealzrd_subs.c` | one record, kept from call to call | pack and unpack cards and tricks, tell headers | bit positions; what an earlier record leaves behind |
| **Actions, statistics** `src/dealaction_subs.c`, `src/deal_bktfreq_subs.c` | totals, frequency tables, saved deals | print, average, frequency, evalcontract, csvrpt, export | update, layout and names of a table are computed in different places; board numbers counted three times |
| **Hand analysis, decision tree** `src/dealeval_subs.c`, `src/dealyacc.y`, `src/dealtree_subs.c`, `src/deal_scorelib.c` | shape masks, point tables, statistics of a hand | shape statements, `analyze()`, `evaltree()`, `score()`, `imps()` | width of a mask, order of cards, corners of the rules |
| **Metrics** `UserEval/src/*_calc.c` and others | 128 result slots, kept from query to query | about twenty point counts, alone and in sets | long tables, two implementations of one thing, slots of another tag |
| Parser and lexer, external programs, debugging, conversions | parse tree | - | - |

How they interact: `main()` resolves options, then calls `deal_cards()` (cards,
bias or library) in a loop, then `analyze()` and `interesting()`, which evaluates
the condition tree; a `usereval` node asks the server, a `dds`, `par`, `trix`,
`tricks` or `opc` node a cache; a deal that passes goes through `action()`, which
may sort it, to the library being written, and is counted.  `ngen`, the number of
the deal, is what every cache compares with.

What makes each right is the list of properties in section 3; `PROJECT.json`
lists the hazards they guard against, each at its line.

## 2. The modules

The exchange with the server:

* **UserEval**, with the properties in **UserEvalProps**: dealer and server as
  two processes.  `dpc` and `spc` say where each is.  Dealer: `NextDeal` (the
  main loop), `EvalTricks` (a `dds` node), `AskAny` and `CacheChk`
  (`ask_query()`), `WriteQuery`, `CopyDeal`, `CopyTricks`, `PostQuery`,
  `WaitReply` (`true_ask_query()`, one action per area of the page), `CacheUpd`,
  `ReadResult`, and at the end `Finish`, `WriteKill`, `PostKill`, `Reap`
  (`cleanup_userserver()`), or `WriteError`, after which dealer is gone
  (`dpc = "aborted"`) and its server, if it has one, is an orphan.  Server: `ServerStart` or
  `ServerFails`, `TakeQuery`, `TestTag`, `Userfunc`, `FillSlot`, `ReplyDone`,
  `PostReply`, `ServerEoj`.  Every access to an area of the page is a step of its
  own, so a missing hand-over would show.  A value is abstracted to the deal and
  tag it was computed for; the cache key needs neither hand nor suit, for the
  server always computes both hands of a side.
* **EvalService**: what the rest of dealer may think `usereval` is: a call that
  returns what the metric gives the current deal.  `UserEval` implements it
  (`ServiceSpec`; `request` is the query from `ask_query()`'s first step to its last).

What the server computes, each module extending the one before:

* **HandStats**: `analyze()` of the server, short honors, other honor scales,
  roundings, misfits, and `analyze_side()`, which chooses trump suit and declarer.
* **Metrics**: the metrics that count honors, length and shortness (Bergen, Bissell,
  Kleinman, Goren, Kaplan, Karpin, Larsson, Pavlicek, Sheinwold, Roth, Zar).
* **FourCs**: `eval_cccc()` of dealer and the server's `KnR_pts_all()`, two versions of
  one metric, and what the server builds on its own.
* **AltHCP**: tags 20 to 27, other scales of honor points.
* **EvalServer**: `userfunc()`: the tag, the metric or the set of metrics, and the
  slots of the result area.  Actions `NewDeal` and `userfunc(t)`.  Floats are
  integers in hundredths; the code's are multiples of a quarter.

Within dealer:

* **EvalCaches**: the three caches, one action per kind of node.  A result is
  abstracted to the deal it is of, 0 for none.  Each of the programs asked may fail
  (`faults`, chosen at the start), and the code goes on each time: a table that was
  not calculated is filled with what was lying in `Res_20` and marked as current
  (`TableFailed`), the par scores with what was lying in `sidesRes`
  (`DdsParCalcs`), GIB's tricks with an uninitialised character (`TrueDD`), and DOP
  leaves its result structure as it was (`GetOpcValsFails`).  A failing
  `SolveBoard()` ends the run by an assertion, so it is no step.  `failed`,
  `dopFailed` and `solved` are history: the deal each cache's last call failed for,
  and how many results the solver gave for this deal.
* **DealLoop**: `main()`'s loop and the library file.  `Init` is what
  `finalize_options()` and `init_runtime()` make of the seed and limits asked for; a
  record is its number and whether it is a header.
* **Options**: `get_options()`, one action per group of switches (`Opt...`), the
  statements the scanner and the parser carry out themselves (`Statement`),
  `finalize_options()` with `setDealMode()` (`Final...`, `RunMode`, `Discard`,
  `EnforceLibrary`, `CleanUp`) and `init_runtime()`.  It instantiates `DealLoop` to
  say what its outcome has to be.  A file is a name that can be opened or not.
* **DealCards**: `deal_cards()` for plain, predealt and swapped deals, down to the
  steps of `Shuffle()`; `Use` is the sorting an action may do.
* **Library**, which extends `DealCards`: `zrd_write()` (`WriteDeal`) packs a deal and
  its tricks, `zrd_decode_deal()` unpacks them (with the operators before it);
  `IsHeader` is the test the reader makes first.
* **BiasDeal**: `make_bias_deal()`: `ChooseSuit` and `ShuffleRest`, then per hand
  `PickHand`, `PlaceCard` (with `exg_cards()`), `HandFilled` or `GiveUp`, then
  `FillUnbiased`.  `bias_suits` is as the parser lets it through.
* **Scoring**: `score()` and `imps()` with their tables, and Law 77 stated once.
* **Analysis**: what the tree of an expression reads: shape statements
  (`insertshape`, `setshapebit`), point tables, `analyze()` in one suit card by card.
  A mask is the set of its bits, and `ToShort` is what becomes of it in a `short`.
  `insertshape()` calls itself once for each x of a shape, at most four deep, so
  its calls are four rounds of `fillx`.
* **Nodes**, which extends `Analysis` and `Scoring`: `evaltree()` but for the nodes
  other modules hold.  `Evaluate` builds a tree and evaluates it.
* **Actions**: `action()` and `cleanup_action()`, one operator per type of action
  and phase (`Average` and `ShowAverage`, ...).  A deal is a model value; `Val` and
  `Trix` say what expressions and contracts are worth on it.  `startboard 0` is
  allowed (`boardoffset` -1), but not together with a `printpbn` that has to look up
  place -1 of its arrays (`BoardAssumption`).

`MC*` modules give the constants values; `*_proofs` modules hold the proofs.
A definition whose name ends in `_Something`, under a comment "Deviation", is a
plausible mistake: it replaces the definition after it, whose name it bears, to show
that a property would notice (`PROJECT.json`, "mutants").

## 3. What TLC checks

| Run | Instance | Shows |
|---|---|---|
| `exchange` | 2 slots, 2 tags sharing one of them, 2 sides, 2 deals, 2 questions a deal | `NoRace`, `OneToken` (neither a lost nor a doubled wakeup), `ReplyCurrent`, `CacheHonest`, `ServesTheQuery`, `WritesOnlyWhenAsked`, `Termination`, and that `EvalService` is implemented, so that every query returns (`ServiceSpec`) |
| `exchange_faults` | the same with library deals, a server that fails to start, tags 81 and -1, failing writes | `TricksCurrent` (tricks handed over are the deal's), `OrphanSleeps` (a server a failed write leaves behind has nothing to do and is not in the page), `EndsOrSleeps` (both end, or dealer sleeps for a server that has gone, or such an orphan is left: nothing else, and for good) |
| `exchange_tricks` | as `exchange` | a violation: `TricksCurrent` fails without a library |
| `caches` | 2 hands, 2 strains, 2 deals; board, table and library mode; the dds library, GIB or DOP failing, one of them in a run and as often as it likes, or none | `AnswerCurrent`, `TableWhole` (both but for a deal whose last call failed), `SolvedOnce` (the solver is not called twice for one result) |
| `loop` | all libraries of at most 4 records, one of 105 with headers; seeds before, in and past the file; limits 0, 1, 2, 3, 5 | `TypeOK` (bounds of every counter), `DealtWhatWasPassed`, `EndsForAReason`, `ReportedNearly`, `Terminates` |
| `cards` | hands of 2 cards, 4 predealt, 2 shuffles; any deal written to a library | `EveryCardOnce`, `EveryArrangementOnce`, `ReadsBack` |
| `bias` | 3 hands of 2 cards, every bias of one or two lengths and six more | `EveryCardOnce`, `BiasMet`, `GivesUpOnlyShort` |
| `actions` | runs of up to 5 deals of 4 kinds, stopped anywhere; 18 actions | `StatsOfTheDeals`, `ContractAccounted`, `BoardsAgree` |
| `options` | command lines of up to 3 switches, input files of up to 2 statements | `StartsTheLoop`, `Precedence`, `OneDealMode` |
| `nodes` | 2 shape statements, a suit of up to 8 cards in every order, every contract and result | `ShapeMeans`, `LosersByHolding`, `ScoreByTheLaws` |
| `shapes` | as `nodes`, after 15 other shape statements | a violation: `ShapeMeans` fails |
| `metrics` | 18 pairs of hands and the same with seats exchanged, every tag in any order | `BestFitChosen`, `SeatsExchangeable`, `SetsAgree`, `KnRAsCCCC`, `FitSlotsCurrent` |

Why the bounds are enough.

* `exchange`, `caches`: two deals and two questions are the least in which a cached
  value can outlive its deal or its tag; two tags that share a slot the least in
  which one overwrites another's.  Two hands and strains keep an entry that the test
  for a whole table looks at and one it does not.  One program failing in a run is enough:
  the three caches share nothing but `ngen`, and the proofs allow any of them together.
* `loop`: four records suffice for a file with a header first, last and between,
  started in the middle; 105 records for a short last block.
* `cards`: two cards are the least hand that can be sorted, or partly predealt;
  `Draws` bounds what the random numbers may be, so that swapped groups start from
  several deals; of the two tables of tricks one is empty and the other differs in
  every entry that can.  The proofs have hands of any size.
* `bias`: with hands of two cards and `ExgGap` 2 both branches of `exg_cards()` are
  taken.
* `actions`: values lie below, on, between and above the bounds of every table; five
  deals make a second group of four in `print`; board numbers cross 16; contracts
  are below game, at game, doubled and redoubled, for either side.
* `options`: three switches are the least for one given twice and one between; limits
  above and below the size of the library and each other.
* `nodes`: two statements of up to three elements, with `any`, minus signs and x's,
  of either order; lengths are all of four suits' 560.
* `metrics`: fits of none, 5-2, eight, nine and ten cards, two of the same length,
  misfits, hands without points, solid suits, short honors.  No metric keeps
  anything between queries but the result slots, so a new pair of hands adds data
  and no new order of events.

Fairness.  In `UserEval` each process is weakly fair: both are scheduled by the
operating system and neither spins; waiting for a semaphore is not being enabled.
In `DealLoop` there is one process, which never waits.  No fairness between
choices is assumed: a condition that no deal meets and a bias that never works out
are behaviours of the model, and `Terminates` holds of them.

Where the system may stop (a server that has gone, an assertion that failed, a
program that has printed its report or refused its options, the bound on deals
reached in `DealCards`) the configuration turns the test for deadlock off; elsewhere
it is on.

### Where the code and its comments part

With a run that shows it:

* `exchange_tricks`: without a library the tricks handed to the server may be
  those of an earlier deal, flagged OK (`dealServer_subs.c:452`).
* `shapes`: `hs_bits` is a `short`, so that of 32 shape statements the sixteenth is
  also a sign: later ones never match, or match what the sixteenth does
  (`include/dealtypes.h:192`).

Met while modelling; the models follow the code, and `PROJECT.json` ("findings")
quotes both sides:

* server and page: `usereval(81, ...)` ends the server, whose last post lets dealer read
  an area nothing has updated (`UserServer.c:394`);
* caches: when `CalcDDtable()` fails `true_CalcTable()` prints so and goes on: an
  uninitialised table becomes the current one, under a comment that says
  "successful DDS call" (`dealdds_subs.c:247`); in the same way what GIB does not print
  is read and cached as tricks (`dealeval_subs.c:583`).  `AnswerCurrent` and `TableWhole`
  except these deals, and show that the next deal is free of them;
* main loop: "Generated" is one too many when the last deal wanted is the last but
  one that may be tried (`dealerv2.c:245`; `ReportedNearly` says exactly when);
* library: a title read from a header may keep the tail of a longer one
  (`dealzrd_subs.c:292`); records written with `-Z N:` read back as solved, with no
  tricks for anybody (`:359`); the full library's largest seed comes out as 10484
  where a comment allows 10485 (`:544`);
* bias: a hand asked for card by card makes an assertion look at the next hand
  (`deal_bias_subs.c:310`);
* options: the opener of the input file is overwritten by a default
  (`dealinit_subs.c:329`); `vulnerable both` gives none (`dealflex.l:155`); an error of
  one switch is forgotten at the next, and may end in a NULL file
  (`mainsubs.c:232`); the tiny library is never tried (`:190`); two comments that
  do not hold (`dealinit_subs.c:413`, `mainsubs.c:113`); hands predealt on the
  command line alone are not dealt (`dealinit_subs.c:494`, comment at 539);
* actions: the slam percentage of a contract of six or seven comes from an
  uninitialised variable (`dealaction_subs.c:711`);
* scoring: a minus sign in the IMP table (`deal_scorelib.c:18`);
* metrics: Larsson's nines of the first hand count for the second
  (`Larsson_calc.c:66`); Goren never deducts for aces (`Goren_Pav_calc.c:95`);
  Pavlicek's rule 4 takes off more than it says (`:429`) and a dummy may have -1
  (`:292`); Kaplan and Rubens' 5-2 fit is never reached (`KnR_calc.c:277`) and the
  doubleton discounted differs from dealer's (`deal_knr.c:28`); Zar takes the
  declarer's shortest suit for the dummy's (`Zar_calc.c:294`); the mixed metrics add
  the wrong Zar points (`Mixed_calc.c:66`) and leave trump and fit at 0
  (`Mixed_calc.c:152`); some ties for the longest suit are not ranked
  (`Analyze_side.c:124`), harmlessly, as `BestFitChosen` shows; two of Roth's masks are
  never reached (`Roth_calc.c:237`).

## 4. What is proved

For every value of the constants that meets the named assumptions.

* **UserEval_proofs**.  `TypeOK` alone is not inductive, as nothing bounds the
  semaphores.  `IInv` adds `Control` (for each place of dealer, which places of
  the server and which semaphore values go with it), `PageData` (what the page
  holds while a query is under way), `Filled` (slots no longer on the server's
  list hold this query's values) and `CacheInv`.  From it: `TypeCorrect`,
  `MutualExclusion`, `Handover`, `Currency`, `CacheSound`, `Served`, `WritesAsked`
  (an action property), `OrphanIdle` (whatever is being done when a write fails, the
  server is waiting, starting or gone, and nobody will post to it: this is where `Control` is needed,
  which says that dealer only writes while the server sleeps), and `Implements`: the
  exchange refines `EvalService`'s safety part, each step a step or a stutter.
  They hold with any tags, slots, number of deals, library or not, and with faults.
  `LibraryTricks` is `TricksCurrent` when every deal comes from a library: `LibTricks`
  adds that each deal then brings its own tricks.
* **Evaluation_proofs**, about `EvalCaches` and `Analysis`, which share no state.
  Caches: `IInv` says for each that what claims to be of this deal is, and that in
  table mode it is all there, or that the last call behind it failed for this very
  deal; and that in board mode `solved` counts the results known of this deal
  (`SolvedSound`).  From it `Fresh`, `Whole`, `Once`, `TypeCorrect`, with any of the
  programs failing, any number of times, and whatever they leave behind.
  Losers, for any ranks dealt in any order: `TopsInv` says that `topcards` holds the
  weights of the highest three cards so far, in order, with the void's weight in the
  places left over (`TopsKept`, by the place a new card is sorted in).  `LosersOfTheHolding`
  then goes through the holdings: their weights add up to one of the fifty sums
  `countltc()` knows, and to the right one (`LtcSums`, `WeightsTell`).
  Shapes, for any lists: `ShapesInv` says of every statement so far that its bit marks
  the distributions its list means, and that no bit of a statement to come is set, so
  that a statement starts from a clean bit and leaves the others alone.  It rests on
  `FourMatches` (filling in the leftmost x four times finds the lengths that match a
  shape, no more and no less), on `InsertCovers` (the orders `insertshape()` tries are
  the inverses of those `Covers` speaks of) and on an induction over the list
  (`BitsMarked`).  `ShapesMeanWhatTheySay` is stated for up to sixteen statements, which
  is as far as it is true: run `shapes` shows it violated by the seventeenth.
* **DealLoop_proofs**.  `IInv` relates `ngen`, `generated` and the limits at every
  place of the loop.  From it `TypeCorrect` (with `StartInside`: a seed never starts
  a library past its end), `Reason` and `Reported`.  `DealtAsPassed` rests on `Passed`:
  the deals made are as many as the deal records passed in this reading (`Before`);
  lemmas on intervals (`NextRecord`, `Parts`, `WholeFile`) count them.
* **DealCards_proofs**.  That no card is lost is inductive only as "`curdeal`, while
  it is whole, is onto the pack" (`PackOnto`, a pigeonhole argument for the
  exchanges of `Shuffle()`), with what `swapindex` and the small pack hold between
  deals (`SwapOK`, `CurdealOK`).  Sorting and merging are defined by ranks, so
  lemmas (`Ranks`, `RankGrows`, `SortedWhole`, `LeftRest`, `MergeWhole`) first show
  that ranks number a finite set without gaps.  From it `TypeCorrect` and
  `EveryCard`.  `EveryArrangement` needs a second invariant, `GroupOK`: the deals
  seen since the last shuffle are its arrangements up to `swapindex`, and two
  arrangements differ as no hand is empty (`HandsDiffer`).
  `RoundTrip`, about `Library`: that a record reads back is shown by proving that
  the decoded deal is the sorted one (`DecodedSorted`), since the record lists
  cards in their order and decoding puts them one after the other; `NoHeader` needs
  that no hand can hold the first `HandSize + 1` cards, as a header's zeros would say.
  `LibEveryCard` carries `EveryCard` over.
* **BiasDeal_proofs**.  `IInv` says in which slots of a hand each suit it asked for
  lies (`SuitsPlaced`; the places of two suits do not overlap, by lemmas on sums:
  `SumGrows`, `SumLocate`), how far each hand is filled (`HandsFilled`), what is left in
  each place a suit is drawn from (`SuitsDrawn`), that every card is in one of two packs
  (`OnePlace`), that `bias_suit_left` counts what is left, and what `bias_hand_xs`
  marks: as many hands are marked filled as have had their turn, so that the one picked
  is still to be filled (`OneToFill`, `RightHand`), and its excess is what it can draw
  from less the slots it has empty (`TurnOf`), so that it is negative when nothing fits.
  `Shuffled`, `Compressed`, `CycledKeeps` (`exg_cards()`) and `Moved` say what each kind
  of step does to a pack.  From it `EveryCard`, `LengthsMet`, `ShortOnly`, `TypeCorrect`,
  and `AbortsOnly`: the assertion of `fill_bias_hands()` fails for no hand but one asked
  for card by card.  `SizeAssumption` has a pack of at most 99 cards: with more, `NO_XS`
  would be an excess a hand can have.
* **Options_proofs**.  `Inv` says at each place of the start what the options read so
  far leave in the record and the globals.  From it `LoopStarted` (the main loop starts
  in an initial state of `DealLoop`, with the limits asked for), `CommandLineFirst`
  and `OneMode`, for command lines and input files of any length.
* **Actions_proofs**.  The totals, tables and averages are sums over the deals produced;
  `StatInv` says so for each action, by `Figures` (what one deal adds).  `Statistics`
  rests on lemmas about buckets, where three functions of the code have to agree:
  the one that updates, the one that sizes and the one that names (`BktIsPos`,
  `OneWayCorrect`, `TwoWayCorrect`).  `Contracts` rests on `ScoreIsLaw`: `calc_score()` is
  Law 77 for every contract, vulnerability, doubling and number of tricks; so is
  `score()` of the lexer's encoding (`CodedContracts`).  `ImpsOfADifference` says of any
  integer what `ScoreByTheLaws` says of the differences that occur in the run: `imps()`
  changes sign with it and never falls as it grows.
  `BoardInv` says which deals have been shown and saved; from it `OneNumber`.  Any
  list of actions is allowed whose tables have their bounds in order
  (`ListAssumption`): nothing in the parser sees to that.

* **EvalServer_proofs**.  For every pair of hands of thirteen cards
  (`DealsAssumption`).  `BestFits`: `SortedSuits` says that sorting and ranking
  (`DidxSort`, `RankSorted`) leave the four suits ordered by length and then rank, but
  for two suits that alone are the longest, which stay as they were
  (`Ranked`; the comment at `Analyze_side.c:99` says that all ties are ranked).  That is
  enough: `BestFitRight` shows that the choice between the first two, or among the
  first three for a fit of seven, is the best of all four: when three are as long they
  are ranked, and the third is a minor behind a major.  `FitSlots` is inductive as it
  stands.  `KnRLikeCCCC` rests on `Answered` (the area holds the answer of this deal to the
  last tag) and on `KnRPoints`: the deduction the two differ by is never what makes a
  hand's points negative, because a doubleton beside a shorter suit brings three hundred.
  `SetsAsMetrics` rests on `Answered` too, and on a lemma for each metric: its numbers are
  none of them below zero (`Found`), so that copying them, as the sets do, is the same as
  clamping them, as `SaveUserVals()` does.  For most metrics that is because what a table
  takes off a short suit is at most what its honors count (`LookupIs`, `ShortHonors`,
  `AdjTables`) and no rounding takes off more (`Rounding`); Bissell's hundred for a flat
  hand is covered by its suit of four cards; Zar's shortest suit is no longer than its
  second.  Pavlicek's may go below zero and is clamped on both sides of the comparison.
  `SeatsTraded` rests on `SidesTrade`: of a side whose hands have traded seats
  `analyze_side()` finds the same trump suit, and the rest hand for hand, provided that
  points tell the hands apart when their trumps do not (`SetDeclarer`).  A lemma for
  each metric follows a hand and its partner through it (`Partners`, `FitTrades`,
  `MisfitTrades`); Pavlicek's needs the points to differ once more (`NTDummyPAV`).

Sums are recursive functions, or lists of partial sums, never recursive operators.
Induction over them is done with sets: `Induction` follows from there being a least
natural number (`LeastExists`), which the library states without an operator as
parameter (`WFMin`).

Only model-checked: all liveness (`Termination`, `EndsOrSleeps`, `Terminates`, and
that queries return), which the prover cannot do; and `ScoreByTheLaws`, which is about
`evaltree()`, a recursive operator, of which the prover cannot speak.  The run of
`nodes` evaluates every contract, vulnerability and number of tricks there is, and what
the tree does with them, `score()` and `imps()`, is proved as said above.

## 5. Not modelled

* The parser and the lexer beyond the statements that change state as they are read
  (those are in `Options` and `Nodes`): Flex and Bison input that builds trees.
* The text of library headers (titles, dates); headers are there as records to be
  told from deals.  For this the component is listed as partly modelled.
* What the DDS library, GIB and DOP compute: they are not here as source.  That they
  fail is modelled; a GIB that never returns is not.
* The nodes `pt0` to `pt9` of `evaltree()`: they read other counts of the same hand,
  filled from tables in the way of those that `hcp` reads, which `Analysis` has.
* `printpbn` of a board 0, which reads outside its arrays (`dealflex.l:339`).
* The wording and layout of reports; debugging output; stand-alone conversion tools.
* Values a metric keeps for debugging only, beyond its results.
* A semaphore left over from a killed run of the same process number: listed as a
  hazard without a property, since the models start from fresh semaphores.

## 6. Plan

Done, in this order: `UserEval` and `EvalService`, `EvalCaches`, `DealLoop`,
`DealCards`, `BiasDeal`, `Scoring`, with the first proofs; then `Actions`, `Options`
composed with `DealLoop`, `Nodes`, the metrics up to `EvalServer`, failures of the dds
library, GIB and DOP,
`Library`, and the proofs about `DealCards` and `Library`; then those about `Options`,
`Actions` and `BiasDeal`, whose lengths became sums over recursive functions for it,
about `EvalServer`, and about `Analysis`, split from `Nodes` for it.

Left:

1. Proofs: `evaltree()` over trees kept as lists of nodes, leaves first, so that it is
   a recursive function, and `ScoreByTheLaws` by it.
2. Left-over semaphores as a fault of `UserEval`.
3. Headers of libraries in `Library`: titles and what is skipped.
