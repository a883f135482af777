# A verification of matilda in TLA+

Matilda (`src/`) is a program that plays Go: a multi-threaded Monte Carlo tree
search (UCT with RAVE) over a table of transpositions, behind the Go Text
Protocol (GTP). These modules model its core logic as it is in the C code, check
the models with TLC on small instances, and prove what matters most for every
instance with TLAPS.

`PROJECT.json` lists the components, the runs, the lines of code each definition
stands for, the mutants each property is measured by, the hazards of the code,
the findings and the theorems. Paths below are relative to `src/src/`.

## The system

| Part | Files | State | Operations |
|---|---|---|---|
| Transpositions table | `transpositions.c` | two hash tables of states (one per player to move), list of released states, counters, 8-bit mark; per state: lock, mark, plays with `next_stats` | `tt_lookup_create`, `tt_lookup_null`, `tt_clean_all`, `tt_clean_unreachable` |
| Tree search | `mcts/uct.c`, `mcts/uct_priors.c`, `mcts/amaf_rave.c` | statistics in the states, path of each simulation, flags `search_stop`, `ran_out_of_memory`, `mcts_can_resume` | `mcts_start_timed`, `mcts_start_sims`, `mcts_resume` |
| Engine | `engine.c` | `tt_requires_maintenance`, data folder | evaluation by opening book then search, maintenance between turns and matches |
| Time control | `time_ctrl.c` | one clock per player | set, allot, charge, reset |
| Slow board, rules | `state_changes.c`, `board_io.c`, `board.c` | stones, last play, last stone eaten | play, pass, test of legality |
| Game record | `game_record.c` | handicap stones, plays, result, one cached state | play, undo, superko, handicap |
| GTP | `main/gtp.c` | current game and clocks | about fifty commands |
| SGF | `sgf.c` | none | import, export |
| Fast board | `cfg_board.c`, `cfg_helper.c` | groups, liberties, neighbours, pattern hashes, incrementally | play with captures, clone |
| Playouts | `mcts/playout.c`, `random_play.c` | for each player and point, whether a play is legal and safe | a game played to its end |
| Tactics | `tactical.c`, `dragon.c` | none; the eyes and links of groups while an estimate is made | shapes of eyes, ladders, eyes of dragons |
| Match referee | `twogtp/main.c` | turns and results of a match, pipes to three programs | games between two programs over GTP |
| Patterns | `pat3.c`, `pat_weights/` | learnt weights | hash by symmetry, weights |
| Opening book | `opening_book.c`, `ob_gen/`, `ob_learn/` | hash table of positions | rules by symmetry |
| Support | `alloc.c`, `hash_table.c`, `scoring.c`, `zobrist.c`, `move.c`, `constants.c`, `pts_file.c`, `file_io.c`, `flog.c`, `stringm.c`, `timem.c`, `randg.c`, ... | | |
| Tools | `utest/`, `zobrist/main.c`, `main/text.c` | | tests, text mode |

How they interact. The main thread runs the GTP loop: it replays the record into
a board (cached), thinks in the opponent's turn if told to (`mcts_resume`), cleans
the table of states out of reach of the position, reads a command and handles it.
A play is generated by the engine: the opening book, or a search, in which all
OpenMP threads run simulations over the one table, each following and writing
`next_stats` pointers, under the lock of one state at a time. The time of a
search comes from the clock, and is charged to it. A state met for the second time is
expanded by its priors, which call the estimate of eyes and the readings of tactics on
the thread's own board, change that board's counts in passing, and decide which plays
the state ever has. Everything is called directly; what is shared by threads is the
table with its states and the flags. The referee is another program, which talks to
two engines and a scorer over pipes.

What is hard here:

* **threads**: lookups that find, create and lock states; pointers read with no
  lock; virtual losses of one thread between the updates of another; the flag
  that stops the loop, seen by each thread at its next iteration;
* **memory at its limit**, and memory released between turns while pointers
  into it remain;
* **order**: turns counted by parity, plays out of order, undos, an import
  between them, against one cached state and the replays of the superko rule;
* **what is found once and trusted for ever**: the plays of a state, denied or offered by
  shapes, by readings to a depth and by the place of groups in memory;
* **programs that wait for each other**: answers read over pipes until they are whole,
  boards of three programs that must stay the same;
* **numbers**: unsigned counts decremented at 0, a mark that wraps, times that
  must fit what a clock has.

Nothing is persisted, and no message is lost: there is no crash recovery to model. A
program that exits is the one failure, and `Referee` has it.

## The modules

    Transpositions   the table and its pool, under its most general client
    Uct              EXTENDS Transpositions: the search, and the turns around it
      UctProofs      first of the table alone, then of the search over it
    TimeCtrl         the clocks and the commands that set and charge them
      TimeCtrlProofs
    GoBoard          the rules: operators on boards over any graph of points
    GameRecord       EXTENDS GoBoard: the record under the GTP commands
      FoldLemmas     lemmas on natural numbers, finite sets and folds
      GameRecordProofs  lemmas on chains, captures and kos, then the record
    CfgBoard         the fast board: operators, beside those of GoBoard
      CfgBoardProofs with FoldLemmas: lemmas on the fast board
    Playout          EXTENDS CfgBoard: a simulation, down the tree and to its end
      PlayoutProofs  with CfgBoardProofs
    Tactical         EXTENDS CfgBoard: shapes, and what is asked of a reading
    Reading          EXTENDS Tactical: the reading of attack and defence, recursive
    Dragons          EXTENDS Tactical: the estimate of the eyes of each group
    Expansion        EXTENDS Dragons: the plays of a state of the tree, and their priors
      ExpansionProofs  with CfgBoardProofs, for any reading
    Referee          a match between two programs
      RefereeProofs
    MCUct, MCTimeCtrl, MCGameRecord, MCPlayout, MCExpansion: their instances

**Transpositions.** One action for each stretch of `tt_lookup_null` or
`tt_lookup_create` between two locks: `LookupHit` and `LookupMiss` take the
table's lock and search, `create_state` takes a state from the pool or allocates
it, `Insert` adds it and `LockFound` waits for the lock of a state found, both
with the table still locked; the table is unlocked when the state is locked.
`LookupNULL` is the answer at the limit. The clients' side (`SetLock`, `SetNext`,
`Release` in `UnsetLock` and `ExpandAndUnset`) is any client's: any thread may
link any states of the tables so long as it keeps the rules written as guards.
`tt_clean_unreachable` marks from the position (`Marked`, the recursion as a
least fixed point) and releases what has another mark. A key stands for what
`find_state` compares; bucket chains are left out.

**Uct.** The whole of `mcts_selection` as the steps of one thread between locks:
`BeginLookup` .. `Arrive` (with the table's own steps) or `LockNext`;
`EndBySuperko`, `Expansion` or `Select` under the lock of the state; `ReadNext`,
which reads `next_stats` with no lock; and `Backup`, one play updated under its
state's lock, from the leaf up. The main thread's steps are the searches
(`Evaluate`, `ExpandRoot`, `OpenLoop`, `EndSearch`, `Resume`) and the maintenance
between them (`TurnMaintenance`, `NewMatch`). A game is a given graph of
positions (`Succ`); which of a state's plays is selected, and the result of a
playout, are any. A quality, a `double` in the code, is an exact fraction in lowest
terms (`Fraction`). `simulated` is a history variable: the
simulations that went through each play, counted when they end (not kept by a search
of any length, `Endless`).

**TimeCtrl.** The fields of a clock are unsigned (`UintMod`) and wrap. One round
of the loop of `advance_clock` is one step (`Round`); between `gtp_genmove`,
which starts it, and its end no command is handled. The commands that set clocks
are `gtp_time_settings`, `gtp_kgs_time_settings`, `gtp_time_left_seconds` (which
is also `gtp_time_left_millis`, with times in its set) and `gtp_clear_board`;
`FlagSystems` are the systems of `--time`.

**GoBoard.** No variables: `just_play_slow2`, `can_play_slow`, `test_ko`, `pass`
on a board as a record of `p`, `last_played`, `last_eaten`. Neighbours are a given
graph, so that what holds of it holds of all board sizes.

**GameRecord.** The record under every GTP command that changes it. The code
keeps no boards and replays the plays; the variable `states` is that replay,
`current_game_bak` the one board it caches. Every round of the GTP loop first
fills the cache (`current_game_state`), so commands (`Command`) are handled with
it filled. `flog_crit`, on which the program exits, sets `exited`, and no action
follows. An imported game is one of `Games`, legal ones; `LoadFails` stands for
every failure of an import, whose one effect on the record is that it drops the
cache (it clears a record of its own).

**CfgBoard.** The record `cb` has the fields of `cfg_board`: stones, last play and
last stone eaten, the free points, the counts of stones around each point
(`neighbors4`, `neighbors8`), the pattern of each 3x3 neighbourhood (`hash`, two bits
for each point in it), and the groups. `g` maps a point to its group, named by its
first stone, and `group` a group to its stones, liberties, lowest liberty, neighbours
and index in `unique_groups`. Each function of `cfg_board.c` that changes the board is
an operator that patches these fields as the function does, in its order; nothing is
computed from the stones. A loop whose rounds do not see each other's changes is the map
it amounts to (`HandOverNeighbors`, `add_liberties_to_neighbors`); those whose rounds do,
over the neighbours of a stone and over the points of a board copied, are folds. `Play` is the body that `just_play`, `just_play2` and
`just_play3` repeat, with what they keep besides (a Zobrist hash, the difference of
stones, the stones removed and the liberties of their neighbours).
`cfg_board_kill_group` likewise stands for its three copies, and `ProbableLibs` for
what `safe_to_play` and `safe_to_play2` repeat.

**Playout.** One simulation on one thread's board. `TreePlay` and `TreePass` are the
plays of `mcts_selection`, `StartPlayout` enters `playout_heavy_amaf` with all points
dirty, and `HeavyTurn` is one round of its loop: the dirty free points are looked at
again for the player to play (`Refreshed`), a play is selected by any of the stages,
which chance may skip (`Selected`), the play is made, the difference of stones tested
for mercy, and the cache of both players invalidated. The weights of plays, the
patterns learnt and all random numbers are choices. `Starts` are the states of a match.
`Examined` is the priors' use of `libs_after_play`, which leaves a trace in the groups: the
lowest liberty recorded, which each point examined can only lower.

**Tactical.** Operators on a fast board. The code writes each shape twice, once for each
colour; here the colour is a parameter, and so each operator stands for both copies.
One difference between the copies is kept (`CountedAt`). Where the code returns the first
play found in an order of memory, the operator returns the set of those it may return
(`get_saving_play`). The verdict of a reading is a parameter (`Killed2`, `Killed3`), so that
what holds whatever is read can be proved in modules that reach no recursive operator.

**Reading.** The code's recursion, with its moves and its depth (`can_be_killed2`,
`can_be_killed3`), which `MCExpansion` gives `Expansion` for those parameters.

**Dragons.** `estimate_eyes` as a fold of a record, the estimate in progress, over the
list of free points, in the order of its four passes. The list and the addresses of the
groups are parameters: the board does not determine them, and they decide the result.
`Orders` and `Addresses`, constants of `Expansion`, are those that may occur: any
permutations of the points, of which those not free are passed over, and any addresses
that differ.

**Expansion.** `Expand` is `init_new_state` with all it calls: the estimate, the groups
that can be saved or killed, the penalties and bonuses of each play, the pass, and the
trace that counting liberties leaves in the groups. `Select` makes any play offered, and
leads to a state that is not expanded. It is chained on one thread as `Uct` does it under
the lock of a state; what the two share is the board. The constants of the priors are
those of `inc/priors.h`; `Scaled` tabulates the power that the code computes in floating
point.

**Referee.** The three programs are external: they answer the command at the head of
`queue`, with any play, pass, resignation or score, or exit. `Send` is `send_command` up
to its write, and a program that has gone is a broken pipe, whose signal ends the
referee; one that goes between command and answer leaves it reading for ever (a state
with no step but `Exit`). The referee's steps between two commands are its decisions:
`FirstTurn`, `NextTurn`, `Relay`, `SecondPass`, `Resigned`, `Scored`, `Report`.

## The runs

| Run | Instance | What it shows |
|---|---|---|
| `uct_end` | the end of a game or a game with a superko cycle, 2 threads of 2 simulations, results of all kinds | `TreeOfTheGame` (links lead where plays do, players alternate, no superko is entered), `StatsExact`, `CleansUnreachable`, `UctTypeOK` |
| `uct_turns` | 3 searches with maintenance between, a limit they meet, delayed expansion, mark mod 2 | `RepliesAreOfNext`, `StatsKept`, `ImplementsTable`; of the table `UniqueStates`, `PoolAccounting`, `NoDanglingStats`, `MarksCurrent`, `LockDiscipline`, `LookupOvershoot`, `TypeOK` |
| `uct_live` | timed searches of any length, a limit they meet | `SearchEnds` |
| `time_ctrl` | fields of 4 bits, all commands and systems, plays of four lengths | `StonesNeverRunOut`, `AllottedTimeIsEnough`, `TimeConserved`, `AdvanceEnds`, `TypeOK` |
| `record` | 3x3 board, games with kos loaded, cut or whole, then 3 commands of any kind | `CacheIsCurrent`, `PlaysKeepColour`, `RecordIsLegal` (no dead stones, no repetition at once nor since the first capture), `GenmoveIsLegal` (the board searched is one a playout may start from, and the play selected there is legal in the record), `TypeOK` |
| `playout` | 3x3 board, simulations from all boards with two free points, to their end | `GroupsAreExact`, `UpdatesAreExact` (patterns, counts, hash and difference of stones), `SameAsSlowBoard`, `PlaysForetold` (legality, liberties and captures before a play is made), `CacheFresh`, `PlayoutPlays`, `TypeOK` |
| `expansion` | 18 states of 5x5 points, each expanded with 3 orders, 4 addressings and all patterns or none, and so after one play or two | `OffersComplete`, `EyesEnclose`, `VerdictOfAnyAddress`, `ReadingAgrees`, `TypeOK` |
| `referee` | matches of three games on the smallest board, colours swapped, up to the limit of turns, programs that may exit | `SameGame`, `MatchIsReported`, `TypeOK` |

The table is checked under the search, its one client; `ImplementsTable` shows that the
search keeps the rules under which the theorems hold for any client.

Why these bounds are enough. The table: two threads are needed to race for a
table, for a state and for the limit, and both colours for the two that pass it;
a limit of two is met by a search of four positions, and a mark of one bit wraps at every
cleaning. The search: the graphs have a transposition (two paths to one
position), a pass answered by a pass, and in `KoSucc` a cycle, whose states are one
play each, so that few simulations enter it again. Searches (`MaxSearches`) are
bounded, and visits (`MaxVisits`) where a search may be endless, in `uct_live` only. The clocks: with 4-bit fields and seconds of two units every product and
decrement that can wrap does, and the lengths of plays end in main time, in a
period, at its end and beyond two. The record: kos need 3x3 points and
are ten plays deep, so games that lead to them are loaded, and three commands reach
an undo, a play out of turn and a retaking of the ko in any order; the handicap
stones reach their limit in three commands too. The simulations: with few points
free every play meets groups of both colours, unites up to four of them, captures,
gives atari or takes a ko, and what follows a capture is as open as an early game;
one board of each class of symmetric ones is taken, which loses only the orders in
which neighbours are visited, and every order occurs. Black is to play:
white to play on a board is black to play on it with the colours swapped, which is
another of them. Playouts go to their end, by two passes, by depth
(the limit is the code's) or by mercy, whose threshold (3) is raised from the code's
`TOTAL_BOARD_SIZ / 5` so that captures come before it.

Expansion: eyes of two points or four, nakade and ladders need room, and 5x5 points are
the least that the program accepts. The boards of `MCExpansion` are chosen for what they
hold, one for each stage of the estimate and of the reading (an eye at a sheltered point
between two dragons, a stone chased along the edge, eyes of two and four points, a bent
three to kill, a pyramid between three groups, three groups with two joints, a ko just
taken, a race, a board where no play is left), with either player to move, and after one
or two plays from each. The free points are listed up, down after the first, or mixed, and
the groups lie in memory up or down, by their points or by the points mixed: a pair of
groups meets in both orders, and of the three that have two joints each is the head in
some. These are samples of `Orders` and `Addresses`; the theorems are about all. The 3x3
patterns, learnt weights, match nowhere or everywhere. The tests of a play at a depth of
`MaxDepth` (20) are those of the code.

The referee: three games see both colours, and each may end by passes, a resignation or
the limit of 50 turns.

Deadlock is checked except for the record, where the program exits and commands are
bounded (`MaxCommands`), for simulations and expansions, which end (`MaxPlays`), and for
the referee, which ends or is killed.

Symmetry is used on addresses of states (`Node`), which nothing compares but for
equality, and never in a run with a liveness property.

### Fairness

`uct_live`: time passes (`WF(Tick)`), the main thread goes on (`WF(MainStep)`), no
thread stops for ever (`WF(Continue(t))`), and no thread loses the race for a lock
for ever (`SF(Acquire(t))`): the steps that await a lock are enabled now and then
while other threads take and release it, and an OpenMP lock is not fair, but one
thread cannot win it for ever against another in a loop that does other work, nor
does the search end if it does. No command need be given (`Command` has no
fairness). `time_ctrl`: the loop runs on (`WF(Round)`). `referee`: the referee goes on
once it has read an answer (`WF(Step)`), and a program that is up answers in the end
(`WF(Answer(p))`), which GTP asks of it; that no program exits is not assumed but is the
other outcome that `MatchIsReported` names.

### What the code does not keep

Four runs check what a comment, a document or the protocol says and find it
violated; each is a finding in `PROJECT.json` with the lines on both sides.

| Run | The claim | The code |
|---|---|---|
| `time_no_limit` | no stones per period, or `infinite`, is no limit | the clock is charged, wraps and times out |
| `record_superko` | legal by positional superko | positions before the first capture may be restored |
| `record_result` | a play clears the result | a resignation is back with the next result |
| `expansion_eyes` | no play in an own eye is offered | a pair of points above, at the other edge, spoils the test of the eye (`dragon.c:133`) |

Other behaviours differ from what a comment or a document says; the models do
what the code does, and no run is kept for them:

* the virtual loss of the pass that ends a simulation is never corrected
  (`mcts/uct.c:213`; its head, line 11, says that losses are corrected);
* a search of a number of simulations goes on when memory has run out
  (`mcts/uct.c:477`), a timed one is interrupted (line 444);
* a byo-yomi period in which a play began is not all there for the next move;
* `timed_out` stays set when the controller says that there is time left;
* undo after a turn was skipped removes the turn that was skipped, not a move;
* `place_free_handicap` after a pass exits the program: the board is empty, so the command
  is accepted, and the stones it suggests cannot be added (`main/gtp.c:1062`; `GameRecord`
  reaches `exited = "handicap"`);
* a game is imported with no test of legality (`sgf.c:447`); the models load legal games;
* of the plays that capture, only those at the first point of the board excuse a
  self-atari (`mcts/uct_priors.c:267` reads `capturable[0]`);
* the test of a nakade of five or six points for white counts black's stones above and
  below (`tactical.c:738`);
* the second point of a pair in the last line is marked past the end of an array
  (`dragon.c:134`), in memory that the build of the makefile writes again before it
  reads it: the models leave that mark out;
* a match of drawn games only divides by zero in its report (`twogtp/main.c:308`);
* `set_free_handicap` may add stones to a board that has some.

`StatsExact` is therefore stated with the correction `ended`, and
`NoRepeatSinceCapture` from the first capture on: they say what the code does keep.

## The proofs

`UctProofs` first proves all the properties of the table that the runs check, for any
sets of threads, states, positions and plays, any limit and any width of the mark.
The inductive invariant is

    Inv == Structure /\ UniqueStates /\ PoolAccounting /\ MarksCurrent
             /\ NoDanglingStats /\ Overshoot

`Structure` says where a lookup is: who holds which lock at which point of it, what
`ret` points to, which colour a state's table has. It is needed because none of
the others is inductive alone: that `Insert` adds no second state of a key needs
that the table has been locked since it was searched; that the links of a state
just expanded do not dangle needs that expansion resets them; that the counters
agree needs that two threads never have the same new state in flight. `Overshoot`
strengthens `LookupOvershoot`: if two lookups create at once, the count was below
the limit when the second passed it. Each action has a lemma (`StructureInsert`,
`InsertKeeps`, ...), and `CleansUnreachable` is proved from the invariant and from
`MarkedReachable`: the marks followed are the least set closed under the links.

`TimeCtrlProofs` proves all the safety properties of `time_ctrl`, for any width of
the fields, any length of a second, any inputs. Its invariant adds `WithinTime`:
while a play that kept to its time is charged, what is left to charge is less than
the main time or than the period. `ShareBound` and `AllottedBound` derive it from
the formula of `calc_time_to_play`, with one assumption on its parameters: the
factor of the allotment is at most the board size (`AllotAssumption`; matilda's is
a small constant). `TimeConserved` follows from `ChargedBudget`, an equation for
each case of a round.

`UctProofs` then proves, for any threads, positions, plays, pool, limit, delay and depth, that
the search implements the table (`SearchImplementsTable`): each step of a thread or of
the main thread is a step of `Transpositions`, taken where its guards hold, or leaves the
table alone. All that is proved of the table then holds of it in the search
(`TableInSearch`). The inductive invariant is

    UctInv == Inv /\ UctTypes /\ Delays /\ NextIsSuccessor /\ RepliesAreOfNext
                /\ \A t \in Thread : SimOK(t)

`SimOK(t)` says what thread `t` knows at each point of a simulation: every play of its
path is one of the game, from an expanded state (`PathOK`); its board is where the last
play leads, and so is the state it reads or waits for (`PositionOK`); the turn it counts
back is that of the state it updates (`BackTurnOK`); no state is twice among six plays
but by passes (`SuperkoOK`). It is needed because `ReadNext` and `Backup` act on a state
with nothing held since it was found: that the link written is right follows from the
path alone, not from any lock. `Delays` (a state is expanded when its delay has run out)
gives `StatsKept`: a thread that waited to expand a state finds it expanded. The
properties proved are `UctTypeOK`, `TreeOfTheGame`, `RepliesAreOfNext`, `StatsKept`,
`ImplementsTable`.

`StatsAreExact` (`StatsExact`) is proved for searches that are not `Endless`, the ones with
a history to compare with. `StatsExact` speaks of the time between searches; what is
inductive speaks of every moment of one:

    StatsInv == StatsTypes /\ QualitiesInRange /\ (\A t \in Thread : PassOK(t))
                  /\ \A n \in Tabled \cap expanded : \A p \in Play : StatsOf(<<n, p>>)

`StatsOf(d)` counts the simulations going on: the visits of play `d` are its prior, those of
the simulations over and one for each place where a thread has `d` in its path, or as the
pass that ended it (`Ongoing(d)`); its quality times its visits is its prior wins, those of
the simulations over and one for each place that an update has passed, in a simulation won
by the player of `d` (`Credited(d)`). A selection adds one place (`OngoingByAppend`,
`OngoingByPass`), an update credits one (`CreditedByUpdate`, which needs `BackTurnOK`: the
win goes to the player of the play), and the end of a simulation takes all of its places,
credited all or none, into the history (`MineCounted`, `OngoingFinished`). That a quality
stays one is a count too: no more places are credited than there are. A state that is
expanded has no simulation through it (`UnexpandedNotOngoing`), and one is cleaned when no
thread has any. `QualityUpdated` is the arithmetic of the two formulas, on fractions.

`GameRecordProofs` first proves of the rules, on any finite connected graph of points: a chain is
the least set closed under neighbours of its colour (`ChainClosed`, `ChainLeast`); what a
play captures are whole chains of the opponent with no liberty (`CapturedChains`); a legal
play on a board with no dead stone leaves none (`PlayLeavesNoDeadStone`: the chains that
are not captured keep a liberty or gain one from a capture, the chain of the stone has one
by the test); a play that `test_ko` lets through never restores the board before the
opponent's (`KoForbidsRepeat`: the board could only be restored by a capture of one stone
that had captured one, which is what the test looks for); and a ko is against the opponent
of the player of the last stone (`KoIsOfOpponent`).

It then proves all the properties of `record`, with the inductive invariant

    RecordInv == TypeOK /\ CacheIsCurrent /\ IsRecord(handicap_stones, moves, states)

`IsRecord` says that `states` is the replay of the plays, that each of them could be
played when it was (`PlaysCanBePlayed`), and superko since the first capture. The
properties of boards alone are not inductive: an undo goes back to a board that only the
legality of the plays before it vouches for, and `PrefixIsRecord` takes it from there. A
play out of order is two entries (`PlayOfRecord`, with `PlayAfterPass`: a pass changes
nothing but the ko). `GenmoveIsLegal` needs that the ko of a state is against the player
to move (`KoIsOfCurrentPlayer`), so that clearing it for the other hides nothing. With
`KoLeftByPlay` (what a play leaves around the stone it took) it gives the other part,
`SearchedIsOfMatch`: the board given to the search is one of a match for the player asked
for (`OfMatch`), which is what `Playout` assumes of the boards it starts from.

`RefereeProofs` proves the types, `SameGame`, and `ReportIsRight`: the report counts each
game once, for the program that won it, and fails just when all were drawn. The invariant
is a disjunction over what the referee waits for (`Asked`, `Relaying`, `Closing`, ...):
what it has still to send, and how much of the game each program has heard.

`PlayoutProofs` proves all the properties of `playout`, on a board of any size, from any
state of a match; what they need of the fast board, as lemmas on its operators, is in
`CfgBoardProofs`. First that the board stays exact (`UpdatesAreExact`, `GroupsAreExact`): the
counts of stones around every point, the pattern of its neighbourhood, the list of free
points, the hash and the difference of stones, each only patched by the plays, are those of
the board after any plays, passes and captures, and the groups are its chains, with the
liberties, the neighbours and the lowest liberty that a search would find. The invariant is

    UpdateInv == Kept(cb, cb.p) /\ cb.empty = FreeOf(cb.p) /\ ... /\ CachesFit(cache, cb.p)

`Kept` adds to the counts what a capture relies on: the groups (`Grouped`). Every stone is of
a group of its colour, named by one of its stones; the stones a group lists are those that
refer to it; the groups are listed once each, at the index they keep. Without it nothing
says that the stones taken out of the counts are those that stood there, nor that the last
group, moved into the place of one removed, is found again (`DellocKeeps`).
`Reckoned`, also in `Kept`, is what a play patches of each group: its liberties are the free
points beside it, counted (`Counted`); stones of one colour side by side are of one group
(`Whole`), and no part of a group is apart from the rest (`Chained`), so that a group is a
chain (`GroupsOfChains`); its neighbours are the groups of the other colour beside it, each
way (`Bordered`). While a new stone meets its neighbours none of this holds: a group not
met yet still has the point played as a liberty. `Halfway` is what does, with the ties of
the board but for those of the stone with neighbours still to be met (`Ties`), of which
each meeting adds one (`OneMore`): a free point (`HalfwayFree`), a group met before, by
another of its stones (`HalfwayAgain`), one of the other colour (`HalfwayOther`) and one of
its own, united (`HalfwaySame`, `UnitedMerges`). `NeighborsReckoned` takes it from the
stone alone to `Reckoned`; `KillReckons` is the capture of a group, whose stones become
liberties of its neighbours.
`CachesFit` says that no cache has a play at a stone, by which a playout plays at free
points only. The argument follows the code: a stone alone in its group (`AloneKeeps`),
counted (`OccupiedCounts`, from the symmetry of neighbours, `NeighborsAreMutual`), united to
the groups it meets (`UniteKeeps`, `MeetKeeps`), the groups it captures removed whole
(`KillKeeps`), one neighbour after the other (`CaptureKeeps`): `PlayKeeps`, of which
`HashUpdated` and `DiffUpdated` are about the sums. `CopyKeeps` is `cfg_from_board`. In
`Meet` a group may be united with that of the new stone while others wait in their turn;
that this never unites a group with itself, nor frees one still to be met, is in `Meeting`.
`SameAsSlowBoard` is about which stones a play takes. The slow board floods the chains beside
the stone just placed; the fast one asks the count of liberties of each group in turn, while
the captures before have already given liberties to others. A capture leaves the chains and
the liberties of the groups of its own colour as they were (`SameChains`, `SameLiberties`), so
that those taken in the end are those with no liberty once the stone is placed (`Slain`,
`CapturesSlay`), which are the chains the flood finds dead (`DeadAreCaptured`); `PlayIsSlow`.

On an exact board the rest is about chains (`Chain`, `LibertiesAt`) and what a play leaves of
them (`Leaves`, `ExactLiberties`).

`PlaysForetold`: `can_play` and the three approximations tell of a play what `just_play_slow2`
makes of it. The ko of the groups is that of the stones around the last play (`SameKo`), so
long as the stone it took is free and closed in by the player of that stone (`KoInv`, which
`PlayLeavesKo` keeps). `libs_after_play` adds liberties up (`LibsAfterIsExact`). `safe_to_play`
does not: it counts the free points, the liberties and the stones captured beside the
point, each once, and one more for a group captured that the player's own groups touch; that
this is the number of liberties left, up to two (`ProbableIsExact`), needs the board to be a
grid. If only one point besides that of the play was counted, two liberties are left all the
same: of the stones of a chain, one beside another is at the corner of a square with the
point played (`Corners`, `BorderingLeavesTwo`). That six free points around a point leave it
two liberties, as `safe_to_play2` takes it, is geometry too (`WideOpen`, `TwoCorners`).

`CacheFresh`: what `Refreshed` finds of a free point depends on the stones around it, the chains
beside it and their liberties, and the ko (`SameStatus`). A play marks the corners of its
point, what it captured, the liberties of its chain, of the chains that it touches, and of
the chains that touched a group captured (`Marked`, `PlayTells`). A free point not marked has
nothing of this changed (`UnmarkedUnchanged`): a chain beside it that the play joined, or took
a liberty of, or gave one to, has that point for a liberty, and would have marked it. The ko
is seen to apart: where it was, by `invalidate_cache_of_the_past` (`PastFresh`); where it will
be, a stone was captured (`EatenIsCaptured`). The invariant (`FreshInv`) is of both caches: the
one who waits keeps what it knew through the play of the other.

`PlayoutPlays` follows, with the invariant that the last stone played is on the board (`LastInv`):
what is known to be legal was found legal on this very board (`HeavyPlayLegal`), and a pass is
selected only when nothing is (`PassSelected`, `StuckPoint`). So does `TypeOK`: a play is made
only if it leaves itself a liberty (`PlaysWithLiberties`), in the tree by `libs_after_play`, in
a playout by the cache, and then no stone is left without one (`PlayLeavesAlive`), by which
every group has the liberty that the code asserts (`AliveInv`).

`ExpansionProofs` proves `OffersComplete`, `EyesEnclose`, `VerdictOfAnyAddress` and the types of
`Expansion`, on any board that the program accepts, all permutations of the points for the
list of the free ones and all addresses of the groups, of which `MemoryAssumption` asks
only that they differ, patterns that match everywhere or nowhere, and whatever the
readings answer: none of the four depends on what is read. The invariant is

    BoardInv == ... /\ Kept(cb, cb.p) /\ cb.empty = FreeOf(cb.p)
                  /\ (phase # "over" => KoAgainst(cb, colour)) /\ PlaysFromFree

the exact board of `CfgBoardProofs`, which the trace of an expansion (a lowest liberty
lowered) leaves exact, and plays of a state that are all of free points or passes.

`SearchDeniedNothing` (`OffersComplete`) follows the tests of `Offered`: a legal play that is
missing is in an eye of the player, of one point, or at the edge with no stone within three
points of it, where the code offers none on purpose. What the estimate finds not viable is
no more than those eyes, whatever the order and the addresses; the rest of what it marks
bears on priors only. That something is offered, if only the pass, is a count of points
(`SomethingOffered`).

`TypeCorrect` is about what the arrays of the code can hold. That the estimate stays one
(`EstimateIsSound`) needs that each step of the four passes gives an eye to, or unites, groups
that are on the board, and that following the links of dragons comes to a head
(`dragon_head`, a function by recursion): the links go from the lower address to the
higher, and as the points are finitely many so are the addresses, which lie between two
bounds (`AddressesSpan`); the induction is on the distance to the higher (`Rank`). The stakes at each point are sums over sets of
reads, modulo 2^16 as in the code: `SetFoldExists` describes a fold over a finite set by the
function of its subsets that it computes. The wins of a play stay between none and its visits through all
penalties and bonuses.

`EyesAreEyes` (`EyesEnclose`) first shows what the sums of the shapes mean (`EyeSides`,
`PairSides`, `FourSides`, `SizeOfStar`): counts of stones beside and around two or four
points, with those past the edge counted in, that add up only if every point of the border
has a stone of the one player; at corners and edges too, on boards of five by five points
and more. Then that regions found by two shapes are one region or apart (`OneRegion`,
`EyesApart`: of one, two or four points, each enclosed whole), by which the score, a sum
over the points of the board that looks for the shapes one by one, counts each point of an
eye once (`ScoreGrows`, `ScoreByEyes`).

`EyesOfAnyAddress` (`VerdictOfAnyAddress`) follows two estimates of one board side by side, with
the groups at other addresses. They do not agree on the eyes counted in each record: of two
dragons united, the head is the one at the higher address, and it has the sum of the eyes
that were counted at heads, but an eye can be given to a group that is no head any more,
and that eye is lost to the dragon. What both keep after every step is

    Alike: the same points are viable; the same groups are of the same dragon; a dragon has
           as many eyes in one as in the other, or two or more in both; none is borrowed yet

A union or a shape keeps it step by step (`UnitedAlike`, `On...Alike`). An eye given to a
group that is not the head is the case that matters: its dragon was united from groups that
had an eye each, so it has two or more already, with either addresses, and the eye lost
changes no verdict. The eyes borrowed from others come last, once
dragons are what they are (`AlikeInAll`, `ShelteredAdds`). The verdict, two eyes or not, is
then the same (`VerdictsAgree`); links followed up end at one head (`OneWayToHeads`).

**Assumed**: what the `ASSUME`s of the modules say of their constants, and no more; TLC
evaluates each on the instances of the runs.

* `ThreadAssumption`, `NodeAssumption`: threads and states are finite in number, and the
  null pointer is none of them.
* `UctAssumption`, `GraphAssumption`: plays lead from positions to positions, and turns
  alternate, as in go; the prior of a play has visits, and no more wins than visits, as
  `TypeCorrect` of `ExpansionProofs` shows of those that `init_new_state` computes.
* `BoardAssumption`: points are finite, neighbours are symmetric, and the board is
  connected (a grid is): on a board in two parts a play could fill one of them whole.
* `RecordAssumption`: the points of the handicap file differ, and there is room for a play.
* `GamesAssumption`: the games in SGF files are legal and shorter than the array of plays.
  `sgf.c:424` and on imports them with no test of legality, and stops at the length of
  the array; of an illegal game the program does keep the illegal boards.
* `MarkAssumption`: the marks for a pass, for none and for an empty point are no points and
  no players, as in `move.h` and `board.h`.
* `PlayoutAssumption`: a simulation starts from a board whose stones have liberties, whose
  last stone stands, and whose ko, if any, is against the player to play (`OfMatch`): what
  `GameRecord` proves of each state it gives to the search (`EngineIsLegal`). The mark for
  no outcome is no number.
* `ExpansionAssumption`: the states expanded are states of a match (`OfMatch`), the board is
  of five by five points or more (`inc/config.h:175`), and the table `Scaled` maps numbers
  of 16 bits to such.
* `MemoryAssumption`: the list of free points follows a permutation of the points, and
  groups are at addresses that differ, as blocks that `malloc` gave. Nothing else is
  assumed of either.
* `AllotAssumption`, above; that times and stones of a clock fit their fields.

**Induction.** `FoldLemmas` states induction over sets of numbers (`InductionUpTo`, from
`LeastNumber`) and over finite sets (`InductionOnSets`), and describes a fold by the function
of its prefixes (`FoldValues`) or of the sets folded so far (`SetFoldExists`), with
what is folded given as a function and not as an operator, since no prover instantiates a
theorem that takes an operator. This is how the replay, the import of a game, the
handicap stones, the neighbours of a stone and the points of a board are proved about.

**Checked by TLC only**: of `Expansion`, `ReadingAgrees`, which is about the readings,
recursive operators, for which the SMT backend is not available; the violations; and all liveness
(`SearchEnds`, `AdvanceEnds`, `MatchIsReported`), which, with `ENABLED`, is out of the
prover's reach.

## Not modelled, and why

The text of commands, coordinates and files, logs, and the reading of files: no
property is about them. Hash collisions (a position is its hash). AMAF and
criticality: they choose among plays, and any choice is allowed. `mcts_benchmark`: no
match runs it. Commands of GTP that only read. The opening book and the reduction of a
board by symmetry: a play of the book is one more choice of `gtp_genmove`. The list of
released blocks (`alloc.c`): a stack, changed under one lock. The hash table
of the tools, the weights of patterns and their generators: data prepared before a match.
The texts of SGF files. Hazards that no property covers are listed with the reason.

## The plan

Done: `Transpositions`, `Uct`, `TimeCtrl`, `GoBoard`, `GameRecord`, `CfgBoard`,
`Playout`, then `Tactical`, `Dragons` and `Expansion`, and `Referee`: what is shared by
threads first, then what a match depends on, what each simulation does, what decides the
plays of the tree, and the matches between programs.

Theorems: all the properties of `Transpositions`, `Uct`, `TimeCtrl`, `GameRecord`, `Playout`
and `Referee` but liveness are proved, and those of `Expansion`
but `ReadingAgrees`.
