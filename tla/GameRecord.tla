------------------------------ MODULE GameRecord ------------------------------
(***************************************************************************)
(* The record of a match (src/src/game_record.c) under the GTP commands    *)
(* that change it (src/src/main/gtp.c, src/src/sgf.c): handicap stones,    *)
(* then plays, a NONE standing for the turn of a player who was skipped.   *)
(*                                                                         *)
(* The record keeps no boards.  The code replays it from the first state   *)
(* whenever it needs one, but for the current state, which is cached in    *)
(* one variable for all records.  Here states is what the replay gives:    *)
(* the first state, then the state after each entry.                       *)
(*                                                                         *)
(* The program exits (flog_crit) on what it takes as impossible.           *)
(***************************************************************************)
EXTENDS GoBoard, Sequences, SequencesExt

CONSTANTS
  MaxGameLength,  \* MAX_GAME_LENGTH
  HandicapOrder,  \* the points of the handicap file, in order
  Games,          \* bound: the games in SGF files, legal ones
  MoveNumbers,    \* bound: the move numbers loadsgf is given
  Vertices,       \* bound: the vertex lists set_free_handicap is given
  Handicaps,      \* bound: the stones place_free_handicap is asked for
  Undos,          \* bound: the numbers gg-undo is given
  MaxCommands     \* bound: commands in a behaviour

ASSUME RecordAssumption ==
  /\ MaxGameLength \in Nat \ {0} /\ MaxCommands \in Nat
  /\ Undos \subseteq Nat \ {0} /\ MoveNumbers \subseteq Nat \ {0}
  /\ HandicapOrder \in Seq(Point) /\ IsInjective(HandicapOrder)
  /\ Vertices \subseteq Seq(Point \cup {PASS})

VARIABLES
  handicap_stones,
  moves,                  \* moves[0..turns-1]
  finished, resignation,
  states,                 \* the replay: the state before each entry, and the last
  current_game_bak,
  current_game_bak_set,
  exited,                 \* why flog_crit ended the program, if it did
  resigned,               \* history: the result in force is a resignation
  commands                \* bound

recordVars == <<handicap_stones, moves, states>>
resultVars == <<finished, resignation, resigned>>
cacheVars  == <<current_game_bak, current_game_bak_set>>
vars == <<recordVars, resultVars, cacheVars, exited, commands>>

-----------------------------------------------------------------------------
(***************************************************************************)
(* The record.                                                             *)
(***************************************************************************)
first_player_color(hs) == IF hs = <<>> THEN "black" ELSE "white"

\* Whose turn it is after so many turns.
ColourAt(hs, turns) ==
  IF turns % 2 = 0 THEN first_player_color(hs) ELSE Opponent(first_player_color(hs))

current_player_color == ColourAt(handicap_stones, Len(moves))

first_game_state(hs) ==
  FoldLeft(LAMBDA b, m : just_play_slow2(b, "black", m), clear_board, hs)

\* One entry of the record replayed.
Replayed(b, c, m) == IF m \in Point THEN just_play_slow2(b, c, m) ELSE pass(b)

\* The states of the record once ms is added to its plays.
Replay(hs, ss, ms) ==
  FoldLeft(LAMBDA s, m : Append(s, Replayed(Last(s), ColourAt(hs, Len(s) - 1), m)),
           ss, ms)

\* current_game_state, when the cache is set.
State == current_game_bak

\* add_play_out_of_order: the entries added when c plays m.
InOrderAlways(c, m) == <<m>>

InOrder(c, m) == IF current_player_color = c THEN <<m>> ELSE <<NONE, m>>

\* The same, while a game is imported.
Imported(hs, plays) ==
  FoldLeft(LAMBDA ms, e :
             ms \o (IF ColourAt(hs, Len(ms)) = e[1] THEN <<e[2]>> ELSE <<NONE, e[2]>>),
           <<>>, plays)

\* The cache is dropped by whatever changes the record.
DropCache == current_game_bak_set' = FALSE /\ UNCHANGED current_game_bak

KeepCache == UNCHANGED cacheVars

add_play_out_of_order(c, m) ==
  \/ /\ Len(moves) + Len(InOrder(c, m)) < MaxGameLength
     /\ moves' = moves \o InOrder(c, m)
     /\ states' = Replay(handicap_stones, states, InOrder(c, m))
     /\ finished' = FALSE
     /\ resigned' = FALSE
     /\ DropCache
     /\ UNCHANGED <<handicap_stones, resignation, exited>>
  \/ /\ Len(moves) + Len(InOrder(c, m)) >= MaxGameLength
     /\ exited' = "length"
     /\ UNCHANGED <<recordVars, resultVars, cacheVars>>

LastCaptureOnly(c, m) ==
  \E i \in 1..Len(moves) :
    /\ i = Len(moves) /\ moves[i] \in Point
    /\ captured(states[i], ColourAt(handicap_stones, i - 1), moves[i]) > 0
    /\ states[i + 1].p = just_play_slow2(State, c, m).p

\* The states after the plays from the first capture on.
test_superko(c, m) ==
  LET Captures(i) ==
        /\ moves[i] \in Point
        /\ captured(states[i], ColourAt(handicap_stones, i - 1), moves[i]) > 0
      after == just_play_slow2(State, c, m).p
  IN \E i \in 1..Len(moves) :
       /\ moves[i] \in Point
       /\ states[i + 1].p = after
       /\ \E j \in 1..i : Captures(j)

play_is_legal(c, m) ==
  m = PASS \/ (m \in Point /\ can_play_slow(State, c, m) /\ ~test_superko(c, m))

-----------------------------------------------------------------------------
(***************************************************************************)
(* The games in SGF files.  Their plays are not tested when they are read: *)
(* the games here are those that could have been played.                   *)
(***************************************************************************)
\* Each play of the record could be played, but for superko.
PlaysCanBePlayed(hs, ms, ss) ==
  \A i \in 1..Len(ms) :
    ms[i] \in Point => can_play_slow(ss[i], ColourAt(hs, i - 1), ms[i])

\* From the first capture on no two plays give the same board.
PlaysKeepSuperko(hs, ms, ss) ==
  \A i, j \in 1..Len(ms) :
    (/\ i < j /\ ms[i] \in Point /\ ms[j] \in Point
     /\ \E k \in 1..i : ms[k] \in Point /\ captured(ss[k], ColourAt(hs, k - 1), ms[k]) > 0)
      => ss[i + 1].p # ss[j + 1].p

HandicapStones ==
  {hs \in Seq(Point) : Len(hs) < Cardinality(Point) /\ IsInjective(hs)}

ASSUME GamesAssumption ==
  \A g \in Games :
    LET ms == Imported(g.handicap, g.plays)
        ss == Replay(g.handicap, <<first_game_state(g.handicap)>>, ms)
    IN /\ g.handicap \in HandicapStones
       /\ g.plays \in Seq(Player \X (Point \cup {PASS}))
       /\ Len(ms) < MaxGameLength
       /\ PlaysCanBePlayed(g.handicap, ms, ss)
       /\ PlaysKeepSuperko(g.handicap, ms, ss)

-----------------------------------------------------------------------------
(***************************************************************************)
(* The GTP loop: it replays the record, if the cache is not set, before    *)
(* every command.                                                          *)
(***************************************************************************)
current_game_state ==
  /\ exited = "no"
  /\ ~current_game_bak_set
  /\ current_game_bak' = Last(states)
  /\ current_game_bak_set' = TRUE
  /\ UNCHANGED <<recordVars, resultVars, exited, commands>>

Command ==
  /\ exited = "no"
  /\ current_game_bak_set
  /\ commands < MaxCommands
  /\ commands' = commands + 1

gtp_play(c, m) ==
  /\ Command
  /\ play_is_legal(c, m)
  /\ add_play_out_of_order(c, m)

\* The state the engine is asked to play in: with no ko if the turn is not its.
StateToPlay(c) ==
  IF moves # <<>> /\ current_player_color # c
    THEN [State EXCEPT !.last_played = NONE, !.last_eaten = NONE]
    ELSE State

\* select_play: the plays that the search can have tested, in any order of
\* quality, that are no superko; or a pass.
AnyTestedPlay(c) == {m \in Point : can_play_slow(StateToPlay(c), c, m)} \cup {PASS}

SelectedPlay(c) ==
  {m \in Point : can_play_slow(StateToPlay(c), c, m) /\ ~test_superko(c, m)} \cup {PASS}

gtp_genmove(c, m) ==
  /\ Command
  /\ m \in SelectedPlay(c)
  /\ add_play_out_of_order(c, m)

\* The resignation of either player: play resign, or genmove.
Resign ==
  /\ Command
  /\ finished' = TRUE
  /\ resignation' = TRUE
  /\ resigned' = TRUE
  /\ KeepCache
  /\ UNCHANGED <<recordVars, exited>>

gtp_final_score ==
  /\ Command
  /\ finished' = TRUE
  /\ resigned' = FALSE
  /\ KeepCache
  /\ UNCHANGED <<recordVars, resignation, exited>>

\* undo_last_play, n times.
TakeBack(n) ==
  /\ moves' = SubSeq(moves, 1, Len(moves) - n)
  /\ states' = SubSeq(states, 1, Len(states) - n)
  /\ finished' = FALSE
  /\ resigned' = FALSE
  /\ UNCHANGED <<handicap_stones, resignation, exited>>

UndoKeepsCache(n) ==
  /\ Command
  /\ n <= Len(moves)
  /\ TakeBack(n)
  /\ KeepCache

gtp_undo(n) ==
  /\ Command
  /\ n <= Len(moves)
  /\ TakeBack(n)
  /\ DropCache

clear_game_record(hs, ms, result) ==
  /\ handicap_stones' = hs
  /\ moves' = ms
  /\ states' = Replay(hs, <<first_game_state(hs)>>, ms)
  /\ finished' = (result # "Void")
  /\ resignation' = (result = "Resign")
  /\ resigned' = (result = "Resign")
  /\ DropCache
  /\ UNCHANGED exited

gtp_clear_board ==
  /\ Command
  /\ clear_game_record(<<>>, <<>>, "Void")

\* A game imported from SGF, up to a move number; the import fails, if it does,
\* after the cache has been dropped.
gtp_loadsgf(g, n) ==
  /\ Command
  /\ LET ms == Imported(g.handicap, g.plays)
         turns == IF n - 1 < Len(ms) THEN n - 1 ELSE Len(ms)
     IN clear_game_record(g.handicap, SubSeq(ms, 1, turns), g.result)

LoadFails ==
  /\ Command
  /\ DropCache
  /\ UNCHANGED <<recordVars, resultVars, exited>>

-----------------------------------------------------------------------------
(***************************************************************************)
(* Handicap stones.                                                        *)
(***************************************************************************)
TooManyByOne(hs) == FALSE

TooMany(hs) == Len(hs) >= Cardinality(Point) - 1

\* add_handicap_stone, when the match has not started.
CanAdd(hs, m) == m \in Point /\ ~TooMany(hs) /\ \A i \in DOMAIN hs : hs[i] # m

\* The stones there are once as many of ms are added as can be.
Added(hs, ms) ==
  FoldLeft(LAMBDA r, m : IF r.ok /\ CanAdd(r.hs, m)
                           THEN [hs |-> Append(r.hs, m), ok |-> TRUE]
                           ELSE [hs |-> r.hs, ok |-> FALSE],
           [hs |-> hs, ok |-> TRUE], ms)

AddStones(ms) ==
  LET hs == Added(handicap_stones, ms).hs IN
  /\ handicap_stones' = hs
  /\ states' = <<first_game_state(hs)>>
  /\ IF hs = handicap_stones THEN KeepCache ELSE DropCache
  /\ UNCHANGED <<moves, resultVars>>

\* It answers an error at the first vertex that is bad: those before it stay.
gtp_set_free_handicap(ms) ==
  /\ Command
  /\ moves = <<>>
  /\ Len(ms) \in 2..(Cardinality(Point) - 1)
  /\ AddStones(ms)
  /\ UNCHANGED exited

\* The points of the handicap file, then random plays.
Suggested(n) ==
  LET first == IF n < Len(HandicapOrder) THEN n ELSE Len(HandicapOrder) IN
  {ms \in [1..n -> Point] :
     /\ \A i \in 1..first : ms[i] = HandicapOrder[i]
     /\ \A i, j \in 1..n : i # j => ms[i] # ms[j]}

gtp_place_free_handicap(n) ==
  /\ Command
  /\ \A m \in Point : State.p[m] = EMPTY
  /\ n \in 2..(Cardinality(Point) - 2)
  /\ \E ms \in Suggested(n) :
       IF moves = <<>>
         THEN /\ AddStones(ms)
              /\ exited' = IF Added(handicap_stones, ms).ok THEN exited ELSE "handicap"
         ELSE /\ exited' = "handicap"
              /\ UNCHANGED <<recordVars, resultVars, cacheVars>>

-----------------------------------------------------------------------------
Init ==
  /\ handicap_stones = <<>>
  /\ moves = <<>>
  /\ states = <<clear_board>>
  /\ finished = FALSE
  /\ resignation = FALSE
  /\ current_game_bak = clear_board
  /\ current_game_bak_set = FALSE
  /\ exited = "no"
  /\ resigned = FALSE
  /\ commands = 0

Next ==
  \/ current_game_state
  \/ \E c \in Player, m \in Point \cup {PASS} : gtp_play(c, m) \/ gtp_genmove(c, m)
  \/ Resign
  \/ gtp_final_score
  \/ \E n \in Undos : gtp_undo(n)
  \/ gtp_clear_board
  \/ \E g \in Games, n \in MoveNumbers : gtp_loadsgf(g, n)
  \/ LoadFails
  \/ \E ms \in Vertices : gtp_set_free_handicap(ms)
  \/ \E n \in Handicaps : gtp_place_free_handicap(n)

Spec == Init /\ [][Next]_vars

-----------------------------------------------------------------------------
(***************************************************************************)
(* Properties.                                                             *)
(***************************************************************************)
\* Every variable keeps its type: the record never fills its array of plays, nor
\* holds handicap stones that leave no empty point, or one of them twice.
TypeOK ==
  /\ handicap_stones \in HandicapStones
  /\ moves \in Seq(Point \cup {PASS, NONE})
  /\ Len(moves) < MaxGameLength
  /\ states \in Seq(Board) /\ Len(states) = Len(moves) + 1
  /\ current_game_bak \in Board
  /\ current_game_bak_set \in BOOLEAN
  /\ finished \in BOOLEAN /\ resignation \in BOOLEAN /\ resigned \in BOOLEAN
  /\ exited \in {"no", "length", "handicap"}
  /\ commands \in 0..MaxCommands

\* The cached state is that of the record the program has now, whatever was
\* played, taken back, loaded or failed to load since it was replayed: one cache
\* serves all records.
CacheIsCurrent == current_game_bak_set => current_game_bak = Last(states)

\* No stone stays on the board without a liberty.
NoDeadStones ==
  \A m \in Point : Last(states).p[m] # EMPTY => is_alive(Last(states).p, m)

\* No play restores the board its player's opponent has just changed, though one
\* of the two plays may be out of order, loaded or made after an undo.
NoImmediateRepeat ==
  \A i \in 1..(Len(moves) - 1) :
    moves[i] \in Point /\ moves[i + 1] \in Point => states[i].p # states[i + 2].p

\* From the first capture of the match on no two plays give the same board.
NoRepeatSinceCapture == PlaysKeepSuperko(handicap_stones, moves, states)

\* The boards of a match are those of a game by the rules, in whatever order its plays
\* were entered and taken back.
RecordIsLegal == NoDeadStones /\ NoImmediateRepeat /\ NoRepeatSinceCapture

\* A play puts a stone of the player it is made for, whoever's turn it was: the
\* colours of a replay come from the parity of the entries alone.
PlaysKeepColour ==
  [][\A c \in Player, m \in Point :
       (/\ Len(moves') > Len(moves) /\ Last(moves') = m
        /\ gtp_play(c, m) \/ gtp_genmove(c, m)) => Last(states').p[m] = c]_vars

\* What the engine is given to search is a board of a match for the player it is asked
\* for, in turn or not: every stone has a liberty, the last one stands, and a ko is where
\* it took a stone, closed in by the opponent, as the fast board takes it to be.
SearchedIsOfMatch ==
  current_game_bak_set => \A c \in Player : OfMatch(StateToPlay(c), c)

\* What the engine may play, the command play accepts: the ko cleared for a play
\* out of order never hides a play that is illegal.
SelectedIsLegal ==
  current_game_bak_set =>
    \A c \in Player : \A m \in SelectedPlay(c) : play_is_legal(c, m)

\* The engine, asked for a play in turn or not, searches a board of a match for that
\* player, and what it plays the command play would accept.
GenmoveIsLegal == SearchedIsOfMatch /\ SelectedIsLegal

\* "Tests if a play is legal including ko and superko" (game_record.c:232): no
\* play gives a board of the match once more, the first board's included.
NoRepeat ==
  \A i, j \in 1..Len(states) :
    (i < j /\ moves[j - 1] \in Point) => states[i].p # states[j].p

\* "Clears the game finished information from the game record if present"
\* (game_record.h:56): a match resigned, then played on and scored, is scored.
ResultIsLast == finished /\ resignation => resigned
=============================================================================
