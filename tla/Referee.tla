-------------------------------- MODULE Referee --------------------------------
(***************************************************************************)
(* twogtp (src/src/twogtp/main.c): a match of games between two programs   *)
(* that speak GTP, A and B, with a third one, R, that is told of the games *)
(* and scores them.  The referee writes a command to the pipe of a program *)
(* and reads until its answer is whole; meanwhile it does nothing else.    *)
(*                                                                         *)
(* The programs are external: they answer what they please, in their time, *)
(* or exit.  A play is known by the turn of the game it is made at.        *)
(***************************************************************************)
EXTENDS Integers, Sequences, FiniteSets

CONSTANTS
  BOARD_SIZ,        \* board_size
  Games,
  Alternate         \* whether the players swap colours on odd games

ASSUME RefereeAssumption ==
  BOARD_SIZ \in Nat /\ BOARD_SIZ >= 5 /\ Games \in Nat \ {0} /\ Alternate \in BOOLEAN

Player  == {"A", "B"}
Program == Player \cup {"R"}
Colour  == {"black", "white"}
Score   == Colour \cup {"draw"}
None    == "none"

VARIABLES
  status,           \* of the referee: "running", "reported" at the end of the
                    \* match, "failed" in the report, "killed" by a broken pipe
  queue,            \* the commands to send before a decision: the first is sent
  answer,           \* to the first command, once it is written
  game,             \* games ended
  turns, last_move_pass, wins, draws, losses,
  process,          \* whether each program is "up", has "exited" or obeyed "quit"
  heard,            \* the plays each program has made or been told of, in order,
                    \* since its board was cleared
  won               \* history: who won each game

match == <<game, wins, draws, losses, won>>
vars == <<status, queue, answer, match, turns, last_move_pass, process, heard>>

Other(c) == IF c = "black" THEN "white" ELSE "black"

Rival(p) == IF p = "A" THEN "B" ELSE "A"

\* Who plays with c.
PlayerOf(c) ==
  LET black == IF Alternate /\ game % 2 = 1 THEN "B" ELSE "A"
  IN IF c = "black" THEN black ELSE Rival(black)

Command(p, what) == [to |-> p, what |-> what]

PlayCommand(p, c) == [to |-> p, what |-> "play", colour |-> c, turn |-> turns]

ToAll(what) == [i \in 1..3 |-> Command(<<PlayerOf("black"), PlayerOf("white"), "R">>[i], what)]

SetUp == ToAll("boardsize") \o ToAll("komi") \o ToAll("clear_board")

Quit == [i \in 1..3 |-> Command(<<"A", "B", "R">>[i], "quit")]

max_turns == BOARD_SIZ * BOARD_SIZ * 2

NeverLate == FALSE

Late == turns > max_turns

-----------------------------------------------------------------------------
(***************************************************************************)
(* The programs.                                                           *)
(***************************************************************************)
\* A program obeys the command and writes its answer.
Answer(p) ==
  /\ status = "running" /\ answer = None
  /\ Head(queue).to = p /\ process[p] = "up"
  /\ \/ /\ Head(queue).what = "genmove"
        /\ \E m \in {"play", "pass", "resign"} :
             /\ answer' = m
             /\ heard' = IF m = "resign" THEN heard
                         ELSE [heard EXCEPT ![p] = Append(@, <<Head(queue).colour, turns>>)]
        /\ UNCHANGED process
     \/ /\ Head(queue).what = "play"
        /\ answer' = "ok"
        /\ heard' = [heard EXCEPT ![p] = Append(@, <<Head(queue).colour, Head(queue).turn>>)]
        /\ UNCHANGED process
     \/ /\ Head(queue).what = "clear_board"
        /\ answer' = "ok"
        /\ heard' = [heard EXCEPT ![p] = <<>>]
        /\ UNCHANGED process
     \/ /\ Head(queue).what = "final_score"
        /\ answer' \in Score
        /\ UNCHANGED <<heard, process>>
     \/ /\ Head(queue).what = "quit"
        /\ answer' = "ok"
        /\ process' = [process EXCEPT ![p] = "quit"]
        /\ UNCHANGED heard
     \/ /\ Head(queue).what \in {"version", "boardsize", "komi"}
        /\ answer' = "ok"
        /\ UNCHANGED <<heard, process>>
  /\ UNCHANGED <<status, queue, match, turns, last_move_pass>>

\* A program ends of its own.  What it had written can still be read; otherwise the
\* loop of send_command reads nothing forever.
Exit(p) ==
  /\ status = "running" /\ process[p] = "up"
  /\ process' = [process EXCEPT ![p] = "exited"]
  /\ UNCHANGED <<status, queue, answer, match, turns, last_move_pass, heard>>

-----------------------------------------------------------------------------
(***************************************************************************)
(* The referee.                                                            *)
(***************************************************************************)
\* send_command: with no program at the end of the pipe, the signal ends the referee.
Send(commands) ==
  /\ queue' = commands
  /\ answer' = None
  /\ status' = IF process[Head(commands).to] = "up" THEN "running" ELSE "killed"
  /\ UNCHANGED <<process, heard>>

\* send_command has read the answer to what was asked.
Read(what) ==
  /\ status = "running" /\ answer # None
  /\ Head(queue).what = what

LastRead(what) == Read(what) /\ Len(queue) = 1

SendNext ==
  /\ \E what \in {"version", "boardsize", "komi", "clear_board", "play", "quit"} : Read(what)
  /\ Len(queue) > 1
  /\ Send(Tail(queue))
  /\ UNCHANGED <<match, turns, last_move_pass>>

\* The start of play_game, the programs in the order of its arguments.
StartGame ==
  /\ LastRead("version")
  /\ Send(SetUp)
  /\ UNCHANGED <<match, turns, last_move_pass>>

Generate(c) ==
  /\ turns' = turns + 1
  /\ Send(<<[to |-> PlayerOf(c), what |-> "genmove", colour |-> c]>>)

\* The top of the loop, which alone tests the number of turns.
BlackTurn ==
  IF Late
  THEN /\ Send(<<Command("R", "final_score")>>)
       /\ UNCHANGED turns
  ELSE Generate("black")

FirstTurn ==
  /\ LastRead("clear_board")
  /\ turns' = 1 /\ last_move_pass' = FALSE
  /\ Send(<<[to |-> PlayerOf("black"), what |-> "genmove", colour |-> "black"]>>)
  /\ UNCHANGED match

NextTurn ==
  /\ LastRead("play")
  /\ IF Head(queue).colour = "black" THEN Generate("white") ELSE BlackTurn
  /\ UNCHANGED <<match, last_move_pass>>

RelayedToItself(c) == <<PlayCommand(PlayerOf("white"), c), PlayCommand("R", c)>>

\* The players are told of the plays of each other, and R of all.
Relayed(c) == <<PlayCommand(PlayerOf(Other(c)), c), PlayCommand("R", c)>>

\* The second of two passes: only R is told of it.
SecondPass ==
  /\ LastRead("genmove") /\ answer = "pass" /\ last_move_pass
  /\ Send(<<PlayCommand("R", Head(queue).colour), Command("R", "final_score")>>)
  /\ UNCHANGED <<match, turns, last_move_pass>>

Relay ==
  /\ LastRead("genmove") /\ answer \in {"play", "pass"}
  /\ ~(answer = "pass" /\ last_move_pass)
  /\ last_move_pass' = (answer = "pass")
  /\ Send(Relayed(Head(queue).colour))
  /\ UNCHANGED <<match, turns>>

WinsAsBlack(c) == c = "black"

WinsA(c) == PlayerOf(c) = "A"

\* A game ends with a colour that won, or a draw; the next one starts, if any.
Ended(outcome) ==
  /\ game' = game + 1
  /\ wins'   = IF outcome \in Colour /\ WinsA(outcome) THEN wins + 1 ELSE wins
  /\ losses' = IF outcome \in Colour /\ ~WinsA(outcome) THEN losses + 1 ELSE losses
  /\ draws'  = IF outcome = "draw" THEN draws + 1 ELSE draws
  /\ won' = Append(won, IF outcome = "draw" THEN None ELSE PlayerOf(outcome))
  /\ IF game + 1 < Games THEN Send(SetUp') ELSE Send(Quit)
  /\ UNCHANGED <<turns, last_move_pass>>

\* Nobody is told of a resignation.
Resigned == LastRead("genmove") /\ answer = "resign" /\ Ended(Other(Head(queue).colour))

Scored == LastRead("final_score") /\ Ended(answer)

\* The programs, which have all quit, are killed, and the rate of wins is printed:
\* a division.
Report ==
  /\ LastRead("quit")
  /\ status' = IF wins + losses > 0 THEN "reported" ELSE "failed"
  /\ queue' = <<>> /\ answer' = None
  /\ UNCHANGED <<match, turns, last_move_pass, process, heard>>

-----------------------------------------------------------------------------
Init ==
  /\ status = "running"
  /\ queue = [i \in 1..3 |-> Command(<<"A", "B", "R">>[i], "version")] /\ answer = None
  /\ game = 0 /\ wins = 0 /\ draws = 0 /\ losses = 0 /\ won = <<>>
  /\ turns = 0 /\ last_move_pass = FALSE
  /\ process = [p \in Program |-> "up"]
  /\ heard = [p \in Program |-> <<>>]

Step ==
  \/ SendNext \/ StartGame \/ FirstTurn \/ NextTurn \/ SecondPass \/ Relay
  \/ Resigned \/ Scored \/ Report

Next == Step \/ \E p \in Program : Answer(p) \/ Exit(p)

\* The referee goes on once it can, and the programs answer.
Spec == Init /\ [][Next]_vars /\ WF_vars(Step) /\ \A p \in Program : WF_vars(Answer(p))

-----------------------------------------------------------------------------
(***************************************************************************)
(* Properties.                                                             *)
(***************************************************************************)
\* The types of the state; no game is longer than its limit by more than two turns.
TypeOK ==
  /\ status \in {"running", "reported", "failed", "killed"}
  /\ status = "running" => queue # <<>>
  /\ game \in 0..Games /\ turns \in 0..max_turns + 2 /\ last_move_pass \in BOOLEAN
  /\ process \in [Program -> {"up", "exited", "quit"}]

\* The turns of a game, first to last.
Turns(n) == [i \in 1..n |-> <<IF i % 2 = 1 THEN "black" ELSE "white", i>>]

\* A play is asked of a program when all three have heard the same game, of plays of
\* both colours in turn, whatever game of the match it is and however the last one
\* ended; the game scored is whole, and a player may only miss the last pass of it.
SameGame ==
  (status = "running" /\ answer = None) =>
    /\ Head(queue).what = "genmove" =>
         \A p \in Program : heard[p] = Turns(turns - 1)
    /\ Head(queue).what = "final_score" =>
         /\ heard["R"] = Turns(turns)
         /\ \A p \in Player : heard[p] \in {Turns(turns), Turns(turns - 1)}

\* The games won by p, or by none of the players.
WonBy(p) == Cardinality({i \in DOMAIN won : won[i] = p})

\* The match ends unless a program exits of its own, also between programs that never
\* pass or resign.  The wins reported then are those of program A whatever its colour,
\* the losses those of B; the report fails just when every game was a draw.
MatchIsReported ==
  <>\/ /\ status \in {"reported", "failed"}
       /\ Len(won) = Games
       /\ wins = WonBy("A") /\ losses = WonBy("B") /\ draws = WonBy(None)
       /\ (status = "failed") = (draws = Games)
    \/ \E p \in Program : process[p] = "exited"
=============================================================================
