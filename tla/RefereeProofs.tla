---------------------------- MODULE RefereeProofs -----------------------------
(***************************************************************************)
(* Proofs about Referee, for any board size and number of games, whoever   *)
(* has black.  The invariant says, for each thing the referee may be       *)
(* waiting for, what it has still to send and how much of the game each    *)
(* program has heard.                                                      *)
(***************************************************************************)
EXTENDS Referee, FiniteSetTheorems, SequenceTheorems, TLAPS

-----------------------------------------------------------------------------
(***************************************************************************)
(* The invariant.                                                          *)
(***************************************************************************)
\* Whose turn it is.
TurnColour == IF turns % 2 = 1 THEN "black" ELSE "white"

Mover == PlayerOf(TurnColour)

\* How much of the game the programs have heard.
AllHeard(n) == \A p \in Program : heard[p] = Turns(n)

\* The player to move has made its play, and told nobody.
Made == /\ heard[Mover] = Turns(turns)
        /\ \A p \in Program \ {Mover} : heard[p] = Turns(turns - 1)

\* Both players know of it.
Told == /\ \A p \in Player : heard[p] = Turns(turns)
        /\ heard["R"] = Turns(turns - 1)

\* The game is over, its last pass unheard by one player at most.
Over == /\ heard["R"] = Turns(turns)
        /\ \A p \in Player : heard[p] \in {Turns(turns), Turns(turns - 1)}

\* The commands s set up a game, and all programs clear their boards.
AllToClear(s) ==
  /\ s # <<>>
  /\ s \in Seq([to : Program, what : {"boardsize", "komi", "clear_board"}])
  /\ \A p \in Program : \E i \in DOMAIN s : s[i] = Command(p, "clear_board")

Greeting == /\ game = 0
            /\ queue \in Seq([to : Program, what : {"version"}])
            /\ answer \in {None, "ok"}

\* A program that has not cleared its board yet is to be told to.
SettingUp ==
  /\ game < Games
  /\ queue \in Seq([to : Program, what : {"boardsize", "komi", "clear_board"}])
  /\ answer \in {None, "ok"}
  /\ \A p \in Program :
       \/ heard[p] = <<>>
       \/ \E i \in DOMAIN queue : /\ queue[i] = Command(p, "clear_board")
                                  /\ i > 1 \/ answer = None

Limited == turns > 0 /\ turns <= IF turns % 2 = 1 THEN max_turns + 1 ELSE max_turns + 2

Asked ==
  /\ game < Games /\ Limited
  /\ queue = <<[to |-> Mover, what |-> "genmove", colour |-> TurnColour]>>
  /\ answer \in {None, "play", "pass", "resign"}
  /\ answer = None => AllHeard(turns - 1)
  /\ answer \in {"play", "pass"} => Made

Relaying ==
  /\ game < Games /\ Limited
  /\ queue = Relayed(TurnColour)
  /\ answer \in {None, "ok"}
  /\ answer = None => Made
  /\ answer = "ok" => Told

Reporting ==
  /\ game < Games /\ Limited
  /\ queue = <<PlayCommand("R", TurnColour)>>
  /\ answer \in {None, "ok"}
  /\ answer = None => Told
  /\ answer = "ok" => AllHeard(turns)

Closing ==
  /\ game < Games /\ Limited
  /\ queue = <<PlayCommand("R", TurnColour), Command("R", "final_score")>>
  /\ answer \in {None, "ok"}
  /\ answer = None => Made
  /\ answer = "ok" => Over

Scoring ==
  /\ game < Games /\ Limited
  /\ queue = <<Command("R", "final_score")>>
  /\ answer \in {None} \cup Score
  /\ Over

Quitting ==
  /\ game = Games
  /\ queue \in Seq([to : Program, what : {"quit"}])
  /\ answer \in {None, "ok"}

Types ==
  /\ TypeOK
  /\ turns \in Nat /\ game \in Nat
  /\ heard \in [Program -> Seq(Colour \X Nat)]

\* The games won, lost and drawn are those there were.
Tally ==
  /\ won \in Seq(Player \cup {None}) /\ Len(won) = game
  /\ wins = WonBy("A") /\ losses = WonBy("B") /\ draws = WonBy(None)

Waiting ==
  \/ Greeting \/ SettingUp \/ Asked \/ Relaying \/ Reporting
  \/ Closing \/ Scoring \/ Quitting

Inv ==
  /\ Types /\ Tally
  /\ status = "running" => Waiting
  /\ status \in {"reported", "failed"} =>
       game = Games /\ (status = "failed" <=> wins + losses = 0)

-----------------------------------------------------------------------------
(***************************************************************************)
(* Lemmas.                                                                 *)
(***************************************************************************)
LEMMA MaxTurns == max_turns \in Nat /\ max_turns % 2 = 0
<1>1. BOARD_SIZ * BOARD_SIZ \in Nat
  BY RefereeAssumption
<1>2. QED
  BY <1>1 DEF max_turns

\* Each colour is played by one of the players.
LEMMA TwoPlayers ==
  /\ \A c \in Colour : PlayerOf(c) \in Player
  /\ PlayerOf("black") # PlayerOf("white")
  /\ Player = {PlayerOf("black"), PlayerOf("white")}
BY DEF PlayerOf, Rival, Player, Colour

\* A turn more.
LEMMA OneMoreTurn ==
  ASSUME NEW n \in Nat \ {0}
  PROVE  Append(Turns(n - 1), <<IF n % 2 = 1 THEN "black" ELSE "white", n>>) = Turns(n)
BY DEF Turns

LEMMA NoTurns == Turns(0) = <<>>
BY DEF Turns

\* The rest of several commands.
LEMMA Rest ==
  ASSUME NEW E, NEW s \in Seq(E), Len(s) > 1
  PROVE  /\ Tail(s) \in Seq(E) /\ Tail(s) # <<>> /\ Len(Tail(s)) = Len(s) - 1
         /\ \A i \in 1..Len(Tail(s)) : Tail(s)[i] = s[i + 1]
<1>1. s # <<>> /\ Len(s) \in Nat
  OBVIOUS
<1>2. /\ Tail(s) \in Seq(E) /\ Len(Tail(s)) = Len(s) - 1
      /\ \A i \in 1..Len(Tail(s)) : Tail(s)[i] = s[i + 1]
  BY <1>1, HeadTailProperties
<1>3. Tail(s) # <<>>
  <2>1. Len(Tail(s)) # 0
    BY <1>2
  <2>2. QED
    <3>1. Len(<<>>) = 0
      OBVIOUS
    <3>2. QED
      BY <2>1, <3>1
<1> QED
  BY <1>2, <1>3

-----------------------------------------------------------------------------
(***************************************************************************)
(* The steps.                                                              *)
(***************************************************************************)
\* The invariant holds at first.
LEMMA InvInit == Init => Inv
<1> SUFFICES ASSUME Init PROVE Inv
  OBVIOUS
<1>1. queue \in Seq([to : Program, what : {"version"}]) /\ Len(queue) = 3
  BY DEF Init, Command, Program, Player
<1>2. Types
  <2>1. queue # <<>>
    BY <1>1
  <2>2. game \in 0..Games /\ turns \in 0..max_turns + 2
    BY MaxTurns, RefereeAssumption DEF Init
  <2>3. QED
    <3>1. heard \in [Program -> Seq(Colour \X Nat)]
      BY DEF Init
    <3>2. process \in [Program -> {"up", "exited", "quit"}]
      BY DEF Init
    <3>3. QED
      BY <2>1, <2>2, <3>1, <3>2 DEF Types, TypeOK, Init
<1>3. WonBy("A") = 0 /\ WonBy("B") = 0 /\ WonBy(None) = 0
  <2>1. ASSUME NEW p PROVE {i \in DOMAIN won : won[i] = p} = {}
    BY DEF Init
  <2>2. QED
    BY <2>1, FS_EmptySet DEF WonBy
<1>4. Tally
  BY <1>3 DEF Tally, Init
<1>5. Greeting
  BY <1>1 DEF Greeting, Init
<1> QED
  BY <1>2, <1>4, <1>5 DEF Inv, Waiting, Init

\* What a step changes that ends no game.
LEMMA TallyKept == ASSUME Tally, UNCHANGED match PROVE Tally'
BY DEF Tally, WonBy, match

\* The next command of several is sent.
LEMMA InvSendNext == ASSUME Inv, SendNext PROVE Inv'
<1> USE DEF Inv, Types
<1>1. /\ status = "running" /\ answer # None /\ Len(queue) > 1
      /\ queue' = Tail(queue) /\ answer' = None
      /\ UNCHANGED <<process, heard, game, turns, last_move_pass>>
      /\ status' \in {"running", "killed"}
      /\ UNCHANGED match
  BY DEF SendNext, Send, Read, match
<1>2. CASE Greeting
  <2>1. queue' \in Seq([to : Program, what : {"version"}]) /\ queue' # <<>>
    BY <1>1, <1>2, Rest DEF Greeting
  <2>2. Greeting'
    BY <1>1, <1>2, <2>1 DEF Greeting
  <2>3. QED
    BY <1>1, <2>1, <2>2, TallyKept, MaxTurns DEF Waiting, TypeOK, max_turns
<1>3. CASE SettingUp
  <2> DEFINE E == [to : Program, what : {"boardsize", "komi", "clear_board"}]
  <2>1. /\ queue' \in Seq(E) /\ queue' # <<>> /\ Len(queue') = Len(queue) - 1
        /\ \A i \in 1..Len(queue') : queue'[i] = queue[i + 1]
    BY <1>1, <1>3, Rest DEF SettingUp
  <2>2. ASSUME NEW p \in Program, heard[p] # <<>>
        PROVE  \E i \in DOMAIN queue' : queue'[i] = Command(p, "clear_board")
    <3>1. PICK i \in DOMAIN queue : queue[i] = Command(p, "clear_board") /\ i > 1
      BY <1>1, <1>3, <2>2 DEF SettingUp
    <3>2. i - 1 \in DOMAIN queue' /\ queue'[i - 1] = queue[i]
      BY <1>3, <2>1, <3>1, SMTT(30) DEF SettingUp
    <3>3. QED
      BY <3>1, <3>2
  <2>3. SettingUp'
    BY <1>1, <1>3, <2>1, <2>2 DEF SettingUp, Command
  <2>4. QED
    BY <1>1, <2>1, <2>3, TallyKept, MaxTurns DEF Waiting, TypeOK, max_turns
<1>4. CASE Relaying
  <2>1. queue' = <<PlayCommand("R", TurnColour)>>'
    BY <1>1, <1>4 DEF Relaying, Relayed, PlayCommand, TurnColour
  <2>2. Told'
    BY <1>1, <1>4 DEF Relaying, Told, Turns
  <2>3. Reporting'
    BY <1>1, <1>4, <2>1, <2>2 DEF Relaying, Reporting, Limited, max_turns
  <2>4. QED
    BY <1>1, <2>1, <2>3, TallyKept, MaxTurns DEF Waiting, TypeOK, max_turns
<1>5. CASE Closing
  <2>1. queue' = <<Command("R", "final_score")>>'
    BY <1>1, <1>5 DEF Closing, Command
  <2>2. Over'
    BY <1>1, <1>5 DEF Closing, Over, Turns
  <2>3. Scoring'
    BY <1>1, <1>5, <2>1, <2>2 DEF Closing, Scoring, Limited, max_turns
  <2>4. QED
    BY <1>1, <2>1, <2>3, TallyKept, MaxTurns DEF Waiting, TypeOK, max_turns
<1>6. CASE Quitting
  <2>1. queue' \in Seq([to : Program, what : {"quit"}]) /\ queue' # <<>>
    BY <1>1, <1>6, Rest DEF Quitting
  <2>2. Quitting'
    BY <1>1, <1>6, <2>1 DEF Quitting
  <2>3. QED
    BY <1>1, <2>1, <2>2, TallyKept, MaxTurns DEF Waiting, TypeOK, max_turns
<1>7. CASE Asked \/ Reporting \/ Scoring
  BY <1>1, <1>7 DEF Asked, Reporting, Scoring
<1> QED
  BY <1>1, <1>2, <1>3, <1>4, <1>5, <1>6, <1>7 DEF Waiting

\* A play more than the game up to the turn before.
LEMMA HeardMore ==
  ASSUME Types, turns > 0, NEW p \in Program, heard[p] = Turns(turns - 1)
  PROVE  Append(heard[p], <<TurnColour, turns>>) = Turns(turns)
<1>1. turns \in Nat \ {0}
  BY DEF Types
<1>2. QED
  BY <1>1, OneMoreTurn DEF TurnColour

\* A program answers.
LEMMA InvAnswer == ASSUME Inv, NEW p \in Program, Answer(p) PROVE Inv'
<1> USE DEF Inv, Types
<1>1. /\ status = "running" /\ answer = None /\ Head(queue).to = p
      /\ UNCHANGED <<status, queue, game, turns, last_move_pass>> /\ UNCHANGED match
  BY DEF Answer, match
<1>2. process' \in [Program -> {"up", "exited", "quit"}]
  BY DEF Answer, TypeOK
<1>3. ASSUME heard' \in [Program -> Seq(Colour \X Nat)], Waiting' PROVE Inv'
  BY <1>1, <1>2, <1>3, TallyKept, MaxTurns DEF TypeOK, max_turns
<1>4. CASE Greeting
  <2>1. Head(queue).what = "version"
    <3>1. Head(queue) \in [to : Program, what : {"version"}]
      BY <1>1, <1>4, HeadTailProperties DEF Greeting, TypeOK
    <3>2. QED
      BY <3>1
  <2>2. answer' = "ok" /\ heard' = heard
    BY <2>1 DEF Answer
  <2>3. Greeting'
    BY <1>1, <1>4, <2>2 DEF Greeting
  <2>4. QED
    BY <1>3, <2>2, <2>3 DEF Waiting
<1>5. CASE Quitting
  <2>1. Head(queue).what = "quit"
    <3>1. Head(queue) \in [to : Program, what : {"quit"}]
      BY <1>1, <1>5, HeadTailProperties DEF Quitting, TypeOK
    <3>2. QED
      BY <3>1
  <2>2. answer' = "ok" /\ heard' = heard
    BY <2>1 DEF Answer
  <2>3. Quitting'
    BY <1>1, <1>5, <2>2 DEF Quitting
  <2>4. QED
    BY <1>3, <2>2, <2>3 DEF Waiting
<1>6. CASE SettingUp
  <2>1. Head(queue) \in [to : Program, what : {"boardsize", "komi", "clear_board"}]
    BY <1>1, <1>6, HeadTailProperties DEF SettingUp, TypeOK
  <2>2. Head(queue) = queue[1] /\ DOMAIN queue = 1..Len(queue)
    BY <1>6 DEF SettingUp
  <2>3. /\ answer' = "ok"
        /\ heard' = IF Head(queue).what = "clear_board" THEN [heard EXCEPT ![p] = <<>>]
                    ELSE heard
    BY <2>1 DEF Answer
  <2>4. ASSUME NEW q \in Program, heard'[q] # <<>>
        PROVE  \E i \in DOMAIN queue : queue[i] = Command(q, "clear_board") /\ i > 1
    <3>1. heard[q] # <<>> /\ (Head(queue).what = "clear_board" => q # p)
      BY <2>3, <2>4
    <3>2. PICK i \in DOMAIN queue : queue[i] = Command(q, "clear_board")
      BY <1>6, <3>1 DEF SettingUp
    <3>3. i # 1
      BY <1>1, <2>2, <3>1, <3>2 DEF Command
    <3>4. QED
      BY <2>2, <3>2, <3>3
  <2>5. SettingUp'
    BY <1>1, <1>6, <2>3, <2>4 DEF SettingUp, Command
  <2>6. heard' \in [Program -> Seq(Colour \X Nat)]
    BY <2>3
  <2>7. QED
    BY <1>3, <2>5, <2>6 DEF Waiting
<1>7. CASE Asked
  <2>1. /\ p = Mover /\ Head(queue).what = "genmove" /\ Head(queue).colour = TurnColour
        /\ AllHeard(turns - 1) /\ turns > 0 /\ TurnColour \in Colour
    BY <1>1, <1>7 DEF Asked, Limited, TurnColour, Colour
  <2>2. /\ answer' \in {"play", "pass", "resign"}
        /\ heard' = IF answer' = "resign" THEN heard
                    ELSE [heard EXCEPT ![p] = Append(@, <<TurnColour, turns>>)]
    BY <2>1 DEF Answer
  <2>3. heard' \in [Program -> Seq(Colour \X Nat)]
    BY <2>1, <2>2
  <2>4. Append(heard[p], <<TurnColour, turns>>) = Turns(turns)
    BY <2>1, HeardMore DEF AllHeard
  <2>5. answer' \in {"play", "pass"} => Made'
    BY <1>1, <2>1, <2>2, <2>4 DEF Made, AllHeard, Mover, TurnColour, PlayerOf, Turns
  <2>6. Asked'
    BY <1>1, <1>7, <2>2, <2>5 DEF Asked, Limited, Mover, TurnColour, PlayerOf, max_turns, None
  <2>7. QED
    BY <1>3, <2>3, <2>6 DEF Waiting
<1>8. CASE Relaying
  <2>1. /\ Head(queue) = PlayCommand(PlayerOf(Other(TurnColour)), TurnColour)
        /\ Made /\ turns > 0 /\ TurnColour \in Colour
    BY <1>1, <1>8 DEF Relaying, Limited, TurnColour, Colour, Relayed
  <2>2. p \in Player /\ p # Mover /\ Player = {p, Mover}
    BY <1>1, <2>1, TwoPlayers DEF PlayCommand, Mover, Colour, Other
  <2>3. answer' = "ok" /\ heard' = [heard EXCEPT ![p] = Append(@, <<TurnColour, turns>>)]
    BY <2>1 DEF Answer, PlayCommand
  <2>4. Append(heard[p], <<TurnColour, turns>>) = Turns(turns)
    BY <2>1, <2>2, HeardMore DEF Made
  <2>5. heard' \in [Program -> Seq(Colour \X Nat)]
    BY <2>1, <2>3
  <2>6. Told'
    BY <1>1, <2>1, <2>2, <2>3, <2>4 DEF Told, Made, Turns, Program, Player
  <2>7. Relaying'
    BY <1>1, <1>8, <2>3, <2>6
       DEF Relaying, Limited, Relayed, PlayCommand, TurnColour, PlayerOf, max_turns, None
  <2>8. QED
    BY <1>3, <2>5, <2>7 DEF Waiting
<1>9. CASE Reporting \/ Closing
  <2>1. /\ Head(queue) = PlayCommand("R", TurnColour)
        /\ turns > 0 /\ TurnColour \in Colour /\ heard["R"] = Turns(turns - 1)
    BY <1>1, <1>9
       DEF Reporting, Closing, Limited, TurnColour, Colour, Told, Made, Mover, Program, Player,
           PlayerOf, Rival
  <2>2. p = "R"
    BY <1>1, <2>1 DEF PlayCommand
  <2>3. answer' = "ok" /\ heard' = [heard EXCEPT !["R"] = Append(@, <<TurnColour, turns>>)]
    BY <2>1, <2>2 DEF Answer, PlayCommand
  <2>4. Append(heard["R"], <<TurnColour, turns>>) = Turns(turns)
    BY <2>1, HeardMore DEF Program
  <2>5. heard' \in [Program -> Seq(Colour \X Nat)]
    BY <2>1, <2>3 DEF Program
  <2>6. heard' = [heard EXCEPT !["R"] = Turns(turns)]
    BY <2>3, <2>4
  <2>7. CASE Reporting
    <3>1. AllHeard(turns)'
      BY <1>1, <2>6, <2>7 DEF Reporting, Told, AllHeard, Turns, Program
    <3>2. Reporting'
      BY <1>1, <2>3, <2>7, <3>1 DEF Reporting, Limited, PlayCommand, TurnColour, max_turns, None
    <3>3. QED
      BY <1>3, <2>5, <3>2 DEF Waiting
  <2>8. CASE Closing
    <3>1. Over'
      BY <1>1, <2>6, <2>8 DEF Closing, Made, Over, Turns, Program, Player
    <3>2. Closing'
      BY <1>1, <2>3, <2>8, <3>1
         DEF Closing, Limited, PlayCommand, Command, TurnColour, max_turns, None
    <3>3. QED
      BY <1>3, <2>5, <3>2 DEF Waiting
  <2>9. QED
    BY <1>9, <2>7, <2>8
<1>10. CASE Scoring
  <2>1. Head(queue).what = "final_score"
    BY <1>10 DEF Scoring, Command
  <2>2. answer' \in Score /\ heard' = heard
    BY <2>1 DEF Answer
  <2>3. Scoring'
    BY <1>1, <1>10, <2>2 DEF Scoring, Limited, Command, Over, Turns, max_turns
  <2>4. QED
    BY <1>3, <2>2, <2>3 DEF Waiting
<1> QED
  BY <1>1, <1>4, <1>5, <1>6, <1>7, <1>8, <1>9, <1>10 DEF Waiting

\* A program exits.
LEMMA InvExit == ASSUME Inv, NEW p \in Program, Exit(p) PROVE Inv'
<1>1. /\ UNCHANGED <<status, queue, answer, game, turns, last_move_pass, heard>>
      /\ UNCHANGED match
  BY DEF Exit, match
<1>2. process' \in [Program -> {"up", "exited", "quit"}]
  BY DEF Exit, TypeOK, Inv, Types
<1>3. Types'
  BY <1>1, <1>2 DEF Inv, Types, TypeOK, max_turns
<1>4. Tally'
  BY <1>1, TallyKept DEF Inv
<1>5. Waiting' <=> Waiting
  BY <1>1 DEF Waiting, Greeting, SettingUp, Asked, Relaying, Reporting, Closing, Scoring,
     Quitting, Limited, Made, Told, Over, AllHeard, Mover, TurnColour, PlayerOf, Relayed,
     PlayCommand, Command, Turns, max_turns
<1> QED
  BY <1>1, <1>3, <1>4, <1>5 DEF Inv, match

LEMMA OneAfterTheOther ==
  ASSUME NEW E, NEW a \in Seq(E), NEW b \in Seq(E), NEW c \in Seq(E),
         Len(a) = 3, Len(b) = 3, Len(c) = 3
  PROVE  /\ a \o b \o c \in Seq(E) /\ Len(a \o b \o c) = 9
         /\ \A i \in 1..3 : (a \o b \o c)[i + 6] = c[i]
<1>1. a \o b \in Seq(E) /\ Len(a \o b) = Len(a) + Len(b)
  BY ConcatProperties
<1>2. Len(a \o b) = 6
  BY <1>1
<1>3. /\ a \o b \o c \in Seq(E) /\ Len(a \o b \o c) = Len(a \o b) + Len(c)
      /\ \A i \in 1 .. Len(a \o b) + Len(c) :
           (a \o b \o c)[i] = IF i <= Len(a \o b) THEN (a \o b)[i] ELSE c[i - Len(a \o b)]
  BY <1>1, ConcatProperties
<1>4. QED
  BY <1>2, <1>3

\* The commands before a game tell each program to clear its board.
LEMMA SetUpIsWhole == AllToClear(SetUp)
<1> DEFINE E == [to : Program, what : {"boardsize", "komi", "clear_board"}]
           b == PlayerOf("black")
           w == PlayerOf("white")
<1>1. b \in Player /\ w \in Player /\ Program = {b, w, "R"}
  BY TwoPlayers DEF Program, Colour
<1> HIDE DEF b, w
<1>2. ASSUME NEW what PROVE ToAll(what) = <<Command(b, what), Command(w, what), Command("R", what)>>
  BY DEF ToAll, b, w, Command
<1>3. ASSUME NEW what \in {"boardsize", "komi", "clear_board"}
      PROVE  ToAll(what) \in Seq(E) /\ Len(ToAll(what)) = 3
  <2>1. \A p \in Program : Command(p, what) \in E
    BY DEF Command
  <2>2. ToAll(what) = <<Command(b, what), Command(w, what), Command("R", what)>>
    BY <1>2
  <2> HIDE DEF E
  <2>3. QED
    BY <1>1, <2>1, <2>2
<1> HIDE DEF E
<1>4. /\ SetUp \in Seq(E) /\ Len(SetUp) = 9
      /\ \A i \in 1..3 : SetUp[i + 6] = ToAll("clear_board")[i]
  <2>1. /\ ToAll("boardsize") \in Seq(E) /\ Len(ToAll("boardsize")) = 3
        /\ ToAll("komi") \in Seq(E) /\ Len(ToAll("komi")) = 3
        /\ ToAll("clear_board") \in Seq(E) /\ Len(ToAll("clear_board")) = 3
    BY <1>3
  <2> DEFINE x == ToAll("boardsize")
             y == ToAll("komi")
             z == ToAll("clear_board")
  <2>2. SetUp = x \o y \o z
    BY DEF SetUp
  <2> HIDE DEF x, y, z
  <2>3. /\ x \o y \o z \in Seq(E) /\ Len(x \o y \o z) = 9
        /\ \A i \in 1..3 : (x \o y \o z)[i + 6] = z[i]
    <3>1. /\ x \in Seq(E) /\ y \in Seq(E) /\ z \in Seq(E)
          /\ Len(x) = 3 /\ Len(y) = 3 /\ Len(z) = 3
      BY <2>1 DEF x, y, z
    <3> QED
      BY <3>1, OneAfterTheOther, SMTT(30)
  <2>4. QED
    BY <2>2, <2>3 DEF z
<1>5. /\ SetUp[7] = Command(b, "clear_board") /\ SetUp[8] = Command(w, "clear_board")
      /\ SetUp[9] = Command("R", "clear_board")
  <2>1. /\ ToAll("clear_board")[1] = Command(b, "clear_board")
        /\ ToAll("clear_board")[2] = Command(w, "clear_board")
        /\ ToAll("clear_board")[3] = Command("R", "clear_board")
    BY <1>2
  <2>2. QED
    BY <1>4, <2>1
<1>6. 7 \in DOMAIN SetUp /\ 8 \in DOMAIN SetUp /\ 9 \in DOMAIN SetUp /\ SetUp # <<>>
  BY <1>4
<1> QED
  BY <1>1, <1>4, <1>5, <1>6 DEF E, AllToClear

\* The first game starts.
LEMMA InvStartGame == ASSUME Inv, StartGame PROVE Inv'
<1> USE DEF Inv, Types
<1>1. /\ status = "running" /\ answer # None /\ Head(queue).what = "version"
      /\ Len(queue) = 1
      /\ queue' = SetUp /\ answer' = None
      /\ UNCHANGED <<process, heard, game, turns, last_move_pass>> /\ UNCHANGED match
      /\ status' \in {"running", "killed"}
  BY DEF StartGame, LastRead, Read, Send, match
<1>2. Greeting
  <2>1. CASE SettingUp
    <3>1. Head(queue) \in [to : Program, what : {"boardsize", "komi", "clear_board"}]
      BY <1>1, <2>1, HeadTailProperties DEF SettingUp, TypeOK
    <3>2. QED
      BY <1>1, <3>1
  <2>2. CASE Quitting
    <3>1. Head(queue) \in [to : Program, what : {"quit"}]
      BY <1>1, <2>2, HeadTailProperties DEF Quitting, TypeOK
    <3>2. QED
      BY <1>1, <3>1
  <2>3. QED
    BY <1>1, <2>1, <2>2 DEF Waiting, Asked, Relaying, Reporting, Closing, Scoring, Relayed,
       PlayCommand, Command
<1>3. SettingUp'
  BY <1>1, <1>2, SetUpIsWhole, RefereeAssumption DEF Greeting, SettingUp, Command, AllToClear
<1> QED
  BY <1>1, <1>3, SetUpIsWhole, TallyKept, MaxTurns DEF Waiting, TypeOK, max_turns, AllToClear

\* What the referee may have asked when the command is the last one.
LEMMA Phase ==
  ASSUME Inv, NEW what, LastRead(what)
  PROVE  /\ what = "genmove" => Asked
         /\ what = "play" => Reporting
         /\ what = "clear_board" => SettingUp
         /\ what = "final_score" => Scoring
         /\ what = "quit" => Quitting
<1> USE DEF Inv, Types
<1>1. status = "running" /\ Head(queue).what = what /\ Len(queue) = 1 /\ queue # <<>>
  BY DEF LastRead, Read, TypeOK
<1>2. CASE Greeting
  <2>1. Head(queue) \in [to : Program, what : {"version"}]
    BY <1>1, <1>2, HeadTailProperties DEF Greeting
  <2>2. QED
    BY <1>1, <2>1
<1>3. CASE SettingUp
  <2>1. Head(queue) \in [to : Program, what : {"boardsize", "komi", "clear_board"}]
    BY <1>1, <1>3, HeadTailProperties DEF SettingUp
  <2>2. QED
    BY <1>1, <1>3, <2>1
<1>4. CASE Quitting
  <2>1. Head(queue) \in [to : Program, what : {"quit"}]
    BY <1>1, <1>4, HeadTailProperties DEF Quitting
  <2>2. QED
    BY <1>1, <1>4, <2>1
<1>5. CASE Asked
  BY <1>1, <1>5 DEF Asked
<1>6. CASE Relaying
  BY <1>1, <1>6 DEF Relaying, Relayed
<1>7. CASE Reporting
  BY <1>1, <1>7 DEF Reporting, PlayCommand
<1>8. CASE Closing
  BY <1>1, <1>8 DEF Closing
<1>9. CASE Scoring
  BY <1>1, <1>9 DEF Scoring, Command
<1> QED
  BY <1>1, <1>2, <1>3, <1>4, <1>5, <1>6, <1>7, <1>8, <1>9 DEF Waiting

\* The first turn of a game: every program has cleared its board.
LEMMA InvFirstTurn == ASSUME Inv, FirstTurn PROVE Inv'
<1> USE DEF Inv, Types
<1>1. /\ LastRead("clear_board") /\ answer # None /\ Len(queue) = 1
      /\ turns' = 1 /\ last_move_pass' = FALSE
      /\ queue' = <<[to |-> PlayerOf("black"), what |-> "genmove", colour |-> "black"]>>
      /\ answer' = None /\ status' \in {"running", "killed"}
      /\ UNCHANGED <<process, heard, game>> /\ UNCHANGED match
  BY DEF FirstTurn, LastRead, Read, Send, match
<1>2. SettingUp
  BY <1>1, Phase
<1>3. \A p \in Program : heard[p] = <<>>
  BY <1>1, <1>2 DEF SettingUp
<1>4. AllHeard(turns - 1)'
  BY <1>1, <1>3, NoTurns DEF AllHeard, Turns
<1>5. Limited'
  BY <1>1, MaxTurns DEF Limited, max_turns
<1>6. Asked'
  BY <1>1, <1>2, <1>4, <1>5 DEF Asked, SettingUp, Mover, TurnColour, PlayerOf, None
<1>7. TypeOK'
  <2>1. queue' # <<>> /\ turns' \in 0..max_turns' + 2
    BY <1>1, MaxTurns DEF max_turns
  <2>2. QED
    BY <1>1, <2>1 DEF TypeOK
<1> QED
  BY <1>1, <1>6, <1>7, TallyKept DEF Waiting

\* The next turn, or the score of a game that is too long.
LEMMA InvNextTurn == ASSUME Inv, NextTurn PROVE Inv'
<1> USE DEF Inv, Types
<1>1. /\ LastRead("play") /\ answer # None /\ Len(queue) = 1
      /\ UNCHANGED <<process, heard, game, last_move_pass>> /\ UNCHANGED match
      /\ answer' = None /\ status' \in {"running", "killed"}
  BY DEF NextTurn, LastRead, Read, Generate, BlackTurn, Send, match
<1>2. Reporting
  BY <1>1, Phase
<1>3. Limited /\ AllHeard(turns) /\ game < Games /\ Head(queue).colour = TurnColour
  BY <1>1, <1>2 DEF Reporting, PlayCommand
<1>4. /\ turns' \in Nat /\ queue' # <<>> /\ turns' \in 0..max_turns' + 2
      /\ Asked' \/ Scoring'
  <2>1. ASSUME NEW c \in Colour, Generate(c), c = TurnColour', turns + 1 <= max_turns + 2,
               c = "black" => turns + 1 <= max_turns + 1
        PROVE  /\ turns' \in Nat /\ queue' # <<>> /\ turns' \in 0..max_turns' + 2
               /\ Asked'
    <3>1. turns' = turns + 1 /\ queue' = <<[to |-> PlayerOf(c), what |-> "genmove", colour |-> c]>>
      BY <2>1 DEF Generate, Send
    <3>2. AllHeard(turns - 1)'
      BY <1>1, <1>3, <3>1 DEF AllHeard, Turns
    <3>3. Limited'
      BY <1>3, <2>1, <3>1, MaxTurns DEF Limited, TurnColour, max_turns
    <3>4. Asked'
      BY <1>1, <1>3, <2>1, <3>1, <3>2, <3>3 DEF Asked, Mover, PlayerOf, None
    <3>5. QED
      BY <2>1, <3>1, <3>4, MaxTurns DEF max_turns
  <2>2. CASE TurnColour = "black"
    <3>1. Generate("white")
      BY <1>3, <2>2 DEF NextTurn
    <3>2. turns % 2 = 1 /\ turns' = turns + 1 /\ turns <= max_turns + 1
      BY <1>3, <2>2, <3>1 DEF TurnColour, Limited, Generate
    <3>3. TurnColour' = "white"
      BY <3>2 DEF TurnColour
    <3>4. turns + 1 <= max_turns + 2
      BY <3>2, MaxTurns
    <3>5. QED
      BY <2>1, <3>1, <3>3, <3>4 DEF Colour
  <2>3. CASE TurnColour # "black" /\ ~Late
    <3>1. Generate("black")
      BY <1>3, <2>3 DEF NextTurn, BlackTurn
    <3>2. turns % 2 # 1 /\ turns' = turns + 1 /\ turns <= max_turns
      BY <2>3, <3>1, MaxTurns DEF TurnColour, Late, Generate
    <3>3. TurnColour' = "black"
      BY <3>2 DEF TurnColour
    <3>4. turns + 1 <= max_turns + 2 /\ turns + 1 <= max_turns + 1
      BY <3>2, MaxTurns
    <3>5. QED
      BY <2>1, <3>1, <3>3, <3>4 DEF Colour
  <2>4. CASE TurnColour # "black" /\ Late
    <3>1. queue' = <<Command("R", "final_score")>> /\ turns' = turns
      BY <1>3, <2>4 DEF NextTurn, BlackTurn, Send
    <3>2. Over'
      BY <1>1, <1>3, <3>1 DEF Over, AllHeard, Turns, Program
    <3>3. Scoring'
      BY <1>1, <1>3, <3>1, <3>2 DEF Scoring, Limited, Command, max_turns
    <3>4. QED
      BY <1>3, <3>1, <3>3, MaxTurns DEF Limited, max_turns
  <2>5. QED
    BY <2>2, <2>3, <2>4
<1>5. TypeOK'
  BY <1>1, <1>4 DEF TypeOK
<1> QED
  BY <1>1, <1>4, <1>5, TallyKept DEF Waiting

\* A pass that ends the game: only the program that scores is told.
LEMMA InvSecondPass == ASSUME Inv, SecondPass PROVE Inv'
<1> USE DEF Inv, Types
<1>1. /\ LastRead("genmove") /\ answer = "pass" /\ Len(queue) = 1
      /\ UNCHANGED <<process, heard, game, turns, last_move_pass>> /\ UNCHANGED match
      /\ answer' = None /\ status' \in {"running", "killed"}
      /\ queue' = <<PlayCommand("R", Head(queue).colour), Command("R", "final_score")>>
  BY DEF SecondPass, LastRead, Read, Send, match
<1>2. Asked
  BY <1>1, Phase
<1>3. Limited /\ Made /\ game < Games /\ Head(queue).colour = TurnColour
  BY <1>1, <1>2 DEF Asked, None
<1>4. Made'
  BY <1>1, <1>3 DEF Made, Mover, TurnColour, PlayerOf, Turns
<1>5. Closing'
  BY <1>1, <1>3, <1>4
     DEF Closing, Limited, TurnColour, PlayCommand, Command, max_turns, None
<1>6. TypeOK'
  BY <1>1, MaxTurns DEF TypeOK, max_turns
<1> QED
  BY <1>1, <1>5, <1>6, TallyKept DEF Waiting

\* The programs that did not make it are told of a play.
LEMMA InvRelay == ASSUME Inv, Relay PROVE Inv'
<1> USE DEF Inv, Types
<1>1. /\ LastRead("genmove") /\ answer \in {"play", "pass"} /\ Len(queue) = 1
      /\ UNCHANGED <<process, heard, game, turns>> /\ UNCHANGED match
      /\ last_move_pass' \in BOOLEAN
      /\ answer' = None /\ status' \in {"running", "killed"}
      /\ queue' = Relayed(Head(queue).colour)
  BY DEF Relay, LastRead, Read, Send, match
<1>2. Asked
  BY <1>1, Phase
<1>3. Limited /\ Made /\ game < Games /\ Head(queue).colour = TurnColour
  BY <1>1, <1>2 DEF Asked, None
<1>4. Made'
  BY <1>1, <1>3 DEF Made, Mover, TurnColour, PlayerOf, Turns
<1>5. Relaying'
  BY <1>1, <1>3, <1>4
     DEF Relaying, Relayed, Limited, TurnColour, PlayerOf, PlayCommand, max_turns, None
<1>6. TypeOK'
  BY <1>1, <1>3, MaxTurns DEF TypeOK, Relayed, max_turns
<1> QED
  BY <1>1, <1>5, <1>6, TallyKept DEF Waiting

\* How often p is in s.
Count(s, p) == Cardinality({i \in DOMAIN s : s[i] = p})

\* A game more is counted for the player that won it.
LEMMA OneMoreWon ==
  ASSUME NEW s \in Seq(Player \cup {None}), NEW w \in Player \cup {None}, NEW p
  PROVE  Count(Append(s, w), p) = Count(s, p) + (IF w = p THEN 1 ELSE 0)
<1> DEFINE S == {i \in DOMAIN s : s[i] = p}
           T == {i \in DOMAIN Append(s, w) : Append(s, w)[i] = p}
<1>1. /\ Len(s) \in Nat /\ DOMAIN s = 1..Len(s) /\ DOMAIN Append(s, w) = 1..Len(s) + 1
      /\ Append(s, w)[Len(s) + 1] = w /\ \A i \in 1..Len(s) : Append(s, w)[i] = s[i]
  OBVIOUS
<1>2. IsFiniteSet(S)
  <2>1. IsFiniteSet(1..Len(s)) /\ S \subseteq 1..Len(s)
    BY <1>1, FS_Interval
  <2>2. QED
    BY <2>1, FS_Subset
<1>3. CASE w = p
  <2>1. T = S \cup {Len(s) + 1} /\ Len(s) + 1 \notin S
    BY <1>1, <1>3
  <2>2. QED
    BY <1>2, <1>3, <2>1, FS_AddElement DEF Count
<1>4. CASE w # p
  <2>1. T = S
    BY <1>1, <1>4
  <2>2. Cardinality(S) \in Nat
    BY <1>2, FS_CardinalityType
  <2>3. Cardinality(T) = Cardinality(S)
    BY <2>1
  <2> HIDE DEF S, T
  <2>4. Cardinality(T) = Cardinality(S) + 0
    BY <2>2, <2>3
  <2>5. QED
    BY <1>4, <2>4 DEF S, T, Count
<1> QED
  BY <1>3, <1>4

\* A game ends.
LEMMA InvEnded ==
  ASSUME Inv, NEW what, LastRead(what), game < Games, NEW outcome \in Score, Ended(outcome)
  PROVE  Inv'
<1> USE DEF Inv, Types
<1>1. /\ game' = game + 1 /\ UNCHANGED <<heard, process, turns, last_move_pass>>
      /\ answer' = None /\ status' \in {"running", "killed"}
      /\ queue' = IF game + 1 < Games THEN SetUp' ELSE Quit
  BY DEF Ended, Send
<1>2. game \in Nat /\ Games \in Nat /\ game' \in Nat /\ game' \in 0..Games
  BY <1>1, RefereeAssumption
<1>3. Tally'
  <2> DEFINE w == IF outcome = "draw" THEN None ELSE PlayerOf(outcome)
  <2>1. won' = Append(won, w) /\ won \in Seq(Player \cup {None}) /\ Len(won) = game
    BY DEF Ended, Tally
  <2>2. w \in Player \cup {None}
    BY TwoPlayers DEF Score, Colour
  <2>3. ASSUME NEW p PROVE WonBy(p)' = WonBy(p) + (IF w = p THEN 1 ELSE 0)
    <3> HIDE DEF w
    <3>1. Count(Append(won, w), p) = Count(won, p) + (IF w = p THEN 1 ELSE 0)
      BY <2>1, <2>2, OneMoreWon
    <3>2. QED
      BY <2>1, <3>1 DEF WonBy, Count
  <2>4. \/ outcome \in Colour /\ PlayerOf(outcome) = "A" /\ w = "A"
        \/ outcome \in Colour /\ PlayerOf(outcome) = "B" /\ w = "B"
        \/ outcome = "draw" /\ outcome \notin Colour /\ w = None
    <3>1. CASE outcome = "draw"
      BY <3>1 DEF Colour
    <3>2. CASE outcome \in Colour
      <4>1. PlayerOf(outcome) \in Player /\ w = PlayerOf(outcome)
        BY <3>2, TwoPlayers DEF Colour
      <4> HIDE DEF w
      <4>2. QED
        BY <3>2, <4>1 DEF Player
    <3>3. QED
      BY <3>1, <3>2 DEF Score
  <2>5. \A p : WonBy(p) \in Nat
    <3>1. ASSUME NEW p PROVE IsFiniteSet({i \in DOMAIN won : won[i] = p})
      <4>1. IsFiniteSet(1..Len(won)) /\ {i \in DOMAIN won : won[i] = p} \subseteq 1..Len(won)
        BY <2>1, FS_Interval
      <4>2. QED
        BY <4>1, FS_Subset
    <3>2. QED
      BY <3>1, FS_CardinalityType DEF WonBy
  <2>6. /\ WonBy("A")' = WonBy("A") + (IF w = "A" THEN 1 ELSE 0)
        /\ WonBy("B")' = WonBy("B") + (IF w = "B" THEN 1 ELSE 0)
        /\ WonBy(None)' = WonBy(None) + (IF w = None THEN 1 ELSE 0)
    BY <2>3
  <2>7. won' \in Seq(Player \cup {None}) /\ Len(won') = game'
    BY <1>1, <2>1, <2>2
  <2> HIDE DEF w
  <2>8. wins' = WonBy("A")' /\ losses' = WonBy("B")' /\ draws' = WonBy(None)'
    <3>1. /\ wins' = IF w = "A" THEN wins + 1 ELSE wins
          /\ losses' = IF w = "B" THEN losses + 1 ELSE losses
          /\ draws' = IF w = None THEN draws + 1 ELSE draws
      BY <2>4 DEF Ended, WinsA, None, Colour
    <3>2. wins = WonBy("A") /\ losses = WonBy("B") /\ draws = WonBy(None)
      BY DEF Tally
    <3>3. WonBy("A") \in Nat /\ WonBy("B") \in Nat /\ WonBy(None) \in Nat
      BY <2>5
    <3>4. QED
      BY <2>6, <3>1, <3>2, <3>3
  <2>9. QED
    BY <2>7, <2>8 DEF Tally
<1>4. CASE game + 1 < Games
  <2>1. AllToClear(SetUp)'
    BY SetUpIsWhole, PTL
  <2>2. SettingUp'
    BY <1>1, <1>4, <2>1 DEF SettingUp, Command, AllToClear
  <2>3. TypeOK'
    BY <1>1, <1>2, <1>4, <2>1 DEF TypeOK, max_turns, AllToClear
  <2>4. QED
    BY <1>1, <1>2, <1>3, <2>2, <2>3 DEF Waiting
<1>5. CASE ~(game + 1 < Games)
  <2>1. Quit \in Seq([to : Program, what : {"quit"}]) /\ Quit # <<>>
    BY DEF Quit, Command, Program, Player
  <2>2. Quitting'
    BY <1>1, <1>2, <1>5, <2>1 DEF Quitting
  <2>3. TypeOK'
    BY <1>1, <1>2, <1>5, <2>1 DEF TypeOK, max_turns
  <2>4. QED
    BY <1>1, <1>2, <1>3, <2>2, <2>3 DEF Waiting
<1> QED
  BY <1>4, <1>5

LEMMA InvResigned == ASSUME Inv, Resigned PROVE Inv'
<1>1. LastRead("genmove") /\ Ended(Other(Head(queue).colour))
  BY DEF Resigned
<1>2. game < Games /\ Head(queue).colour = TurnColour
  BY <1>1, Phase DEF Asked
<1>3. Other(Head(queue).colour) \in Score
  BY <1>2 DEF Other, TurnColour, Score, Colour
<1> QED
  BY <1>1, <1>2, <1>3, InvEnded

LEMMA InvScored == ASSUME Inv, Scored PROVE Inv'
<1>1. LastRead("final_score") /\ Ended(answer) /\ answer # None
  BY DEF Scored, LastRead, Read
<1>2. game < Games /\ answer \in Score
  BY <1>1, Phase DEF Scoring
<1> QED
  BY <1>1, <1>2, InvEnded

\* The match is reported.
LEMMA InvReport == ASSUME Inv, Report PROVE Inv'
<1>1. /\ LastRead("quit") /\ UNCHANGED <<process, heard, game, turns, last_move_pass, wins, losses>>
      /\ UNCHANGED match
      /\ status' = IF wins + losses > 0 THEN "reported" ELSE "failed"
  BY DEF Report, match
<1>2. game = Games
  BY <1>1, Phase DEF Quitting
<1>3. wins \in Nat /\ losses \in Nat
  <2>1. won \in Seq(Player \cup {None}) /\ wins = WonBy("A") /\ losses = WonBy("B")
    BY DEF Inv, Tally
  <2>2. ASSUME NEW p PROVE WonBy(p) \in Nat
    <3>1. IsFiniteSet(1..Len(won)) /\ {i \in DOMAIN won : won[i] = p} \subseteq 1..Len(won)
      BY <2>1, FS_Interval
    <3>2. QED
      BY <3>1, FS_Subset, FS_CardinalityType DEF WonBy
  <2>3. QED
    BY <2>1, <2>2
<1>4. wins + losses > 0 <=> wins + losses # 0
  BY <1>3
<1>5. Types'
  BY <1>1 DEF Inv, Types, TypeOK, max_turns
<1>6. Tally'
  BY <1>1, TallyKept DEF Inv
<1> QED
  BY <1>1, <1>2, <1>4, <1>5, <1>6 DEF Inv

-----------------------------------------------------------------------------
(***************************************************************************)
(* Theorems.                                                               *)
(***************************************************************************)
THEOREM InvAlways == Spec => []Inv
<1>1. Init => Inv
  BY InvInit
<1>2. Inv /\ [Next]_vars => Inv'
  <2> SUFFICES ASSUME Inv, [Next]_vars PROVE Inv'
    OBVIOUS
  <2>1. CASE SendNext
    BY <2>1, InvSendNext
  <2>2. CASE StartGame
    BY <2>2, InvStartGame
  <2>3. CASE FirstTurn
    BY <2>3, InvFirstTurn
  <2>4. CASE NextTurn
    BY <2>4, InvNextTurn
  <2>5. CASE SecondPass
    BY <2>5, InvSecondPass
  <2>6. CASE Relay
    BY <2>6, InvRelay
  <2>7. CASE Resigned
    BY <2>7, InvResigned
  <2>8. CASE Scored
    BY <2>8, InvScored
  <2>9. CASE Report
    BY <2>9, InvReport
  <2>10. ASSUME NEW p \in Program, Answer(p) PROVE Inv'
    BY <2>10, InvAnswer
  <2>11. ASSUME NEW p \in Program, Exit(p) PROVE Inv'
    BY <2>11, InvExit
  <2>12. CASE UNCHANGED vars
    <3>1. UNCHANGED <<status, queue, answer, game, wins, draws, losses, won, turns,
                      last_move_pass, process, heard>>
      BY <2>12 DEF vars, match
    <3>2. Types' /\ Tally'
      BY <3>1 DEF Inv, Types, TypeOK, Tally, WonBy, max_turns
    <3>3. Waiting' <=> Waiting
      BY <3>1 DEF Waiting, Greeting, SettingUp, Asked, Relaying, Reporting, Closing, Scoring,
         Quitting, Limited, Made, Told, Over, AllHeard, Mover, TurnColour, PlayerOf, Relayed,
         PlayCommand, Command, Turns, max_turns
    <3>4. QED
      BY <3>1, <3>2, <3>3 DEF Inv
  <2>13. QED
    BY <2>1, <2>2, <2>3, <2>4, <2>5, <2>6, <2>7, <2>8, <2>9, <2>10, <2>11, <2>12 DEF Next, Step
<1> QED
  BY <1>1, <1>2, PTL DEF Spec

\* The types of the referee's state; no game goes on for more than two turns beyond the
\* limit that its loop tests on the turns of black alone.
THEOREM TypeCorrect == Spec => []TypeOK
<1>1. Inv => TypeOK
  BY DEF Inv, Types
<1> QED
  BY <1>1, InvAlways, PTL

\* The programs have heard the same game when one is asked for a play, and the program
\* that scores knows the game whole, in any match, whoever exits, whatever they answer.
THEOREM GameIsTheSame == Spec => []SameGame
<1>1. Inv => SameGame
  <2> SUFFICES ASSUME Inv, status = "running", answer = None
               PROVE  /\ Head(queue).what = "genmove" => AllHeard(turns - 1)
                      /\ Head(queue).what = "final_score" => Over
    BY DEF SameGame, AllHeard, Over
  <2>1. CASE Greeting
    <3>1. Head(queue) \in [to : Program, what : {"version"}]
      BY <2>1, HeadTailProperties DEF Greeting, Inv, Types, TypeOK
    <3>2. QED
      BY <3>1
  <2>2. CASE SettingUp
    <3>1. Head(queue) \in [to : Program, what : {"boardsize", "komi", "clear_board"}]
      BY <2>2, HeadTailProperties DEF SettingUp, Inv, Types, TypeOK
    <3>2. QED
      BY <3>1
  <2>3. CASE Quitting
    <3>1. Head(queue) \in [to : Program, what : {"quit"}]
      BY <2>3, HeadTailProperties DEF Quitting, Inv, Types, TypeOK
    <3>2. QED
      BY <3>1
  <2>4. CASE Asked
    BY <2>4 DEF Asked
  <2>5. CASE Relaying
    BY <2>5 DEF Relaying, Relayed, PlayCommand
  <2>6. CASE Reporting
    BY <2>6 DEF Reporting, PlayCommand
  <2>7. CASE Closing
    BY <2>7 DEF Closing, PlayCommand
  <2>8. CASE Scoring
    BY <2>8 DEF Scoring, Command
  <2>9. QED
    BY <2>1, <2>2, <2>3, <2>4, <2>5, <2>6, <2>7, <2>8 DEF Inv, Waiting
<1> QED
  BY <1>1, InvAlways, PTL

\* Each game was won by one player or by none.
LEMMA AllAreCounted ==
  ASSUME Inv
  PROVE  /\ wins \in Nat /\ losses \in Nat /\ draws \in Nat
         /\ wins + losses + draws = game
<1> DEFINE W(p) == {i \in DOMAIN won : won[i] = p}
<1>1. /\ won \in Seq(Player \cup {None}) /\ Len(won) = game /\ game \in Nat
      /\ DOMAIN won = 1..game
  BY DEF Inv, Tally, Types
<1>2. \A p : IsFiniteSet(W(p))
  <2>1. IsFiniteSet(1..game)
    BY <1>1, FS_Interval
  <2>2. \A p : W(p) \subseteq 1..game
    BY <1>1
  <2>3. QED
    BY <2>1, <2>2, FS_Subset
<1>3. \A p : Cardinality(W(p)) \in Nat
  BY <1>2, FS_CardinalityType
<1>4. /\ W("A") \cap W("B") = {} /\ (W("A") \cup W("B")) \cap W(None) = {}
      /\ (W("A") \cup W("B")) \cup W(None) = 1..game
  BY <1>1 DEF Player, None
<1>5. IsFiniteSet(W("A") \cup W("B"))
  BY <1>2, FS_Union
<1>6. Cardinality(1..game) = game
  BY <1>1, FS_Interval
<1> HIDE DEF W
<1>7. /\ Cardinality(W("A") \cup W("B")) = Cardinality(W("A")) + Cardinality(W("B"))
      /\ Cardinality((W("A") \cup W("B")) \cup W(None))
           = Cardinality(W("A") \cup W("B")) + Cardinality(W(None))
  <2>1. Cardinality({}) = 0
    BY FS_EmptySet
  <2>2. /\ Cardinality(W("A") \cup W("B"))
             = Cardinality(W("A")) + Cardinality(W("B")) - Cardinality(W("A") \cap W("B"))
        /\ Cardinality((W("A") \cup W("B")) \cup W(None))
             = Cardinality(W("A") \cup W("B")) + Cardinality(W(None))
                 - Cardinality((W("A") \cup W("B")) \cap W(None))
    BY <1>2, <1>5, FS_Union
  <2>3. Cardinality(W("A") \cup W("B")) \in Nat
    BY <1>5, FS_CardinalityType
  <2>4. QED
    BY <1>3, <1>4, <2>1, <2>2, <2>3
<1>8. /\ wins = Cardinality(W("A")) /\ losses = Cardinality(W("B"))
      /\ draws = Cardinality(W(None))
  BY DEF Inv, Tally, WonBy, W
<1> QED
  BY <1>3, <1>4, <1>6, <1>7, <1>8

\* What a report of the match says.
ReportIsRight ==
  status \in {"reported", "failed"} =>
    /\ Len(won) = Games
    /\ wins = WonBy("A") /\ losses = WonBy("B") /\ draws = WonBy(None)
    /\ wins + losses + draws = Games
    /\ (status = "failed") = (draws = Games)

\* The report comes after the last game; it counts as wins what program A won, whatever
\* its colour was, as losses what B won, each game once, and it fails just when no game
\* was won.
THEOREM ReportOfTheMatch == Spec => []ReportIsRight
<1>1. Inv => ReportIsRight
  <2> SUFFICES ASSUME Inv, status \in {"reported", "failed"} PROVE ReportIsRight
    BY DEF ReportIsRight
  <2>1. game = Games /\ (status = "failed" <=> wins + losses = 0) /\ Tally
    BY DEF Inv
  <2>2. /\ wins \in Nat /\ losses \in Nat /\ draws \in Nat
        /\ wins + losses + draws = Games
    BY <2>1, AllAreCounted
  <2>3. (wins + losses = 0) <=> (draws = Games)
    BY <2>2
  <2>4. (status = "failed") = (draws = Games)
    BY <2>1, <2>3
  <2>5. QED
    BY <2>1, <2>2, <2>4 DEF ReportIsRight, Tally
<1> QED
  BY <1>1, InvAlways, PTL
=============================================================================
