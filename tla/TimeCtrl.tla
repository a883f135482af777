------------------------------ MODULE TimeCtrl ------------------------------
(***************************************************************************)
(* The clocks of matilda (src/src/time_ctrl.c), with the GTP commands that *)
(* set, charge and reset them (src/src/main/gtp.c).  A clock is composite  *)
(* overtime: a main time, then periods of byo-yomi time, in each of which  *)
(* a number of stones must be played.                                      *)
(*                                                                         *)
(* The fields are unsigned and wrap.  advance_clock charges a play in a    *)
(* loop; one of its rounds is one step here, and no command is handled     *)
(* while the loop is at work.  Commands that change no clock are left out: *)
(* those refused for their syntax or by time_system_overriden, and plays   *)
(* asked for when the number of simulations is fixed.                      *)
(***************************************************************************)
EXTENDS Integers

CONSTANTS
  Colour,          \* the players, with a clock each
  UintMod,         \* 2 ^ width of the fields, which are u32
  Second,          \* milliseconds of a second
  DefaultTime,     \* DEFAULT_TIME_PER_TURN
  MinTime,         \* the least time to play, 50
  Latency,         \* LATENCY_COMPENSATION
  GameLength,      \* EXPECTED_GAME_LENGTH
  BoardSize,       \* BOARD_SIZ
  FactorNum, FactorDen,  \* TIME_ALLOT_FACTOR is FactorNum / FactorDen
  None,
  Seconds,         \* bound: the times commands give, in seconds
  LeftSeconds,     \* bound: those time_left gives
  Counts,          \* bound: the stones and periods commands give
  Stones,          \* bound: the stones on the board when a play is asked for
  Elapsed          \* bound: milliseconds that plays take

ASSUME WidthAssumption ==
  /\ UintMod \in Nat /\ UintMod > 1
  /\ Second \in Nat /\ Second > 0
  /\ DefaultTime \in 1..(UintMod - 1)
  /\ None \notin Colour
ASSUME AllotAssumption ==
  /\ MinTime \in Nat /\ Latency \in Nat /\ GameLength \in Nat
  /\ BoardSize \in Nat /\ FactorNum \in Nat /\ FactorDen \in Nat
  /\ BoardSize > 0 /\ FactorDen > 0 /\ FactorNum <= FactorDen * BoardSize
ASSUME InputAssumption ==
  /\ Seconds \subseteq Nat /\ LeftSeconds \subseteq Nat /\ Stones \subseteq Nat
  /\ Counts \subseteq 0..(UintMod - 1) /\ Elapsed \subseteq Nat

VARIABLES
  clock,                  \* current_clock_black and current_clock_white
  time_system_overriden,
  charged,                \* the player whose clock advance_clock advances
  milliseconds,           \* what is left to charge
  consumed_byo_yomi_stone,
  on_time                 \* history: the play took less than its time

loopVars == <<charged, milliseconds, consumed_byo_yomi_stone>>
vars == <<clock, time_system_overriden, loopVars, on_time>>

-----------------------------------------------------------------------------
Uint == 0..(UintMod - 1)

Least(a, b) == IF a < b THEN a ELSE b

Greatest(a, b) == IF a < b THEN b ELSE a

\* A field's -- operator.
DecrementNoWrap(n) == n - 1

Decrement(n) == (n - 1) % UintMod

set_time_system(main, byo, stones, periods) ==
  [can_timeout |-> TRUE, timed_out |-> FALSE,
   main_time        |-> main,    main_time_remaining        |-> main,
   byo_yomi_time    |-> byo,     byo_yomi_time_remaining    |-> byo,
   byo_yomi_stones  |-> stones,  byo_yomi_stones_remaining  |-> stones,
   byo_yomi_periods |-> periods, byo_yomi_periods_remaining |-> periods]

set_time_per_turn(t) ==
  [set_time_system(0, t, 1, 1) EXCEPT !.can_timeout = FALSE]

reset_clock(x) ==
  [x EXCEPT !.timed_out = FALSE,
            !.main_time_remaining = x.main_time,
            !.byo_yomi_time_remaining = x.byo_yomi_time,
            !.byo_yomi_stones_remaining = x.byo_yomi_stones,
            !.byo_yomi_periods_remaining = x.byo_yomi_periods]

\* The times that fit their fields; what does not is a syntax error.
Millis == {s * Second : s \in {r \in Seconds : r * Second < UintMod}}

\* The systems of the flag --time: str_to_time_system, then set_time_system,
\* which sets can_timeout whatever the system.
FlagSystems ==
  {set_time_system(m, 0, 1, 1) : m \in Millis \ {0}}
    \cup {set_time_system(m, b, s, p) :
            m \in Millis, b \in Millis \ {0}, s \in Counts \ {0}, p \in Counts}
    \cup {set_time_system(0, 1, 0, 1)}

Init ==
  /\ \E x \in FlagSystems \cup {set_time_per_turn(DefaultTime)} :
        clock = [c \in Colour |-> x]
  /\ time_system_overriden \in BOOLEAN
  /\ charged = None
  /\ milliseconds = 0
  /\ consumed_byo_yomi_stone = FALSE
  /\ on_time = FALSE

-----------------------------------------------------------------------------
\* No time limits, for calc_time_to_play: it answers UINT32_MAX.
NoLimit(x) == x.byo_yomi_time > 0 /\ x.byo_yomi_stones = 0

\* The quotients of doubles are truncated at the end: a maximum and the latency,
\* an integer, commute with that.
MainShare(x, stones) ==
  (x.main_time_remaining * 2 * FactorNum)
    \div (FactorDen * Greatest(GameLength - stones, 2 * BoardSize))

WholePeriod(x) == x.byo_yomi_time_remaining + 1

ByoYomiShare(x) ==
  IF x.byo_yomi_stones_remaining = 0 THEN 0
  ELSE x.byo_yomi_time_remaining \div x.byo_yomi_stones_remaining

calc_time_to_play(x, stones) ==
  IF NoLimit(x) THEN UintMod - 1
  ELSE Greatest(Greatest(MainShare(x, stones), ByoYomiShare(x)) - Latency, MinTime)

-----------------------------------------------------------------------------
(***************************************************************************)
(* advance_clock.                                                          *)
(***************************************************************************)
RefilledStones(x) == [x EXCEPT !.byo_yomi_stones_remaining = x.byo_yomi_stones]

\* A period's stones and time, for a new period.
Refilled(x) ==
  [x EXCEPT !.byo_yomi_stones_remaining = x.byo_yomi_stones,
            !.byo_yomi_time_remaining = x.byo_yomi_time]

\* The period's stones have all been played in its time: it starts again.
NoRefill(x, left, stones) == FALSE

PeriodPlayed(x, left, stones) == left > 0 /\ stones = 0

\* The period's time has run out, and it was the last one.
LastPeriod(x, left) == left = 0 /\ Decrement(x.byo_yomi_periods_remaining) = 0

\* The clock x once t of the period and, if not consumed yet, a stone are spent.
\* A period that has run out is replaced, if there is another.
SpendByoYomi(x, t) ==
  LET left   == x.byo_yomi_time_remaining - t
      stones == IF consumed_byo_yomi_stone THEN x.byo_yomi_stones_remaining
                ELSE Decrement(x.byo_yomi_stones_remaining)
      spent  == [x EXCEPT !.byo_yomi_time_remaining = left,
                          !.byo_yomi_stones_remaining = stones]
      period == Decrement(x.byo_yomi_periods_remaining)
  IN IF LastPeriod(x, left)
       THEN [spent EXCEPT !.byo_yomi_periods_remaining = 0, !.timed_out = TRUE]
     ELSE IF left = 0
       THEN Refilled([spent EXCEPT !.byo_yomi_periods_remaining = period])
     ELSE IF PeriodPlayed(x, left, stones) THEN Refilled(spent)
     ELSE spent

Spent(x) ==
  Least(milliseconds, IF x.main_time_remaining = 0 THEN x.byo_yomi_time_remaining
                      ELSE x.main_time_remaining)

LeaveWhenCharged(c, ms) == IF ms = 0 THEN None ELSE c

\* The loop is left when all is charged, or on time out.
Leave(c, ms) == IF ms = 0 \/ clock'[c].timed_out THEN None ELSE c

\* One round of the loop.
Round ==
  /\ charged # None
  /\ LET c == charged
         x == clock[c]
         t == Spent(x)
     IN /\ clock' = [clock EXCEPT ![c] =
                       IF x.main_time_remaining = 0 THEN SpendByoYomi(x, t)
                       ELSE [x EXCEPT !.main_time_remaining = @ - t]]
        /\ charged' = Leave(c, milliseconds - t)
        /\ milliseconds' = IF charged' = None THEN 0 ELSE milliseconds - t
        /\ consumed_byo_yomi_stone' =
             (charged' # None /\ (consumed_byo_yomi_stone \/ x.main_time_remaining = 0))
  /\ UNCHANGED <<time_system_overriden, on_time>>

-----------------------------------------------------------------------------
(***************************************************************************)
(* The commands.                                                           *)
(***************************************************************************)
\* A play is generated for c in e milliseconds, with so many stones on the
\* board, and its clock charged; there is nothing to charge if the clock cannot
\* time out, or has.
gtp_genmove(c, stones, e) ==
  /\ charged = None
  /\ clock[c].can_timeout /\ ~clock[c].timed_out
  /\ e > 0
  /\ LET t == calc_time_to_play(clock[c], stones) IN on_time' = (MinTime < t /\ e < t)
  /\ charged' = c
  /\ milliseconds' = e
  /\ consumed_byo_yomi_stone' = FALSE
  /\ UNCHANGED <<clock, time_system_overriden>>

\* The commands that set the clocks of both players.
SetClocks(x) ==
  /\ charged = None
  /\ ~time_system_overriden
  /\ clock' = [c \in Colour |-> x]
  /\ UNCHANGED <<time_system_overriden, loopVars, on_time>>

\* time_settings, and kgs-time_settings for canadian.
gtp_time_settings ==
  \E m, b \in Millis, s \in Counts : SetClocks(set_time_system(m, b, s, 1))

gtp_kgs_time_settings ==
  \/ SetClocks(set_time_per_turn(DefaultTime))
  \/ \E m \in Millis : SetClocks(set_time_system(m, 0, 0, 0))
  \/ \E m, b \in Millis, p \in Counts : SetClocks(set_time_system(m, b, 1, p))

\* time_left: seconds become milliseconds with no test that they fit; stones
\* are 0 while the main time counts down.
gtp_time_left_seconds(c, s, stones) ==
  /\ charged = None
  /\ ~time_system_overriden
  /\ LET t == (s * Second) % UintMod IN
     clock' = IF stones = 0
                THEN [clock EXCEPT ![c].main_time_remaining = t]
                ELSE [clock EXCEPT ![c].byo_yomi_time_remaining = t,
                                   ![c].byo_yomi_stones_remaining = stones]
  /\ UNCHANGED <<time_system_overriden, loopVars, on_time>>

gtp_clear_board ==
  /\ charged = None
  /\ clock' = [c \in Colour |-> reset_clock(clock[c])]
  /\ UNCHANGED <<time_system_overriden, loopVars, on_time>>

Next ==
  \/ Round
  \/ \E c \in Colour, n \in Stones, e \in Elapsed : gtp_genmove(c, n, e)
  \/ gtp_time_settings
  \/ gtp_kgs_time_settings
  \/ \E c \in Colour, s \in LeftSeconds, n \in Counts : gtp_time_left_seconds(c, s, n)
  \/ gtp_clear_board

Spec == Init /\ [][Next]_vars

\* The loop runs on until it is left.
FairSpec == Spec /\ WF_vars(Round)

-----------------------------------------------------------------------------
(***************************************************************************)
(* Properties.                                                             *)
(***************************************************************************)
Clock ==
  [can_timeout : BOOLEAN, timed_out : BOOLEAN,
   main_time : Uint, main_time_remaining : Uint,
   byo_yomi_time : Uint, byo_yomi_time_remaining : Uint,
   byo_yomi_stones : Uint, byo_yomi_stones_remaining : Uint,
   byo_yomi_periods : Uint, byo_yomi_periods_remaining : Uint]

\* Every variable keeps its type: no field leaves its width, though fields are
\* decremented at 0.
TypeOK ==
  /\ clock \in [Colour -> Clock]
  /\ time_system_overriden \in BOOLEAN
  /\ charged \in Colour \cup {None}
  /\ milliseconds \in Nat
  /\ consumed_byo_yomi_stone \in BOOLEAN
  /\ on_time \in BOOLEAN

\* The count of stones never wraps in a system that asks for some: a player who
\* has not timed out has a stone to play, so that the next decrement, and the
\* division of calc_time_to_play, are right.
StonesNeverRunOut ==
  \A c \in Colour :
    (clock[c].byo_yomi_stones > 0 /\ ~clock[c].timed_out) =>
      clock[c].byo_yomi_stones_remaining > 0

\* A player who plays in less than the time calc_time_to_play gives, when that
\* is more than its least answer, does not time out: not in main time, nor in a
\* byo-yomi period, whatever time_left has told.
AllottedTimeIsEnough ==
  [][\A c \in Colour :
       clock'[c].timed_out /\ ~clock[c].timed_out => ~on_time \/ NoLimit(clock[c])]_vars

\* All the time of a clock: the main time, the period, the periods after it.
Budget(x) ==
  x.main_time_remaining + x.byo_yomi_time_remaining
    + (x.byo_yomi_periods_remaining - 1) * x.byo_yomi_time

\* The loop neither loses time nor makes any, over main time, a period that ends
\* and the next: what leaves the clock is what is charged, unless the last stone
\* of a period has been played, which makes it full again, or the clock times out.
TimeConserved ==
  [][\A c \in Colour : (charged = c /\ clock[c].byo_yomi_periods_remaining > 0) =>
       \/ clock'[c].timed_out
       \/ Budget(clock[c]) - Budget(clock'[c]) = milliseconds - milliseconds'
       \/ /\ clock[c].byo_yomi_stones_remaining <= 1
          /\ clock'[c] = Refilled(clock[c])]_vars

\* The loop of advance_clock ends, though a period of no time charges nothing.
AdvanceEnds == charged # None ~> charged = None

\* "For no time limits use 0 main time and 0 period stones, or the keyword
\* infinite" (main.c:220): then a player does not time out.
NoLimitNoTimeOut ==
  \A c \in Colour : NoLimit(clock[c]) => ~clock[c].timed_out
=============================================================================
