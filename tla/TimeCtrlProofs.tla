--------------------------- MODULE TimeCtrlProofs ---------------------------
(***************************************************************************)
(* Proofs about TimeCtrl, for fields of any width, any system of time and  *)
(* any times commands give: types, the count of stones, the conservation   *)
(* of time, and that the time allotted to a play is enough.                *)
(***************************************************************************)
EXTENDS TimeCtrl, TLAPS

\* What advance_clock may still charge does not exhaust the clock of a player
\* who is on time: it is less than the main time or than the period.
WithinTime ==
  charged # None /\ on_time /\ ~NoLimit(clock[charged]) =>
    \/ milliseconds < clock[charged].main_time_remaining
    \/ milliseconds < clock[charged].byo_yomi_time_remaining

Inv == TypeOK /\ StonesNeverRunOut /\ WithinTime

-----------------------------------------------------------------------------
(***************************************************************************)
(* The operators.                                                          *)
(***************************************************************************)
LEMMA DecrementType ==
  ASSUME NEW n \in Uint
  PROVE  /\ Decrement(n) \in Uint
         /\ n > 0 => Decrement(n) = n - 1
BY WidthAssumption DEF Decrement, Uint

LEMMA SystemType ==
  ASSUME NEW m \in Uint, NEW b \in Uint, NEW s \in Uint, NEW p \in Uint
  PROVE  set_time_system(m, b, s, p) \in Clock
BY DEF set_time_system, Clock

LEMMA MillisType == Millis \subseteq Uint
<1>1. ASSUME NEW s \in Seconds, s * Second < UintMod PROVE s * Second \in Uint
  <2>1. s \in Nat /\ Second \in Nat /\ UintMod \in Nat
    BY WidthAssumption, InputAssumption
  <2>2. s * Second \in Nat
    BY <2>1
  <2>3. QED
    BY <1>1, <2>1, <2>2 DEF Uint
<1>2. QED
  BY <1>1 DEF Millis

LEMMA PerTurnType ==
  /\ set_time_per_turn(DefaultTime) \in Clock
  /\ set_time_per_turn(DefaultTime).byo_yomi_stones_remaining = 1
<1>1. DefaultTime \in Uint /\ 0 \in Uint /\ 1 \in Uint
  BY WidthAssumption DEF Uint
<1>2. set_time_system(0, DefaultTime, 1, 1) \in Clock
  BY <1>1, SystemType
<1>3. QED
  BY <1>2 DEF set_time_per_turn, set_time_system, Clock

\* One round's work on the clock it charges.
Charged(x) ==
  IF x.main_time_remaining = 0 THEN SpendByoYomi(x, Spent(x))
  ELSE [x EXCEPT !.main_time_remaining = @ - Spent(x)]

LEMMA SpentType ==
  ASSUME NEW x \in Clock, milliseconds \in Nat
  PROVE  /\ Spent(x) \in Nat /\ Spent(x) <= milliseconds
         /\ x.main_time_remaining = 0 =>
              Spent(x) = Least(milliseconds, x.byo_yomi_time_remaining)
         /\ x.main_time_remaining # 0 =>
              Spent(x) = Least(milliseconds, x.main_time_remaining)
BY WidthAssumption DEF Spent, Least, Clock, Uint

\* A round keeps the types, the time and the stones.
LEMMA ChargedClock ==
  ASSUME NEW x \in Clock, milliseconds \in Nat, ~x.timed_out,
         consumed_byo_yomi_stone \in BOOLEAN
  PROVE  /\ Charged(x) \in Clock
         /\ Charged(x).byo_yomi_stones = x.byo_yomi_stones
         /\ Charged(x).byo_yomi_time = x.byo_yomi_time
         /\ (x.byo_yomi_stones > 0 => x.byo_yomi_stones_remaining > 0) =>
              (x.byo_yomi_stones > 0 /\ ~Charged(x).timed_out
                 => Charged(x).byo_yomi_stones_remaining > 0)
         /\ Charged(x).timed_out =>
              /\ x.main_time_remaining = 0
              /\ x.byo_yomi_time_remaining <= milliseconds
<1> DEFINE t == Spent(x)
           left == x.byo_yomi_time_remaining - t
           stones == IF consumed_byo_yomi_stone THEN x.byo_yomi_stones_remaining
                     ELSE Decrement(x.byo_yomi_stones_remaining)
           spent == [x EXCEPT !.byo_yomi_time_remaining = left,
                              !.byo_yomi_stones_remaining = stones]
           period == Decrement(x.byo_yomi_periods_remaining)
<1>1. stones \in Uint /\ period \in Uint
  BY DecrementType DEF Clock
<1>2. 0 \in Uint
  BY WidthAssumption DEF Uint
<1>3. CASE x.main_time_remaining # 0
  <2>1. Charged(x) = [x EXCEPT !.main_time_remaining = @ - t]
    BY <1>3 DEF Charged
  <2>2. x.main_time_remaining - t \in Uint
    BY <1>3, SpentType, WidthAssumption DEF Least, Clock, Uint
  <2>3. QED
    BY <2>1, <2>2 DEF Clock
<1>4. CASE x.main_time_remaining = 0
  <2>1. Charged(x) = SpendByoYomi(x, t)
    BY <1>4 DEF Charged
  <2>2. /\ left \in Uint
        /\ left = 0 => x.byo_yomi_time_remaining <= milliseconds
    BY <1>4, SpentType, WidthAssumption DEF Least, Clock, Uint
  <2>3. spent \in Clock
    BY <1>1, <2>2 DEF Clock
  <2>4. CASE LastPeriod(x, left)
    <3>1. Charged(x) = [spent EXCEPT !.byo_yomi_periods_remaining = 0,
                                     !.timed_out = TRUE]
      BY <2>1, <2>4 DEF SpendByoYomi
    <3>2. left = 0
      BY <2>4 DEF LastPeriod
    <3>3. x.byo_yomi_time_remaining <= milliseconds
      BY <2>2, <3>2
    <3>4. QED
      BY <1>4, <2>3, <3>1, <3>3 DEF Clock
  <2>5. CASE ~LastPeriod(x, left) /\ left = 0
    <3> DEFINE next == [spent EXCEPT !.byo_yomi_periods_remaining = period]
    <3>1. Charged(x) = Refilled(next)
      BY <2>1, <2>5 DEF SpendByoYomi
    <3>2. /\ next \in Clock
          /\ next.byo_yomi_stones = x.byo_yomi_stones
          /\ next.byo_yomi_time = x.byo_yomi_time
          /\ next.timed_out = x.timed_out
      BY <1>1, <2>3 DEF Clock
    <3> HIDE DEF next
    <3>3. QED
      BY <3>1, <3>2 DEF Refilled, Clock
  <2>6. CASE left # 0 /\ PeriodPlayed(x, left, stones)
    <3>1. Charged(x) = Refilled(spent)
      BY <2>1, <2>6 DEF SpendByoYomi, LastPeriod
    <3>2. QED
      BY <2>3, <3>1 DEF Refilled, Clock
  <2>7. CASE left # 0 /\ ~PeriodPlayed(x, left, stones)
    <3>1. Charged(x) = spent
      BY <2>1, <2>7 DEF SpendByoYomi, LastPeriod
    <3>2. stones # 0
      BY <2>2, <2>7 DEF PeriodPlayed, Uint
    <3>3. QED
      BY <1>1, <2>3, <3>1, <3>2 DEF Clock, Uint
  <2>8. QED
    BY <2>4, <2>5, <2>6, <2>7
<1>5. QED
  BY <1>3, <1>4

\* A share of a time is no more than the time.
LEMMA ShareBound ==
  ASSUME NEW a \in Nat, NEW b \in Nat \ {0}, NEW n \in Nat, a <= b * n
  PROVE  a \div b \in Nat /\ a \div b <= n
<1>1. a \div b \in Nat /\ b * (a \div b) <= a
  OBVIOUS
<1>2. CASE a \div b >= n + 1
  <2>1. b * (a \div b) >= b * (n + 1)
    BY <1>1, <1>2
  <2>2. b * (n + 1) = b * n + b
    OBVIOUS
  <2>3. QED
    BY <1>1, <2>1, <2>2
<1>3. QED
  BY <1>1, <1>2

\* The time to play that is more than the least answer leaves time on the clock.
LEMMA AllottedBound ==
  ASSUME NEW x \in Clock, NEW n \in Stones, NEW e \in Elapsed, ~NoLimit(x),
         MinTime < calc_time_to_play(x, n), e < calc_time_to_play(x, n)
  PROVE  e < x.main_time_remaining \/ e < x.byo_yomi_time_remaining
<1> DEFINE turns == Greatest(GameLength - n, 2 * BoardSize)
<1>1. /\ x.main_time_remaining \in Nat /\ x.byo_yomi_time_remaining \in Nat
      /\ x.byo_yomi_stones_remaining \in Nat
      /\ e \in Nat /\ n \in Nat
  BY InputAssumption, WidthAssumption DEF Clock, Uint
<1>2. MainShare(x, n) \in Nat /\ MainShare(x, n) <= x.main_time_remaining
  <2>1. turns \in Nat /\ turns >= 2 * BoardSize /\ turns > 0
    BY <1>1, AllotAssumption DEF Greatest
  <2>2. FactorDen * turns \in Nat \ {0}
    BY <2>1, AllotAssumption
  <2>3. 2 * FactorNum <= FactorDen * turns
    <3>1. FactorDen * turns >= FactorDen * (2 * BoardSize)
      BY <2>1, AllotAssumption
    <3>2. FactorDen * (2 * BoardSize) = 2 * (FactorDen * BoardSize)
      BY AllotAssumption
    <3>3. QED
      BY <2>2, <3>1, <3>2, AllotAssumption
  <2>4. x.main_time_remaining * 2 * FactorNum \in Nat
    BY <1>1, AllotAssumption
  <2>5. x.main_time_remaining * 2 * FactorNum
          <= (FactorDen * turns) * x.main_time_remaining
    <3>1. x.main_time_remaining * 2 * FactorNum
            = (2 * FactorNum) * x.main_time_remaining
      BY <1>1, AllotAssumption
    <3>2. (2 * FactorNum) * x.main_time_remaining
            <= (FactorDen * turns) * x.main_time_remaining
      BY <1>1, <2>2, <2>3, AllotAssumption
    <3>3. QED
      BY <3>1, <3>2
  <2>6. QED
    BY <1>1, <2>2, <2>4, <2>5, ShareBound DEF MainShare
<1>3. ByoYomiShare(x) \in Nat /\ ByoYomiShare(x) <= x.byo_yomi_time_remaining
  <2>1. CASE x.byo_yomi_stones_remaining = 0
    BY <1>1, <2>1 DEF ByoYomiShare
  <2>2. CASE x.byo_yomi_stones_remaining # 0
    <3>1. x.byo_yomi_time_remaining
            <= x.byo_yomi_stones_remaining * x.byo_yomi_time_remaining
      BY <1>1, <2>2
    <3>2. QED
      BY <1>1, <2>2, <3>1, ShareBound DEF ByoYomiShare
  <2>3. QED
    BY <2>1, <2>2
<1>4. calc_time_to_play(x, n) = Greatest(MainShare(x, n), ByoYomiShare(x)) - Latency
  BY <1>2, <1>3, AllotAssumption DEF calc_time_to_play, Greatest
<1>5. QED
  BY <1>1, <1>2, <1>3, <1>4, AllotAssumption DEF Greatest

-----------------------------------------------------------------------------
(***************************************************************************)
(* The invariant, and the steps.                                           *)
(***************************************************************************)
LEMMA InvInit == Init => Inv
<1> SUFFICES ASSUME Init PROVE Inv
  OBVIOUS
<1>1. 0 \in Uint /\ 1 \in Uint /\ Counts \subseteq Uint
  BY WidthAssumption, InputAssumption DEF Uint
<1>2. PICK x \in FlagSystems \cup {set_time_per_turn(DefaultTime)} :
        clock = [c \in Colour |-> x]
  BY DEF Init
<1>3. x \in Clock /\ x.byo_yomi_stones_remaining = x.byo_yomi_stones
  <2>1. CASE x \in FlagSystems
    <3>1. \E m \in Uint, b \in Uint, s \in Uint, p \in Uint :
            x = set_time_system(m, b, s, p)
      BY <1>1, <2>1, MillisType DEF FlagSystems
    <3>2. QED
      BY <3>1, SystemType DEF set_time_system
  <2>2. CASE x = set_time_per_turn(DefaultTime)
    BY <2>2, PerTurnType DEF set_time_per_turn, set_time_system
  <2>3. QED
    BY <1>2, <2>1, <2>2
<1>4. TypeOK
  BY <1>2, <1>3 DEF Init, TypeOK
<1>5. StonesNeverRunOut
  BY <1>2, <1>3 DEF StonesNeverRunOut
<1>6. WithinTime
  BY DEF Init, WithinTime
<1>7. QED
  BY <1>4, <1>5, <1>6 DEF Inv

\* A clock is charged only while it can time out and has not.
Running == charged # None => ~clock[charged].timed_out

LEMMA RoundClock ==
  ASSUME TypeOK, Running, Round
  PROVE  /\ charged \in Colour
         /\ clock' = [clock EXCEPT ![charged] = Charged(clock[charged])]
         /\ clock[charged] \in Clock /\ ~clock[charged].timed_out
BY DEF Round, Charged, TypeOK, Running

LEMMA RoundKeeps ==
  ASSUME Inv, Running, Round
  PROVE  Inv' /\ Running' /\ (on_time /\ ~NoLimit(clock[charged])
                                => ~clock'[charged].timed_out)
<1> DEFINE c == charged
           x == clock[c]
           t == Spent(x)
<1>1. /\ c \in Colour /\ x \in Clock /\ ~x.timed_out
      /\ clock' = [clock EXCEPT ![c] = Charged(x)]
      /\ c # None
  BY RoundClock, WidthAssumption DEF Inv
<1>2. /\ TypeOK /\ milliseconds \in Nat /\ consumed_byo_yomi_stone \in BOOLEAN
  BY DEF Inv, TypeOK
<1>3. clock'[c] = Charged(x) /\ \A d \in Colour : d # c => clock'[d] = clock[d]
  BY <1>1, <1>2 DEF TypeOK
<1>4. /\ charged' = IF milliseconds - t = 0 \/ clock'[c].timed_out THEN None ELSE c
      /\ milliseconds' = IF charged' = None THEN 0 ELSE milliseconds - t
      /\ UNCHANGED <<time_system_overriden, on_time>>
      /\ consumed_byo_yomi_stone' \in BOOLEAN
  BY DEF Round, Leave
<1>5. t \in Nat /\ t <= milliseconds
  BY <1>1, <1>2, SpentType
<1>6. TypeOK'
  <2>1. clock' \in [Colour -> Clock]
    BY <1>1, <1>2, ChargedClock DEF TypeOK
  <2>2. milliseconds' \in Nat
    BY <1>2, <1>4, <1>5
  <2>3. QED
    BY <1>1, <1>2, <1>4, <2>1, <2>2 DEF TypeOK
<1>7. StonesNeverRunOut'
  BY <1>1, <1>2, <1>3, ChargedClock DEF Inv, StonesNeverRunOut
<1>8. Running'
  BY <1>4 DEF Running
<1>9. ASSUME on_time, ~NoLimit(x)
      PROVE  /\ ~clock'[c].timed_out
             /\ milliseconds - t = 0
                  \/ milliseconds - t < clock'[c].byo_yomi_time_remaining
  <2>1. /\ milliseconds < x.main_time_remaining
             \/ milliseconds < x.byo_yomi_time_remaining
        /\ x.main_time_remaining \in Nat /\ x.byo_yomi_time_remaining \in Nat
    BY <1>1, <1>9, WidthAssumption DEF Inv, WithinTime, Clock, Uint
  <2>2. CASE x.main_time_remaining = 0
    <3>1. t = milliseconds
      BY <1>1, <1>2, <2>1, <2>2, SpentType DEF Least
    <3>2. ~Charged(x).timed_out
      BY <1>1, <1>2, <2>1, <2>2, ChargedClock
    <3>3. QED
      BY <1>2, <1>3, <3>1, <3>2
  <2>3. CASE x.main_time_remaining # 0
    <3>1. /\ Charged(x).byo_yomi_time_remaining = x.byo_yomi_time_remaining
          /\ ~Charged(x).timed_out
      BY <1>1, <2>3 DEF Charged, Clock
    <3>2. t = Least(milliseconds, x.main_time_remaining)
      BY <1>1, <1>2, <2>3, SpentType
    <3>3. QED
      BY <1>2, <1>3, <2>1, <2>3, <3>1, <3>2 DEF Least
  <2>4. QED
    BY <2>2, <2>3
<1>10. WithinTime'
  <2>1. NoLimit(Charged(x)) <=> NoLimit(x)
    BY <1>1, <1>2, ChargedClock DEF NoLimit
  <2>2. QED
    BY <1>3, <1>4, <1>9, <2>1 DEF WithinTime
<1>11. QED
  BY <1>6, <1>7, <1>8, <1>9, <1>10 DEF Inv

LEMMA GenmoveKeeps ==
  ASSUME Inv, NEW c \in Colour, NEW n \in Stones, NEW e \in Elapsed,
         gtp_genmove(c, n, e)
  PROVE  Inv' /\ Running'
<1>1. /\ clock' = clock /\ charged' = c /\ milliseconds' = e
      /\ time_system_overriden' = time_system_overriden
      /\ consumed_byo_yomi_stone' = FALSE
      /\ on_time' = (MinTime < calc_time_to_play(clock[c], n)
                       /\ e < calc_time_to_play(clock[c], n))
      /\ ~clock[c].timed_out
  BY DEF gtp_genmove
<1>2. clock[c] \in Clock /\ e \in Nat
  BY InputAssumption DEF Inv, TypeOK
<1>3. TypeOK'
  BY <1>1, <1>2 DEF Inv, TypeOK
<1>4. StonesNeverRunOut'
  BY <1>1 DEF Inv, StonesNeverRunOut
<1>5. WithinTime'
  BY <1>1, <1>2, AllottedBound DEF WithinTime
<1>6. QED
  BY <1>1, <1>3, <1>4, <1>5 DEF Inv, Running

\* The commands that give clocks a value, when none is being charged.
LEMMA SettingKeeps ==
  ASSUME Inv, charged = None,
         UNCHANGED <<time_system_overriden, loopVars, on_time>>,
         clock' \in [Colour -> Clock],
         \A c \in Colour :
           \/ clock'[c].byo_yomi_stones_remaining > 0
           \/ clock'[c].byo_yomi_stones_remaining = clock'[c].byo_yomi_stones
           \/ /\ clock'[c].byo_yomi_stones_remaining = clock[c].byo_yomi_stones_remaining
              /\ clock'[c].byo_yomi_stones = clock[c].byo_yomi_stones
              /\ clock'[c].timed_out = clock[c].timed_out
  PROVE  Inv' /\ Running'
<1>1. TypeOK'
  BY DEF Inv, TypeOK, loopVars
<1>2. StonesNeverRunOut'
  BY DEF Inv, StonesNeverRunOut
<1>3. WithinTime' /\ Running'
  BY DEF WithinTime, Running, loopVars
<1>4. QED
  BY <1>1, <1>2, <1>3 DEF Inv

LEMMA SetClocksKeeps ==
  ASSUME Inv, NEW x \in Clock, SetClocks(x),
         x.byo_yomi_stones_remaining = x.byo_yomi_stones
  PROVE  Inv' /\ Running'
BY SettingKeeps DEF SetClocks

LEMMA TimeLeftKeeps ==
  ASSUME Inv, NEW c \in Colour, NEW s \in LeftSeconds, NEW n \in Counts,
         gtp_time_left_seconds(c, s, n)
  PROVE  Inv' /\ Running'
<1> DEFINE t == (s * Second) % UintMod
<1>1. s \in Nat /\ n \in Uint /\ UintMod \in Nat \ {0} /\ Second \in Nat
  BY InputAssumption, WidthAssumption DEF Uint
<1>2. t \in Uint
  <2>1. s * Second \in Nat
    BY <1>1
  <2>2. QED
    BY <1>1, <2>1 DEF Uint
<1>3. clock \in [Colour -> Clock]
  BY DEF Inv, TypeOK
<1>4. CASE n = 0
  <2>1. clock' = [clock EXCEPT ![c].main_time_remaining = t]
    BY <1>4 DEF gtp_time_left_seconds
  <2>2. clock' \in [Colour -> Clock]
    BY <1>2, <1>3, <2>1 DEF Clock
  <2>3. \A d \in Colour :
          /\ clock'[d].byo_yomi_stones_remaining = clock[d].byo_yomi_stones_remaining
          /\ clock'[d].byo_yomi_stones = clock[d].byo_yomi_stones
          /\ clock'[d].timed_out = clock[d].timed_out
    BY <1>3, <2>1 DEF Clock
  <2>4. QED
    BY <2>2, <2>3, SettingKeeps DEF gtp_time_left_seconds
<1>5. CASE n # 0
  <2>1. clock' = [clock EXCEPT ![c].byo_yomi_time_remaining = t,
                               ![c].byo_yomi_stones_remaining = n]
    BY <1>5 DEF gtp_time_left_seconds
  <2>2. clock' \in [Colour -> Clock]
    <3> DEFINE y == [clock[c] EXCEPT !.byo_yomi_time_remaining = t,
                                     !.byo_yomi_stones_remaining = n]
    <3>1. y \in Clock
      <4> HIDE DEF t
      <4>1. clock[c] \in Clock
        BY <1>3
      <4>2. QED
        BY <1>1, <1>2, <4>1 DEF Clock
    <3>2. clock' = [clock EXCEPT ![c] = y]
      BY <1>3, <2>1 DEF Clock
    <3> HIDE DEF y
    <3>3. QED
      BY <1>3, <3>1, <3>2
  <2>3. /\ clock'[c].byo_yomi_stones_remaining = n
        /\ \A d \in Colour : d # c => clock'[d] = clock[d]
    BY <1>3, <2>1 DEF Clock
  <2>4. n > 0
    BY <1>1, <1>5 DEF Uint
  <2>5. QED
    BY <2>2, <2>3, <2>4, SettingKeeps DEF gtp_time_left_seconds
<1>6. QED
  BY <1>4, <1>5

LEMMA ClearKeeps ==
  ASSUME Inv, gtp_clear_board
  PROVE  Inv' /\ Running'
<1>1. \A c \in Colour : clock[c] \in Clock
  BY DEF Inv, TypeOK
<1>2. \A c \in Colour :
        /\ reset_clock(clock[c]) \in Clock
        /\ reset_clock(clock[c]).byo_yomi_stones_remaining
             = reset_clock(clock[c]).byo_yomi_stones
  BY <1>1 DEF reset_clock, Clock
<1>3. QED
  BY <1>2, SettingKeeps DEF gtp_clear_board

LEMMA InvNext ==
  ASSUME Inv, Running, [Next]_vars
  PROVE  Inv' /\ Running'
<1> USE MillisType
<1>1. 0 \in Uint /\ 1 \in Uint /\ Counts \subseteq Uint
  BY WidthAssumption, InputAssumption DEF Uint
<1>2. CASE Round
  BY <1>2, RoundKeeps
<1>3. ASSUME NEW c \in Colour, NEW n \in Stones, NEW e \in Elapsed,
             gtp_genmove(c, n, e)
      PROVE  Inv' /\ Running'
  BY <1>3, GenmoveKeeps
<1>4. ASSUME NEW m \in Uint, NEW b \in Uint, NEW s \in Uint, NEW p \in Uint,
             SetClocks(set_time_system(m, b, s, p))
      PROVE  Inv' /\ Running'
  <2>1. /\ set_time_system(m, b, s, p) \in Clock
        /\ set_time_system(m, b, s, p).byo_yomi_stones_remaining
             = set_time_system(m, b, s, p).byo_yomi_stones
    BY SystemType DEF set_time_system
  <2>2. QED
    BY <1>4, <2>1, SetClocksKeeps
<1>5. CASE gtp_time_settings
  BY <1>1, <1>4, <1>5 DEF gtp_time_settings
<1>6. CASE gtp_kgs_time_settings
  <2>1. CASE SetClocks(set_time_per_turn(DefaultTime))
    <3>1. set_time_per_turn(DefaultTime).byo_yomi_stones = 1
      BY DEF set_time_per_turn, set_time_system
    <3>2. QED
      BY <2>1, <3>1, PerTurnType, SetClocksKeeps
  <2>2. CASE \E m \in Millis : SetClocks(set_time_system(m, 0, 0, 0))
    BY <1>1, <1>4, <2>2
  <2>3. CASE \E m, b \in Millis, p \in Counts : SetClocks(set_time_system(m, b, 1, p))
    BY <1>1, <1>4, <2>3
  <2>4. QED
    BY <1>6, <2>1, <2>2, <2>3 DEF gtp_kgs_time_settings
<1>7. ASSUME NEW c \in Colour, NEW s \in LeftSeconds, NEW n \in Counts,
             gtp_time_left_seconds(c, s, n)
      PROVE  Inv' /\ Running'
  BY <1>7, TimeLeftKeeps
<1>8. CASE gtp_clear_board
  BY <1>8, ClearKeeps
<1>9. CASE UNCHANGED vars
  BY <1>9 DEF vars, loopVars, Inv, TypeOK, StonesNeverRunOut, WithinTime, Running
<1>10. QED
  BY <1>2, <1>3, <1>5, <1>6, <1>7, <1>8, <1>9 DEF Next

-----------------------------------------------------------------------------
(***************************************************************************)
(* The theorems.                                                           *)
(***************************************************************************)
\* The inductive invariant holds in every reachable state.
THEOREM Invariance == Spec => [](Inv /\ Running)
<1>1. Init => Inv /\ Running
  BY InvInit DEF Init, Running
<1>2. (Inv /\ Running) /\ [Next]_vars => (Inv /\ Running)'
  BY InvNext
<1>3. QED
  BY <1>1, <1>2, PTL DEF Spec

\* No field of a clock leaves its width, whatever the commands (time_ctrl.c).
THEOREM TypeCorrect == Spec => []TypeOK
<1>1. Inv => TypeOK
  BY DEF Inv
<1>2. QED
  BY <1>1, Invariance, PTL

\* The count of stones of a player who has not timed out is never used up.
THEOREM StonesRemain == Spec => []StonesNeverRunOut
<1>1. Inv => StonesNeverRunOut
  BY DEF Inv
<1>2. QED
  BY <1>1, Invariance, PTL

\* A player who plays in less than the time calc_time_to_play allots, more than
\* its least answer, does not time out.
THEOREM AllottedTimeSuffices == Spec => AllottedTimeIsEnough
<1> DEFINE A == \A c \in Colour : clock'[c].timed_out /\ ~clock[c].timed_out
                   => ~on_time \/ NoLimit(clock[c])
<1>1. Inv /\ Running /\ [Next]_vars => [A]_vars
  <2>1. SUFFICES ASSUME Inv, Running, Next, NEW c \in Colour,
                        clock'[c].timed_out, ~clock[c].timed_out
                 PROVE  ~on_time \/ NoLimit(clock[c])
    OBVIOUS
  <2>2. clock \in [Colour -> Clock]
    BY <2>1 DEF Inv, TypeOK
  <2>3. CASE Round
    <3>1. charged \in Colour
          /\ clock' = [clock EXCEPT ![charged] = Charged(clock[charged])]
      BY <2>1, <2>3, RoundClock DEF Inv
    <3>2. charged = c
      BY <2>1, <2>2, <3>1
    <3>3. QED
      BY <2>1, <2>3, <3>2, RoundKeeps
  <2>4. ASSUME NEW d \in Colour, NEW n \in Stones, NEW e \in Elapsed,
               gtp_genmove(d, n, e)
        PROVE  FALSE
    BY <2>1, <2>4 DEF gtp_genmove
  <2>5. CASE gtp_time_settings \/ gtp_kgs_time_settings
    BY <2>1, <2>5 DEF gtp_time_settings, gtp_kgs_time_settings, SetClocks,
      set_time_system, set_time_per_turn
  <2>6. ASSUME NEW d \in Colour, NEW s \in LeftSeconds, NEW n \in Counts,
               gtp_time_left_seconds(d, s, n)
        PROVE  FALSE
    BY <2>1, <2>2, <2>6 DEF gtp_time_left_seconds, Clock
  <2>7. CASE gtp_clear_board
    BY <2>1, <2>2, <2>7 DEF gtp_clear_board, reset_clock, Clock
  <2>8. QED
    BY <2>1, <2>3, <2>4, <2>5, <2>6, <2>7 DEF Next
<1>2. QED
  BY <1>1, Invariance, PTL DEF Spec, AllottedTimeIsEnough

\* One round's effect on all the time of the clock.
LEMMA ChargedBudget ==
  ASSUME NEW x \in Clock, milliseconds \in Nat,
         consumed_byo_yomi_stone \in BOOLEAN,
         x.byo_yomi_periods_remaining > 0, ~Charged(x).timed_out
  PROVE  \/ Budget(x) - Budget(Charged(x)) = Spent(x)
         \/ x.byo_yomi_stones_remaining <= 1 /\ Charged(x) = Refilled(x)
<1> DEFINE t == Spent(x)
           left == x.byo_yomi_time_remaining - t
           stones == IF consumed_byo_yomi_stone THEN x.byo_yomi_stones_remaining
                     ELSE Decrement(x.byo_yomi_stones_remaining)
           spent == [x EXCEPT !.byo_yomi_time_remaining = left,
                              !.byo_yomi_stones_remaining = stones]
           P == x.byo_yomi_periods_remaining
           T == x.byo_yomi_time
<1>1. /\ t \in Nat /\ P \in Nat /\ P > 0 /\ T \in Nat
      /\ x.main_time_remaining \in Nat /\ x.byo_yomi_time_remaining \in Nat
  BY SpentType, WidthAssumption DEF Clock, Uint
<1>2. CASE x.main_time_remaining # 0
  <2>1. /\ Charged(x).main_time_remaining = x.main_time_remaining - t
        /\ Charged(x).byo_yomi_time_remaining = x.byo_yomi_time_remaining
        /\ Charged(x).byo_yomi_periods_remaining = P
        /\ Charged(x).byo_yomi_time = T
    BY <1>2 DEF Charged, Clock
  <2>2. (P - 1) * T \in Int
    BY <1>1
  <2>3. QED
    BY <1>1, <2>1, <2>2 DEF Budget
<1>3. CASE x.main_time_remaining = 0
  <2>1. Charged(x) = SpendByoYomi(x, t)
    BY <1>3 DEF Charged
  <2>2. Decrement(P) = P - 1
    BY <1>1, DecrementType DEF Clock
  <2>3. CASE LastPeriod(x, left)
    <3>1. Charged(x) = [spent EXCEPT !.byo_yomi_periods_remaining = 0,
                                     !.timed_out = TRUE]
      BY <2>1, <2>3 DEF SpendByoYomi
    <3>2. QED
      BY <3>1 DEF Clock
  <2>4. CASE ~LastPeriod(x, left) /\ left = 0
    <3>1. Charged(x) = Refilled([spent EXCEPT !.byo_yomi_periods_remaining = P - 1])
      BY <2>1, <2>2, <2>4 DEF SpendByoYomi
    <3>2. /\ Charged(x).main_time_remaining = x.main_time_remaining
          /\ Charged(x).byo_yomi_time_remaining = T
          /\ Charged(x).byo_yomi_periods_remaining = P - 1
          /\ Charged(x).byo_yomi_time = T
      BY <3>1 DEF Refilled, Clock
    <3>3. (P - 1) * T = T + (P - 1 - 1) * T /\ (P - 1 - 1) * T \in Int
      BY <1>1
    <3>4. Budget(Charged(x)) = x.main_time_remaining + T + (P - 1 - 1) * T
      BY <3>2 DEF Budget
    <3>5. Budget(x) = x.main_time_remaining + t + (P - 1) * T
      <4>1. x.byo_yomi_time_remaining = t
        BY <1>1, <2>4
      <4>2. QED
        BY <4>1 DEF Budget
    <3>6. \A m, d, a, b \in Int : b = d + a => (m + t + b) - (m + d + a) = t
      BY <1>1
    <3>7. (P - 1) * T \in Int
      BY <1>1
    <3>8. QED
      BY <1>1, <3>3, <3>4, <3>5, <3>6, <3>7
  <2>5. CASE left # 0 /\ PeriodPlayed(x, left, stones)
    <3>1. Charged(x) = Refilled(spent) /\ stones = 0
      BY <2>1, <2>5 DEF SpendByoYomi, LastPeriod, PeriodPlayed
    <3>2. Refilled(spent) = Refilled(x)
      BY DEF Refilled, Clock
    <3>3. x.byo_yomi_stones_remaining <= 1
      <4>1. x.byo_yomi_stones_remaining \in Uint
        BY DEF Clock
      <4>2. CASE x.byo_yomi_stones_remaining > 0
        BY <3>1, <4>1, <4>2, DecrementType DEF Uint
      <4>3. QED
        BY <4>1, <4>2 DEF Uint
    <3>4. QED
      BY <3>1, <3>2, <3>3
  <2>6. CASE left # 0 /\ ~PeriodPlayed(x, left, stones)
    <3>1. Charged(x) = spent
      BY <2>1, <2>6 DEF SpendByoYomi, LastPeriod
    <3>2. /\ Charged(x).main_time_remaining = x.main_time_remaining
          /\ Charged(x).byo_yomi_time_remaining = x.byo_yomi_time_remaining - t
          /\ Charged(x).byo_yomi_periods_remaining = P
          /\ Charged(x).byo_yomi_time = T
      BY <3>1 DEF Clock
    <3>3. (P - 1) * T \in Int
      BY <1>1
    <3>4. QED
      BY <1>1, <3>2, <3>3 DEF Budget
  <2>7. QED
    BY <2>3, <2>4, <2>5, <2>6
<1>4. QED
  BY <1>2, <1>3

\* What advance_clock charges is what leaves the clock.
THEOREM TimeIsConserved == Spec => TimeConserved
<1> DEFINE A == \A c \in Colour :
                  (charged = c /\ clock[c].byo_yomi_periods_remaining > 0) =>
                    \/ clock'[c].timed_out
                    \/ Budget(clock[c]) - Budget(clock'[c])
                         = milliseconds - milliseconds'
                    \/ /\ clock[c].byo_yomi_stones_remaining <= 1
                       /\ clock'[c] = Refilled(clock[c])
<1>1. Inv /\ Running /\ [Next]_vars => [A]_vars
  <2>1. SUFFICES ASSUME Inv, Running, Next, NEW c \in Colour, charged = c,
                        clock[c].byo_yomi_periods_remaining > 0,
                        ~clock'[c].timed_out
                 PROVE  \/ Budget(clock[c]) - Budget(clock'[c])
                             = milliseconds - milliseconds'
                        \/ /\ clock[c].byo_yomi_stones_remaining <= 1
                           /\ clock'[c] = Refilled(clock[c])
    OBVIOUS
  <2>2. charged # None /\ clock \in [Colour -> Clock] /\ milliseconds \in Nat
        /\ consumed_byo_yomi_stone \in BOOLEAN
    BY <2>1, WidthAssumption DEF Inv, TypeOK
  <2>3. Round
    BY <2>1, <2>2 DEF Next, gtp_genmove, gtp_time_settings, gtp_kgs_time_settings,
      SetClocks, gtp_time_left_seconds, gtp_clear_board
  <2>4. clock'[c] = Charged(clock[c]) /\ clock[c] \in Clock
    BY <2>1, <2>2, <2>3, RoundClock DEF Inv
  <2>5. milliseconds' = milliseconds - Spent(clock[c]) /\ Spent(clock[c]) \in Nat
    <3>1. /\ charged' = IF milliseconds - Spent(clock[c]) = 0 \/ clock'[c].timed_out
                          THEN None ELSE c
          /\ milliseconds' = IF charged' = None THEN 0
                             ELSE milliseconds - Spent(clock[c])
      BY <2>1, <2>3 DEF Round, Leave
    <3>2. QED
      BY <2>1, <2>2, <2>4, <3>1, SpentType
  <2>6. QED
    BY <2>1, <2>2, <2>4, <2>5, ChargedBudget
<1>2. QED
  BY <1>1, Invariance, PTL DEF Spec, TimeConserved
=============================================================================
