-------------------------------- MODULE Uct --------------------------------
(***************************************************************************)
(* The Monte Carlo tree search of matilda (src/src/mcts/uct.c) over its    *)
(* transpositions table, with the part of the engine and of the GTP loop   *)
(* that starts it and cleans up after it (src/src/engine.c, gtp.c).        *)
(*                                                                         *)
(* The main thread looks the root up and expands it, then a parallel loop  *)
(* has every thread run simulations: descend by the states' plays, expand  *)
(* a leaf, play out, and update the plays of the path from the leaf up.    *)
(* A state's statistics are read and written under its lock, which is      *)
(* never held while another lock is awaited; between these steps the       *)
(* threads interleave.                                                     *)
(*                                                                         *)
(* Abstracted: the board is a key of a given graph of positions; the play  *)
(* chosen among those of a state is any of them (the quality it maximises  *)
(* mixes AMAF and criticality, which are left out); the result of a        *)
(* playout is any of Outcome; a quality, a double, is an exact fraction.   *)
(***************************************************************************)
EXTENDS Transpositions, Sequences

CONSTANTS
  Master,           \* the OpenMP thread 0, which is the main thread
  Pass,             \* the pass, one of Play
  PassedKey,        \* the positions whose last play is a pass
  Succ,             \* Succ[k][p]: where play p leads from position k
  Outcome,          \* results of a simulation: 1 black won, -1 white, 0 draw
  MaxDepth,         \* MAX_UCT_DEPTH
  ExpansionDelay,   \* expansion_delay
  PriorWins, PriorVisits, \* the prior of every play, PriorVisits > 0
  StartKeys,        \* the positions the commands set up
  Sims,             \* iterations of the parallel loop a thread has
  Endless,          \* whether a timed search has no such limit
  MaxVisits,        \* bound: mc_n stops there in a search that is endless
  MaxSearches       \* bound: searches run in a behaviour

ASSUME UctAssumption ==
  /\ Master \in Thread /\ Pass \in Play /\ PassedKey \subseteq Key
  /\ MaxDepth \in Nat /\ ExpansionDelay \in Nat /\ Sims \in Nat
  /\ PriorVisits \in Nat \ {0} /\ PriorWins \in 0..PriorVisits
  /\ StartKeys \subseteq Key /\ Outcome \subseteq -1..1

VARIABLES
  at,               \* what each thread is doing
  pos,              \* the position each simulation has reached: cb
  is_black,         \* whose turn it is in the simulation
  curr_stats,
  path,             \* stats[6..depth-1] and plays[6..depth-1], as pairs
  last_pass,        \* the pass that ended the simulation, which path lacks
  outcome,
  level,            \* index in path of the play updated next
  left,             \* iterations each thread has left
  expansion_delay,  \* of each state
  mc_n, mc_q,       \* visits and quality of each play of each state
  lgrf1_reply,      \* last good reply to each play of each state
  simulated,        \* history: simulations through each play, and won by it
  phase,            \* what the main thread is doing
  kind,             \* mcts_start_timed, mcts_start_sims or mcts_resume
  root,             \* the position of the game
  searches,
  expired,          \* whether stop_time has been reached
  search_stop,
  ran_out_of_memory,
  mcts_can_resume,
  tt_requires_maintenance

simVars  == <<at, pos, is_black, curr_stats, path, last_pass, outcome, level,
              left>>
playVars == <<expansion_delay, mc_n, mc_q, lgrf1_reply, simulated>>
mainVars == <<phase, kind, root, searches, mcts_can_resume,
              tt_requires_maintenance>>
flagVars == <<expired, search_stop, ran_out_of_memory>>
uctVars  == <<vars, simVars, playVars, mainVars, flagVars>>

-----------------------------------------------------------------------------
Moves(k) == DOMAIN Succ[k]

\* A second pass in a row ends the simulation instead of leading anywhere.
GameEnds(k, p) == p = Pass /\ k \in PassedKey

\* A play leads to a position, with the other player to move.
ASSUME GraphAssumption ==
  \A k \in Key : \A p \in Moves(k) :
    /\ p \in Play
    /\ ~GameEnds(k, p) => /\ Succ[k][p] \in Key
                          /\ (Succ[k][p] \in BlackKey) = (k \notin BlackKey)

NoPlay == <<>>

NoSim == [v |-> 0, w |-> 0, ended |-> 0]

\* The fraction num / den, in lowest terms: a quality is between none and all of them.
Fraction(num, den) ==
  LET d == CHOOSE d \in 1..den : /\ (num * d) % den = 0
                                 /\ \A e \in 1..(d - 1) : (num * e) % den # 0
  IN [won |-> (num * d) \div den, of |-> d]

NoQuality == [won |-> 0, of |-> 1]

UctInit ==
  /\ Init
  /\ at = [t \in Thread |-> "done"]
  /\ pos = [t \in Thread |-> AnyKey]
  /\ is_black = [t \in Thread |-> FALSE]
  /\ curr_stats = [t \in Thread |-> Null]
  /\ path = [t \in Thread |-> <<>>]
  /\ last_pass = [t \in Thread |-> NoPlay]
  /\ outcome = [t \in Thread |-> 0]
  /\ level = [t \in Thread |-> 0]
  /\ left = [t \in Thread |-> 0]
  /\ expansion_delay = [n \in Node |-> -1]
  /\ mc_n = [n \in Node |-> [p \in Play |-> 0]]
  /\ mc_q = [n \in Node |-> [p \in Play |-> NoQuality]]
  /\ lgrf1_reply = [n \in Node |-> [p \in Play |-> NoPlay]]
  /\ simulated = [n \in Node |-> [p \in Play |-> NoSim]]
  /\ phase = "ponder"
  /\ kind = "sims"
  /\ root \in StartKeys
  /\ searches = 0
  /\ expired = FALSE
  /\ search_stop = FALSE
  /\ ran_out_of_memory = FALSE
  /\ mcts_can_resume = TRUE
  /\ tt_requires_maintenance = FALSE

-----------------------------------------------------------------------------
(***************************************************************************)
(* The plays' statistics.                                                  *)
(***************************************************************************)
InitPlaysKeepsReplies(n) ==
  /\ expansion_delay' = [expansion_delay EXCEPT ![n] = -1]
  /\ mc_n' = [mc_n EXCEPT ![n] = [p \in Play |-> PriorVisits]]
  /\ mc_q' = [mc_q EXCEPT ![n] =
                [p \in Play |-> Fraction(PriorWins, PriorVisits)]]
  /\ simulated' = [simulated EXCEPT ![n] = [p \in Play |-> NoSim]]
  /\ UNCHANGED lgrf1_reply

\* init_new_state: the plays start with their priors, which count as visits.
InitPlays(n) ==
  /\ expansion_delay' = [expansion_delay EXCEPT ![n] = -1]
  /\ mc_n' = [mc_n EXCEPT ![n] = [p \in Play |-> PriorVisits]]
  /\ mc_q' = [mc_q EXCEPT ![n] =
                [p \in Play |-> Fraction(PriorWins, PriorVisits)]]
  /\ lgrf1_reply' = [lgrf1_reply EXCEPT ![n] = [p \in Play |-> NoPlay]]
  /\ simulated' = [simulated EXCEPT ![n] = [p \in Play |-> NoSim]]

\* The virtual loss of a play being descended: one more visit, not won.  The quality
\* loses its part of the new number of visits.
VirtualLossOldVisits(n, p) ==
  /\ mc_n' = [mc_n EXCEPT ![n][p] = @ + 1]
  /\ mc_q' = [mc_q EXCEPT ![n][p] =
                Fraction(@.won * (mc_n[n][p] - 1), @.of * mc_n[n][p])]

VirtualLoss(n, p) ==
  IF Endless /\ mc_n[n][p] = MaxVisits THEN UNCHANGED <<mc_n, mc_q>>
  ELSE /\ mc_n' = [mc_n EXCEPT ![n][p] = @ + 1]
       /\ mc_q' = [mc_q EXCEPT ![n][p] =
                     Fraction(@.won * mc_n[n][p], @.of * (mc_n[n][p] + 1))]

\* The virtual loss turned into a win: the quality gains its part of the visits.
CreditWin(n, p) ==
  mc_q' = [mc_q EXCEPT ![n][p] =
             Fraction(@.won * mc_n[n][p] + @.of, @.of * mc_n[n][p])]

\* select_play: the last good reply to the play that led here, if there is one,
\* else a play of the best quality, here any play.
SelectedPlays(t) ==
  LET d == path[t][Len(path[t])] IN
  IF path[t] # <<>> /\ lgrf1_reply[d[1]][d[2]] # NoPlay
    THEN {lgrf1_reply[d[1]][d[2]]}
    ELSE {<<curr_stats[t], p>> : p \in Moves(zobrist_hash[curr_stats[t]])}

\* Positional superko detection: after a board move, one of stats[depth - 2]
\* to stats[depth - 6] is the state reached.
NoSuperko(t) == FALSE

Superko(t) ==
  /\ pos[t] \notin PassedKey
  /\ \E i \in 2..6 : /\ i <= Len(path[t])
                     /\ path[t][Len(path[t]) + 1 - i][1] = curr_stats[t]

-----------------------------------------------------------------------------
(***************************************************************************)
(* One simulation, mcts_selection, run by thread t.                        *)
(***************************************************************************)
AtMaxDepth(t) == Len(path[t]) >= MaxDepth

FirstTurnBlack == TRUE

FirstTurn == root \in BlackKey

LeaveAtDepth(t, o) ==
  /\ outcome' = [outcome EXCEPT ![t] = o]
  /\ at' = [at EXCEPT ![t] = "backup"]
  /\ level' = [level EXCEPT ![t] = Len(path[t]) + 1]

\* The loop is left with this outcome; the path is updated next, leaf first.
Leave(t, o) ==
  /\ outcome' = [outcome EXCEPT ![t] = o]
  /\ at' = [at EXCEPT ![t] = "backup"]
  /\ level' = [level EXCEPT ![t] = Len(path[t])]

StartSim(t) ==
  /\ phase = "search"
  /\ at[t] = "idle"
  /\ left[t] > 0
  /\ kind = "sims" \/ ~search_stop
  /\ at' = [at EXCEPT ![t] = "enter"]
  /\ left' = [left EXCEPT ![t] = IF Endless /\ kind # "sims" THEN @ ELSE @ - 1]
  /\ pos' = [pos EXCEPT ![t] = root]
  /\ is_black' = [is_black EXCEPT ![t] = FirstTurn]
  /\ curr_stats' = [curr_stats EXCEPT ![t] = Null]
  /\ UNCHANGED <<vars, path, last_pass, outcome, level, playVars, mainVars,
                 flagVars>>

\* The loop runs out, or the stop flag is set: mcts_start_sims ignores it.
LeaveLoop(t) ==
  /\ phase = "search"
  /\ at[t] = "idle"
  /\ left[t] = 0 \/ (kind # "sims" /\ search_stop)
  /\ at' = [at EXCEPT ![t] = "done"]
  /\ left' = [left EXCEPT ![t] = 0]
  /\ UNCHANGED <<vars, pos, is_black, curr_stats, path, last_pass, outcome,
                 level, playVars, mainVars, flagVars>>

DepthReached(t) ==
  /\ at[t] = "enter"
  /\ AtMaxDepth(t)
  /\ \E o \in Outcome : Leave(t, o)
  /\ UNCHANGED <<vars, pos, is_black, curr_stats, path, last_pass, left,
                 playVars, mainVars, flagVars>>

\* next_stats was NULL: tt_lookup_null(cb, is_black, zobrist_hash).
BeginLookup(t) ==
  /\ at[t] = "enter"
  /\ ~AtMaxDepth(t)
  /\ curr_stats[t] = Null
  /\ LookupHit(t, pos[t], FALSE) \/ LookupMiss(t, pos[t], FALSE)
  /\ at' = [at EXCEPT ![t] = "lookup"]
  /\ UNCHANGED <<pos, is_black, curr_stats, path, last_pass, outcome, level,
                 left, playVars, mainVars, flagVars>>

\* It answers NULL: the search is to stop, this simulation plays out first.
OutOfMemory(t) ==
  /\ at[t] = "enter"
  /\ ~AtMaxDepth(t)
  /\ curr_stats[t] = Null
  /\ LookupNULL(t, pos[t])
  /\ ran_out_of_memory' = TRUE
  /\ search_stop' = (search_stop \/ ~ran_out_of_memory)
  /\ \E o \in Outcome : Leave(t, o)
  /\ UNCHANGED <<expired, pos, is_black, curr_stats, path, last_pass, left,
                 playVars, mainVars>>

\* create_state also sets the expansion delay of the state.
CreateState(t) ==
  /\ create_state(t)
  /\ expansion_delay' = [expansion_delay EXCEPT ![ret'[t]] = ExpansionDelay]
  /\ UNCHANGED <<simVars, mc_n, mc_q, lgrf1_reply, simulated, mainVars,
                 flagVars>>

\* The state is locked and its table unlocked.
EndLookup(t) ==
  /\ Insert(t) \/ LockFound(t)
  /\ UNCHANGED <<simVars, playVars, mainVars, flagVars>>

LinkRoot(t) ==
  IF path[t] = <<>> THEN UNCHANGED vars
  ELSE LET d == path[t][1] IN SetNext(t, d[1], d[2])

\* play->next_stats = curr_stats, for the play that led here.
LinkNext(t) ==
  IF path[t] = <<>> THEN UNCHANGED vars
  ELSE LET d == path[t][Len(path[t])] IN SetNext(t, d[1], d[2])

Arrive(t) ==
  /\ at[t] = "lookup"
  /\ pc[t] = "held"
  /\ LinkNext(t)
  /\ curr_stats' = [curr_stats EXCEPT ![t] = ret[t]]
  /\ at' = [at EXCEPT ![t] = "visit"]
  /\ UNCHANGED <<pos, is_black, path, last_pass, outcome, level, left,
                 playVars, mainVars, flagVars>>

\* next_stats was not NULL: omp_set_lock(&curr_stats->lock).
LockNext(t) ==
  /\ at[t] = "enter"
  /\ ~AtMaxDepth(t)
  /\ curr_stats[t] # Null
  /\ SetLock(t, curr_stats[t])
  /\ at' = [at EXCEPT ![t] = "visit"]
  /\ UNCHANGED <<pos, is_black, curr_stats, path, last_pass, outcome, level,
                 left, playVars, mainVars, flagVars>>

\* The state repeats: a loss for the player who committed the superko.
EndBySuperko(t) ==
  /\ at[t] = "visit"
  /\ Superko(t)
  /\ UnsetLock(t)
  /\ Leave(t, IF is_black[t] THEN 1 ELSE -1)
  /\ UNCHANGED <<pos, is_black, curr_stats, path, last_pass, left, playVars,
                 mainVars, flagVars>>

\* mcts_expansion: a state is expanded on the visit after its delay; then the
\* position is played out, with no lock held.
Expansion(t) ==
  LET n == curr_stats[t] IN
  /\ at[t] = "visit"
  /\ ~Superko(t)
  /\ expansion_delay[n] >= 0
  /\ \/ /\ expansion_delay[n] = 0
        /\ InitPlays(n)
        /\ ExpandAndUnset(t)
     \/ /\ expansion_delay[n] > 0
        /\ expansion_delay' = [expansion_delay EXCEPT ![n] = @ - 1]
        /\ UnsetLock(t)
        /\ UNCHANGED <<mc_n, mc_q, lgrf1_reply, simulated>>
  /\ \E o \in Outcome : Leave(t, o)
  /\ UNCHANGED <<pos, is_black, curr_stats, path, last_pass, left, mainVars,
                 flagVars>>

\* A play is selected, given its virtual loss, and played.  The second pass in
\* a row ends the simulation before the play is put on the path.
Select(t) ==
  /\ at[t] = "visit"
  /\ ~Superko(t)
  /\ expansion_delay[curr_stats[t]] = -1
  /\ UnsetLock(t)
  /\ \E d \in SelectedPlays(t) :
       /\ VirtualLoss(d[1], d[2])
       /\ \/ /\ GameEnds(pos[t], d[2])
             /\ \E o \in Outcome : Leave(t, o)
             /\ last_pass' = [last_pass EXCEPT ![t] = d]
             /\ UNCHANGED <<pos, is_black, path>>
          \/ /\ ~GameEnds(pos[t], d[2])
             /\ pos' = [pos EXCEPT ![t] = Succ[@][d[2]]]
             /\ is_black' = [is_black EXCEPT ![t] = ~@]
             /\ path' = [path EXCEPT ![t] = Append(@, d)]
             /\ at' = [at EXCEPT ![t] = "read"]
             /\ UNCHANGED <<last_pass, outcome, level>>
  /\ UNCHANGED <<curr_stats, left, expansion_delay, lgrf1_reply, simulated,
                 mainVars, flagVars>>

\* curr_stats = play->next_stats, read with no lock.
ReadNext(t) ==
  /\ at[t] = "read"
  /\ LET d == path[t][Len(path[t])] IN
     curr_stats' = [curr_stats EXCEPT ![t] = next_stats[d[1]][d[2]]]
  /\ at' = [at EXCEPT ![t] = "enter"]
  /\ UNCHANGED <<vars, pos, is_black, path, last_pass, outcome, level, left,
                 playVars, mainVars, flagVars>>

\* Whether the player whose turn it is has won the simulation.
WonBy(black, o) == black = (o > 0)

\* One round of the update, under the lock of the state: the play of a player
\* who won gets the win its virtual loss took, and no reply to it is good any
\* more; the reply to the play of a player who lost is.  A draw gives no win.
UpdateReply(t, d) ==
  LET won == outcome[t] = 0 \/ WonBy(~is_black[t], outcome[t]) IN
  lgrf1_reply' = [lgrf1_reply EXCEPT ![d[1]][d[2]] =
                    IF won \/ level[t] = Len(path[t]) THEN NoPlay
                    ELSE path[t][level[t] + 1]]

Backup(t) ==
  /\ at[t] = "backup"
  /\ level[t] > 0
  /\ LET d == path[t][level[t]] IN
     /\ StateFree(d[1])
     /\ IF outcome[t] # 0 /\ WonBy(~is_black[t], outcome[t])
          THEN CreditWin(d[1], d[2]) ELSE UNCHANGED mc_q
     /\ UpdateReply(t, d)
  /\ is_black' = [is_black EXCEPT ![t] = ~@]
  /\ level' = [level EXCEPT ![t] = @ - 1]
  /\ UNCHANGED <<vars, at, pos, curr_stats, path, last_pass, outcome, left,
                 expansion_delay, mc_n, simulated, mainVars, flagVars>>

\* History: what the plays of simulation t should be credited with.
Record(t) ==
  simulated' =
    [n \in Node |-> [p \in Play |->
      LET won == IF outcome[t] # 0 /\ WonBy(zobrist_hash[n] \in BlackKey, outcome[t])
                   THEN 1 ELSE 0
          seen == Cardinality({i \in 1..Len(path[t]) : path[t][i] = <<n, p>>})
          last == IF last_pass[t] = <<n, p>> THEN 1 ELSE 0
      IN [v |-> simulated[n][p].v + seen + last,
          w |-> simulated[n][p].w + won * (seen + last),
          ended |-> simulated[n][p].ended + won * last]]]

MasterNeverStops(t) == UNCHANGED search_stop

\* Only the master thread looks at the time: it stops the search at stop_time,
\* and a timed search earlier if the win rate is high enough.
MasterStops(t) ==
  IF t # Master \/ kind = "sims" THEN UNCHANGED search_stop
  ELSE IF expired THEN search_stop' = TRUE
  ELSE IF kind = "timed" THEN \E early \in BOOLEAN : search_stop' = (search_stop \/ early)
  ELSE UNCHANGED search_stop

FinishSim(t) ==
  /\ at[t] = "backup"
  /\ level[t] = 0
  /\ IF Endless THEN UNCHANGED simulated ELSE Record(t)
  /\ MasterStops(t)
  /\ at' = [at EXCEPT ![t] = "idle"]
  /\ pos' = [pos EXCEPT ![t] = AnyKey]
  /\ is_black' = [is_black EXCEPT ![t] = FALSE]
  /\ curr_stats' = [curr_stats EXCEPT ![t] = Null]
  /\ path' = [path EXCEPT ![t] = <<>>]
  /\ last_pass' = [last_pass EXCEPT ![t] = NoPlay]
  /\ outcome' = [outcome EXCEPT ![t] = 0]
  /\ UNCHANGED <<vars, level, left, expansion_delay, mc_n, mc_q, lgrf1_reply,
                 mainVars, expired, ran_out_of_memory>>

-----------------------------------------------------------------------------
(***************************************************************************)
(* The main thread: a round of the GTP loop, and the searches it makes.    *)
(***************************************************************************)
\* The threads of the parallel region, and what the search resets before it.
OpenLoop ==
  /\ at' = [t \in Thread |-> "idle"]
  /\ left' = [t \in Thread |-> Sims]
  /\ search_stop' = FALSE
  /\ ran_out_of_memory' = FALSE
  /\ expired' = FALSE
  /\ phase' = "search"
  /\ UNCHANGED <<pos, is_black, curr_stats, path, last_pass, outcome, level>>

\* Thinking in the opponent's turn: mcts_resume, which looks no root up.
Resume ==
  /\ phase = "ponder"
  /\ mcts_can_resume
  /\ searches < MaxSearches
  /\ searches' = searches + 1
  /\ kind' = "resume"
  /\ OpenLoop
  /\ UNCHANGED <<vars, playVars, root, mcts_can_resume, tt_requires_maintenance>>

BetweenIterations == phase \in {"ponder", "search"}

BetweenSearches == phase = "ponder"

\* A command has been read: opt_turn_maintenance, reset_mcts_can_resume.
TurnMaintenance ==
  /\ BetweenSearches
  /\ \/ tt_requires_maintenance /\ tt_clean_unreachable(root)
     \/ ~tt_requires_maintenance /\ UNCHANGED vars
  /\ tt_requires_maintenance' = FALSE
  /\ mcts_can_resume' = TRUE
  /\ phase' = "command"
  /\ UNCHANGED <<simVars, playVars, kind, root, searches, flagVars>>

\* A command that changes the position: play, undo, loadsgf, ...
ChangePosition ==
  /\ phase = "command"
  /\ \E k \in StartKeys : root' = k
  /\ phase' = "ponder"
  /\ UNCHANGED <<vars, simVars, playVars, kind, searches, mcts_can_resume,
                 tt_requires_maintenance, flagVars>>

\* clear_board: new_match_maintenance.
NewMatch ==
  /\ phase = "command"
  /\ tt_clean_all
  /\ tt_requires_maintenance' = FALSE
  /\ \E k \in StartKeys : root' = k
  /\ phase' = "ponder"
  /\ UNCHANGED <<simVars, playVars, kind, searches, mcts_can_resume, flagVars>>

\* mcts_start_timed and mcts_start_sims first look the root up.
Evaluate ==
  /\ phase = "command"
  /\ searches < MaxSearches
  /\ searches' = searches + 1
  /\ kind' \in {"timed", "sims"}
  /\ phase' = "root"
  /\ LookupHit(Master, root, TRUE) \/ LookupMiss(Master, root, TRUE)
  /\ UNCHANGED <<simVars, playVars, root, mcts_can_resume,
                 tt_requires_maintenance, flagVars>>

AlwaysUnexpanded(n) == TRUE

Unexpanded(n) == expansion_delay[n] # -1

\* The root is unlocked, expanded whatever its delay, and the loop begins.
ExpandRoot ==
  /\ phase = "root"
  /\ pc[Master] = "held"
  /\ LET n == ret[Master] IN
     \/ /\ Unexpanded(n)
        /\ InitPlays(n)
        /\ ExpandAndUnset(Master)
     \/ /\ ~Unexpanded(n)
        /\ UnsetLock(Master)
        /\ UNCHANGED playVars
  /\ OpenLoop
  /\ UNCHANGED <<kind, root, searches, mcts_can_resume,
                 tt_requires_maintenance>>

\* The end of the parallel region; the play made, if any, changes the position.
EndSearch ==
  /\ phase = "search"
  /\ \A t \in Thread : at[t] = "done"
  /\ tt_requires_maintenance' = TRUE
  /\ mcts_can_resume' = (mcts_can_resume /\ ~(kind = "resume" /\ ran_out_of_memory))
  /\ phase' = "ponder"
  /\ IF kind = "resume" THEN UNCHANGED root
     ELSE root' \in {root} \cup (StartKeys \cap {Succ[root][p] : p \in Moves(root)})
  /\ UNCHANGED <<vars, simVars, playVars, kind, searches, flagVars>>

\* stop_time is reached.
Tick ==
  /\ phase = "search"
  /\ ~expired
  /\ kind # "sims"
  /\ expired' = TRUE
  /\ UNCHANGED <<vars, simVars, playVars, mainVars, search_stop,
                 ran_out_of_memory>>

-----------------------------------------------------------------------------
\* The steps of a thread that await a lock, and its others.
Acquire(t) == BeginLookup(t) \/ OutOfMemory(t) \/ EndLookup(t) \/ LockNext(t)
              \/ Backup(t)

Continue(t) ==
  \/ StartSim(t) \/ LeaveLoop(t) \/ DepthReached(t) \/ CreateState(t)
  \/ Arrive(t) \/ EndBySuperko(t) \/ Expansion(t) \/ Select(t)
  \/ ReadNext(t) \/ FinishSim(t)

MainStep == ExpandRoot \/ EndSearch

Command == Resume \/ TurnMaintenance \/ ChangePosition \/ NewMatch \/ Evaluate

UctNext ==
  \/ \E t \in Thread : Acquire(t) \/ Continue(t)
  \/ MainStep
  \/ Command
  \/ Tick

\* Time passes, no thread stops for ever, and a thread does not lose the race
\* for the same lock for ever.  No command need be given.
Fairness ==
  /\ WF_uctVars(Tick)
  /\ WF_uctVars(MainStep)
  /\ \A t \in Thread : WF_uctVars(Continue(t)) /\ SF_uctVars(Acquire(t))

UctSpec == UctInit /\ [][UctNext]_uctVars

FairUctSpec == UctSpec /\ Fairness

-----------------------------------------------------------------------------
(***************************************************************************)
(* Properties.                                                             *)
(***************************************************************************)
\* The search is a client of the table that keeps its contract: it locks and
\* links states of the tables only, though it finds them by pointers it reads
\* with no lock, and cleans up only when no thread searches.  What is proved
\* of Transpositions holds of the search by this refinement.
ImplementsTable == Spec

\* Every variable keeps its type: no path is longer than the arrays stats and
\* plays allow.
UctTypeOK ==
  /\ at \in [Thread -> {"idle", "enter", "lookup", "visit", "read", "backup", "done"}]
  /\ \A t \in Thread : /\ pos[t] \in Key
                       /\ curr_stats[t] \in Node \cup {Null}
                       /\ path[t] \in Seq(Node \X Play)
                       /\ Len(path[t]) <= MaxDepth
                       /\ level[t] \in 0..Len(path[t])
                       /\ outcome[t] \in -1..1
  /\ \A n \in Node : expansion_delay[n] \in -1..ExpansionDelay
  /\ phase \in {"ponder", "command", "root", "search"}

\* The tables hold the statistics of one player each, "mixing them is illegal"
\* (transpositions.h:11): whenever a simulation looks a state up the turn it
\* counted is the position's, and when it updates a play the turn it counts
\* back to is that of the play's state.
TurnParity ==
  \A t \in Thread :
    /\ at[t] = "enter" => is_black[t] = (pos[t] \in BlackKey)
    /\ at[t] = "backup" /\ level[t] > 0 =>
         ~is_black[t] = (zobrist_hash[path[t][level[t]][1]] \in BlackKey)

\* A next_stats pointer leads to the state of the position the play leads to,
\* whichever thread wrote it, and whatever its state was used for before.
NextIsSuccessor ==
  \A n \in Tabled \cap expanded : \A p \in Moves(zobrist_hash[n]) :
    LET s == next_stats[n][p] IN
    s # Null => /\ ~GameEnds(zobrist_hash[n], p)
                /\ zobrist_hash[s] = Succ[zobrist_hash[n]][p]

\* A last good reply is a play of the state its play leads to: select_play
\* takes it as one of the plays of the state it is at, with no test.
RepliesAreOfNext ==
  \A n \in Tabled \cap expanded : \A p \in Play :
    LET r == lgrf1_reply[n][p] IN
    r # NoPlay => /\ r[1] = next_stats[n][p]
                  /\ r[1] \in Tabled \cap expanded
                  /\ r[2] \in Moves(zobrist_hash[r[1]])

\* A simulation never comes back by a board move to a state among the last six
\* of its path: such a play ends it as a loss.
NoSuperkoInPath ==
  \A t \in Thread : \A i, j \in 1..Len(path[t]) :
    (i < j /\ j - i <= 6 /\ path[t][i][1] = path[t][j][1]) =>
      zobrist_hash[path[t][j][1]] \in PassedKey

\* The tree is one of the game: its links lead where the plays do, the players
\* alternate in a simulation and in its update, and no superko is played.
TreeOfTheGame == NextIsSuccessor /\ TurnParity /\ NoSuperkoInPath

\* Once the simulations of a search are over the statistics of every play are
\* those of the simulations through it in some order, though virtual losses and
\* wins of all threads interleave: visits and wins add to the priors.  The
\* pass that ends a simulation counts as a visit only.  At no time does a quality
\* leave the range of a win rate.
StatsExact ==
  /\ \A n \in Node : \A p \in Play : mc_q[n][p].won \in 0..mc_q[n][p].of
  /\ phase \in {"ponder", "command"} =>
       \A n \in Tabled \cap expanded : \A p \in Moves(zobrist_hash[n]) :
         LET s == simulated[n][p] IN
         /\ mc_n[n][p] = PriorVisits + s.v
         /\ mc_q[n][p].won * mc_n[n][p] = mc_q[n][p].of * (PriorWins + s.w - s.ended)

\* A state is expanded once: while it stays in its table no other thread, and
\* no other search, sets its statistics back to the priors.
StatsKept ==
  [][\A n \in Tabled \cap expanded : n \in Tabled' =>
       \A p \in Play : mc_n'[n][p] >= mc_n[n][p]]_uctVars

\* A search ends: the master comes to see that the time is up, or the memory,
\* and all threads leave the loop.
SearchEnds == phase \in {"root", "search"} ~> phase = "ponder"
=============================================================================
