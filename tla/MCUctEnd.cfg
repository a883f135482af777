\* The end of a game, or a game with a superko: results of all kinds, the pass that
\* ends a simulation, the plays that lead back into a cycle; memory for all positions.
SPECIFICATION UctSpec
CONSTANTS
  t1 = t1  t2 = t2
  n1 = n1  n2 = n2  n3 = n3  n4 = n4
  Thread = {t1, t2}
  Node = {n1, n2, n3, n4}
  Key = {"b1", "w2", "w3", "b4", "w6", "b7", "w8", "b9"}
  BlackKey = {"b1", "b4", "b7", "b9"}
  PassedKey = {"w3", "b4", "b9"}
  Play = {"x", "pass"}
  Pass = "pass"
  Succ <- EndOrKoSucc
  StartKeys = {"b1", "w3", "w6", "b9"}
  Null = Null
  Master = t1
  MaxStates = 4
  MarkMod = 2
  Outcome <- AnyOutcome
  MaxDepth = 5
  ExpansionDelay = 0
  PriorWins = 1
  PriorVisits = 2
  Sims = 2
  Endless = FALSE
  MaxVisits = 100
  MaxSearches = 1
SYMMETRY Symmetry
INVARIANTS UctTypeOK TreeOfTheGame StatsExact
PROPERTIES CleansUnreachable
