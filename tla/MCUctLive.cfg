\* Timed searches of any length: the end of a search when the time is up, or
\* the limit on states met.
SPECIFICATION FairUctSpec
CONSTANTS
  t1 = t1  t2 = t2
  n1 = n1  n2 = n2  n3 = n3  n4 = n4
  Thread = {t1, t2}
  Node = {n1, n2, n3, n4}
  Key = {"b1", "w2", "w3", "b4"}
  BlackKey = {"b1", "b4"}
  PassedKey = {"w3", "b4"}
  Play = {"x", "pass"}
  Pass = "pass"
  Succ <- EndSucc
  StartKeys = {"b1"}
  Null = Null
  Master = t1
  MaxStates = 2
  MarkMod = 2
  Outcome = {0}
  MaxDepth = 4
  ExpansionDelay = 0
  PriorWins = 1
  PriorVisits = 2
  Sims = 1
  Endless = TRUE
  MaxVisits = 3
  MaxSearches = 1
PROPERTIES SearchEnds
