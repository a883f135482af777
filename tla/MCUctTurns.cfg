\* Several searches, with cleaning and new matches between them, and a limit on
\* states that the searches meet.
SPECIFICATION UctSpec
CONSTANTS
  t1 = t1  t2 = t2
  n1 = n1  n2 = n2  n3 = n3  n4 = n4
  Thread = {t1, t2}
  Node = {n1, n2, n3, n4}
  Key = {"b1", "w2", "w3", "b4"}
  BlackKey = {"b1", "b4"}
  PassedKey = {"w3", "b4"}
  Play = {"x", "pass"}
  Pass = "pass"
  Succ <- EndSucc
  StartKeys = {"b1", "w3"}
  Null = Null
  Master = t1
  MaxStates = 2
  MarkMod = 2
  Outcome <- WhiteWins
  MaxDepth = 4
  ExpansionDelay = 1
  PriorWins = 1
  PriorVisits = 2
  Sims = 1
  Endless = FALSE
  MaxVisits = 100
  MaxSearches = 3
SYMMETRY Symmetry
INVARIANTS RepliesAreOfNext TypeOK UniqueStates PoolAccounting NoDanglingStats MarksCurrent
  LockDiscipline LookupOvershoot
PROPERTIES ImplementsTable StatsKept
