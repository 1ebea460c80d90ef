CONSTANTS
  p1 = p1
  p2 = p2
  official = official
  fork = fork
  master = master
  main = main
  Callers = {p1}
  Repos = {official, fork}
  Branches = {master, main}
  FirstHead <- SameHead
  NoBranch = NoBranch
  None = None
  MaxCommits = 2
  MaxRenames = 1
  MaxFaults = 1
  MaxKills = 1
  MaxSilences = 1
SPECIFICATION Spec
INVARIANT
  TypeOK
PROPERTIES
  FreshOnSuccess
  KeepsMirror
  ImplementsMirror
