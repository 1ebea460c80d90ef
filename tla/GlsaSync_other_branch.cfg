CONSTANTS
  p1 = p1
  p2 = p2
  official = official
  fork = fork
  master = master
  main = main
  Callers = {p1}
  Repos = {official, fork}
  Branches = {master, main}
  FirstHead <- OtherHead
  NoBranch = NoBranch
  None = None
  MaxCommits = 2
  MaxRenames = 0
  MaxFaults = 0
  MaxKills = 0
  MaxSilences = 0
SPECIFICATION Spec
PROPERTY
  MirrorCatchesUp
