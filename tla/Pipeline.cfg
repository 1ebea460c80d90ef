CONSTANTS
  p1 = p1
  p2 = p2
  official = official
  master = master
  Callers = {p1, p2}
  Repos = {official}
  Branches = {master}
  FirstHead <- MCFirstHead
  NoBranch = NoBranch
  None = None
  MaxCommits = 2
  MaxRenames = 0
  MaxFaults = 1
  MaxKills = 0
  MaxSilences = 0
  Advisories = {1, 2, 3}
  Writes <- MCWrites
SPECIFICATION PipelineSpec
INVARIANTS
  PipelineTypeOK
  FreshReport
PROPERTIES
  ImplementsMirror
  MirrorCatchesUp
  CallsReturn
  PipelineCatchesUp
