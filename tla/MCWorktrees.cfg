SPECIFICATION FairSpec
CONSTANTS
  p1 = p1 p2 = p2
  Procs = {p1, p2}
  Names <- MCNames
  Clean <- MCClean
  SlugVar <- MCSlugVar
  Commands = {"migrate", "drop", "prune", "serve"}
  Checkouts <- MCCheckouts
  Primary = Primary
  Room = 2
  Latest = 1
  GitFaults = {"rev-parse", "worktree list"}
  ServerFaults = TRUE
  None = None
INVARIANT TypeOK
PROPERTIES BaseIsNeverDropped NeverPrunesLive ReconnectsAreKept CommandEnds
