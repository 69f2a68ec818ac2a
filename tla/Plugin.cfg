\* Two threads for two GPUs meet at every lock; one failure reaches every way
\* out.  Three pages give ranges that contain, overlap and adjoin each other.
SPECIFICATION FairSpec
CONSTANTS
  Threads = {t1, t2}
  g1 = g1
  g2 = g2
  n1 = n1
  n2 = n2
  Gpus = {g1, g2}
  Nics = {n1, n2}
  Closest <- MCClosest
  CacheNic = n1
  InitTimeout = 1
  MaxFailures = 1
  kFastrakAllowNicSubset = TRUE
  None = None
  MaxPage = 3
  MaxHandles = 2
  MinCapacity = 1
  Holders = {h1, h2}
INVARIANTS MrUsable MrAccounted OneClientPerNic PointersCurrent
PROPERTY EntryPointsReturn
ACTION_CONSTRAINT Separately
