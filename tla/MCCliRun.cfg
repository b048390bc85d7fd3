SPECIFICATION FairSpec
CONSTANTS
  a1 = a1
  a2 = a2
  a3 = a3
  f1 = f1
  f2 = f2
  Agent <- MCAgent
  File <- MCFile
  Writes <- MCWrites
  Reads <- MCReads
  Edges <- MCEdges
  Surfaces = {"http"}
  MaxParallel = 10
  MaybeUnscoped = {a3}
  Client = {c1, c2}
CHECK_DEADLOCK FALSE
INVARIANT LoopIsSound
PROPERTIES LoopObeys PauseStaysStored RunsEnd
