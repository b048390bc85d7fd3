SPECIFICATION Spec
CONSTANTS
  a1 = a1
  a2 = a2
  a3 = a3
  a4 = a4
  f1 = f1
  f2 = f2
  Agent <- MCAgent
  File <- MCFile
  Writes <- MCWrites
  Reads <- MCReads
  Edges <- MCEdges
  Surfaces = {"cli", "http", "ws", "discord"}
  MaxParallel = 2
  Client = {c1}
  MaxCommands = 0
CHECK_DEADLOCK FALSE
PROPERTY PauseStaysStored
