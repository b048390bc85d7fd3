CONSTANTS
  a1 = a1
  a2 = a2
  a3 = a3
  a4 = a4
  f1 = f1
  f2 = f2
  Agent <- MCAgent
  File <- MCFile
  Writes <- MCWrites
  Reads <- MCReads
  Edges <- MCEdges
  MaxParallel = 2
  Engines <- MCEngines
  Calls <- MCCalls
  MaxIterations = 4
  MaxSubTasks = 2
  MaxPerTurn = 1
  MaxPerTask = 2
  TurnSize = 2
  r1 = r1
  r2 = r2
  r3 = r3
  Request <- MCRequest
  CallOf <- MCCallOf
  AgentOf <- MCAgentOf
  Policy <- Guarded
  Operator = {o1}
  Timeout = 2
  Window = 2
  IdleLimit = 3
  MaxRate = 1
  MaxTrackers = 1
  MaxClock = 2
SPECIFICATION MCSpec
INVARIANTS TypesHold NoConflict NoOrphanLock DependenciesHeld VerdictEarned SuccessIsEarned BudgetHolds ConsentIsSound
PROPERTIES PromiseIsKept EverythingReturns
CHECK_DEADLOCK FALSE
