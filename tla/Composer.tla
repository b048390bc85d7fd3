------------------------------- MODULE Composer -------------------------------
(***************************************************************************)
(* The Composer (odin-orchestrator/src/composer.rs): one task graph, one   *)
(* sub-agent per node, the lifecycle of each, and the lock table.  The     *)
(* node of an agent is named by the agent: register_agents registers       *)
(* exactly one agent for every node.                                       *)
(*                                                                         *)
(* Every operation takes &mut self and is atomic.  Those that loop over    *)
(* agents in HashMap order (pause_all, resume_all, cancel_all,             *)
(* fail_blocked_dependents) take one step per agent, in any order, and     *)
(* `batch` keeps every other operation out until the loop is over: the     *)
(* composer is Idle exactly between two calls.                             *)
(***************************************************************************)
EXTENDS LockTable, FiniteSets

CONSTANTS
  Writes, Reads,   \* agent -> its write_files and read_files, in order
  Edges,           \* <<u, d>>: the node of d depends on the node of u
  MaxParallel      \* config.max_parallel.max(1)

ASSUME FilesAssumption ==
  /\ Writes \in [Agent -> Seq(File)]
  /\ Reads \in [Agent -> Seq(File)]

ASSUME EdgesAssumption == Edges \subseteq Agent \X Agent

ASSUME MaxParallelAssumption == MaxParallel \in Nat \ {0}

ASSUME AgentAssumption == IsFiniteSet(Agent)

VARIABLES
  locks,   \* file_locks: path -> PathState
  phase,   \* agent.phase
  life,    \* lifecycle.phase
  held,    \* lifecycle.held_locks, as a set of paths
  node,    \* the status of the agent's task node
  graph,   \* graph.status
  batch    \* the loop an operation is in, and the agents it has left

vars == <<locks, phase, life, held, node, graph, batch>>

AgentPhase == {"Queued", "Running", "Blocked", "WaitingForLock",
               "Done", "Failed", "Cancelled"}
NodeStatus == {"Pending", "Running", "Done", "Failed", "Cancelled"}
GraphStatus == {"Running", "Paused", "Complete", "Failed", "Cancelled"}
Terminal == {"Done", "Failed", "Cancelled"}

WriteSet(a) == {Writes[a][i] : i \in DOMAIN Writes[a]}
ReadSet(a) == {Reads[a][i] : i \in DOMAIN Reads[a]}
Upstream(a) == {u \in Agent : <<u, a>> \in Edges}
Running == {a \in Agent : phase[a] = "Running"}

NoBatch == [op |-> "none", todo |-> {}]
Batch == [op : {"none", "pause", "resume", "cancel", "fail"}, todo : SUBSET Agent]
Idle == batch.todo = {}

TypeOK ==
  /\ locks \in [File -> PathState]
  /\ phase \in [Agent -> AgentPhase]
  /\ life \in [Agent -> AgentPhase]
  /\ held \in [Agent -> SUBSET File]
  /\ node \in [Agent -> NodeStatus]
  /\ graph \in GraphStatus
  /\ batch \in Batch

(* After decomposition and register_agents. *)
Init ==
  /\ locks = [f \in File |-> NoLocks]
  /\ phase = [a \in Agent |-> "Queued"]
  /\ life = [a \in Agent |-> "Queued"]
  /\ held = [a \in Agent |-> {}]
  /\ node = [a \in Agent |-> "Pending"]
  /\ graph = "Running"
  /\ batch = NoBatch

-----------------------------------------------------------------------------
(* update_task_node: the graph's status is recomputed when the last node   *)
(* of the graph has become terminal.                                       *)
GraphAfterAny(nodes) ==   \* mutant
  IF \E a \in Agent : nodes[a] \notin Terminal
  THEN graph
  ELSE IF \E a \in Agent : nodes[a] = "Done" THEN "Complete"
  ELSE IF \E a \in Agent : nodes[a] = "Failed" THEN "Failed"
  ELSE "Cancelled"

GraphAfter(nodes) ==
  IF \E a \in Agent : nodes[a] \notin Terminal
  THEN graph
  ELSE IF \A a \in Agent : nodes[a] = "Done" THEN "Complete"
  ELSE IF \E a \in Agent : nodes[a] = "Failed" THEN "Failed"
  ELSE "Cancelled"

SetNode(a, status) ==
  /\ node' = [node EXCEPT ![a] = status]
  /\ graph' = GraphAfter(node')

-----------------------------------------------------------------------------
(* start_agent.  It is refused without a trace when max_parallel agents    *)
(* run or an upstream node is not done.                                    *)
MayStartAfterFailure(a) ==   \* mutant
  /\ Cardinality(Running) < MaxParallel
  /\ \A u \in Upstream(a) : node[u] \in Terminal

MayStart(a) ==
  /\ Cardinality(Running) < MaxParallel
  /\ \A u \in Upstream(a) : node[u] = "Done"

LocksGranted(a) ==
  /\ \A f \in WriteSet(a) : WriteGranted(locks[f], a)
  /\ \A f \in ReadSet(a) \ WriteSet(a) : ReadGranted(locks[f], a)

CanStart(a) == MayStart(a) /\ LocksGranted(a)

(* The table after the agent has asked for the paths in F. *)
Acquired(a, F) ==
  [f \in File |->
     IF f \notin F THEN locks[f]
     ELSE IF f \in WriteSet(a) THEN AcquireWrite(locks[f], a)
     ELSE AcquireRead(locks[f], a)]

StartGranted(a) ==
  /\ CanStart(a)
  /\ locks' = Acquired(a, WriteSet(a) \cup ReadSet(a))
  /\ held' = [held EXCEPT ![a] = @ \cup WriteSet(a) \cup ReadSet(a)]
  /\ phase' = [phase EXCEPT ![a] = "Running"]
  /\ life' = [life EXCEPT ![a] = "Running"]
  /\ SetNode(a, "Running")

(* The first path in the order of the code, writes before reads, that the  *)
(* agent is refused, and the set of paths it was granted before.           *)
RefusedAt(a, f, granted) ==
  \/ \E k \in DOMAIN Writes[a] :
       /\ f = Writes[a][k]
       /\ ~WriteGranted(locks[f], a)
       /\ granted = {Writes[a][i] : i \in 1..(k - 1)}
       /\ \A g \in granted : WriteGranted(locks[g], a)
  \/ \E k \in DOMAIN Reads[a] :
       /\ f = Reads[a][k]
       /\ f \notin WriteSet(a)
       /\ ~ReadGranted(locks[f], a)
       /\ granted = WriteSet(a) \cup {Reads[a][i] : i \in 1..(k - 1)}
       /\ \A g \in WriteSet(a) : WriteGranted(locks[g], a)
       /\ \A g \in granted \ WriteSet(a) : ReadGranted(locks[g], a)

(* The request for f may have queued the agent.  rollback_new_locks gives  *)
(* back what lifecycle.held_locks names and the agent did not hold before  *)
(* this attempt; a lock the queue handed it earlier is kept.               *)
RolledBack(a, table, mine) ==
  [f \in File |-> IF f \in mine /\ ~HoldsAny(locks[f], a)
                  THEN Release(table[f], a)
                  ELSE table[f]]

StartRefused(a) ==
  /\ MayStart(a)
  /\ \E f \in WriteSet(a) \cup ReadSet(a), granted \in SUBSET File :
       /\ RefusedAt(a, f, granted)
       /\ locks' = RolledBack(a, Acquired(a, granted \cup {f}), held[a] \cup granted)
       /\ held' = [held EXCEPT ![a] =
                     {g \in @ \cup granted : HoldsAny(locks[g], a)}]
  /\ life' = [life EXCEPT ![a] = "WaitingForLock"]
  /\ UNCHANGED <<phase, node, graph>>

(* The runners try the agents that have not run; resume_all, below, tries  *)
(* those that pause_all blocked.                                           *)
Start(a) ==
  /\ Idle
  /\ life[a] \in {"Queued", "WaitingForLock"}
  /\ StartGranted(a) \/ StartRefused(a)
  /\ UNCHANGED batch

-----------------------------------------------------------------------------
(* complete_agent, fail_agent and cancel_agent end an agent alike.  None   *)
(* clears lifecycle.held_locks.                                            *)
Finish(a, status) ==
  /\ locks' = [f \in File |-> ReleaseAll(locks[f], a)]
  /\ phase' = [phase EXCEPT ![a] = status]
  /\ life' = [life EXCEPT ![a] = status]
  /\ SetNode(a, status)
  /\ UNCHANGED held

(* The execution of a started agent ended; a paused one goes on executing. *)
Complete(a, success) ==
  /\ Idle
  /\ phase[a] \in {"Running", "Blocked"}
  /\ Finish(a, IF success THEN "Done" ELSE "Failed")
  /\ UNCHANGED batch

(* fail_agent, which the runners call on any agent that is not terminal.   *)
Fail(a) ==
  /\ Idle
  /\ phase[a] \notin Terminal
  /\ Finish(a, "Failed")
  /\ UNCHANGED batch

(* set_graph_status: the status a pause, resume or cancel command leaves.  *)
SetGraphStatus(status) ==
  /\ Idle
  /\ graph' = status
  /\ UNCHANGED <<locks, phase, life, held, node, batch>>

-----------------------------------------------------------------------------
(* The loops over agents.  Begin fixes the agents, each step handles one.  *)
Begin(op, agents) ==
  /\ Idle
  /\ agents # {}
  /\ batch' = [op |-> op, todo |-> agents]

TakeNext(op, a) ==
  /\ batch.op = op
  /\ a \in batch.todo
  /\ batch' = IF batch.todo = {a} THEN NoBatch ELSE [batch EXCEPT !.todo = @ \ {a}]

PauseAll ==
  /\ Begin("pause", Running)
  /\ UNCHANGED <<locks, phase, life, held, node, graph>>

PauseOne(a) ==
  /\ TakeNext("pause", a)
  /\ locks' = [f \in File |-> ReleaseAll(locks[f], a)]
  /\ phase' = [phase EXCEPT ![a] = "Blocked"]
  /\ life' = [life EXCEPT ![a] = "Blocked"]
  /\ UNCHANGED <<held, node, graph>>

ResumeAll ==
  /\ Begin("resume", {a \in Agent : phase[a] = "Blocked"})
  /\ UNCHANGED <<locks, phase, life, held, node, graph>>

ResumeOne(a) ==
  /\ TakeNext("resume", a)
  /\ \/ StartGranted(a)
     \/ StartRefused(a)
     \/ ~MayStart(a) /\ UNCHANGED <<locks, phase, life, held, node, graph>>

(* cancel_all takes every agent, finished ones too. *)
CancelAll ==
  /\ Begin("cancel", Agent)
  /\ UNCHANGED <<locks, phase, life, held, node, graph>>

CancelOne(a) == TakeNext("cancel", a) /\ Finish(a, "Cancelled")

(* fail_blocked_descendants: the pending nodes a failed or cancelled node  *)
(* reaches through pending nodes.                                          *)
Doomed ==
  LET open == {a \in Agent : node[a] = "Pending"}
      Closed(S) ==
        \A d \in open :
          (\E u \in Upstream(d) : u \in S \/ node[u] \in {"Failed", "Cancelled"}) => d \in S
  IN  {d \in open : \A S \in SUBSET open : Closed(S) => d \in S}

FailBlockedDependents ==
  /\ Begin("fail", Doomed)
  /\ node' = [a \in Agent |-> IF a \in Doomed THEN "Failed" ELSE node[a]]
  /\ UNCHANGED <<locks, phase, life, held, graph>>

FailOne(a) == TakeNext("fail", a) /\ Finish(a, "Failed")

-----------------------------------------------------------------------------
BatchStep ==
  \E a \in Agent : PauseOne(a) \/ ResumeOne(a) \/ CancelOne(a) \/ FailOne(a)

Next ==
  \/ \E a \in Agent :
       \/ Start(a)
       \/ \E success \in BOOLEAN : Complete(a, success)
       \/ Fail(a)
  \/ \E status \in {"Running", "Paused", "Cancelled"} : SetGraphStatus(status)
  \/ PauseAll
  \/ ResumeAll
  \/ CancelAll
  \/ FailBlockedDependents
  \/ BatchStep

Spec == Init /\ [][Next]_vars

-----------------------------------------------------------------------------
(* The lock table keeps its rules under the composer's use of it: partial  *)
(* acquisitions, rollbacks, and agents that end while they wait.           *)
LocksSound == \A f \in File : PathInv(locks[f])

(* A running agent holds every file it declared, however often it was      *)
(* refused, rolled back, paused and resumed before, and whatever the other *)
(* agents' rollbacks and terminations released meanwhile.                  *)
RunningHoldsFiles ==
  \A a \in Running :
    /\ \A f \in WriteSet(a) : HoldsWrite(locks[f], a)
    /\ \A f \in ReadSet(a) : HoldsAny(locks[f], a)

(* What the locks are for: no two agents run while one of them writes a    *)
(* file the other one uses.                                                *)
NoConflict ==
  \A a, b \in Running : a # b => WriteSet(a) \cap (WriteSet(b) \cup ReadSet(b)) = {}

(* A lock or a place in a queue belongs to an agent that is running or     *)
(* that a runner will try again; a cancelled, failed or paused waiter must *)
(* not receive a lock later (the comment of release_all).                  *)
NoOrphanLock ==
  \A a \in Agent, f \in File :
    HoldsAny(locks[f], a) \/ Queued(locks[f], a) =>
      phase[a] = "Running" \/ life[a] = "WaitingForLock"

(* agent.phase, lifecycle.phase and the node's status are three records of *)
(* one thing, each written at its own place; between two calls they say    *)
(* the same of every agent.                                                *)
PhasesAgree ==
  \A a \in Agent :
    \/ life[a] = phase[a]
    \/ life[a] = "WaitingForLock" /\ phase[a] \in {"Queued", "Blocked"}

NodeFor(p) ==
  CASE p = "Queued" -> "Pending"
    [] p \in {"Running", "Blocked"} -> "Running"
    [] OTHER -> p

ViewsAgree ==
  /\ PhasesAgree
  /\ Idle => \A a \in Agent : node[a] = NodeFor(phase[a])

(* No agent works, or has worked, on top of a dependency that failed or    *)
(* was never finished; only cancel_all takes a finished dependency back.   *)
DependenciesHeld ==
  \A a \in Agent, u \in Agent :
    <<u, a>> \in Edges /\ phase[a] \in {"Running", "Blocked", "Done"} =>
      node[u] \in {"Done", "Cancelled"}

(* The verdict on the graph is never better than its nodes.                *)
VerdictEarned ==
  /\ graph = "Complete" => \A a \in Agent : node[a] = "Done"
  /\ graph = "Failed" /\ Idle => \E a \in Agent : node[a] = "Failed"

(* lifecycle.rs: "Whether this is a terminal state": an agent that is Done *)
(* stays Done.  cancel_all makes it Cancelled.                             *)
DoneIsFinal == [][\A a \in Agent : phase[a] = "Done" => phase'[a] = "Done"]_vars

==============================================================================
