--------------------------- MODULE ComposerProofs ---------------------------
(***************************************************************************)
(* The composer's safety properties, for every set of agents and files,    *)
(* every dependency graph and every max_parallel.                          *)
(***************************************************************************)
EXTENDS Composer, SharedFacts

(* In the middle of fail_blocked_dependents the nodes still to be handled  *)
(* are Failed already, their agents are not.                               *)
NodesAgree ==
  \A a \in Agent :
    \/ node[a] = NodeFor(phase[a])
    \/ batch.op = "fail" /\ a \in batch.todo /\ node[a] = "Failed" /\ phase[a] = "Queued"

(* The agents a loop has left are as they were when it chose them.         *)
BatchFits ==
  /\ batch.op = "none" <=> batch.todo = {}
  /\ batch.op = "pause" => \A a \in batch.todo : phase[a] = "Running"
  /\ batch.op = "resume" => \A a \in batch.todo : phase[a] = "Blocked"
  /\ batch.op = "fail" =>
       \A a \in batch.todo : phase[a] = "Queued" /\ node[a] = "Failed"
  /\ batch.op = "cancel" => \A a \in Agent \ batch.todo : node[a] = "Cancelled"

(* The verdict in the middle of a loop: only cancel_all takes a failure    *)
(* back, and it has taken all of them back when it ends.                   *)
VerdictFits ==
  /\ graph = "Complete" => \A a \in Agent : node[a] = "Done"
  /\ graph = "Failed" => batch.op = "cancel" \/ \E a \in Agent : node[a] = "Failed"

IInv ==
  /\ TypeOK
  /\ LocksSound
  /\ RunningHoldsFiles
  /\ NoOrphanLock
  /\ PhasesAgree
  /\ NodesAgree
  /\ BatchFits
  /\ DependenciesHeld
  /\ VerdictFits

-----------------------------------------------------------------------------
(* What the three ways the composer changes the table have in common.      *)
TableStep(a) ==
  /\ locks' \in [File -> PathState]
  /\ \A f \in File : PathInv(locks'[f]) /\ Undisturbed(locks[f], locks'[f], a)

HoldsFiles(a) ==
  /\ \A f \in WriteSet(a) : HoldsWrite(locks[f], a)
  /\ \A f \in ReadSet(a) : HoldsAny(locks[f], a)

LEMMA FilesAreFiles ==
  ASSUME NEW a \in Agent
  PROVE  WriteSet(a) \subseteq File /\ ReadSet(a) \subseteq File
<1>1. Writes[a] \in Seq(File) /\ Reads[a] \in Seq(File)
  BY FilesAssumption
<1>2. QED
  BY <1>1 DEF WriteSet, ReadSet

LEMMA UndisturbedTrans ==
  ASSUME NEW p, NEW q, NEW r, NEW a \in Agent, Undisturbed(p, q, a), Undisturbed(q, r, a)
  PROVE  Undisturbed(p, r, a)
BY DEF Undisturbed

LEMMA UndisturbedSelf == ASSUME NEW p, NEW a \in Agent PROVE Undisturbed(p, p, a)
BY DEF Undisturbed

(* Whatever of its files an agent asks for, the table stays sound and the  *)
(* others keep what they have.                                             *)
LEMMA AcquiredFacts ==
  ASSUME TypeOK, LocksSound, NEW a \in Agent, NEW F \in SUBSET File
  PROVE  /\ Acquired(a, F) \in [File -> PathState]
         /\ \A f \in File : /\ PathInv(Acquired(a, F)[f])
                            /\ Undisturbed(locks[f], Acquired(a, F)[f], a)
<1> SUFFICES ASSUME NEW f \in File
             PROVE  /\ Acquired(a, F)[f] \in PathState
                    /\ PathInv(Acquired(a, F)[f])
                    /\ Undisturbed(locks[f], Acquired(a, F)[f], a)
  BY DEF Acquired
<1>1. locks[f] \in PathState /\ PathInv(locks[f])
  BY DEF TypeOK, LocksSound
<1>2. Acquired(a, F)[f] \in {locks[f], AcquireWrite(locks[f], a), AcquireRead(locks[f], a)}
  BY DEF Acquired
<1>3. QED
  BY <1>1, <1>2, AcquireReadFacts, AcquireWriteFacts, UndisturbedSelf

(* A granted start leaves the agent with every file it declared.           *)
LEMMA GrantedTable ==
  ASSUME TypeOK, LocksSound, NEW a \in Agent, StartGranted(a)
  PROVE  TableStep(a) /\ HoldsFiles(a)'
<1> DEFINE F == WriteSet(a) \cup ReadSet(a)
<1>1. F \in SUBSET File /\ locks' = Acquired(a, F)
  BY FilesAreFiles DEF StartGranted
<1>2. TableStep(a)
  BY <1>1, AcquiredFacts DEF TableStep
<1>3. ASSUME NEW f \in WriteSet(a)
      PROVE  HoldsWrite(locks'[f], a)
  <2>1. f \in File /\ f \in F /\ locks[f] \in PathState /\ PathInv(locks[f])
    BY <1>1 DEF TypeOK, LocksSound
  <2>2. WriteGranted(locks[f], a)
    BY DEF StartGranted, CanStart, LocksGranted
  <2>3. locks'[f] = AcquireWrite(locks[f], a)
    BY <1>1, <2>1 DEF Acquired
  <2>4. QED
    BY <2>1, <2>2, <2>3, AcquireWriteFacts
<1>4. ASSUME NEW f \in ReadSet(a)
      PROVE  HoldsAny(locks'[f], a)
  <2>1. CASE f \in WriteSet(a)
    BY <1>3, <2>1 DEF HoldsWrite, HoldsAny, Lock
  <2>2. CASE f \notin WriteSet(a)
    <3>1. f \in File /\ f \in F /\ locks[f] \in PathState /\ PathInv(locks[f])
      BY <1>1 DEF TypeOK, LocksSound
    <3>2. ReadGranted(locks[f], a)
      BY <2>2 DEF StartGranted, CanStart, LocksGranted
    <3>3. locks'[f] = AcquireRead(locks[f], a)
      BY <1>1, <2>2, <3>1 DEF Acquired
    <3>4. QED
      BY <3>1, <3>2, <3>3, AcquireReadFacts
  <2>3. QED
    BY <2>1, <2>2
<1>5. QED
  BY <1>2, <1>3, <1>4 DEF HoldsFiles, WriteSet, ReadSet

(* A refused start, with its rollback, takes nothing from another agent.   *)
LEMMA RefusedTable ==
  ASSUME TypeOK, LocksSound, NEW a \in Agent, StartRefused(a)
  PROVE  TableStep(a) /\ held' \in [Agent -> SUBSET File]
<1>1. PICK f \in WriteSet(a) \cup ReadSet(a), granted \in SUBSET File :
        /\ locks' = RolledBack(a, Acquired(a, granted \cup {f}), held[a] \cup granted)
        /\ held' = [held EXCEPT ![a] = {g \in @ \cup granted : HoldsAny(locks[g], a)}]
  BY DEF StartRefused
<1> DEFINE table == Acquired(a, granted \cup {f})
<1>2. /\ table \in [File -> PathState]
      /\ \A g \in File : PathInv(table[g]) /\ Undisturbed(locks[g], table[g], a)
  <2>1. granted \cup {f} \in SUBSET File
    BY FilesAreFiles
  <2>2. QED
    BY <2>1, AcquiredFacts
<1> HIDE DEF table
<1>3. locks' = RolledBack(a, table, held[a] \cup granted)
  BY <1>1 DEF table
<1>4. ASSUME NEW g \in File
      PROVE  /\ locks'[g] \in PathState
             /\ PathInv(locks'[g])
             /\ Undisturbed(locks[g], locks'[g], a)
  <2>1. locks'[g] \in {table[g], Release(table[g], a)}
    BY <1>3 DEF RolledBack
  <2>2. /\ Release(table[g], a) \in PathState
        /\ PathInv(Release(table[g], a))
        /\ Undisturbed(table[g], Release(table[g], a), a)
    BY <1>2, ReleaseFacts DEF PathInv
  <2>3. QED
    BY <1>2, <2>1, <2>2, UndisturbedTrans
<1>5. locks' \in [File -> PathState]
  BY <1>3, <1>4 DEF RolledBack
<1>6. held' \in [Agent -> SUBSET File]
  BY <1>1 DEF TypeOK
<1>7. QED
  BY <1>4, <1>5, <1>6 DEF TableStep

(* release_all leaves the agent nothing, neither lock nor request.         *)
LEMMA ReleasedTable ==
  ASSUME TypeOK, LocksSound, NEW a \in Agent,
         locks' = [f \in File |-> ReleaseAll(locks[f], a)]
  PROVE  /\ TableStep(a)
         /\ \A f \in File : ~HoldsAny(locks'[f], a) /\ ~Queued(locks'[f], a)
<1>1. \A f \in File : locks[f] \in PathState /\ PathInv(locks[f])
  BY DEF TypeOK, LocksSound
<1>2. QED
  BY <1>1, ReleaseAllFacts DEF TableStep

(* An operation on one agent keeps what concerns the locks of the others.  *)
LEMMA OthersKept ==
  ASSUME TypeOK, LocksSound, RunningHoldsFiles, NoOrphanLock,
         NEW a \in Agent, TableStep(a),
         \A b \in Agent \ {a} : phase'[b] = phase[b] /\ life'[b] = life[b],
         phase'[a] = "Running" => HoldsFiles(a)',
         \/ phase'[a] = "Running"
         \/ life'[a] = "WaitingForLock"
         \/ \A f \in File : ~HoldsAny(locks'[f], a) /\ ~Queued(locks'[f], a)
  PROVE  LocksSound' /\ RunningHoldsFiles' /\ NoOrphanLock'
<1>1. LocksSound'
  BY DEF TableStep, LocksSound
<1>2. RunningHoldsFiles'
  <2> SUFFICES ASSUME NEW b \in Agent, phase'[b] = "Running"
               PROVE  HoldsFiles(b)'
    BY DEF RunningHoldsFiles, Running, HoldsFiles
  <2>1. CASE b = a
    BY <2>1
  <2>2. CASE b # a
    <3>1. HoldsFiles(b)
      BY <2>2 DEF RunningHoldsFiles, Running, HoldsFiles
    <3>2. WriteSet(b) \subseteq File /\ ReadSet(b) \subseteq File
      BY FilesAreFiles
    <3>3. \A f \in WriteSet(b) : HoldsWrite(locks'[f], b)
      BY <2>2, <3>1, <3>2 DEF HoldsFiles, TableStep, Undisturbed
    <3>4. \A f \in ReadSet(b) : HoldsAny(locks'[f], b)
      BY <2>2, <3>1, <3>2 DEF HoldsFiles, TableStep, Undisturbed
    <3>5. QED
      BY <3>3, <3>4 DEF HoldsFiles, WriteSet, ReadSet
  <2>3. QED
    BY <2>1, <2>2
<1>3. NoOrphanLock'
  <2> SUFFICES ASSUME NEW b \in Agent, NEW f \in File,
                      HoldsAny(locks'[f], b) \/ Queued(locks'[f], b)
               PROVE  phase'[b] = "Running" \/ life'[b] = "WaitingForLock"
    BY DEF NoOrphanLock
  <2>1. CASE b = a
    BY <2>1
  <2>2. CASE b # a
    <3>1. HoldsAny(locks[f], b) \/ Queued(locks[f], b)
      BY <2>2 DEF TableStep, Undisturbed
    <3>2. QED
      BY <2>2, <3>1 DEF NoOrphanLock
  <2>3. QED
    BY <2>1, <2>2
<1>4. QED
  BY <1>1, <1>2, <1>3

-----------------------------------------------------------------------------
(* What an operation on agent a does to the records, be it a call of its   *)
(* own or one turn of a loop.                                              *)
LoopStep(a) ==
  /\ batch' \in Batch
  /\ batch'.todo = batch.todo \ {a}
  /\ batch'.op \in {batch.op, "none"}
  /\ batch'.op = "none" <=> batch'.todo = {}

RecordStep(a) ==
  /\ phase' \in [Agent -> AgentPhase]
  /\ life' \in [Agent -> AgentPhase]
  /\ node' \in [Agent -> NodeStatus]
  /\ graph' \in GraphStatus
  /\ \A b \in Agent \ {a} :
       phase'[b] = phase[b] /\ life'[b] = life[b] /\ node'[b] = node[b]
  /\ node'[a] = NodeFor(phase'[a])
  /\ \/ life'[a] = phase'[a]
     \/ life'[a] = "WaitingForLock" /\ phase'[a] \in {"Queued", "Blocked"}
  /\ \/ graph' = GraphAfter(node')
     \/ node' = node /\ graph' = graph

LEMMA CallIsLoopStep ==
  ASSUME IInv, Idle, UNCHANGED batch, NEW a \in Agent
  PROVE  LoopStep(a) /\ batch.op = "none"
BY DEF IInv, TypeOK, BatchFits, Idle, LoopStep

LEMMA TurnIsLoopStep ==
  ASSUME IInv, NEW a \in Agent, NEW op, TakeNext(op, a)
  PROVE  LoopStep(a)
<1>1. batch \in Batch /\ (batch.op = "none" <=> batch.todo = {})
  BY DEF IInv, TypeOK, BatchFits
<1>2. CASE batch.todo = {a}
  BY <1>1, <1>2 DEF TakeNext, LoopStep, NoBatch, Batch
<1>3. CASE batch.todo # {a}
  <2>1. batch' = [op |-> batch.op, todo |-> batch.todo \ {a}]
    BY <1>1, <1>3 DEF TakeNext, Batch
  <2>2. batch.todo \ {a} # {} /\ batch.op # "none"
    BY <1>1, <1>3 DEF TakeNext
  <2>3. QED
    BY <1>1, <2>1, <2>2 DEF LoopStep, Batch
<1>4. QED
  BY <1>2, <1>3

(* The records of the agents an operation leaves alone stay in agreement,  *)
(* and so do the loop it belongs to and the verdict on the graph.          *)
LEMMA RecordsKept ==
  ASSUME IInv, NEW a \in Agent, LoopStep(a), RecordStep(a),
         batch.op = "cancel" => node'[a] = "Cancelled" /\ graph' = GraphAfter(node'),
         node[a] = "Failed" => node'[a] = "Failed" \/ batch.op = "cancel",
         node[a] = "Done" => node'[a] \in Terminal,
         node[a] \in {"Done", "Cancelled"} => node'[a] \in {"Done", "Cancelled"},
         phase'[a] \in {"Running", "Blocked", "Done"} =>
           \/ phase[a] \in {"Running", "Blocked", "Done"}
           \/ \A u \in Upstream(a) : node[u] = "Done"
  PROVE  PhasesAgree' /\ NodesAgree' /\ BatchFits' /\ DependenciesHeld' /\ VerdictFits'
<1>1. PhasesAgree'
  BY DEF IInv, PhasesAgree, RecordStep
<1>2. NodesAgree'
  <2> SUFFICES ASSUME NEW b \in Agent
               PROVE  \/ node'[b] = NodeFor(phase'[b])
                      \/ /\ batch'.op = "fail" /\ b \in batch'.todo
                         /\ node'[b] = "Failed" /\ phase'[b] = "Queued"
    BY DEF NodesAgree
  <2>1. CASE b = a
    BY <2>1 DEF RecordStep
  <2>2. CASE b # a
    <3>1. phase'[b] = phase[b] /\ node'[b] = node[b]
      BY <2>2 DEF RecordStep
    <3>2. b \in batch.todo => b \in batch'.todo /\ batch'.op = batch.op
      BY <2>2 DEF LoopStep
    <3>3. QED
      BY <3>1, <3>2 DEF IInv, NodesAgree
  <2>3. QED
    BY <2>1, <2>2
<1>3. BatchFits'
  <2>1. batch.todo \subseteq Agent
    BY DEF IInv, TypeOK, Batch
  <2>2. \A b \in batch'.todo : /\ b \in batch.todo /\ batch'.op = batch.op
                               /\ phase'[b] = phase[b] /\ node'[b] = node[b]
    BY <2>1 DEF LoopStep, RecordStep
  <2>3. batch'.op = "none" <=> batch'.todo = {}
    BY DEF LoopStep
  <2>4. batch'.op = "cancel" => \A b \in Agent \ batch'.todo : node'[b] = "Cancelled"
    <3> SUFFICES ASSUME batch'.op = "cancel", NEW b \in Agent \ batch'.todo
                 PROVE  node'[b] = "Cancelled"
      OBVIOUS
    <3>1. batch.op = "cancel"
      BY DEF LoopStep
    <3>2. b = a \/ b \notin batch.todo
      BY DEF LoopStep
    <3>3. QED
      BY <3>1, <3>2 DEF IInv, BatchFits, RecordStep
  <2>5. QED
    BY <2>2, <2>3, <2>4 DEF IInv, BatchFits
<1>4. DependenciesHeld'
  <2> SUFFICES ASSUME NEW b \in Agent, NEW u \in Agent, <<u, b>> \in Edges,
                      phase'[b] \in {"Running", "Blocked", "Done"}
               PROVE  node'[u] \in {"Done", "Cancelled"}
    BY DEF DependenciesHeld
  <2>1. node[u] \in {"Done", "Cancelled"}
    <3>1. CASE phase[b] \in {"Running", "Blocked", "Done"}
      BY <3>1 DEF IInv, DependenciesHeld
    <3>2. CASE phase[b] \notin {"Running", "Blocked", "Done"}
      <4>1. b = a
        BY <3>2 DEF RecordStep
      <4>2. u \in Upstream(a)
        BY <4>1 DEF Upstream
      <4>3. QED
        BY <3>2, <4>1, <4>2
    <3>3. QED
      BY <3>1, <3>2
  <2>2. QED
    BY <2>1 DEF RecordStep
<1>5. VerdictFits'
  <2>1. CASE node' = node /\ graph' = graph /\ batch.op # "cancel"
    BY <2>1 DEF IInv, VerdictFits, LoopStep
  <2>2. CASE graph' = GraphAfter(node')
    <3>1. CASE \A b \in Agent : node'[b] \in Terminal
      <4>1. graph' = "Complete" => \A b \in Agent : node'[b] = "Done"
        BY <2>2, <3>1 DEF GraphAfter
      <4>2. graph' = "Failed" => \E b \in Agent : node'[b] = "Failed"
        BY <2>2, <3>1 DEF GraphAfter
      <4>3. QED
        BY <4>1, <4>2 DEF VerdictFits
    <3>2. CASE ~ \A b \in Agent : node'[b] \in Terminal
      <4>1. graph' = graph
        BY <2>2, <3>2 DEF GraphAfter
      <4>2. graph # "Complete"
        BY <3>2 DEF IInv, VerdictFits, RecordStep, Terminal
      <4>3. CASE batch.op = "cancel"
        <5>1. \A b \in Agent \ batch'.todo : node'[b] = "Cancelled"
          BY <4>3 DEF IInv, BatchFits, LoopStep, RecordStep
        <5>2. batch'.todo # {}
          BY <3>2, <5>1 DEF Terminal
        <5>3. batch'.op = "cancel"
          BY <4>3, <5>2 DEF LoopStep
        <5>4. QED
          BY <4>1, <4>2, <5>3 DEF VerdictFits
      <4>4. CASE batch.op # "cancel"
        BY <4>1, <4>2, <4>4 DEF IInv, VerdictFits, RecordStep
      <4>5. QED
        BY <4>3, <4>4
    <3>3. QED
      BY <3>1, <3>2
  <2>3. QED
    BY <2>1, <2>2 DEF RecordStep
<1>6. QED
  BY <1>1, <1>2, <1>3, <1>4, <1>5

(* Both halves together.                                                   *)
LEMMA AgentStep ==
  ASSUME IInv, NEW a \in Agent, TableStep(a), LoopStep(a), RecordStep(a),
         held' \in [Agent -> SUBSET File],
         phase'[a] = "Running" => HoldsFiles(a)',
         \/ phase'[a] = "Running"
         \/ life'[a] = "WaitingForLock"
         \/ \A f \in File : ~HoldsAny(locks'[f], a) /\ ~Queued(locks'[f], a),
         batch.op = "cancel" => node'[a] = "Cancelled" /\ graph' = GraphAfter(node'),
         node[a] = "Failed" => node'[a] = "Failed" \/ batch.op = "cancel",
         node[a] = "Done" => node'[a] \in Terminal,
         node[a] \in {"Done", "Cancelled"} => node'[a] \in {"Done", "Cancelled"},
         phase'[a] \in {"Running", "Blocked", "Done"} =>
           \/ phase[a] \in {"Running", "Blocked", "Done"}
           \/ \A u \in Upstream(a) : node[u] = "Done"
  PROVE  IInv'
<1>1. LocksSound' /\ RunningHoldsFiles' /\ NoOrphanLock'
  <2>1. \A b \in Agent \ {a} : phase'[b] = phase[b] /\ life'[b] = life[b]
    BY DEF RecordStep
  <2>2. QED
    BY <2>1, OthersKept DEF IInv
<1>2. PhasesAgree' /\ NodesAgree' /\ BatchFits' /\ DependenciesHeld' /\ VerdictFits'
  BY RecordsKept
<1>3. TypeOK'
  BY DEF TableStep, RecordStep, LoopStep, TypeOK
<1>4. QED
  BY <1>1, <1>2, <1>3 DEF IInv

-----------------------------------------------------------------------------
(* The operations on one agent.                                            *)
LEMMA StartGrantedStep ==
  ASSUME IInv, NEW a \in Agent, LoopStep(a), StartGranted(a),
         phase[a] \in {"Queued", "Blocked"}, batch.op \in {"none", "resume"}
  PROVE  IInv'
<1>1. TableStep(a) /\ HoldsFiles(a)'
  BY GrantedTable DEF IInv
<1>2. held' \in [Agent -> SUBSET File]
  <2>1. WriteSet(a) \cup ReadSet(a) \subseteq File
    BY FilesAreFiles
  <2>2. QED
    BY <2>1 DEF StartGranted, IInv, TypeOK
<1>3. /\ phase' = [phase EXCEPT ![a] = "Running"]
      /\ life' = [life EXCEPT ![a] = "Running"]
      /\ node' = [node EXCEPT ![a] = "Running"]
      /\ graph' = GraphAfter(node')
      /\ \A u \in Upstream(a) : node[u] = "Done"
  BY DEF StartGranted, SetNode, CanStart, MayStart
<1>4. RecordStep(a)
  <2>1. graph' \in GraphStatus
    BY <1>3 DEF IInv, TypeOK, GraphAfter, GraphStatus
  <2>2. phase'[a] = "Running" /\ life'[a] = "Running" /\ node'[a] = NodeFor("Running")
    BY <1>3 DEF IInv, TypeOK, NodeFor
  <2>3. /\ phase' \in [Agent -> AgentPhase]
        /\ life' \in [Agent -> AgentPhase]
        /\ node' \in [Agent -> NodeStatus]
    BY <1>3 DEF IInv, TypeOK, AgentPhase, NodeStatus
  <2>4. \A b \in Agent \ {a} :
          phase'[b] = phase[b] /\ life'[b] = life[b] /\ node'[b] = node[b]
    BY <1>3 DEF IInv, TypeOK
  <2>5. node'[a] = NodeFor(phase'[a])
    BY <2>2
  <2>6. QED
    BY <1>3, <2>1, <2>2, <2>3, <2>4, <2>5 DEF RecordStep
<1>5. node[a] \in {"Pending", "Running"}
  BY DEF IInv, NodesAgree, NodeFor
<1>6. phase'[a] = "Running"
  BY <1>3 DEF IInv, TypeOK
<1>7. QED
  BY <1>1, <1>2, <1>3, <1>4, <1>5, <1>6, AgentStep

LEMMA StartRefusedStep ==
  ASSUME IInv, NEW a \in Agent, LoopStep(a), StartRefused(a),
         phase[a] \in {"Queued", "Blocked"}, batch.op \in {"none", "resume"}
  PROVE  IInv'
<1>1. TableStep(a) /\ held' \in [Agent -> SUBSET File]
  BY RefusedTable DEF IInv
<1>2. /\ phase' = phase
      /\ life' = [life EXCEPT ![a] = "WaitingForLock"]
      /\ node' = node
      /\ graph' = graph
  BY DEF StartRefused
<1>3. node[a] = NodeFor(phase[a])
  BY DEF IInv, NodesAgree
<1>4. life'[a] = "WaitingForLock"
  BY <1>2 DEF IInv, TypeOK
<1>5. RecordStep(a)
  BY <1>2, <1>3, <1>4 DEF IInv, TypeOK, RecordStep, AgentPhase
<1>6. node[a] \in {"Pending", "Running"}
  BY <1>3 DEF NodeFor
<1>7. QED
  BY <1>1, <1>2, <1>4, <1>5, <1>6, AgentStep

LEMMA FinishStep ==
  ASSUME IInv, NEW a \in Agent, LoopStep(a), NEW status \in Terminal, Finish(a, status),
         batch.op \in {"none", "fail", "cancel"},
         batch.op = "cancel" <=> status = "Cancelled",
         batch.op = "none" => phase[a] \notin Terminal,
         batch.op = "fail" => a \in batch.todo /\ status = "Failed",
         status = "Done" => phase[a] \in {"Running", "Blocked"}
  PROVE  IInv'
<1>1. TableStep(a) /\ \A f \in File : ~HoldsAny(locks'[f], a) /\ ~Queued(locks'[f], a)
  BY ReleasedTable DEF Finish, IInv
<1>2. /\ held' = held
      /\ phase' = [phase EXCEPT ![a] = status]
      /\ life' = [life EXCEPT ![a] = status]
      /\ node' = [node EXCEPT ![a] = status]
      /\ graph' = GraphAfter(node')
  BY DEF Finish, SetNode
<1>3. status \in AgentPhase /\ status \in NodeStatus /\ NodeFor(status) = status
  BY DEF Terminal, AgentPhase, NodeStatus, NodeFor
<1>4. phase'[a] = status /\ life'[a] = status /\ node'[a] = status
  BY <1>2 DEF IInv, TypeOK
<1>5. RecordStep(a)
  <2>1. graph' \in GraphStatus
    BY <1>2 DEF IInv, TypeOK, GraphAfter, GraphStatus
  <2>2. /\ phase' \in [Agent -> AgentPhase]
        /\ life' \in [Agent -> AgentPhase]
        /\ node' \in [Agent -> NodeStatus]
    BY <1>2, <1>3 DEF IInv, TypeOK
  <2>3. \A b \in Agent \ {a} :
          phase'[b] = phase[b] /\ life'[b] = life[b] /\ node'[b] = node[b]
    BY <1>2 DEF IInv, TypeOK
  <2>4. node'[a] = NodeFor(phase'[a])
    BY <1>3, <1>4
  <2>5. QED
    BY <1>2, <1>4, <2>1, <2>2, <2>3, <2>4 DEF RecordStep
<1>6. batch.op = "none" => node[a] \in {"Pending", "Running"}
  <2>1. batch.op = "none" => node[a] = NodeFor(phase[a])
    BY DEF IInv, NodesAgree
  <2>2. phase[a] \in AgentPhase /\ node[a] \in NodeStatus
    BY DEF IInv, TypeOK
  <2>3. QED
    BY <2>1, <2>2 DEF NodeFor, AgentPhase, NodeStatus, Terminal
<1>7. batch.op = "fail" => node[a] = "Failed"
  BY DEF IInv, BatchFits
<1>8. /\ held' \in [Agent -> SUBSET File]
      /\ phase'[a] # "Running"
  BY <1>2, <1>4 DEF IInv, TypeOK, Terminal
<1>9. phase'[a] \in {"Running", "Blocked", "Done"} => phase[a] \in {"Running", "Blocked"}
  BY <1>4 DEF Terminal
<1>10. QED
  BY <1>1, <1>2, <1>4, <1>5, <1>6, <1>7, <1>8, <1>9, AgentStep DEF Terminal

LEMMA PauseStep ==
  ASSUME IInv, NEW a \in Agent, PauseOne(a)
  PROVE  IInv'
<1>1. LoopStep(a) /\ batch.op = "pause" /\ phase[a] = "Running"
  BY TurnIsLoopStep DEF PauseOne, TakeNext, IInv, BatchFits
<1>2. TableStep(a) /\ \A f \in File : ~HoldsAny(locks'[f], a) /\ ~Queued(locks'[f], a)
  BY ReleasedTable DEF PauseOne, IInv
<1>3. /\ phase' = [phase EXCEPT ![a] = "Blocked"]
      /\ life' = [life EXCEPT ![a] = "Blocked"]
      /\ held' = held /\ node' = node /\ graph' = graph
  BY DEF PauseOne
<1>4. node[a] = "Running"
  BY <1>1 DEF IInv, NodesAgree, NodeFor
<1>5. phase'[a] = "Blocked" /\ life'[a] = "Blocked"
  BY <1>3 DEF IInv, TypeOK
<1>6. RecordStep(a)
  BY <1>3, <1>4, <1>5 DEF IInv, TypeOK, RecordStep, NodeFor, AgentPhase
<1>7. held' \in [Agent -> SUBSET File]
  BY <1>3 DEF IInv, TypeOK
<1>8. QED
  BY <1>1, <1>2, <1>3, <1>4, <1>5, <1>6, <1>7, AgentStep

(* An agent that resume_all cannot start for a reason that leaves no trace. *)
LEMMA SkippedStep ==
  ASSUME IInv, NEW a \in Agent, LoopStep(a), batch.op = "resume",
         UNCHANGED <<locks, phase, life, held, node, graph>>
  PROVE  IInv'
<1>1. TypeOK' /\ LocksSound' /\ RunningHoldsFiles' /\ NoOrphanLock' /\ PhasesAgree'
  BY DEF IInv, TypeOK, LoopStep, LocksSound, RunningHoldsFiles, NoOrphanLock, PhasesAgree,
         Running
<1>2. NodesAgree' /\ BatchFits' /\ DependenciesHeld' /\ VerdictFits'
  BY DEF IInv, LoopStep, NodesAgree, BatchFits, DependenciesHeld, VerdictFits
<1>3. QED
  BY <1>1, <1>2 DEF IInv

(* The choice of the agents of a loop, and set_graph_status.               *)
LEMMA BeginStep ==
  ASSUME IInv, NEW op \in {"pause", "resume", "cancel"}, NEW agents \in SUBSET Agent,
         Begin(op, agents),
         op = "pause" => agents = Running,
         op = "resume" => agents = {a \in Agent : phase[a] = "Blocked"},
         op = "cancel" => agents = Agent,
         UNCHANGED <<locks, phase, life, held, node, graph>>
  PROVE  IInv'
<1>1. batch.op = "none" /\ batch' = [op |-> op, todo |-> agents] /\ agents # {}
  BY DEF Begin, Idle, IInv, BatchFits
<1>2. TypeOK' /\ LocksSound' /\ RunningHoldsFiles' /\ NoOrphanLock' /\ PhasesAgree'
  BY <1>1 DEF IInv, TypeOK, Batch, LocksSound, RunningHoldsFiles, NoOrphanLock, PhasesAgree,
              Running
<1>3. NodesAgree' /\ BatchFits' /\ DependenciesHeld' /\ VerdictFits'
  BY <1>1 DEF IInv, NodesAgree, BatchFits, DependenciesHeld, VerdictFits, Running
<1>4. QED
  BY <1>2, <1>3 DEF IInv

LEMMA FailBlockedStep == ASSUME IInv, FailBlockedDependents PROVE IInv'
<1>1. /\ batch.op = "none" /\ batch' = [op |-> "fail", todo |-> Doomed] /\ Doomed # {}
      /\ node' = [a \in Agent |-> IF a \in Doomed THEN "Failed" ELSE node[a]]
      /\ UNCHANGED <<locks, phase, life, held, graph>>
  BY DEF FailBlockedDependents, Begin, Idle, IInv, BatchFits
<1>2. \A d \in Doomed : d \in Agent /\ node[d] = "Pending"
  BY DEF Doomed
<1> HIDE DEF Doomed
<1>3. \A d \in Doomed : phase[d] = "Queued"
  <2>1. ASSUME NEW d \in Doomed
        PROVE  phase[d] = "Queued"
    <3>1. node[d] = NodeFor(phase[d]) /\ phase[d] \in AgentPhase
      BY <1>1, <1>2 DEF IInv, NodesAgree, TypeOK
    <3>2. QED
      BY <1>2, <3>1 DEF NodeFor, AgentPhase
  <2>2. QED
    BY <2>1
<1>4. TypeOK'
  BY <1>1, <1>2 DEF IInv, TypeOK, Batch, NodeStatus
<1>5. LocksSound' /\ RunningHoldsFiles' /\ NoOrphanLock' /\ PhasesAgree'
  BY <1>1 DEF IInv, LocksSound, RunningHoldsFiles, NoOrphanLock, PhasesAgree, Running
<1>6. NodesAgree' /\ BatchFits'
  BY <1>1, <1>2, <1>3 DEF IInv, NodesAgree, BatchFits
<1>7. DependenciesHeld'
  BY <1>1, <1>2 DEF IInv, DependenciesHeld
<1>8. VerdictFits'
  BY <1>1, <1>2 DEF IInv, VerdictFits
<1>9. QED
  BY <1>4, <1>5, <1>6, <1>7, <1>8 DEF IInv

-----------------------------------------------------------------------------
LEMMA CallStep ==
  ASSUME IInv, NEW a \in Agent,
         \/ Start(a)
         \/ \E success \in BOOLEAN : Complete(a, success)
         \/ Fail(a)
  PROVE  IInv'
<1>1. CASE Start(a)
  <2>1. LoopStep(a) /\ batch.op = "none"
    BY <1>1, CallIsLoopStep DEF Start
  <2>2. phase[a] \in {"Queued", "Blocked"}
    <3>1. phase[a] # "WaitingForLock"
      BY DEF IInv, TypeOK, NodesAgree, NodeFor, NodeStatus
    <3>2. QED
      BY <1>1, <3>1 DEF Start, IInv, PhasesAgree
  <2>3. CASE StartGranted(a)
    BY <2>1, <2>2, <2>3, StartGrantedStep
  <2>4. CASE StartRefused(a)
    BY <2>1, <2>2, <2>4, StartRefusedStep
  <2>5. QED
    BY <1>1, <2>3, <2>4 DEF Start
<1>2. ASSUME NEW success \in BOOLEAN, Complete(a, success)
      PROVE  IInv'
  <2>1. LoopStep(a) /\ batch.op = "none"
    BY <1>2, CallIsLoopStep DEF Complete
  <2>2. PICK status \in {"Done", "Failed"} : Finish(a, status)
    BY <1>2 DEF Complete
  <2>3. status \in Terminal /\ status # "Cancelled"
    BY DEF Terminal
  <2>4. phase[a] \in {"Running", "Blocked"} /\ phase[a] \notin Terminal
    BY <1>2 DEF Complete, Terminal
  <2>5. QED
    BY <2>1, <2>2, <2>3, <2>4, FinishStep
<1>3. CASE Fail(a)
  <2>1. LoopStep(a) /\ batch.op = "none"
    BY <1>3, CallIsLoopStep DEF Fail
  <2>2. Finish(a, "Failed") /\ phase[a] \notin Terminal /\ "Failed" \in Terminal
    BY <1>3 DEF Fail, Terminal
  <2>3. QED
    BY <2>1, <2>2, FinishStep
<1>4. QED
  BY <1>1, <1>2, <1>3

LEMMA TurnStep == ASSUME IInv, BatchStep PROVE IInv'
<1> SUFFICES ASSUME NEW a \in Agent, PauseOne(a) \/ ResumeOne(a) \/ CancelOne(a) \/ FailOne(a)
             PROVE  IInv'
  BY DEF BatchStep
<1>1. CASE PauseOne(a)
  BY <1>1, PauseStep
<1>2. CASE ResumeOne(a)
  <2>0. TakeNext("resume", a)
    BY <1>2 DEF ResumeOne
  <2>1. LoopStep(a) /\ batch.op = "resume" /\ a \in batch.todo
    BY <2>0, TurnIsLoopStep DEF TakeNext
  <2>2. phase[a] = "Blocked"
    BY <2>1 DEF IInv, BatchFits
  <2>3. CASE StartGranted(a)
    BY <2>1, <2>2, <2>3, StartGrantedStep
  <2>4. CASE StartRefused(a)
    BY <2>1, <2>2, <2>4, StartRefusedStep
  <2>5. CASE UNCHANGED <<locks, phase, life, held, node, graph>>
    BY <2>1, <2>5, SkippedStep
  <2>6. QED
    BY <1>2, <2>3, <2>4, <2>5 DEF ResumeOne
<1>3. CASE CancelOne(a)
  <2>1. LoopStep(a) /\ batch.op = "cancel" /\ Finish(a, "Cancelled")
    BY <1>3, TurnIsLoopStep DEF CancelOne, TakeNext
  <2>2. "Cancelled" \in Terminal
    BY DEF Terminal
  <2>3. QED
    BY <2>1, <2>2, FinishStep
<1>4. CASE FailOne(a)
  <2>1. LoopStep(a) /\ batch.op = "fail" /\ a \in batch.todo /\ Finish(a, "Failed")
    BY <1>4, TurnIsLoopStep DEF FailOne, TakeNext
  <2>2. "Failed" \in Terminal
    BY DEF Terminal
  <2>3. QED
    BY <2>1, <2>2, FinishStep
<1>5. QED
  BY <1>1, <1>2, <1>3, <1>4

LEMMA Inductive == IInv /\ [Next]_vars => IInv'
<1> SUFFICES ASSUME IInv, [Next]_vars
             PROVE  IInv'
  OBVIOUS
<1>1. ASSUME NEW a \in Agent,
             \/ Start(a)
             \/ \E success \in BOOLEAN : Complete(a, success)
             \/ Fail(a)
      PROVE  IInv'
  BY <1>1, CallStep
<1>2. ASSUME NEW status \in {"Running", "Paused", "Cancelled"}, SetGraphStatus(status)
      PROVE  IInv'
  <2>1. graph' = status /\ UNCHANGED <<locks, phase, life, held, node, batch>>
    BY <1>2 DEF SetGraphStatus
  <2>2. TypeOK' /\ LocksSound' /\ RunningHoldsFiles' /\ NoOrphanLock' /\ PhasesAgree'
    BY <2>1 DEF IInv, TypeOK, GraphStatus, LocksSound, RunningHoldsFiles, NoOrphanLock,
                PhasesAgree, Running
  <2>3. NodesAgree' /\ BatchFits' /\ DependenciesHeld' /\ VerdictFits'
    BY <2>1 DEF IInv, NodesAgree, BatchFits, DependenciesHeld, VerdictFits
  <2>4. QED
    BY <2>2, <2>3 DEF IInv
<1>3. CASE PauseAll
  <2>1. Running \in SUBSET Agent
    BY DEF Running
  <2>2. QED
    BY <1>3, <2>1, BeginStep DEF PauseAll
<1>4. CASE ResumeAll
  BY <1>4, BeginStep DEF ResumeAll
<1>5. CASE CancelAll
  BY <1>5, BeginStep DEF CancelAll
<1>6. CASE FailBlockedDependents
  BY <1>6, FailBlockedStep
<1>7. CASE BatchStep
  BY <1>7, TurnStep
<1>8. CASE UNCHANGED vars
  <2>1. UNCHANGED <<locks, phase, life, held, node, graph>> /\ batch' = batch
    BY <1>8 DEF vars
  <2>2. TypeOK' /\ LocksSound' /\ RunningHoldsFiles' /\ NoOrphanLock' /\ PhasesAgree'
    BY <2>1 DEF IInv, TypeOK, LocksSound, RunningHoldsFiles, NoOrphanLock, PhasesAgree,
                Running
  <2>3. NodesAgree' /\ BatchFits' /\ DependenciesHeld' /\ VerdictFits'
    BY <2>1 DEF IInv, NodesAgree, BatchFits, DependenciesHeld, VerdictFits
  <2>4. QED
    BY <2>2, <2>3 DEF IInv
<1>9. QED
  BY <1>1, <1>2, <1>3, <1>4, <1>5, <1>6, <1>7, <1>8 DEF Next

LEMMA Initial == Init => IInv
<1> SUFFICES ASSUME Init
             PROVE  IInv
  OBVIOUS
<1>1. \A f \in File : locks[f] = NoLocks
  BY DEF Init
<1>2. TypeOK /\ LocksSound
  BY <1>1, NoLocksSound DEF Init, TypeOK, LocksSound, AgentPhase, NodeStatus, GraphStatus,
                            Batch, NoBatch
<1>3. RunningHoldsFiles
  BY DEF Init, RunningHoldsFiles, Running
<1>4. NoOrphanLock
  BY <1>1 DEF NoOrphanLock, HoldsAny, Queued, NoLocks
<1>5. PhasesAgree /\ NodesAgree /\ BatchFits /\ DependenciesHeld /\ VerdictFits
  BY DEF Init, PhasesAgree, NodesAgree, NodeFor, BatchFits, NoBatch, DependenciesHeld, VerdictFits
<1>6. QED
  BY <1>2, <1>3, <1>4, <1>5 DEF IInv

LEMMA Invariance == Spec => []IInv
BY Initial, Inductive, PTL DEF Spec

(* The composer's records are always well formed.                          *)
THEOREM TypeCorrect == Spec => []TypeOK
<1>1. IInv => TypeOK
  BY DEF IInv
<1>2. QED
  BY <1>1, Invariance, PTL

(* The lock table keeps its rules through partial acquisitions, rollbacks  *)
(* and the ends of waiting agents.                                         *)
THEOREM LocksStaySound == Spec => []LocksSound
<1>1. IInv => LocksSound
  BY DEF IInv
<1>2. QED
  BY <1>1, Invariance, PTL

(* A running agent has all its files.                                      *)
THEOREM RunningAgentsHoldFiles == Spec => []RunningHoldsFiles
<1>1. IInv => RunningHoldsFiles
  BY DEF IInv
<1>2. QED
  BY <1>1, Invariance, PTL

(* No agent runs while another writes one of its files.                    *)
THEOREM NoConflictingAgents == Spec => []NoConflict
<1>1. IInv => NoConflict
  <2> SUFFICES ASSUME IInv, NEW a \in Running, NEW b \in Running, a # b,
                      NEW f \in WriteSet(a), f \in WriteSet(b) \cup ReadSet(b)
               PROVE  FALSE
    BY DEF NoConflict
  <2>1. a \in Agent /\ b \in Agent
    BY DEF Running
  <2>2. f \in File
    BY <2>1, FilesAreFiles
  <2>3. HoldsWrite(locks[f], a) /\ HoldsAny(locks[f], b)
    BY DEF IInv, RunningHoldsFiles, HoldsAny, HoldsWrite, Lock
  <2>4. Exclusive(locks[f])
    BY <2>2 DEF IInv, LocksSound, PathInv
  <2>5. QED
    BY <2>3, <2>4 DEF Exclusive, HoldsAny, HoldsWrite, Lock
<1>2. QED
  BY <1>1, Invariance, PTL

(* Whoever has a lock or waits for one is running or will be tried again.  *)
THEOREM NoLockIsOrphaned == Spec => []NoOrphanLock
<1>1. IInv => NoOrphanLock
  BY DEF IInv
<1>2. QED
  BY <1>1, Invariance, PTL

(* The three records of an agent say the same between two calls.           *)
THEOREM ViewsStayInAgreement == Spec => []ViewsAgree
<1>1. IInv => ViewsAgree
  BY DEF IInv, ViewsAgree, NodesAgree, Idle
<1>2. QED
  BY <1>1, Invariance, PTL

(* Whoever runs or is done has dependencies that are done.                 *)
THEOREM DependenciesStayHeld == Spec => []DependenciesHeld
<1>1. IInv => DependenciesHeld
  BY DEF IInv
<1>2. QED
  BY <1>1, Invariance, PTL

(* The graph's verdict is never better than its nodes.                     *)
THEOREM VerdictsAreEarned == Spec => []VerdictEarned
<1>1. IInv => VerdictEarned
  BY DEF IInv, VerdictFits, VerdictEarned, BatchFits, Idle
<1>2. QED
  BY <1>1, Invariance, PTL

-----------------------------------------------------------------------------
(* What the loops that drive the composer rely on.  A reader of a file is  *)
(* an agent that only reads it.                                            *)
ModesFit ==
  \A f \in File, a \in Agent : Lock(a, "read") \in locks[f].holders => f \notin WriteSet(a)

(* Whoever has a lock or waits for one was free to start when it asked, so *)
(* what it depends on was done, and is, unless it was cancelled since.     *)
AskedFits ==
  \A a \in Agent, f \in File :
    HoldsAny(locks[f], a) \/ Queued(locks[f], a) =>
      \A u \in Upstream(a) : node[u] \in {"Done", "Cancelled"}

(* An agent that could not start, for a reason another agent's ask does    *)
(* not take away.                                                          *)
Barred(a) ==
  \/ \E u \in Upstream(a) : node[u] # "Done"
  \/ \E f \in WriteSet(a), b \in Agent \ {a} : HoldsAny(locks[f], b)
  \/ \E f \in ReadSet(a), b \in Agent \ {a} : HoldsWrite(locks[f], b)

LEMMA BarredCannotStart ==
  ASSUME IInv, NEW a \in Agent, Barred(a)
  PROVE  ~CanStart(a)
<1>1. WriteSet(a) \subseteq File /\ ReadSet(a) \subseteq File
  BY FilesAreFiles
<1>2. \A f \in File : Exclusive(locks[f])
  BY DEF IInv, LocksSound, PathInv
<1>3. CASE \E u \in Upstream(a) : node[u] # "Done"
  BY <1>3 DEF CanStart, MayStart
<1>4. ASSUME NEW f \in WriteSet(a), NEW b \in Agent \ {a}, HoldsAny(locks[f], b)
      PROVE  ~CanStart(a)
  <2>1. ~HoldsWrite(locks[f], a) /\ locks[f].holders # {}
    BY <1>1, <1>2, <1>4 DEF HoldsAny, HoldsWrite, Exclusive, Lock
  <2>2. QED
    BY <2>1 DEF CanStart, LocksGranted, WriteGranted
<1>5. ASSUME NEW f \in ReadSet(a), NEW b \in Agent \ {a}, HoldsWrite(locks[f], b)
      PROVE  ~CanStart(a)
  <2>1. HoldsAny(locks[f], b) /\ WriteLocked(locks[f]) /\ ~HoldsAny(locks[f], a)
    BY <1>1, <1>2, <1>5 DEF HoldsAny, HoldsWrite, Exclusive, Lock, WriteLocked
  <2>2. CASE f \in WriteSet(a)
    BY <1>4, <2>1, <2>2
  <2>3. CASE f \notin WriteSet(a)
    BY <2>1, <2>3 DEF CanStart, LocksGranted, ReadGranted
  <2>4. QED
    BY <2>2, <2>3
<1>6. QED
  BY <1>3, <1>4, <1>5 DEF Barred

(* Whoever may start and is refused is refused for another agent's lock.   *)
LEMMA RefusedIsBarred ==
  ASSUME IInv, ModesFit, NEW a \in Agent, MayStart(a), ~CanStart(a)
  PROVE  Barred(a)
<1>1. WriteSet(a) \subseteq File /\ ReadSet(a) \subseteq File
  BY FilesAreFiles
<1>2. \A f \in File : \A h \in locks[f].holders :
        h.agent \in Agent /\ h.mode \in Mode /\ h = Lock(h.agent, h.mode)
  BY DEF IInv, TypeOK, PathState, FileLock, Lock
<1>3. ~LocksGranted(a)
  BY DEF CanStart
<1>4. ASSUME NEW f \in WriteSet(a), ~WriteGranted(locks[f], a)
      PROVE  Barred(a)
  <2>1. PICK h \in locks[f].holders : TRUE
    BY <1>4 DEF WriteGranted
  <2>2. h # Lock(a, "write") /\ h # Lock(a, "read")
    BY <1>1, <1>4, <2>1 DEF WriteGranted, HoldsWrite, ModesFit
  <2>3. h.agent \in Agent \ {a}
    BY <1>1, <1>2, <2>1, <2>2 DEF Mode
  <2>4. HoldsAny(locks[f], h.agent)
    BY <2>1 DEF HoldsAny
  <2>5. QED
    BY <2>3, <2>4 DEF Barred
<1>5. ASSUME NEW f \in ReadSet(a), ~ReadGranted(locks[f], a)
      PROVE  Barred(a)
  <2>1. PICK h \in locks[f].holders : h.mode = "write"
    BY <1>5 DEF ReadGranted, WriteLocked
  <2>2. h.agent \in Agent \ {a} /\ HoldsWrite(locks[f], h.agent)
    BY <1>1, <1>2, <1>5, <2>1 DEF ReadGranted, HoldsAny, HoldsWrite
  <2>3. QED
    BY <2>2 DEF Barred
<1>6. QED
  BY <1>3, <1>4, <1>5 DEF LocksGranted

(* With nobody running there is only one reason not to ask for the locks.  *)
LEMMA HeldBackIsBarred ==
  ASSUME NEW a \in Agent, Running = {}, ~MayStart(a)
  PROVE  Barred(a)
<1>1. Cardinality(Running) < MaxParallel
  BY FS_EmptySet, MaxParallelAssumption
<1>2. QED
  BY <1>1 DEF MayStart, Barred

(* A refused start takes no lock from anybody, and lets the asker keep     *)
(* what it had.                                                            *)
LEMMA RefusedKeepsLocks ==
  ASSUME IInv, NEW a \in Agent, StartRefused(a)
  PROVE  \A f \in File, b \in Agent :
           /\ HoldsAny(locks[f], b) => HoldsAny(locks'[f], b)
           /\ HoldsWrite(locks[f], b) => HoldsWrite(locks'[f], b)
<1> SUFFICES ASSUME NEW f \in File, NEW b \in Agent
             PROVE  /\ HoldsAny(locks[f], b) => HoldsAny(locks'[f], b)
                    /\ HoldsWrite(locks[f], b) => HoldsWrite(locks'[f], b)
  OBVIOUS
<1>1. CASE b # a
  BY <1>1, RefusedTable DEF IInv, TableStep, Undisturbed
<1>2. CASE b = a
  <2>1. PICK F, mine : locks' = RolledBack(a, Acquired(a, F), mine)
    BY DEF StartRefused
  <2>2. HoldsWrite(locks[f], a) => HoldsAny(locks[f], a)
    BY DEF HoldsWrite, HoldsAny, Lock
  <2>3. HoldsAny(locks[f], a) => locks'[f] = Acquired(a, F)[f]
    BY <2>1 DEF RolledBack
  <2>4. locks[f].holders \subseteq Acquired(a, F)[f].holders
    BY AcquiringKeepsLocks DEF Acquired, IInv, TypeOK
  <2>5. QED
    BY <1>2, <2>2, <2>3, <2>4 DEF HoldsAny, HoldsWrite
<1>3. QED
  BY <1>1, <1>2

(* What bars an agent stays when another one is refused.                   *)
LEMMA BarredWhileRefused ==
  ASSUME IInv, NEW a \in Agent, StartRefused(a), NEW c \in Agent, Barred(c)
  PROVE  Barred(c)'
<1>1. node' = node
  BY DEF StartRefused
<1>2. WriteSet(c) \subseteq File /\ ReadSet(c) \subseteq File
  BY FilesAreFiles
<1>3. \A f \in File, b \in Agent :
        /\ HoldsAny(locks[f], b) => HoldsAny(locks'[f], b)
        /\ HoldsWrite(locks[f], b) => HoldsWrite(locks'[f], b)
  BY RefusedKeepsLocks
<1>4. WriteSet(c)' = WriteSet(c) /\ ReadSet(c)' = ReadSet(c) /\ Upstream(c)' = Upstream(c)
  BY DEF WriteSet, ReadSet, Upstream
<1>5. QED
  BY <1>1, <1>2, <1>3, <1>4 DEF Barred

(* And when an agent without a lock is failed.                             *)
LEMMA BarredWhileFailed ==
  ASSUME IInv, NEW a \in Agent, Finish(a, "Failed"),
         \A f \in File : ~HoldsAny(locks[f], a),
         NEW c \in Agent, Barred(c)
  PROVE  Barred(c)'
<1>1. node' = [node EXCEPT ![a] = "Failed"] /\ node \in [Agent -> NodeStatus]
  BY DEF Finish, SetNode, IInv, TypeOK
<1>2. WriteSet(c) \subseteq File /\ ReadSet(c) \subseteq File
  BY FilesAreFiles
<1>3. TableStep(a)
  BY ReleasedTable DEF IInv, Finish
<1>4. \A f \in File, b \in Agent :
        /\ HoldsAny(locks[f], b) => HoldsAny(locks'[f], b)
        /\ HoldsWrite(locks[f], b) => HoldsWrite(locks'[f], b)
  <2>1. \A f \in File : ~HoldsWrite(locks[f], a)
    BY DEF HoldsWrite, HoldsAny, Lock
  <2>2. QED
    BY <1>3, <2>1 DEF TableStep, Undisturbed
<1>5. WriteSet(c)' = WriteSet(c) /\ ReadSet(c)' = ReadSet(c) /\ Upstream(c)' = Upstream(c)
  BY DEF WriteSet, ReadSet, Upstream
<1>6. Upstream(c) \subseteq Agent
  BY DEF Upstream
<1>7. QED
  BY <1>1, <1>2, <1>4, <1>5, <1>6 DEF Barred

(* An agent fail_blocked_dependents takes depends on one that is not done. *)
LEMMA DoomedIsBarred ==
  ASSUME NEW a \in Doomed
  PROVE  \E u \in Upstream(a) : node[u] \in {"Pending", "Failed", "Cancelled"}
<1> DEFINE open == {d \in Agent : node[d] = "Pending"}
           S == {d \in open : \E u \in Upstream(d) :
                   node[u] \in {"Pending", "Failed", "Cancelled"}}
<1>1. S \in SUBSET open
  OBVIOUS
<1>2. \A d \in open :
        (\E u \in Upstream(d) : u \in S \/ node[u] \in {"Failed", "Cancelled"}) => d \in S
  OBVIOUS
<1>3. a \in S
  BY <1>1, <1>2 DEF Doomed
<1>4. QED
  BY <1>3

(* Once every agent has ended nothing is left in the table.                *)
LEMMA NothingLocked ==
  ASSUME IInv, \A a \in Agent : phase[a] \in Terminal, NEW f \in File
  PROVE  locks[f] = NoLocks
<1>1. \A a \in Agent : ~HoldsAny(locks[f], a) /\ ~Queued(locks[f], a)
  BY DEF IInv, NoOrphanLock, PhasesAgree, Terminal
<1>2. locks[f] \in PathState
  BY DEF IInv, TypeOK
<1>3. locks[f].holders = {}
  BY <1>1, <1>2 DEF PathState, FileLock, HoldsAny
<1>4. locks[f].queue = <<>>
  <2>1. locks[f].queue \in Seq(Agent)
    BY <1>2 DEF PathState
  <2>2. \A i \in DOMAIN locks[f].queue : locks[f].queue[i] \in Agent
    BY <2>1
  <2>3. DOMAIN locks[f].queue = {}
    BY <1>1, <2>2 DEF Queued
  <2>4. Len(locks[f].queue) = 0
    <3>1. Len(locks[f].queue) \in Nat /\ DOMAIN locks[f].queue = 1..Len(locks[f].queue)
      BY <2>1
    <3>2. 1 \notin 1..Len(locks[f].queue)
      BY <2>3, <3>1
    <3>3. QED
      BY <3>1, <3>2
  <2>5. QED
    BY <2>1, <2>4
<1>5. QED
  BY <1>2, <1>3, <1>4 DEF PathState, NoLocks

-----------------------------------------------------------------------------
(* What any step does to the table, and to the nodes that are done.        *)
LEMMA AcquiredReaders ==
  ASSUME IInv, NEW a \in Agent, NEW F \in SUBSET File, NEW f \in File, NEW b \in Agent,
         Lock(b, "read") \in Acquired(a, F)[f].holders
  PROVE  Lock(b, "read") \in locks[f].holders \/ (b = a /\ f \notin WriteSet(a))
<1>1. locks[f] \in PathState
  BY DEF IInv, TypeOK
<1>2. CASE f \in F /\ f \in WriteSet(a)
  BY <1>1, <1>2, AcquireWriteMakesNoReader DEF Acquired, NoNewReader
<1>3. CASE f \in F /\ f \notin WriteSet(a)
  BY <1>1, <1>3, AcquireReadMakesOneReader DEF Acquired
<1>4. CASE f \notin F
  BY <1>4 DEF Acquired
<1>5. QED
  BY <1>2, <1>3, <1>4

LEMMA ModesKept == IInv /\ ModesFit /\ [Next]_vars => ModesFit'
<1> SUFFICES ASSUME IInv, ModesFit, [Next]_vars,
                    NEW f \in File, NEW b \in Agent, Lock(b, "read") \in locks'[f].holders
             PROVE  f \notin WriteSet(b)
  BY DEF ModesFit, WriteSet
<1>1. locks[f] \in PathState /\ PathInv(locks[f])
  BY DEF IInv, TypeOK, LocksSound
<1>2. CASE locks' = locks
  BY <1>2 DEF ModesFit
<1>3. ASSUME NEW a \in Agent, locks' = [g \in File |-> ReleaseAll(locks[g], a)]
      PROVE  f \notin WriteSet(b)
  BY <1>1, <1>3, ReleaseAllMakesNoReader DEF ModesFit, NoNewReader
<1>4. ASSUME NEW a \in Agent, StartGranted(a)
      PROVE  f \notin WriteSet(b)
  <2>1. WriteSet(a) \cup ReadSet(a) \in SUBSET File
    BY FilesAreFiles
  <2>2. Lock(b, "read") \in Acquired(a, WriteSet(a) \cup ReadSet(a))[f].holders
    BY <1>4 DEF StartGranted
  <2>3. QED
    BY <2>1, <2>2, AcquiredReaders DEF ModesFit
<1>5. ASSUME NEW a \in Agent, StartRefused(a)
      PROVE  f \notin WriteSet(b)
  <2>1. PICK g \in WriteSet(a) \cup ReadSet(a), granted \in SUBSET File :
          locks' = RolledBack(a, Acquired(a, granted \cup {g}), held[a] \cup granted)
    BY <1>5 DEF StartRefused
  <2>2. granted \cup {g} \in SUBSET File
    BY FilesAreFiles
  <2> DEFINE table == Acquired(a, granted \cup {g})
  <2>3. table[f] \in PathState
    BY <2>2, AcquiredFacts DEF IInv
  <2>4. locks'[f] \in {table[f], Release(table[f], a)}
    BY <2>1 DEF RolledBack
  <2>5. Lock(b, "read") \in table[f].holders
    BY <2>3, <2>4, ReleaseMakesNoReader DEF NoNewReader
  <2>6. QED
    BY <2>2, <2>5, AcquiredReaders DEF ModesFit
<1>6. QED
  BY <1>2, <1>3, <1>4, <1>5
  DEF Next, vars, Start, Complete, Fail, Finish, SetGraphStatus, PauseAll, ResumeAll,
      CancelAll, FailBlockedDependents, BatchStep, PauseOne, ResumeOne, CancelOne, FailOne

(* A node that is done is only ever cancelled.                             *)
LEMMA DoneNodesKept ==
  ASSUME IInv, [Next]_vars, NEW u \in Agent, node[u] \in {"Done", "Cancelled"}
  PROVE  node'[u] \in {"Done", "Cancelled"}
<1>1. node \in [Agent -> NodeStatus] /\ phase \in [Agent -> AgentPhase]
  BY DEF IInv, TypeOK
<1>2. phase[u] \in {"Done", "Cancelled"}
  BY <1>1 DEF IInv, NodesAgree, NodeFor, AgentPhase
<1>3. CASE node' = node
  BY <1>3
<1>4. ASSUME NEW a \in Agent, Start(a)
      PROVE  node'[u] \in {"Done", "Cancelled"}
  <2>1. a # u
    BY <1>2, <1>4 DEF Start, IInv, PhasesAgree
  <2>2. QED
    BY <1>1, <1>4, <2>1 DEF Start, StartGranted, StartRefused, SetNode
<1>5. ASSUME NEW a \in Agent, NEW status, SetNode(a, status), a # u \/ status = "Cancelled"
      PROVE  node'[u] \in {"Done", "Cancelled"}
  BY <1>1, <1>5 DEF SetNode
<1>6. ASSUME NEW a \in Agent,
             (\E success \in BOOLEAN : Complete(a, success)) \/ Fail(a) \/ CancelOne(a)
      PROVE  node'[u] \in {"Done", "Cancelled"}
  BY <1>2, <1>5, <1>6 DEF Complete, Fail, CancelOne, Finish, Terminal
<1>7. ASSUME NEW a \in Agent, ResumeOne(a)
      PROVE  node'[u] \in {"Done", "Cancelled"}
  <2>1. a # u
    BY <1>2, <1>7 DEF ResumeOne, TakeNext, IInv, BatchFits
  <2>2. QED
    BY <1>1, <1>7, <2>1 DEF ResumeOne, StartGranted, StartRefused, SetNode
<1>8. ASSUME NEW a \in Agent, FailOne(a)
      PROVE  node'[u] \in {"Done", "Cancelled"}
  <2>1. a # u
    BY <1>2, <1>8 DEF FailOne, TakeNext, IInv, BatchFits
  <2>2. QED
    BY <1>5, <1>8, <2>1 DEF FailOne, Finish
<1>9. CASE FailBlockedDependents
  <2>1. u \notin Doomed
    BY DEF Doomed
  <2>2. QED
    BY <1>9, <2>1 DEF FailBlockedDependents
<1>10. QED
  BY <1>3, <1>4, <1>6, <1>7, <1>8, <1>9
  DEF Next, vars, SetGraphStatus, PauseAll, ResumeAll, CancelAll, BatchStep, PauseOne

LEMMA AskedKept == IInv /\ AskedFits /\ [Next]_vars => AskedFits'
<1> SUFFICES ASSUME IInv, AskedFits, [Next]_vars,
                    NEW b \in Agent, NEW f \in File,
                    HoldsAny(locks'[f], b) \/ Queued(locks'[f], b),
                    NEW u \in Upstream(b)
             PROVE  node'[u] \in {"Done", "Cancelled"}
  BY DEF AskedFits, Upstream
<1>1. u \in Agent
  BY DEF Upstream
<1> SUFFICES node[u] \in {"Done", "Cancelled"}
  BY <1>1, DoneNodesKept
<1>2. CASE HoldsAny(locks[f], b) \/ Queued(locks[f], b)
  BY <1>2 DEF AskedFits
<1>3. ASSUME NEW a \in Agent, TableStep(a), MayStart(a)
      PROVE  node[u] \in {"Done", "Cancelled"}
  BY <1>2, <1>3 DEF TableStep, Undisturbed, MayStart
<1>4. ASSUME NEW a \in Agent, locks' = [g \in File |-> ReleaseAll(locks[g], a)]
      PROVE  node[u] \in {"Done", "Cancelled"}
  BY <1>2, <1>4, ReleasedTable DEF IInv, TableStep, Undisturbed
<1>5. ASSUME NEW a \in Agent, StartGranted(a) \/ StartRefused(a)
      PROVE  node[u] \in {"Done", "Cancelled"}
  <2>1. TableStep(a)
    BY <1>5, GrantedTable, RefusedTable DEF IInv
  <2>2. MayStart(a)
    BY <1>5 DEF StartGranted, CanStart, StartRefused
  <2>3. QED
    BY <1>3, <2>1, <2>2
<1>6. CASE locks' = locks
  BY <1>2, <1>6
<1>7. QED
  BY <1>4, <1>5, <1>6
  DEF Next, vars, Start, Complete, Fail, Finish, SetGraphStatus, PauseAll, ResumeAll,
      CancelAll, FailBlockedDependents, BatchStep, PauseOne, ResumeOne, CancelOne, FailOne

LEMMA LocksInitially == Init => ModesFit /\ AskedFits
BY DEF Init, ModesFit, AskedFits, NoLocks, HoldsAny, Queued

=============================================================================
