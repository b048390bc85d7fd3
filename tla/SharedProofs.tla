---------------------------- MODULE SharedProofs ----------------------------
(***************************************************************************)
(* What the agents of a program share: the lock table of FileLock, and the *)
(* parts that MCTools runs, for every value of their constants.            *)
(***************************************************************************)
EXTENDS FileLock, MCTools, SharedFacts

(* Every path of the table is sound, and so is every path of the snapshot: *)
(* it is what restore_from will acquire again.                             *)
IInv ==
  /\ TypeOK
  /\ \A f \in File : PathInv(locks[f]) /\ PathInv(saved[f])

(* Acquiring the locks of a sound path again, in any order, refuses none   *)
(* of them: restore_from has one outcome, the path that was saved.         *)
LEMMA RestoreSound ==
  ASSUME NEW p \in PathState, PathInv(p)
  PROVE  RestoreOutcomes(p) = {p}
<1>1. CASE p.holders = {}
  BY <1>1 DEF RestoreOutcomes
<1>2. CASE p.holders # {}
  <2> DEFINE Late(first) == {h \in p.holders \ {first} : h.mode = "write"}
             Again(first) == IF first.mode = "write"
                             THEN {first}
                             ELSE {h \in p.holders : h.mode = "read"}
  <2>1. ASSUME NEW first \in p.holders
        PROVE  Again(first) = p.holders /\ Late(first) = {}
    <3>1. p.holders \subseteq FileLock /\ \A h \in FileLock : h.mode \in {"read", "write"}
      BY DEF PathState, FileLock, Mode
    <3>2. CASE first.mode = "write"
      BY <3>2 DEF PathInv, Exclusive
    <3>3. CASE first.mode # "write"
      <4>1. \A h \in p.holders : h.mode # "write"
        BY <3>3 DEF PathInv, Exclusive
      <4>2. QED
        BY <3>1, <3>3, <4>1
    <3>4. QED
      BY <3>2, <3>3
  <2> DEFINE Restorings(first) ==
               {[holders |-> Again(first), queue |-> q] :
                  q \in IF p.queue # <<>> \/ Late(first) = {}
                        THEN {p.queue}
                        ELSE SetToSeqs({h.agent : h \in Late(first)})}
  <2>2. ASSUME NEW first \in p.holders
        PROVE  Restorings(first) = {p}
    <3>1. [holders |-> p.holders, queue |-> p.queue] = p
      BY DEF PathState
    <3> HIDE DEF Again, Late
    <3>2. Restorings(first) = {[holders |-> p.holders, queue |-> q] : q \in {p.queue}}
      BY <2>1
    <3>3. QED
      BY <3>1, <3>2
  <2>3. RestoreOutcomes(p) = UNION {Restorings(first) : first \in p.holders}
    BY <1>2 DEF RestoreOutcomes
  <2> HIDE DEF Restorings
  <2>4. {Restorings(first) : first \in p.holders} = {{p}}
    BY <1>2, <2>2
  <2>5. QED
    BY <2>3, <2>4
<1>3. QED
  BY <1>1, <1>2

LEMMA RestoreGivesBackSaved == IInv /\ Restore => locks' = saved
<1> SUFFICES ASSUME IInv, Restore
             PROVE  locks' = saved
  OBVIOUS
<1>1. PICK table \in [File -> UNION {RestoreOutcomes(saved[f]) : f \in File}] :
        /\ \A f \in File : table[f] \in RestoreOutcomes(saved[f])
        /\ locks' = table
  BY DEF Restore
<1>2. \A f \in File : table[f] = saved[f]
  BY <1>1, RestoreSound DEF IInv, TypeOK
<1>3. QED
  BY <1>1, <1>2 DEF IInv, TypeOK

LEMMA Inductive == IInv /\ [Next]_vars => IInv'
<1> SUFFICES ASSUME IInv, [Next]_vars
             PROVE  IInv'
  OBVIOUS
<1> USE DEF IInv, TypeOK
<1>1. ASSUME NEW a \in Agent, NEW f \in File, AcquireReadLock(a, f)
      PROVE  IInv'
  BY <1>1, AcquireReadFacts DEF AcquireReadLock
<1>2. ASSUME NEW a \in Agent, NEW f \in File, AcquireWriteLock(a, f)
      PROVE  IInv'
  BY <1>2, AcquireWriteFacts DEF AcquireWriteLock
<1>3. ASSUME NEW a \in Agent, NEW f \in File, ReleaseLock(a, f)
      PROVE  IInv'
  BY <1>3, ReleaseFacts DEF ReleaseLock, PathInv
<1>4. ASSUME NEW a \in Agent, ReleaseAllLocks(a)
      PROVE  IInv'
  BY <1>4, ReleaseAllFacts DEF ReleaseAllLocks
<1>5. CASE TakeSnapshot
  BY <1>5 DEF TakeSnapshot
<1>6. CASE Restore
  BY <1>6, RestoreGivesBackSaved DEF Restore
<1>7. CASE UNCHANGED vars
  BY <1>7 DEF vars
<1>8. QED
  BY <1>1, <1>2, <1>3, <1>4, <1>5, <1>6, <1>7 DEF Next

LEMMA Invariance == Spec => []IInv
<1>1. Init => IInv
  BY NoLocksSound DEF Init, IInv, TypeOK
<1>2. QED
  BY <1>1, Inductive, PTL DEF Spec

(* The manager's state is always well formed. *)
THEOREM TypeCorrect == Spec => []TypeOK
<1>1. IInv => TypeOK
  BY DEF IInv
<1>2. QED
  BY <1>1, Invariance, PTL

(* file_lock.rs: only one agent holds a write lock, and nobody reads while *)
(* it does, after any sequence of calls including snapshot and restore.    *)
THEOREM WriterIsExclusive == Spec => []ExclusiveWriter
<1>1. IInv => ExclusiveWriter
  BY DEF IInv, ExclusiveWriter, PathInv
<1>2. QED
  BY <1>1, Invariance, PTL

(* A path with queued writers has a holder, so a release will wake one,    *)
(* and no agent waits twice or behind its own write lock.                  *)
THEOREM QueuesAreLive == Spec => []NoLostWakeup
<1>1. IInv => NoLostWakeup
  BY DEF IInv, NoLostWakeup, PathInv
<1>2. QED
  BY <1>1, Invariance, PTL

(* Snapshot followed by restore is the identity on every table the manager *)
(* can be in.                                                              *)
THEOREM SnapshotRoundTrip == Spec => RestoreRoundTrip
<1>1. IInv /\ [Next]_vars => [Restore => locks' = saved]_vars
  BY RestoreGivesBackSaved
<1>2. QED
  BY <1>1, Invariance, PTL DEF Spec, RestoreRoundTrip

(* Writers are served in the order in which they queued. *)
THEOREM WritersInOrder == Spec => FifoGrant
<1> DEFINE Step == Restore \/ \A f \in File : InOrder(locks[f], locks'[f])
<1>1. IInv /\ [Next]_vars => [Step]_vars
  <2> SUFFICES ASSUME IInv, Next
               PROVE  Step
    OBVIOUS
  <2> USE DEF IInv, TypeOK
  <2>1. \A p : InOrder(p, p)
    BY DEF InOrder
  <2>2. ASSUME NEW a \in Agent, NEW f \in File, AcquireReadLock(a, f)
        PROVE  Step
    BY <2>1, <2>2, AcquireReadInOrder DEF AcquireReadLock
  <2>3. ASSUME NEW a \in Agent, NEW f \in File, AcquireWriteLock(a, f)
        PROVE  Step
    BY <2>1, <2>3, AcquireWriteInOrder DEF AcquireWriteLock
  <2>4. ASSUME NEW a \in Agent, NEW f \in File, ReleaseLock(a, f)
        PROVE  Step
    BY <2>1, <2>4, ReleaseInOrder DEF ReleaseLock
  <2>5. ASSUME NEW a \in Agent, ReleaseAllLocks(a)
        PROVE  Step
    BY <2>5, ReleaseAllInOrder DEF ReleaseAllLocks
  <2>6. CASE TakeSnapshot
    BY <2>1, <2>6 DEF TakeSnapshot
  <2>7. QED
    BY <2>2, <2>3, <2>4, <2>5, <2>6 DEF Next
<1>2. QED
  BY <1>1, Invariance, PTL DEF Spec, FifoGrant

-----------------------------------------------------------------------------
(* The MCP client: one mutex for its callers, and the answers they get.    *)

Busy == {"asking", "writing", "waiting"}
Steps == Busy \cup {"idle", "notifying", "queued", "done"}
Given == [kind : {"nothing", "failure", "response"}, id : Nat]

McpTypes ==
  /\ phase \in {"spawn", "initialize", "list", "ready", "skipped"}
  /\ mutex \in Users \cup {Nobody}
  /\ waiters \in Seq(Callers)
  /\ step \in [Users -> Steps]
  /\ sentId \in [Users -> Nat] /\ nextId \in Nat
  /\ got \in [Users -> Given]

(* Whoever is under way has the mutex; the loader has it while it loads.   *)
MutexFits ==
  /\ \A u \in Users : step[u] \in Busy => mutex = u
  /\ mutex \in Callers => step[mutex] \in Busy
  /\ phase = "spawn" => mutex = Nobody /\ waiters = <<>> /\ step[Loader] = "idle"
  /\ phase \in {"initialize", "list"} => mutex = Loader

(* What a request was answered is there when the call is done, no sooner.  *)
AnswersFit ==
  \A u \in Users : /\ step[u] # "done" => got[u].kind # "response"
                   /\ got[u].kind = "response" => got[u].id = sentId[u]

RegistryFits ==
  /\ BuiltinNames \subseteq DOMAIN registry
  /\ \A n \in DOMAIN registry :
       IF n \in BuiltinNames THEN registry[n] = "builtin" ELSE n \notin Disabled

(* Who queues for the mutex waits once.                                    *)
QueueFits ==
  \A i \in 1 .. Len(waiters) :
    /\ step[waiters[i]] = "queued"
    /\ \A j \in 1 .. Len(waiters) : waiters[i] = waiters[j] => i = j

McpFits == McpTypes /\ MutexFits /\ AnswersFit /\ QueueFits /\ RegistryFits

LEMMA RemoveAtParts ==
  ASSUME NEW S, NEW s \in Seq(S), NEW i \in 1 .. Len(s)
  PROVE  /\ RemoveAt(s, i) \in Seq(S)
         /\ Len(RemoveAt(s, i)) = Len(s) - 1
         /\ \A j \in 1 .. Len(s) - 1 : RemoveAt(s, i)[j] = IF j < i THEN s[j] ELSE s[j + 1]
<1> DEFINE a == SubSeq(s, 1, i - 1)
           b == SubSeq(s, i + 1, Len(s))
<1>0. Len(s) \in Nat
  BY LenProperties
<1>1. a \in Seq(S) /\ Len(a) = i - 1 /\ \A j \in 1 .. i - 1 : a[j] = s[j]
  BY <1>0, SubSeqProperties
<1>2. b \in Seq(S) /\ Len(b) = Len(s) - i /\ \A j \in 1 .. Len(s) - i : b[j] = s[i + j]
  BY <1>0, SubSeqProperties
<1> HIDE DEF a, b
<1>3. /\ a \o b \in Seq(S) /\ Len(a \o b) = Len(a) + Len(b)
      /\ \A j \in 1 .. Len(a) + Len(b) : (a \o b)[j] = IF j <= Len(a) THEN a[j] ELSE b[j - Len(a)]
  BY <1>1, <1>2, ConcatProperties
<1>4. RemoveAt(s, i) = a \o b
  BY DEF RemoveAt, a, b
<1>5. \A j \in 1 .. Len(s) - 1 : (a \o b)[j] = IF j < i THEN s[j] ELSE s[j + 1]
  BY <1>0, <1>1, <1>2, <1>3
<1>6. a \o b \in Seq(S) /\ Len(a \o b) = Len(s) - 1
  BY <1>0, <1>1, <1>2, <1>3
<1>7. QED
  BY <1>4, <1>5, <1>6

(* Those who queue go on queueing while another moves.                     *)
LEMMA QueueStays ==
  ASSUME QueueFits, McpTypes, UNCHANGED waiters,
         \A u \in Users : step[u] = "queued" => step'[u] = "queued"
  PROVE  QueueFits'
<1>1. \A i \in 1 .. Len(waiters) : waiters[i] \in Users
  BY ElementOfSeq DEF McpTypes, Users
<1>2. QED
  BY <1>1 DEF QueueFits

LEMMA McpUsers == Loader \in Users /\ Loader # Nobody /\ Nobody \notin Users
  /\ Loader \notin Callers
BY McpAssumption DEF Users, Loader, Nobody

LEMMA ConstantAnswers == Nothing \in Given /\ Failure \in Given /\ Nothing.kind = "nothing"
  /\ Failure.kind = "failure"
BY DEF Nothing, Failure, Given

LEMMA McpInitial == McpInit => McpFits
<1> SUFFICES ASSUME McpInit PROVE McpFits
  OBVIOUS
<1>1. McpTypes /\ waiters = <<>>
  BY McpUsers, ConstantAnswers DEF McpInit, McpTypes, Steps, Users
<1>2. MutexFits /\ AnswersFit /\ RegistryFits
  BY McpUsers, ConstantAnswers DEF McpInit, MutexFits, AnswersFit, RegistryFits, Busy, Users
<1>3. QueueFits
  BY <1>1 DEF QueueFits
<1>4. QED
  BY <1>1, <1>2, <1>3 DEF McpFits

(* One user's step, with what it has been given. *)
LEMMA Moves1 ==
  ASSUME McpFits, NEW u \in Users, NEW to \in Steps, step' = [step EXCEPT ![u] = to]
  PROVE  step' \in [Users -> Steps] /\ step'[u] = to /\ \A v \in Users \ {u} : step'[v] = step[v]
BY DEF McpFits, McpTypes

LEMMA McpReturns ==
  ASSUME McpFits, NEW u \in Users, step[u] \in {"queued", "writing", "waiting"}, Return(u, Failure),
         waiters' \in Seq(Callers), phase # "spawn", QueueFits',
         UNCHANGED <<phase, registry, sentId, nextId>>
  PROVE  McpFits'
<1> USE McpUsers
<1>1. /\ step' \in [Users -> Steps] /\ step'[u] = "done"
      /\ \A v \in Users \ {u} : step'[v] = step[v]
  BY Moves1 DEF Return, Steps
<1>2. /\ got' \in [Users -> Given] /\ got'[u] = Failure
      /\ \A v \in Users \ {u} : got'[v] = got[v]
  BY ConstantAnswers DEF Return, McpFits, McpTypes
<1>3. McpTypes'
  BY <1>1, <1>2 DEF McpFits, McpTypes, Return
<1>4. MutexFits'
  BY <1>1 DEF McpFits, McpTypes, MutexFits, Return, Busy, Users
<1>5. AnswersFit'
  BY <1>1, <1>2, ConstantAnswers DEF McpFits, AnswersFit
<1>6. QED
  BY <1>3, <1>4, <1>5 DEF McpFits, RegistryFits, QueueFits

LEMMA McpDelivers ==
  ASSUME McpFits, NEW ids, NEW given \in Given, Deliver(ids, given),
         given.kind = "response" => ids = {given.id},
         UNCHANGED <<phase, registry, waiters, sentId, nextId>>
  PROVE  McpFits'
<1> USE McpUsers
<1> DEFINE who == UNION {WaitingFor(id) : id \in ids \cap pending}
<1>1. \A u \in who : /\ u \in Users /\ step[u] = "waiting" /\ mutex = u
                     /\ sentId[u] \in ids
  BY DEF WaitingFor, McpFits, MutexFits, Busy
<1>2. /\ step' \in [Users -> Steps]
      /\ \A u \in Users : step'[u] = IF u \in who THEN "done" ELSE step[u]
  BY DEF Deliver, McpFits, McpTypes, Steps
<1>3. /\ got' \in [Users -> Given]
      /\ \A u \in Users : got'[u] = IF u \in who THEN given ELSE got[u]
  BY DEF Deliver, McpFits, McpTypes
<1>4. mutex' = IF mutex \in who \ {Loader} THEN Nobody ELSE mutex
  BY DEF Deliver
<1> HIDE DEF who
<1>5. McpTypes'
  BY <1>2, <1>3, <1>4 DEF McpFits, McpTypes
<1>6. MutexFits'
  BY <1>1, <1>2, <1>4 DEF McpFits, McpTypes, MutexFits, Busy, Users
<1>7. AnswersFit'
  BY <1>1, <1>2, <1>3 DEF McpFits, AnswersFit, Given
<1>8. QueueFits'
  BY <1>1, <1>2, QueueStays DEF McpFits
<1>9. QED
  BY <1>5, <1>6, <1>7, <1>8 DEF McpFits, RegistryFits

LEMMA McpInductive == McpFits /\ [McpNext]_mcpvars => McpFits'
<1> SUFFICES ASSUME McpFits, [McpNext]_mcpvars
             PROVE  McpFits'
  OBVIOUS
<1> USE McpUsers
<1> USE QueueStays DEF McpFits
<1>1. CASE Skip
  BY <1>1 DEF Skip, McpTypes, MutexFits, AnswersFit, RegistryFits
<1>2. CASE Connect
  <2>1. /\ step' \in [Users -> Steps] /\ step'[Loader] = "asking"
        /\ \A v \in Users \ {Loader} : step'[v] = step[v]
    BY <1>2, Moves1 DEF Connect, Steps, Busy
  <2>2. QED
    <3>1. McpTypes' /\ RegistryFits'
      BY <1>2, <2>1 DEF Connect, McpFits, McpTypes, RegistryFits
    <3>2. AnswersFit'
      <4>1. \A u \in Users : /\ step[u] # "done" => got[u].kind # "response"
                             /\ got[u].kind = "response" => got[u].id = sentId[u]
        BY DEF McpFits, AnswersFit
      <4>2. step[Loader] # "done"
        BY <1>2 DEF Connect, McpFits, MutexFits
      <4>3. QED
        BY <1>2, <2>1, <4>1, <4>2 DEF Connect, AnswersFit
    <3>3. MutexFits'
      BY <1>2, <2>1 DEF Connect, McpFits, MutexFits, Busy, Users
    <3>4. QueueFits'
      BY <1>2, <2>1 DEF Connect, MutexFits
    <3>5. QED
      BY <3>1, <3>2, <3>3, <3>4
<1>3. CASE Loaded
  <2>1. \E to \in {"notifying", "idle"} : step' = [step EXCEPT ![Loader] = to]
    BY <1>3 DEF Loaded
  <2>2. PICK to \in {"notifying", "idle"} :
          /\ step' \in [Users -> Steps] /\ step'[Loader] = to
          /\ \A v \in Users \ {Loader} : step'[v] = step[v]
    BY <2>1, Moves1 DEF Steps, Busy
  <2>3. /\ got' \in [Users -> Given] /\ got'[Loader] = Nothing
        /\ \A v \in Users \ {Loader} : got'[v] = got[v]
    BY <1>3, ConstantAnswers DEF Loaded, McpFits, McpTypes
  <2>4. RegistryFits'
    BY <1>3 DEF Loaded, McpFits, RegistryFits, WithTools
  <2>5. MutexFits' /\ mutex' \in Users \cup {Nobody} /\ phase' \in {"list", "ready", "skipped"}
    BY <1>3, <2>2 DEF Loaded, McpFits, McpTypes, MutexFits, Busy, Users
  <2>6. AnswersFit'
    BY <1>3, <2>2, <2>3, ConstantAnswers DEF Loaded, McpFits, AnswersFit
  <2>7. QueueFits'
    BY <1>3, <2>2 DEF Loaded
  <2>8. McpTypes'
    BY <1>3, <2>2, <2>3, <2>5 DEF Loaded, McpTypes
  <2>9. QED
    BY <2>4, <2>5, <2>6, <2>7, <2>8
<1>4. CASE TakeMutex
  <2> DEFINE h == Head(waiters)
  <2>1. /\ h \in Callers /\ Tail(waiters) \in Seq(Callers)
        /\ Len(Tail(waiters)) = Len(waiters) - 1
        /\ \A i \in 1 .. Len(Tail(waiters)) : Tail(waiters)[i] = waiters[i + 1]
        /\ h = waiters[1] /\ Len(waiters) \in Nat \ {0}
    BY <1>4, HeadTailProperties DEF TakeMutex, McpTypes
  <2>2. /\ step' \in [Users -> Steps] /\ step'[h] = "asking"
        /\ \A v \in Users \ {h} : step'[v] = step[v]
    BY <1>4, <2>1, Moves1 DEF TakeMutex, Steps, Busy, Users
  <2>3. waiters' = Tail(waiters) /\ mutex' = h /\ mutex = Nobody
    BY <1>4 DEF TakeMutex
  <2>4. step[h] = "queued"
    BY <2>1 DEF QueueFits
  <2> HIDE DEF h
  <2>5. McpTypes' /\ RegistryFits'
    BY <1>4, <2>1, <2>2, <2>3 DEF TakeMutex, McpTypes, RegistryFits, Users
  <2>6. AnswersFit'
    BY <1>4, <2>2, <2>4 DEF TakeMutex, AnswersFit
  <2>7. \A u \in Users : step[u] \notin Busy
    BY <2>3 DEF MutexFits
  <2>8. MutexFits'
    BY <1>4, <2>1, <2>2, <2>3, <2>7 DEF TakeMutex, MutexFits, Busy, Users
  <2>9. QueueFits'
    <3>1. \A i \in 1 .. Len(waiters') :
            /\ waiters'[i] = waiters[i + 1] /\ i + 1 \in 1 .. Len(waiters) /\ i + 1 # 1
      <4>1. /\ Len(waiters') = Len(waiters) - 1
            /\ \A i \in 1 .. Len(waiters') : waiters'[i] = waiters[i + 1]
        BY <2>1, <2>3 DEF h
      <4>2. QED
        BY <2>1, <4>1
    <3>2. \A i \in 1 .. Len(waiters') : waiters[i + 1] \in Users /\ waiters[i + 1] # h
      BY <2>1, <3>1, ElementOfSeq DEF QueueFits, McpTypes, Users
    <3>3. QED
      BY <2>1, <2>2, <3>1, <3>2 DEF QueueFits
  <2>10. QED
    BY <2>5, <2>6, <2>8, <2>9
<1>5. CASE Garbage
  BY <1>5, McpDelivers, ConstantAnswers DEF Garbage
<1>6. CASE ServerCloses
  BY <1>6, McpDelivers, ConstantAnswers DEF ServerCloses
<1>7. CASE PipeFills
  BY <1>7 DEF PipeFills, McpTypes, QueueFits, MutexFits, AnswersFit, RegistryFits
<1>8. ASSUME NEW c \in Callers, CallTool(c)
      PROVE  McpFits'
  <2>1. /\ step' \in [Users -> Steps] /\ step'[c] = "queued"
        /\ \A v \in Users \ {c} : step'[v] = step[v]
    BY <1>8, Moves1 DEF CallTool, Steps, Users
  <2>2. waiters' \in Seq(Callers)
    BY <1>8 DEF CallTool, McpFits, McpTypes
  <2>3. QED
    <3>1. McpTypes' /\ MutexFits' /\ AnswersFit' /\ RegistryFits'
      BY <1>8, <2>1, <2>2 DEF CallTool, McpTypes, MutexFits, AnswersFit, RegistryFits, Busy, Users
    <3>2. /\ Len(waiters') = Len(waiters) + 1 /\ waiters'[Len(waiters) + 1] = c
          /\ \A i \in 1 .. Len(waiters) : waiters'[i] = waiters[i] /\ waiters[i] \in Users
          /\ Len(waiters) \in Nat
      BY <1>8, AppendProperties, ElementOfSeq, LenProperties DEF CallTool, McpTypes, Users
    <3>3. \A i \in 1 .. Len(waiters) : waiters[i] # c
      BY <1>8 DEF CallTool, QueueFits
    <3>4. \A i \in 1 .. Len(waiters') : i \in 1 .. Len(waiters) \/ i = Len(waiters) + 1
      BY <3>2
    <3>5. QueueFits'
      BY <2>1, <3>2, <3>3, <3>4 DEF QueueFits
    <3>6. QED
      BY <3>1, <3>5
<1>9. ASSUME NEW c \in Callers, Drop(c)
      PROVE  McpFits'
  <2>1. waiters \in Seq(Callers) /\ Len(waiters) \in Nat
        /\ \A i \in 1 .. Len(waiters) : waiters[i] \in Users
    BY LenProperties, ElementOfSeq DEF McpTypes, Users
  <2>2. phase # "spawn"
    <3>1. phase = "spawn" => waiters = <<>> /\ step[c] \notin Busy
      BY DEF MutexFits, Users
    <3>2. QED
      BY <1>9, <3>1 DEF Drop, Droppable, Busy
  <2>3. step'[c] = "done" /\ \A v \in Users \ {c} : step'[v] = step[v]
    BY <1>9, Moves1 DEF Drop, Return, Steps, Users
  <2>4. waiters' \in Seq(Callers) /\ QueueFits'
    <3>1. CASE step[c] = "queued"
      <4>1. PICK i \in 1 .. Len(waiters) : waiters[i] = c /\ waiters' = RemoveAt(waiters, i)
        BY <1>9, <2>1, <3>1 DEF Drop
      <4> DEFINE from(j) == IF j < i THEN j ELSE j + 1
      <4>2. /\ waiters' \in Seq(Callers) /\ Len(waiters') = Len(waiters) - 1
            /\ \A j \in 1 .. Len(waiters') : waiters'[j] = waiters[from(j)]
        BY <2>1, <4>1, RemoveAtParts
      <4>3. /\ \A j \in 1 .. Len(waiters') : from(j) \in 1 .. Len(waiters) \ {i}
            /\ \A j, k \in 1 .. Len(waiters') : from(j) = from(k) => j = k
        BY <2>1, <4>2
      <4> HIDE DEF from
      <4>4. \A j \in 1 .. Len(waiters') : waiters'[j] # c /\ waiters'[j] \in Users
        BY <2>1, <4>1, <4>2, <4>3 DEF QueueFits
      <4>5. \A j \in 1 .. Len(waiters') : step'[waiters'[j]] = "queued"
        BY <2>3, <4>2, <4>3, <4>4 DEF QueueFits
      <4>6. \A j, k \in 1 .. Len(waiters') : waiters'[j] = waiters'[k] => j = k
        BY <4>2, <4>3 DEF QueueFits
      <4>7. QED
        BY <4>2, <4>5, <4>6 DEF QueueFits
    <3>2. CASE step[c] # "queued"
      BY <1>9, <2>1, <2>3, <3>2 DEF Drop
    <3>3. QED
      BY <3>1, <3>2
  <2>5. QED
    BY <1>9, <2>2, <2>4, McpReturns DEF Drop, Droppable, Users
<1>10. ASSUME NEW c \in Callers, Collect(c)
       PROVE  McpFits'
  <2>1. /\ step' \in [Users -> Steps] /\ step'[c] = "idle"
        /\ \A v \in Users \ {c} : step'[v] = step[v]
    BY <1>10, Moves1 DEF Collect, Steps, Users
  <2>2. /\ got' \in [Users -> Given] /\ got'[c] = Nothing
        /\ \A v \in Users \ {c} : got'[v] = got[v]
    BY <1>10, ConstantAnswers DEF Collect, McpFits, McpTypes, Users
  <2>3. /\ sentId' \in [Users -> Nat]
        /\ \A v \in Users \ {c} : sentId'[v] = sentId[v]
    BY <1>10 DEF Collect, McpFits, McpTypes, Users
  <2>4. QED
    <3>1. QueueFits'
      BY <1>10, <2>1 DEF Collect
    <3>2. QED
      BY <1>10, <2>1, <2>2, <2>3, <3>1, ConstantAnswers
      DEF Collect, McpTypes, MutexFits, AnswersFit, RegistryFits, Busy, Users
<1>11. ASSUME NEW u \in Users, Register(u)
       PROVE  McpFits'
  <2>1. /\ step' \in [Users -> Steps] /\ step'[u] = "writing"
        /\ \A v \in Users \ {u} : step'[v] = step[v]
    BY <1>11, Moves1 DEF Register, Steps, Busy
  <2>2. /\ sentId' \in [Users -> Nat]
        /\ \A v \in Users \ {u} : sentId'[v] = sentId[v]
    BY <1>11 DEF Register, McpFits, McpTypes
  <2>3. nextId' \in Nat
    BY <1>11 DEF Register, McpFits, McpTypes
  <2>4. QED
    <3>1. QueueFits'
      BY <1>11, <2>1 DEF Register
    <3>2. QED
      BY <1>11, <2>1, <2>2, <2>3, <3>1 DEF Register, McpTypes, MutexFits, AnswersFit, RegistryFits,
         Busy
<1>12. ASSUME NEW u \in Users, WriteMessage(u)
       PROVE  McpFits'
  <2>1. /\ step' \in [Users -> Steps] /\ step'[u] = "waiting"
        /\ \A v \in Users \ {u} : step'[v] = step[v]
    BY <1>12, Moves1 DEF WriteMessage, Steps, Busy
  <2>2. QED
    <3>1. QueueFits'
      BY <1>12, <2>1 DEF WriteMessage
    <3>2. QED
      BY <1>12, <2>1, <3>1 DEF WriteMessage, McpTypes, MutexFits, AnswersFit, RegistryFits, Busy
<1>13. ASSUME NEW u \in Users, WriteMessageFails(u) \/ ResponseTimesOut(u)
       PROVE  McpFits'
  <2>1. waiters' \in Seq(Callers) /\ phase # "spawn"
    BY <1>13 DEF WriteMessageFails, ResponseTimesOut, McpTypes, MutexFits, Busy
  <2>2. step'[u] = "done" /\ \A v \in Users \ {u} : step'[v] = step[v]
    BY <1>13, Moves1 DEF WriteMessageFails, ResponseTimesOut, Return, Steps
  <2>3. QueueFits'
    BY <1>13, <2>2 DEF WriteMessageFails, ResponseTimesOut
  <2>4. QED
    BY <1>13, <2>1, <2>3, McpReturns DEF WriteMessageFails, ResponseTimesOut
<1>14. ASSUME NEW id \in 1 .. MaxIds, Answer(id)
       PROVE  McpFits'
  <2>1. PICK kind \in {"response", "failure"} : Deliver({id}, [kind |-> kind, id |-> id])
    BY <1>14 DEF Answer
  <2> DEFINE given == [kind |-> kind, id |-> id]
  <2>2. given \in Given /\ given.id = id
    BY McpAssumption DEF Given
  <2> HIDE DEF given
  <2>3. QED
    BY <1>14, <2>1, <2>2, McpDelivers DEF Answer, given
<1>15. CASE UNCHANGED mcpvars
  BY <1>15 DEF mcpvars, McpTypes, QueueFits, MutexFits, AnswersFit, RegistryFits
<1>16. CASE Notify
  <2>1. /\ step' \in [Users -> Steps] /\ step'[Loader] = "asking" /\ mutex = Loader
        /\ \A v \in Users \ {Loader} : step'[v] = step[v]
    BY <1>16, Moves1 DEF Notify, MutexFits, Steps, Busy
  <2>2. McpTypes' /\ RegistryFits'
    BY <1>16, <2>1 DEF Notify, McpTypes, RegistryFits
  <2>3. MutexFits'
    BY <1>16, <2>1 DEF Notify, MutexFits, Busy, Users
  <2>4. AnswersFit'
    BY <1>16, <2>1 DEF Notify, AnswersFit
  <2>5. QueueFits'
    BY <1>16, <2>1 DEF Notify
  <2>6. QED
    BY <2>2, <2>3, <2>4, <2>5
<1>17. QED
  BY <1>1, <1>2, <1>3, <1>4, <1>5, <1>6, <1>7, <1>8, <1>9, <1>10, <1>11, <1>12, <1>13, <1>14, <1>15,
     <1>16 DEF McpNext

LEMMA McpSound == McpFits => AnswersOwn
BY DEF McpFits, MutexFits, AnswersFit, RegistryFits, AnswersOwn, Busy

-----------------------------------------------------------------------------
(* A call of a built-in tool: what it runs and what is left of it.         *)

(* What the catalog says of a tool agrees with what it runs and writes.    *)
WellDeclared(b) ==
  /\ Len(b.programs) \in Nat
  /\ b.via = "command" => Len(b.programs) > 0
  /\ \A i \in 1 .. Len(b.programs) : b.programs[i] \in Changing => ~b.safe /\ b.approval
  /\ b.via = "write" => ~b.safe /\ b.approval

LEMMA CommandDeclared ==
  ASSUME NEW name, NEW p, NEW check, NEW timer, NEW approval, NEW safe,
         p \in Changing => ~safe /\ approval
  PROVE  WellDeclared(Command(name, <<p>>, check, timer, approval, safe))
BY DEF WellDeclared, Command

LEMMA CommandsDeclared ==
  ASSUME NEW name, NEW p, NEW q, NEW check, NEW timer, NEW approval, NEW safe,
         p \notin Changing, q \notin Changing
  PROVE  WellDeclared(Command(name, <<p, q>>, check, timer, approval, safe))
BY DEF WellDeclared, Command

LEMMA FileDeclared ==
  ASSUME NEW name, NEW via, NEW check, NEW approval, NEW safe,
         via # "command", via = "write" => ~safe /\ approval
  PROVE  /\ WellDeclared(FileTool(name, via, check, approval, safe))
         /\ FileTool(name, via, check, approval, safe).via = via
BY DEF WellDeclared, FileTool

LEMMA WebDeclared ==
  ASSUME NEW name, NEW approval, NEW safe
  PROVE  WellDeclared(WebTool(name, approval, safe))
BY DEF WellDeclared, WebTool

LEMMA ComputedDeclared ==
  ASSUME NEW name, NEW answers, NEW approval, NEW safe
  PROVE  WellDeclared(Computed(name, answers, approval, safe))
BY DEF WellDeclared, Computed

LEMMA CatalogDeclared == \A b \in Catalog : WellDeclared(b)
<1>3. WellDeclared(FileRead) /\ WellDeclared(FileWrite) /\ WellDeclared(FileDelete)
      /\ WellDeclared(FileExists)
  BY FileDeclared DEF FileRead, FileWrite, FileDelete, FileExists
<1>4. \A p \in {"ls or find", "df", "ps", "ping", "uname", "free", "gh issue list",
                "gh pr view or list", "gh run list"} :
        p \notin Changing
  BY DEF Changing
<1>5. WellDeclared(FileList) /\ WellDeclared(DiskUsage) /\ WellDeclared(ProcessList)
      /\ WellDeclared(NetworkPing)
  BY <1>4, CommandDeclared, Zenon DEF FileList, DiskUsage, ProcessList, NetworkPing
<1>6. WellDeclared(Shell) /\ WellDeclared(Git) /\ WellDeclared(GithubIssueCreate)
      /\ WellDeclared(GithubPrCreate)
  BY CommandDeclared, Zenon DEF Shell, Git, GithubIssueCreate, GithubPrCreate
<1>7. WellDeclared(SystemInfo)
  BY <1>4, CommandsDeclared, Zenon DEF SystemInfo
<1>8. WellDeclared(GithubIssueSearch) /\ WellDeclared(GithubPrStatus)
      /\ WellDeclared(GithubActionsStatus)
  BY <1>4, CommandDeclared, Zenon DEF GithubIssueSearch, GithubPrStatus, GithubActionsStatus
<1>9. WellDeclared(WebFetch) /\ WellDeclared(WebSearch) /\ WellDeclared(HttpRequest)
  BY WebDeclared DEF WebFetch, WebSearch, HttpRequest
<1>10. /\ WellDeclared(JsonExtract) /\ WellDeclared(EnvVar) /\ WellDeclared(TimeNow)
       /\ WellDeclared(RandomNumber) /\ WellDeclared(JsonValidate) /\ WellDeclared(TextSearch)
  BY ComputedDeclared DEF JsonExtract, EnvVar, TimeNow, RandomNumber, JsonValidate, TextSearch
<1>11. QED
  BY <1>3, <1>5, <1>6, <1>7, <1>8, <1>9, <1>10 DEF Catalog

Children == [state : {"none", "alive", "dead"}, inGroup : BOOLEAN]
InGroup(c) == c.state = "alive" /\ c.inGroup

Commanding == {"spawn", "reading", "reaping", "killing"}
Filing == {"fetching", "mkdir", "writing", "written"}

ToolTypes ==
  /\ call.tool \in Catalog
  /\ stage \in {"idle", "ended"} \cup Commanding \cup Filing
  /\ leader \in {"none", "alive", "zombie", "reaped"}
  /\ child \in Children
  /\ exits \in Seq({"ok", "failed"})

(* Where the processes of a call stand at each stage.                      *)
ProcessFits ==
  /\ shot \subseteq {"alive", "zombie"}
  /\ stage \in {"idle"} \cup Filing => leader = "none" /\ child.state = "none" /\ exits = <<>>
  /\ stage \notin {"ended"} => answer = "none"
  /\ stage \in Commanding =>
       call.tool.via = "command" /\ ~call.dry /\ Len(exits) < Len(call.tool.programs)
  /\ stage = "spawn" => leader \in {"none", "reaped"}
  /\ stage \in {"reading", "reaping"} => leader \in {"alive", "zombie"}
  /\ stage = "reaping" => pipes = {}
  /\ stage = "killing" => leader = "zombie" /\ ~InGroup(child)
  /\ stage = "ended" => leader # "alive"
  /\ stage = "ended" /\ answer \in {"timeout", "overdue", "cancelled"} => ~InGroup(child)
  /\ stage = "ended" /\ call.tool.via = "command" /\ answer \in {"ok", "failed"} /\ exits # <<>> =>
       /\ leader = "reaped" /\ pipes = {}
       /\ Len(exits) = Len(call.tool.programs)

(* What a call has changed, and whose content the file holds.              *)
FilesFit ==
  /\ late \subseteq abandoned
  /\ stage = "idle" => effects = {}
  /\ effects # {} => ~call.tool.safe /\ call.tool.approval /\ ~call.dry
  /\ stage \in {"mkdir", "writing", "written"} => call.tool.via = "write" /\ ~call.dry
  /\ stage = "fetching" => call.tool.via = "read"
  /\ stage = "written" => disk \in {calls} \cup abandoned
  /\ stage = "ended" /\ call.tool.via = "write" /\ ~call.dry /\ answer = "ok" =>
       disk \in {calls} \cup abandoned

ToolFits == ToolTypes /\ ProcessFits /\ FilesFit

LEMMA TypeOfChild ==
  /\ NoChild \in Children /\ ~InGroup(NoChild) /\ NoChild.state = "none"
  /\ \A c \in Children :
       /\ [c EXCEPT !.state = "dead"] \in Children /\ ~InGroup([c EXCEPT !.state = "dead"])
       /\ [c EXCEPT !.inGroup = FALSE] \in Children /\ ~InGroup([c EXCEPT !.inGroup = FALSE])
       /\ [c EXCEPT !.inGroup = FALSE].state = c.state
       /\ [c EXCEPT !.state = "dead"].state # "none"
  /\ [state |-> "alive", inGroup |-> TRUE] \in Children
BY DEF NoChild, Children, InGroup

LEMMA ToolInitial == ToolInit => ToolFits
<1>1. TimeNow \in Catalog
  BY DEF Catalog
<1>2. QED
  BY <1>1, TypeOfChild DEF ToolInit, ToolFits, ToolTypes, ProcessFits, FilesFit, NoCall,
     Commanding, Filing

(* A signal to the group leaves none of its members alive.                 *)
LEMMA GroupIsDead ==
  ASSUME ToolFits, leader \in {"alive", "zombie"}, GroupDies
  PROVE  /\ leader' = "zombie" /\ shot' \subseteq {"alive", "zombie"}
         /\ child' \in Children /\ ~InGroup(child')
<1>1. child' \in Children /\ ~InGroup(child')
  <2>1. CASE child.inGroup
    BY <2>1, TypeOfChild DEF GroupDies, ToolFits, ToolTypes
  <2>2. CASE ~child.inGroup
    BY <2>2 DEF GroupDies, ToolFits, ToolTypes, InGroup
  <2>3. QED
    BY <2>1, <2>2
<1>2. QED
  BY <1>1 DEF GroupDies, ToolFits, ProcessFits

(* A call that begins and ends at once.                                    *)
LEMMA EndsAtOnce ==
  ASSUME ToolFits, NEW tool \in Catalog, NEW dry \in BOOLEAN, NEW a,
         Begins(tool, dry, 1), Answers(a), UNCHANGED <<process, files, effects>>,
         dry \/ tool.via # "write" \/ a # "ok"
  PROVE  ToolFits'
<1>1. /\ call' = [tool |-> tool, dry |-> dry, asked |-> 1] /\ stage' = "ended" /\ answer' = a
      /\ stage = "idle"
  BY DEF Begins, Answers
<1>2. call'.tool = tool /\ call'.dry = dry
  BY <1>1
<1>3. effects' = {} /\ late' = late /\ abandoned' = abandoned
  BY <1>1 DEF files, ToolFits, FilesFit
<1>4. FilesFit'
  BY <1>1, <1>2, <1>3 DEF ToolFits, FilesFit
<1>5. ToolTypes' /\ ProcessFits'
  BY <1>1, <1>2 DEF process, ToolFits, ToolTypes, ProcessFits, Commanding, Filing, InGroup
<1>6. QED
  BY <1>4, <1>5 DEF ToolFits

LEMMA SomeTools ==
  /\ Shell \in Catalog /\ Shell.via = "command"
  /\ FileDelete \in Catalog /\ FileDelete.via = "delete" /\ ~FileDelete.safe /\ FileDelete.approval
  /\ FileExists \in Catalog /\ FileExists.via = "exists"
  /\ FileWrite.via = "write" /\ TimeNow \in Catalog
BY DEF Catalog, Shell, Command, FileDelete, FileExists, FileWrite, FileTool

LEMMA CallingKeeps == ToolFits /\ Calling => ToolFits'
<1> SUFFICES ASSUME ToolFits, Calling
             PROVE  ToolFits'
  OBVIOUS
<1>1. ASSUME NEW tool \in Catalog, DryRun(tool)
      PROVE  ToolFits'
  BY <1>1, EndsAtOnce DEF DryRun
<1>2. ASSUME NEW tool \in Catalog, Refuse(tool)
      PROVE  ToolFits'
  BY <1>2, EndsAtOnce DEF Refuse
<1>3. ASSUME NEW tool \in Catalog, Compute(tool)
      PROVE  ToolFits'
  BY <1>3, EndsAtOnce DEF Compute
<1>4. CASE ShellStops
  BY <1>4, EndsAtOnce, SomeTools DEF ShellStops
<1>5. CASE Exists
  BY <1>5, EndsAtOnce, SomeTools DEF Exists
<1>6. CASE Delete
  BY <1>6, SomeTools
  DEF Delete, Begins, Answers, process, ToolFits, ToolTypes, ProcessFits, FilesFit, Commanding,
     Filing
<1>7. ASSUME NEW tool \in Catalog, StartCommand(tool)
      PROVE  ToolFits'
  <2>1. Len(tool.programs) \in Nat /\ Len(tool.programs) > 0
    BY <1>7, CatalogDeclared DEF StartCommand, WellDeclared
  <2>2. Len(<<>>) = 0
    OBVIOUS
  <2>3. QED
    BY <1>7, <2>1, <2>2
    DEF StartCommand, Begins, process, files, ToolFits, ToolTypes, ProcessFits, FilesFit,
       Commanding, Filing
<1>8. ASSUME NEW tool \in Catalog, StartFile(tool)
      PROVE  ToolFits'
  BY <1>8
  DEF StartFile, Begins, process, files, ToolFits, ToolTypes, ProcessFits, FilesFit, Commanding,
     Filing
<1>9. QED
  BY <1>1, <1>2, <1>3, <1>4, <1>5, <1>6, <1>7, <1>8 DEF Calling

LEMMA WorkingKeeps == ToolFits /\ Working => ToolFits'
<1> SUFFICES ASSUME ToolFits, Working
             PROVE  ToolFits'
  OBVIOUS
<1> USE DEF process, files, ToolFits, ToolTypes, ProcessFits, FilesFit, Commanding, Filing
<1>1. CASE Spawn
  <2>1. Program \in Changing => ~call.tool.safe /\ call.tool.approval
    <3>1. Len(exits) \in Nat /\ Len(call.tool.programs) \in Nat
          /\ Len(exits) < Len(call.tool.programs)
      BY <1>1, CatalogDeclared, LenProperties DEF Spawn, WellDeclared
    <3>2. Len(exits) + 1 \in 1 .. Len(call.tool.programs)
      BY <3>1
    <3>3. QED
      BY <3>2, CatalogDeclared DEF Program, WellDeclared
  <2>2. QED
    BY <1>1, <2>1, TypeOfChild DEF Spawn
<1>2. CASE SpawnFails
  BY <1>2 DEF SpawnFails, Answers
<1>3. CASE PipesEnd
  BY <1>3 DEF PipesEnd
<1>4. CASE ReadFails
  BY <1>4 DEF ReadFails
<1>5. ASSUME NEW end \in {"ok", "failed"}, Reap(end)
      PROVE  ToolFits'
  <2>1. /\ exits' \in Seq({"ok", "failed"}) /\ Len(exits') = Len(exits) + 1
        /\ Len(exits) \in Nat /\ Len(call.tool.programs) \in Nat
    BY <1>5, AppendProperties, LenProperties, CatalogDeclared DEF Reap, WellDeclared
  <2>2. CASE Len(exits') < Len(call.tool.programs)
    BY <1>5, <2>1, <2>2 DEF Reap
  <2>3. CASE ~(Len(exits') < Len(call.tool.programs))
    <3>1. Len(exits') = Len(call.tool.programs)
      BY <1>5, <2>1, <2>3 DEF Reap
    <3>2. stage' = "ended" /\ answer' \in {"ok", "failed"}
      BY <1>5, <2>3 DEF Reap, Answers, Verdict
    <3>3. QED
      BY <1>5, <2>1, <3>1, <3>2 DEF Reap
  <2>4. QED
    BY <2>2, <2>3
<1>6. CASE ReportReadError
  BY <1>6 DEF ReportReadError, Answers
<1>7. CASE TimesOut
  BY <1>7, GroupIsDead DEF TimesOut
<1>8. CASE Killed
  BY <1>8 DEF Killed, Answers
<1>9. CASE Fetched
  BY <1>9 DEF Fetched, Answers
<1>10. CASE MakeDirectories
  BY <1>10 DEF MakeDirectories, Answers
<1>11. CASE WriteLands
  BY <1>11, CatalogDeclared DEF WriteLands, WellDeclared
<1>12. CASE WriteFails
  BY <1>12, CatalogDeclared DEF WriteFails, Answers, WellDeclared
<1>13. CASE WriteReturns
  BY <1>13 DEF WriteReturns, Answers
<1>14. ASSUME NEW a \in {"overdue", "cancelled"}, Dropped, Answers(a)
       PROVE  ToolFits'
  <2>1. leader' # "alive" /\ shot' \subseteq {"alive", "zombie"} /\ child' \in Children
        /\ ~InGroup(child')
        /\ leader' \in {"none", "alive", "zombie", "reaped"}
    <3>1. CASE Running
      BY <1>14, <3>1, GroupIsDead DEF Running, Dropped, DropGuard
    <3>2. CASE ~Running
      BY <1>14, <3>2 DEF Running, Dropped, DropGuard, InGroup
    <3>3. QED
      BY <3>1, <3>2
  <2>2. QED
    BY <1>14, <2>1 DEF Dropped, Answers
<1>15. CASE NextCall
  BY <1>15, TypeOfChild, SomeTools DEF NextCall, NoCall
<1>16. QED
  BY <1>1, <1>2, <1>3, <1>4, <1>5, <1>6, <1>7, <1>8, <1>9, <1>10, <1>11, <1>12, <1>13, <1>14, <1>15
  DEF Working, Overdue, Cancelled

LEMMA ToolInductive == ToolFits /\ [ToolNext]_toolvars => ToolFits'
<1> SUFFICES ASSUME ToolFits, [ToolNext]_toolvars
             PROVE  ToolFits'
  OBVIOUS
<1>1. CASE Calling
  BY <1>1, CallingKeeps
<1>2. CASE Working
  BY <1>2, WorkingKeeps
<1> USE DEF process, files, ToolFits, ToolTypes, ProcessFits, FilesFit, Commanding, Filing
<1>3. CASE LateWrite
  BY <1>3 DEF LateWrite
<1>4. CASE Forks
  BY <1>4, TypeOfChild DEF Forks
<1>5. CASE Detaches
  BY <1>5, TypeOfChild DEF Detaches
<1>6. CASE ClosesPipes
  BY <1>6 DEF ClosesPipes
<1>7. CASE Exits
  BY <1>7, TypeOfChild DEF Exits
<1>8. CASE UNCHANGED toolvars
  BY <1>8 DEF toolvars
<1>9. QED
  BY <1>1, <1>2, <1>3, <1>4, <1>5, <1>6, <1>7, <1>8 DEF ToolNext

LEMMA ToolSound == ToolFits => CommandsContained /\ EffectsDeclared
BY SomeTools DEF ToolFits, ToolTypes, ProcessFits, FilesFit, CommandsContained, SignalsAreOurs,
   EffectsDeclared, InGroup

-----------------------------------------------------------------------------
(* An HTTP call: its hops, and the addresses a host may resolve to.        *)

LEMMA PowerIsCount ==
  ASSUME NEW n \in Nat
  PROVE  /\ IsFiniteSet(1..n) /\ IsFiniteSet(SUBSET (1..n)) 
         /\ Cardinality(SUBSET (1..n)) = 2^n
<1>1. IsFiniteSet(1..n) /\ Cardinality(1..n) = n
  BY FS_Interval
<1>2. QED
  BY <1>1, FS_SUBSET

LEMMA PowerPositive ==
  ASSUME NEW n \in Nat
  PROVE  2^n \in Nat \ {0}
<1> DEFINE S == SUBSET (1..n)
<1>1. S # {}
  OBVIOUS
<1>2. IsFiniteSet(S) /\ Cardinality(S) = 2^n
  BY PowerIsCount
<1> HIDE DEF S
<1>3. QED
  BY <1>1, <1>2, FS_CardinalityType, FS_EmptySet

LEMMA PowerStep ==
  ASSUME NEW n \in Nat
  PROVE  2^(n + 1) = 2 * 2^n
<1> DEFINE S == SUBSET (1..n)
           U == {t \cup {n + 1} : t \in S}
           f == [t \in S |-> t \cup {n + 1}]
<1>1. IsFiniteSet(S) /\ Cardinality(S) = 2^n /\ Cardinality(S) \in Nat
  BY PowerIsCount, FS_CardinalityType
<1>2. n + 1 \notin 1..n /\ 1..(n + 1) = (1..n) \cup {n + 1}
  OBVIOUS
<1>3. f \in Bijection(S, U)
  <2>1. f \in [S -> U] /\ \A u \in U : \E t \in S : f[t] = u
    OBVIOUS
  <2>2. \A t, u \in S : f[t] = f[u] => t = u
    BY <1>2
  <2>3. QED
    BY <2>1, <2>2 DEF Bijection, Injection, Surjection, IsInjective
<1>4. IsFiniteSet(U) /\ Cardinality(U) = Cardinality(S)
  <2>1. ExistsBijection(S, U)
    BY <1>3 DEF ExistsBijection
  <2> HIDE DEF S, U, f
  <2>2. QED
    BY <1>1, <2>1, FS_Bijection
<1>5. SUBSET (1..(n + 1)) = S \cup U
  <2>1. ASSUME NEW t \in SUBSET (1..(n + 1))
        PROVE  t \in S \cup U
    <3>1. CASE n + 1 \in t
      <4>1. t \ {n + 1} \in S /\ t = (t \ {n + 1}) \cup {n + 1}
        BY <1>2, <3>1
      <4>2. QED
        BY <4>1
    <3>2. CASE n + 1 \notin t
      BY <1>2, <3>2
    <3>3. QED
      BY <3>1, <3>2
  <2>2. S \cup U \subseteq SUBSET (1..(n + 1))
    BY <1>2
  <2>3. QED
    BY <2>1, <2>2
<1>6. S \cap U = {}
  BY <1>2
<1> HIDE DEF S, U
<1>7. Cardinality(S \cup U) = Cardinality(S) + Cardinality(U) - Cardinality(S \cap U)
  BY <1>1, <1>4, FS_Union
<1>8. Cardinality(S \cap U) = 0
  BY <1>6, FS_EmptySet
<1>9. Cardinality(SUBSET (1..(n + 1))) = 2^(n + 1)
  <2> DEFINE m == n + 1
  <2>1. m \in Nat
    OBVIOUS
  <2> HIDE DEF m
  <2>2. Cardinality(SUBSET (1..m)) = 2^m
    BY <2>1, PowerIsCount
  <2>3. QED
    BY <2>2 DEF m
<1>10. 2^(n + 1) = Cardinality(S \cup U)
  BY <1>5, <1>9
<1> DEFINE double == 2^(n + 1)
           single == 2^n
<1>11. double = Cardinality(S \cup U) /\ single = Cardinality(S)
  BY <1>1, <1>10
<1> HIDE DEF double, single
<1>12. double = 2 * single
  BY <1>1, <1>4, <1>7, <1>8, <1>11
<1>13. QED
  BY <1>12 DEF double, single

LEMMA Division ==
  ASSUME NEW q \in Int, NEW N \in Nat \ {0}, NEW r \in 0 .. N - 1
  PROVE  (q * N + r) % N = r /\ (q * N + r) \div N = q
OBVIOUS

LEMMA Divided ==
  ASSUME NEW x \in Nat, NEW N \in Nat \ {0}
  PROVE  x \div N \in Nat /\ x % N \in 0 .. N - 1 /\ x = (x \div N) * N + (x % N)
OBVIOUS

LEMMA Halved ==
  ASSUME NEW x \in Nat, NEW X \in Nat \ {0}
  PROVE  x \div (2 * X) = (x \div X) \div 2
OBVIOUS

LEMMA CancelledChain ==
  ASSUME NEW x \in Nat, NEW y \in Nat, NEW X \in Nat \ {0}, x * X = y * X
  PROVE  x = y
OBVIOUS

LEMMA PowerGrows ==
  ASSUME NEW k \in Nat
  PROVE  \A j \in Nat : 2^k <= 2^(k + j)
<1> DEFINE T == {j \in Nat : 2^k <= 2^(k + j)}
<1>1. 0 \in T
  <2>1. k + 0 = k /\ 2^k \in Nat
    BY PowerPositive
  <2> DEFINE X == 2^k
  <2>2. X <= X /\ 2^(k + 0) = X
    BY <2>1
  <2>3. QED
    BY <2>2
<1>2. ASSUME NEW n \in Nat, n \in T
      PROVE  n + 1 \in T
  <2>1. k + n \in Nat /\ k + (n + 1) = (k + n) + 1
    OBVIOUS
  <2>2. 2^(k + (n + 1)) = 2 * 2^(k + n) /\ 2^(k + n) \in Nat /\ 2^k \in Nat
    BY <2>1, PowerStep, PowerPositive
  <2>3. 2^k <= 2^(k + n)
    BY <1>2
  <2> DEFINE X == 2^k
             Y == 2^(k + n)
             Z == 2^(k + (n + 1))
  <2>4. Z = 2 * Y /\ Y \in Nat /\ X \in Nat /\ X <= Y
    BY <2>2, <2>3
  <2> HIDE DEF X, Y, Z
  <2>5. X <= Z
    BY <2>4
  <2>6. QED
    BY <2>5 DEF X, Z
<1> HIDE DEF T
<1>3. Nat \subseteq T
  BY <1>1, <1>2, SetInduction
<1>4. QED
  BY <1>3 DEF T

LEMMA ShiftsAgree ==
  ASSUME NEW a \in Nat, NEW b \in Nat, NEW k \in Nat, a \div 2^k = b \div 2^k
  PROVE  \A j \in Nat : a \div 2^(k + j) = b \div 2^(k + j)
<1> DEFINE T == {j \in Nat : a \div 2^(k + j) = b \div 2^(k + j)}
<1>1. 0 \in T
  <2>1. k + 0 = k
    OBVIOUS
  <2>2. 2^(k + 0) = 2^k
    BY <2>1
  <2>3. QED
    BY <2>2
<1>2. ASSUME NEW n \in Nat, n \in T
      PROVE  n + 1 \in T
  <2>1. k + n \in Nat /\ k + (n + 1) = (k + n) + 1
    OBVIOUS
  <2> DEFINE Y == 2^(k + n)
             Z == 2^(k + (n + 1))
  <2>2. Z = 2 * Y /\ Y \in Nat \ {0}
    BY <2>1, PowerStep, PowerPositive
  <2>3. a \div Y = b \div Y
    BY <1>2
  <2> HIDE DEF Y, Z
  <2>4. a \div Z = (a \div Y) \div 2 /\ b \div Z = (b \div Y) \div 2
    BY <2>2, Halved
  <2>5. a \div Z = b \div Z
    BY <2>3, <2>4
  <2>6. QED
    BY <2>5 DEF Z
<1> HIDE DEF T
<1>3. Nat \subseteq T
  BY <1>1, <1>2, SetInduction
<1>4. QED
  BY <1>3 DEF T

LEMMA LeadingOnes ==
  ASSUME NEW N \in Nat, NEW K \in Nat \ {0}, K < N
  PROVE  ((N - 1) * K) % N = N - K
<1>1. (N - 1) * K = (K - 1) * N + (N - K) /\ N - K \in 0 .. N - 1 /\ K - 1 \in Int
  OBVIOUS
<1> DEFINE q == K - 1
           r == N - K
           m == (N - 1) * K
<1>2. m = q * N + r /\ q \in Int /\ r \in 0 .. N - 1
  BY <1>1
<1> HIDE DEF q, r, m
<1>3. (q * N + r) % N = r
  BY <1>2, Division
<1>4. m % N = r
  BY <1>2, <1>3
<1>5. QED
  BY <1>4 DEF m, r

LEMMA MaskIsZero ==
  ASSUME EgressAssumption, NEW p \in 0 .. Width
  PROVE  Mask(p) = 0 <=> p = 0
<1>1. Width \in Nat
  BY DEF EgressAssumption
<1>2. CASE p = 0
  BY <1>1, <1>2 DEF Mask
<1>3. CASE p # 0
  <2>1. Width - 1 \in Nat /\ Width - p \in Nat /\ p - 1 \in Nat
        /\ (Width - 1) + 1 = Width /\ (Width - p) + (p - 1) = Width - 1
    BY <1>1, <1>3
  <2> DEFINE H == 2^(Width - 1)
             N == 2^Width
             K == 2^(Width - p)
  <2>2. N = 2 * H
    BY <2>1, PowerStep
  <2>3. K <= H
    BY <2>1, PowerGrows
  <2>4. H \in Nat /\ N \in Nat /\ K \in Nat \ {0}
    BY <1>1, <2>1, PowerPositive
  <2>5. Mask(p) = ((N - 1) * K) % N
    BY <1>1, <1>3 DEF Mask
  <2> HIDE DEF H, N, K
  <2>6. K < N
    BY <2>2, <2>3, <2>4
  <2>7. Mask(p) = N - K
    BY <2>4, <2>5, <2>6, LeadingOnes
  <2>8. QED
    BY <1>3, <2>4, <2>6, <2>7
<1>4. QED
  BY <1>2, <1>3

LEMMA SameTop ==
  ASSUME NEW a \in Nat, NEW b \in Nat, NEW K \in Nat \ {0}, a - (a % K) = b - (b % K)
  PROVE  a \div K = b \div K
<1> DEFINE x == a \div K
           y == b \div K
           r == a % K
           q == b % K
<1>1. x \in Nat /\ y \in Nat /\ r \in Nat /\ q \in Nat /\ a = x * K + r /\ b = y * K + q
  <2>1. r \in 0 .. K - 1 /\ q \in 0 .. K - 1 /\ x \in Nat /\ y \in Nat
        /\ a = x * K + r /\ b = y * K + q
    BY Divided
  <2>2. QED
    BY <2>1
<1>2. a - r = b - q
  OBVIOUS
<1> HIDE DEF x, y, r, q
<1> DEFINE X == x * K
           Y == y * K
<1>3. X \in Nat /\ Y \in Nat /\ a = X + r /\ b = Y + q
  BY <1>1
<1> HIDE DEF X, Y
<1>4. X = Y
  BY <1>1, <1>2, <1>3
<1>5. x * K = y * K
  BY <1>4 DEF X, Y
<1>6. x = y
  BY <1>1, <1>5, CancelledChain
<1>7. QED
  BY <1>6 DEF x, y

LEMMA CoversIsPrefix ==
  ASSUME EgressAssumption, NEW net \in AllowedNets, NEW a \in Addresses, Covers(net, a)
  PROVE  InNetwork(net, a)
<1> DEFINE b == net[1]
           p == net[2]
           k == Width - p
<1>1. Width \in Nat /\ p \in 0 .. Width /\ k \in Nat /\ b \in Addresses
  BY DEF EgressAssumption
<1>2. a \in Nat /\ b \in Nat
  BY <1>1, PowerPositive DEF Addresses
<1>3. CASE p = 0
  <2>1. 1 .. net[2] = {}
    BY <1>3
  <2>2. QED
    BY <2>1 DEF InNetwork
<1>4. CASE p # 0
  <2> DEFINE K == 2^k
  <2>1. Mask(p) # 0
    BY <1>1, <1>4, MaskIsZero
  <2>2. a - (a % K) = b - (b % K)
    BY <2>1 DEF Covers, Masked
  <2>3. K \in Nat \ {0}
    BY <1>1, PowerPositive
  <2>4. a \div K = b \div K
    <3> HIDE DEF K, b
    <3>1. QED
      BY <1>2, <2>2, <2>3, SameTop
  <2>5. \A j \in Nat : a \div 2^(k + j) = b \div 2^(k + j)
    <3> HIDE DEF k, b
    <3>1. QED
      BY <1>1, <1>2, <2>4, ShiftsAgree
  <2>6. ASSUME NEW i \in 1 .. p
        PROVE  a \div 2^(Width - i) = b \div 2^(Width - i)
    <3>1. p - i \in Nat /\ k + (p - i) = Width - i
      BY <1>1
    <3> HIDE DEF k, b, p
    <3>2. QED
      BY <2>5, <3>1
  <2>7. QED
    BY <2>6 DEF InNetwork
<1>5. QED
  BY <1>3, <1>4

(* Where the future of a call stands, and what it may then do. *)
HopsFit ==
  /\ http \in {"idle", "lookup", "classify", "sent", "body", "finished"}
  /\ hops \in 0 .. MaxRedirects
  /\ http = "idle" => wire = Unsent
  /\ http \in {"lookup", "classify", "sent", "body"} =>
       /\ request.method \in Methods
       /\ ~IsRisky(request) => now.method = "GET"
  /\ http = "classify" =>
       /\ DOMAIN resolved # {} /\ 1 \in DOMAIN resolved
       /\ \A i \in DOMAIN resolved : resolved[i] \in Addresses
  /\ HopsChecked

LEMMA EInitial ==
  ASSUME EgressAssumption, EInit
  PROVE  HopsFit
BY DEF EgressAssumption, EInit, HopsFit, HopsChecked, Unsent

LEMMA PinnedIsChecked ==
  ASSUME EgressAssumption, HopsFit, http = "classify", PermitsAll(resolved),
         NEW a \in Pinned(resolved)
  PROVE  \/ a \in Public
         \/ now.origin \in AllowedHosts
         \/ \E net \in AllowedNets : InNetwork(net, a)
<1>1. a = resolved[1] /\ 1 \in DOMAIN resolved /\ a \in Addresses
  BY DEF Pinned, HopsFit
<1>2. a \in Public \/ ExplicitlyAllows(now.origin, a)
  BY <1>1 DEF PermitsAll, Permitted
<1>3. CASE \E net \in AllowedNets : Covers(net, a)
  BY <1>1, <1>3, CoversIsPrefix
<1>4. QED
  BY <1>2, <1>3 DEF ExplicitlyAllows

LEMMA EInductive ==
  ASSUME EgressAssumption, HopsFit, [ENext]_evars
  PROVE  HopsFit'
<1>1. CASE Ask
  <2>1. PICK method \in Methods \cup {"HEAD", "OPTIONS"}, secret \in BOOLEAN, body \in BOOLEAN,
             o \in Origins :
          /\ request' = [method |-> method, secret |-> secret, body |-> body, origin |-> o]
          /\ now' = [method |-> method, body |-> body, origin |-> o]
          /\ \/ http' = "finished"
             \/ method \in Methods /\ http' = "finished"
             \/ method \in Methods /\ http' = "lookup"
    BY <1>1 DEF Ask, Finish
  <2>2. wire' = Unsent /\ hops' = hops /\ resolved' = resolved
    BY <1>1 DEF Ask, HopsFit
  <2>3. HopsChecked'
    BY <2>2 DEF HopsChecked
  <2>4. http' = "lookup" => request'.method \in Methods
    BY <2>1
  <2>5. http' = "lookup" /\ ~IsRisky(request') => now'.method = "GET"
    BY <2>1, <2>4 DEF IsRisky, Methods
  <2>6. http' \in {"lookup", "finished"}
    BY <2>1
  <2>7. QED
    BY <2>2, <2>3, <2>4, <2>5, <2>6 DEF HopsFit
<1>2. CASE Lookup
  <2>1. HopsChecked'
    BY <1>2 DEF Lookup, HopsChecked, HopsFit
  <2>2. http' \in {"classify", "finished"}
    BY <1>2 DEF Lookup, Finish
  <2>3. ASSUME http' = "classify"
        PROVE  /\ DOMAIN resolved' # {} /\ 1 \in DOMAIN resolved'
               /\ \A i \in DOMAIN resolved' : resolved'[i] \in Addresses
    <3>1. PICK found \in {<<a>> : a \in Addresses} \cup (Addresses \X Addresses) :
            resolved' = found
      BY <1>2, <2>3 DEF Lookup, Finish
    <3>2. CASE \E a \in Addresses : found = <<a>>
      BY <3>1, <3>2
    <3>3. CASE found \in Addresses \X Addresses
      BY <3>1, <3>3
    <3>4. QED
      BY <3>1, <3>2, <3>3
  <2>4. QED
    BY <1>2, <2>1, <2>2, <2>3 DEF Lookup, HopsFit
<1>3. CASE Send
  <2>1. http = "classify" /\ UNCHANGED <<request, now, hops>>
    BY <1>3 DEF Send
  <2>2. CASE PermitsAll(resolved)
    <3>1. PICK a \in Pinned(resolved) :
            wire' = [origin |-> now.origin, address |-> a, method |-> now.method,
                     body |-> now.body, secret |-> ForwardsSecret]
      BY <1>3, <2>2 DEF Send
    <3>2. http' = "sent"
      BY <1>3, <2>2 DEF Send
    <3>3. wire'.origin = now.origin /\ wire'.address = a /\ wire'.method = now.method
          /\ wire'.secret = ForwardsSecret
      BY <3>1
    <3>4. \/ a \in Public
          \/ now.origin \in AllowedHosts
          \/ \E net \in AllowedNets : InNetwork(net, a)
      BY <2>1, <2>2, PinnedIsChecked
    <3>5. \/ wire'.address \in Public
          \/ wire'.origin \in AllowedHosts
          \/ \E net \in AllowedNets : InNetwork(net, wire'.address)
      BY <3>3, <3>4
    <3>6. ForwardsSecret => request.secret /\ now.origin = request.origin
      BY DEF ForwardsSecret, SameOrigin
    <3>7. ~IsRisky(request) => now.method = "GET" /\ ~request.secret
      BY <2>1 DEF HopsFit, IsRisky
    <3>8. hops' \in 0 .. MaxRedirects /\ hops' <= MaxRedirects
      BY <2>1 DEF HopsFit, EgressAssumption
    <3>9. HopsChecked'
      BY <2>1, <3>3, <3>5, <3>6, <3>7, <3>8 DEF HopsChecked, InNetwork, IsRisky
    <3>10. QED
      BY <2>1, <3>2, <3>9 DEF HopsFit, IsRisky
  <2>3. CASE ~PermitsAll(resolved)
    <3>1. http' = "finished" /\ UNCHANGED wire
      BY <1>3, <2>3 DEF Send, Finish
    <3>2. HopsChecked'
      BY <2>1, <3>1 DEF HopsChecked, HopsFit, IsRisky, InNetwork
    <3>3. QED
      BY <2>1, <3>1, <3>2 DEF HopsFit
  <2>4. QED
    BY <2>2, <2>3
<1>4. CASE Redirect
  <2>1. http = "sent" /\ UNCHANGED <<request, resolved, wire>>
    BY <1>4 DEF Redirect
  <2>2. CASE http' = "finished" /\ UNCHANGED <<now, hops>>
    <3>1. HopsChecked'
      BY <2>1, <2>2 DEF HopsChecked, HopsFit
    <3>2. QED
      BY <2>1, <2>2, <3>1 DEF HopsFit
  <2>3. CASE \E code \in {"moved", "found", "see other", "temporary"}, o \in Origins :
               /\ hops # MaxRedirects
               /\ now' = [method |-> AfterRedirect(code).method,
                          body |-> AfterRedirect(code).body, origin |-> o]
               /\ hops' = hops + 1
               /\ http' = "lookup"
    <3>1. hops' \in 0 .. MaxRedirects
      <4>1. hops # MaxRedirects /\ hops' = hops + 1 /\ hops \in 0 .. MaxRedirects
        BY <2>3 DEF HopsFit
      <4>2. QED
        BY <4>1 DEF EgressAssumption
    <3>2. now.method = "GET" => now'.method = "GET"
      <4>1. PICK code \in {"moved", "found", "see other", "temporary"}, o \in Origins :
              now' = [method |-> AfterRedirect(code).method,
                      body |-> AfterRedirect(code).body, origin |-> o]
        BY <2>3
      <4>2. now.method = "GET" => AfterRedirect(code).method = "GET"
        BY DEF AfterRedirect
      <4>3. QED
        BY <4>1, <4>2
    <3>3. HopsChecked'
      BY <2>1, <3>1 DEF HopsChecked, HopsFit, EgressAssumption
    <3>4. QED
      BY <2>1, <2>3, <3>1, <3>2, <3>3 DEF HopsFit
  <2>4. QED
    BY <1>4, <2>2, <2>3 DEF Redirect, Finish
<1>5. CASE Respond
  <2>1. HopsChecked'
    BY <1>5 DEF Respond, HopsChecked, HopsFit
  <2>2. QED
    BY <1>5, <2>1 DEF Respond, HopsFit
<1>6. CASE ConnectionFails \/ ReadBody \/ ChainTimesOut \/ BodyTimesOut
  <2>1. http' = "finished" /\ UNCHANGED <<request, now, hops, resolved, wire>>
    BY <1>6 DEF ConnectionFails, ReadBody, ChainTimesOut, BodyTimesOut, Finish
  <2>2. HopsChecked'
    BY <2>1 DEF HopsChecked, HopsFit
  <2>3. QED
    BY <2>1, <2>2 DEF HopsFit
<1>7. CASE UNCHANGED evars
  <2>1. HopsChecked'
    BY <1>7 DEF evars, HopsChecked, HopsFit
  <2>2. QED
    BY <1>7, <2>1 DEF evars, HopsFit
<1>8. QED
  BY <1>1, <1>2, <1>3, <1>4, <1>5, <1>6, <1>7 DEF ENext

-----------------------------------------------------------------------------
(* The upgrade of an old database.                                         *)

Statements ==
  {"start", "failed", "add column", "create locks", "look", "rename", "create", "copy",
   "drop", "record", "sweep", "ready"}
Early == {"start", "failed", "add column"}
Moving == {"create", "copy", "drop"}
SomeTable == [keyed : BOOLEAN, rows : SUBSET (0..MaxSaves)] \cup {NoTable}

TablesFit ==
  /\ column \in BOOLEAN /\ recorded \in BOOLEAN
  /\ snapshots \in SomeTable /\ legacy \in SomeTable
  /\ at \in [Opener -> Statements]
  /\ saves \in 0..MaxSaves

(* A program that is past the rename is alone there, for as long as the    *)
(* renamed table exists; and it drops that table after the copy.           *)
MigrationFits ==
  /\ \A p \in Opener : at[p] \notin Early => column
  /\ \A p \in Opener : at[p] \in Moving => Present(legacy)
  /\ \A p, q \in Opener : at[p] \in Moving /\ at[q] \in Moving => p = q
  /\ \A p \in Opener : at[p] = "drop" => Old \in RowsOf(snapshots)

SchemaFits == TablesFit /\ MigrationFits /\ MigrationLosesNothing

LEMMA NoTableApart ==
  ASSUME SchemaAssumption
  PROVE  /\ \A t \in SomeTable : Present(t) <=> t \in [keyed : BOOLEAN, rows : SUBSET (0..MaxSaves)]
         /\ \A k \in BOOLEAN, r \in SUBSET (0..MaxSaves) :
              /\ Table(k, r) \in SomeTable /\ Present(Table(k, r))
              /\ RowsOf(Table(k, r)) = r
         /\ ~Present(NoTable) /\ RowsOf(NoTable) = {} /\ NoTable \in SomeTable
         /\ \A t \in SomeTable : RowsOf(t) \subseteq 0..MaxSaves
         /\ \A t \in SomeTable : Present(t) => t.rows = RowsOf(t)
         /\ MaxSaves \in Nat /\ Old \in 0..MaxSaves
<1>1. MaxSaves \in Nat /\ MaxSaves + 1 \notin 0..MaxSaves
  BY DEF SchemaAssumption
<1>2. ASSUME NEW t \in [keyed : BOOLEAN, rows : SUBSET (0..MaxSaves)]
      PROVE  t # NoTable /\ t.rows \subseteq 0..MaxSaves
  <2>1. t.rows # {MaxSaves + 1} /\ t.rows \subseteq 0..MaxSaves
    BY <1>1
  <2>2. QED
    BY <2>1 DEF NoTable
<1>3. \A t \in SomeTable : Present(t) <=> t \in [keyed : BOOLEAN, rows : SUBSET (0..MaxSaves)]
  BY <1>2 DEF SomeTable, Present
<1>4. ASSUME NEW k \in BOOLEAN, NEW r \in SUBSET (0..MaxSaves)
      PROVE  Table(k, r) \in SomeTable /\ Present(Table(k, r)) /\ RowsOf(Table(k, r)) = r
  <2>1. Table(k, r) \in [keyed : BOOLEAN, rows : SUBSET (0..MaxSaves)]
    BY DEF Table
  <2>2. Table(k, r).rows = r
    BY DEF Table
  <2>3. QED
    BY <2>1, <2>2, <1>3 DEF SomeTable, RowsOf
<1>5. ~Present(NoTable) /\ RowsOf(NoTable) = {} /\ NoTable \in SomeTable
  BY DEF Present, RowsOf, SomeTable
<1>6. \A t \in SomeTable : RowsOf(t) \subseteq 0..MaxSaves
  BY <1>2, <1>3 DEF RowsOf
<1>7. \A t \in SomeTable : Present(t) => t.rows = RowsOf(t)
  BY DEF RowsOf
<1>8. Old \in 0..MaxSaves
  BY <1>1 DEF Old
<1>9. QED
  BY <1>1, <1>3, <1>4, <1>5, <1>6, <1>7, <1>8

LEMMA SchemaInitial == SchemaAssumption /\ SchemaInit => SchemaFits
<1> SUFFICES ASSUME SchemaAssumption, SchemaInit
             PROVE  SchemaFits
  OBVIOUS
<1> USE NoTableApart
<1>1. snapshots \in SomeTable /\ RowsOf(snapshots) = {Old} /\ legacy \in SomeTable
  <2>1. {Old} \in SUBSET (0..MaxSaves)
    OBVIOUS
  <2>2. QED
    BY <2>1 DEF SchemaInit
<1>2. TablesFit
  <2>1. saves \in 0..MaxSaves /\ column \in BOOLEAN /\ recorded \in BOOLEAN
    BY DEF SchemaInit, Old
  <2>2. at \in [Opener -> Statements]
    BY DEF SchemaInit, Statements
  <2>3. QED
    BY <1>1, <2>1, <2>2 DEF TablesFit
<1>3. MigrationFits
  BY DEF SchemaInit, MigrationFits, Early, Moving
<1>4. MigrationLosesNothing
  BY <1>1 DEF SchemaInit, MigrationLosesNothing
<1>5. QED
  BY <1>2, <1>3, <1>4 DEF SchemaFits

(* One program goes on, the tables as they are.                            *)
LEMMA GoesOnly ==
  ASSUME SchemaFits, NEW p \in Opener, NEW to \in Statements \ Moving,
         Goes(p, to), to \notin Early => column,
         UNCHANGED <<column, snapshots, legacy>>
  PROVE  /\ at' \in [Opener -> Statements]
         /\ MigrationFits'
<1>1. at' = [at EXCEPT ![p] = to] /\ at \in [Opener -> Statements]
  BY DEF Goes, SchemaFits, TablesFit
<1>2. \A q \in Opener : at'[q] = IF q = p THEN to ELSE at[q]
  BY <1>1
<1>3. \A q \in Opener : at'[q] \in Moving => at[q] \in Moving /\ at'[q] = at[q]
  BY <1>2
<1>4. at' \in [Opener -> Statements]
  BY <1>1
<1>5. \A q \in Opener : at'[q] \notin Early => column
  BY <1>2 DEF SchemaFits, MigrationFits
<1>6. \A q \in Opener : at'[q] = "drop" => at'[q] \in Moving
  BY DEF Moving
<1>7. QED
  BY <1>3, <1>4, <1>5, <1>6 DEF SchemaFits, MigrationFits, Present, RowsOf

LEMMA SchemaInductive == SchemaAssumption /\ SchemaFits /\ [SchemaNext]_schemavars => SchemaFits'
<1> SUFFICES ASSUME SchemaAssumption, SchemaFits, [SchemaNext]_schemavars
             PROVE  SchemaFits'
  OBVIOUS
<1> USE NoTableApart
<1>a. /\ column \in BOOLEAN /\ recorded \in BOOLEAN
      /\ snapshots \in SomeTable /\ legacy \in SomeTable
      /\ at \in [Opener -> Statements]
      /\ saves \in 0..MaxSaves
  BY DEF SchemaFits, TablesFit
<1>b. /\ \A p \in Opener : at[p] \notin Early => column
      /\ \A p \in Opener : at[p] \in Moving => Present(legacy)
      /\ \A p, q \in Opener : at[p] \in Moving /\ at[q] \in Moving => p = q
      /\ \A p \in Opener : at[p] = "drop" => Old \in RowsOf(snapshots)
  BY DEF SchemaFits, MigrationFits
<1>c. Old \in RowsOf(snapshots) \cup RowsOf(legacy)
  BY DEF SchemaFits, MigrationLosesNothing
(* Steps that leave the tables alone, but for a lost keyless row.          *)
<1>1. ASSUME NEW p \in Opener, NEW to \in Statements \ Moving, Goes(p, to),
             to \notin Early => column, UNCHANGED <<column, snapshots, legacy, saves>>,
             recorded' \in BOOLEAN, recorded' => column,
             {row \in Rows : ~row.finished \/ ~row.old} \subseteq past'
      PROVE  SchemaFits'
  <2>1. at' \in [Opener -> Statements] /\ MigrationFits'
    BY <1>1, GoesOnly
  <2>2. TablesFit'
    BY <1>1, <1>a, <2>1 DEF TablesFit
  <2>3. MigrationLosesNothing'
    BY <1>1, <1>c DEF MigrationLosesNothing, RowsOf, Present
  <2>4. QED
    BY <2>1, <2>2, <2>3 DEF SchemaFits
<1>d. /\ recorded => column
      /\ {row \in Rows : ~row.finished \/ ~row.old} \subseteq past
  BY DEF SchemaFits, MigrationLosesNothing
<1>e. /\ \A s \in {"failed", "start", "add column", "create locks", "look", "rename", "record",
                   "sweep", "ready"} :
            s \in Statements \ Moving
      /\ \A s \in {"create locks", "look", "rename", "create", "copy", "drop", "record", "sweep",
                   "ready"} :
            s \in Statements /\ s \notin Early
      /\ \A s \in {"create", "copy", "drop"} : s \in Moving /\ s \in Statements
      /\ "start" \in Early /\ "failed" \in Early /\ "add column" \in Early
  BY DEF Statements, Moving, Early
<1>f. ASSUME NEW p \in Opener, Fails(p), UNCHANGED <<past, recorded, kills, saves>>
      PROVE  SchemaFits'
  <2>1. Goes(p, "failed") /\ UNCHANGED <<column, snapshots, legacy>>
    BY <1>f DEF Fails, Tables
  <2>2. QED
    BY <1>1, <1>a, <1>d, <1>e, <1>f, <2>1
<1>2. ASSUME NEW p \in Opener, Migrate(p)
      PROVE  SchemaFits'
  <2>0. UNCHANGED <<past, recorded, kills, saves>>
    BY <1>2 DEF Migrate
  <2>1. CASE LookAtLifecycles(p)
    <3>1. UNCHANGED <<column, snapshots, legacy>>
          /\ Goes(p, IF column THEN "create locks" ELSE "add column")
      BY <2>1 DEF LookAtLifecycles, Tables
    <3>2. QED
      BY <1>1, <1>a, <1>d, <1>e, <2>0, <3>1
  <2>2. CASE AddColumn(p)
    <3>1. CASE ~column
      <4>1. Goes(p, "create locks") /\ column' = TRUE /\ snapshots' = snapshots /\ legacy' = legacy
        BY <2>2, <3>1 DEF AddColumn, Tables
      <4>2. \A q \in Opener : at'[q] = IF q = p THEN "create locks" ELSE at[q]
        BY <4>1, <1>a DEF Goes
      <4>3. at' \in [Opener -> Statements]
        BY <4>1, <1>a, <1>e DEF Goes
      <4>4. TablesFit'
        BY <2>0, <4>1, <4>3, <1>a DEF TablesFit
      <4>5. MigrationFits'
        BY <4>1, <4>2, <1>b, <1>e DEF MigrationFits, Present, RowsOf
      <4>6. MigrationLosesNothing'
        BY <2>0, <4>1, <1>c, <1>d DEF MigrationLosesNothing, RowsOf, Present
      <4>7. QED
        BY <4>4, <4>5, <4>6 DEF SchemaFits
    <3>2. CASE column
      BY <1>f, <2>0, <2>2, <3>2 DEF AddColumn
    <3>3. QED
      BY <3>1, <3>2
  <2>3. CASE CreateIfMissing(p)
    <3>0. Goes(p, "look") /\ column' = column /\ legacy' = legacy /\ column
          /\ snapshots' = IF Present(snapshots) THEN snapshots ELSE Table(TRUE, {})
      BY <2>3, <1>b, <1>e DEF CreateIfMissing, Tables
    <3>1. snapshots' \in SomeTable /\ RowsOf(snapshots') = RowsOf(snapshots)
      BY <3>0, <1>a DEF RowsOf
    <3>2. \A q \in Opener : at'[q] = IF q = p THEN "look" ELSE at[q]
      BY <3>0, <1>a DEF Goes
    <3>3. TablesFit'
      BY <2>0, <3>0, <3>1, <1>a, <1>e DEF TablesFit, Goes
    <3>4. MigrationFits'
      BY <3>0, <3>1, <3>2, <1>b, <1>e DEF MigrationFits
    <3>5. MigrationLosesNothing'
      BY <2>0, <3>0, <3>1, <1>c, <1>d DEF MigrationLosesNothing
    <3>6. QED
      BY <3>3, <3>4, <3>5 DEF SchemaFits
  <2>4. CASE LookAtLocks(p)
    <3>1. UNCHANGED <<column, snapshots, legacy>> /\ column
          /\ Goes(p, IF snapshots.keyed THEN "record" ELSE "rename")
      BY <2>4, <1>b, <1>e DEF LookAtLocks, Tables
    <3>2. QED
      BY <1>1, <1>a, <1>d, <1>e, <2>0, <3>1
  <2>5. CASE Rename(p)
    <3>1. CASE Present(snapshots) /\ ~Present(legacy)
      <4>1. Goes(p, "create") /\ column' = column /\ snapshots' = NoTable
            /\ legacy' = Table(FALSE, snapshots.rows) /\ column
        BY <2>5, <3>1, <1>b, <1>e DEF Rename, Tables
      <4>2. /\ legacy' \in SomeTable /\ Present(legacy') /\ RowsOf(legacy') = RowsOf(snapshots)
            /\ snapshots' \in SomeTable
        BY <4>1, <3>1, <1>a
      <4>3. Old \in RowsOf(legacy')
        BY <4>2, <3>1, <1>c DEF RowsOf
      <4>4. \A q \in Opener : at'[q] = IF q = p THEN "create" ELSE at[q]
        BY <4>1, <1>a DEF Goes
      <4>5. \A q \in Opener : at[q] \notin Moving
        BY <3>1, <1>b
      <4>6. TablesFit'
        BY <2>0, <4>1, <4>2, <1>a, <1>e DEF TablesFit, Goes
      <4>7. MigrationFits'
        <5>1. \A q \in Opener : at'[q] \in Moving => q = p
          BY <4>4, <4>5
        <5>2. \A q \in Opener : at'[q] # "drop"
          BY <4>4, <4>5 DEF Moving
        <5>3. QED
          BY <4>1, <4>2, <4>4, <5>1, <5>2, <1>b, <1>e DEF MigrationFits
      <4>8. MigrationLosesNothing'
        BY <2>0, <4>1, <4>3, <1>d DEF MigrationLosesNothing
      <4>9. QED
        BY <4>6, <4>7, <4>8 DEF SchemaFits
    <3>2. CASE ~(Present(snapshots) /\ ~Present(legacy))
      BY <1>f, <2>0, <2>5, <3>2 DEF Rename
    <3>3. QED
      BY <3>1, <3>2
  <2>6. CASE Create(p)
    <3>1. CASE ~Present(snapshots)
      <4>1. Goes(p, "copy") /\ column' = column /\ snapshots' = Table(TRUE, {})
            /\ legacy' = legacy /\ column /\ at[p] = "create"
        BY <2>6, <3>1, <1>b, <1>e DEF Create, Tables
      <4>2. snapshots' \in SomeTable /\ RowsOf(snapshots) = {}
        BY <4>1, <3>1 DEF RowsOf
      <4>3. \A q \in Opener : at'[q] = IF q = p THEN "copy" ELSE at[q]
        BY <4>1, <1>a DEF Goes
      <4>4. TablesFit'
        BY <2>0, <4>1, <4>2, <1>a, <1>e DEF TablesFit, Goes
      <4>5. \A q \in Opener : at[q] # "drop"
        BY <4>2, <1>b
      <4>6. MigrationFits'
        BY <4>1, <4>3, <4>5, <1>b, <1>e DEF MigrationFits
      <4>7. MigrationLosesNothing'
        BY <2>0, <4>1, <4>2, <1>c, <1>d DEF MigrationLosesNothing
      <4>8. QED
        BY <4>4, <4>6, <4>7 DEF SchemaFits
    <3>2. CASE Present(snapshots)
      BY <1>f, <2>0, <2>6, <3>2 DEF Create
    <3>3. QED
      BY <3>1, <3>2
  <2>7. CASE Copy(p)
    <3>1. CASE Present(snapshots) /\ Present(legacy) /\ Cardinality(legacy.rows) <= 1
      <4>1. Goes(p, "drop") /\ column' = column
            /\ snapshots' = Table(TRUE, snapshots.rows \cup legacy.rows)
            /\ legacy' = legacy /\ column /\ at[p] = "copy"
        BY <2>7, <3>1, <1>b, <1>e DEF Copy, Tables
      <4>2. snapshots' \in SomeTable /\ RowsOf(snapshots') = RowsOf(snapshots) \cup RowsOf(legacy)
        BY <4>1, <3>1, <1>a
      <4>3. \A q \in Opener : at'[q] = IF q = p THEN "drop" ELSE at[q]
        BY <4>1, <1>a DEF Goes
      <4>4. TablesFit'
        BY <2>0, <4>1, <4>2, <1>a, <1>e DEF TablesFit, Goes
      <4>5. MigrationFits'
        BY <4>1, <4>2, <4>3, <1>b, <1>c, <1>e DEF MigrationFits
      <4>6. MigrationLosesNothing'
        BY <2>0, <4>1, <4>2, <1>c, <1>d DEF MigrationLosesNothing
      <4>7. QED
        BY <4>4, <4>5, <4>6 DEF SchemaFits
    <3>2. CASE ~(Present(snapshots) /\ Present(legacy) /\ Cardinality(legacy.rows) <= 1)
      BY <1>f, <2>0, <2>7, <3>2 DEF Copy
    <3>3. QED
      BY <3>1, <3>2
  <2>8. CASE DropLegacy(p)
    <3>1. CASE Present(legacy)
      <4>1. Goes(p, "record") /\ column' = column /\ snapshots' = snapshots
            /\ legacy' = NoTable /\ column /\ at[p] = "drop"
        BY <2>8, <3>1, <1>b, <1>e DEF DropLegacy, Tables
      <4>2. Old \in RowsOf(snapshots)
        BY <4>1, <1>b
      <4>3. \A q \in Opener : at'[q] = IF q = p THEN "record" ELSE at[q]
        BY <4>1, <1>a DEF Goes
      <4>4. TablesFit'
        BY <2>0, <4>1, <1>a, <1>e DEF TablesFit, Goes
      <4>5. \A q \in Opener : at'[q] \notin Moving
        BY <4>1, <4>3, <1>b, <1>e DEF Moving
      <4>6. MigrationFits'
        BY <4>1, <4>3, <4>5, <1>b, <1>e DEF MigrationFits
      <4>7. MigrationLosesNothing'
        BY <2>0, <4>1, <4>2, <1>d DEF MigrationLosesNothing
      <4>8. QED
        BY <4>4, <4>6, <4>7 DEF SchemaFits
    <3>2. CASE ~Present(legacy)
      BY <1>f, <2>0, <2>8, <3>2 DEF DropLegacy
    <3>3. QED
      BY <3>1, <3>2
  <2>9. QED
    BY <1>2, <2>1, <2>2, <2>3, <2>4, <2>5, <2>6, <2>7, <2>8 DEF Migrate
<1>3. ASSUME NEW p \in Opener, RecordVersions(p)
      PROVE  SchemaFits'
  <2>1. column /\ recorded' = TRUE /\ Goes(p, "sweep")
        /\ UNCHANGED <<column, snapshots, legacy, past, kills, saves>>
    BY <1>3, <1>b, <1>e DEF RecordVersions
  <2>2. QED
    BY <1>1, <1>d, <1>e, <2>1
<1>4. ASSUME NEW p \in Opener, Sweep(p)
      PROVE  SchemaFits'
  <2>1. column /\ Goes(p, "ready") /\ past' = {row \in past : ~(row.finished /\ row.old)}
        /\ UNCHANGED <<column, snapshots, legacy, recorded, kills, saves>>
    BY <1>4, <1>b, <1>e DEF Sweep
  <2>2. {row \in Rows : ~row.finished \/ ~row.old} \subseteq past'
    BY <1>d, <2>1
  <2>3. QED
    BY <1>1, <1>a, <1>d, <1>e, <2>1, <2>2
<1>5. ASSUME NEW p \in Opener, SaveSnapshot(p)
      PROVE  SchemaFits'
  <2>1. /\ saves < MaxSaves /\ saves' = saves + 1
        /\ snapshots' = IF Present(snapshots)
                         THEN Table(TRUE, snapshots.rows \cup {saves + 1})
                         ELSE snapshots
        /\ UNCHANGED <<column, legacy, past, recorded, at, kills>>
    BY <1>5 DEF SaveSnapshot
  <2>2. saves' \in 0..MaxSaves
    BY <2>1, <1>a
  <2>3. snapshots' \in SomeTable /\ RowsOf(snapshots) \subseteq RowsOf(snapshots')
    <3>1. CASE Present(snapshots)
      <4>1. snapshots.rows = RowsOf(snapshots) /\ snapshots.rows \subseteq 0..MaxSaves
        BY <3>1, <1>a
      <4> DEFINE all == snapshots.rows \cup {saves + 1}
      <4>2. all \in SUBSET (0..MaxSaves) /\ snapshots.rows \subseteq all
        BY <2>1, <2>2, <4>1
      <4>3. snapshots' = Table(TRUE, all)
        BY <2>1, <3>1
      <4> HIDE DEF all
      <4>4. Table(TRUE, all) \in SomeTable /\ RowsOf(Table(TRUE, all)) = all
        BY <4>2
      <4>5. QED
        BY <4>1, <4>2, <4>3, <4>4
    <3>2. CASE ~Present(snapshots)
      BY <2>1, <3>2, <1>a
    <3>3. QED
      BY <3>1, <3>2
  <2>4. TablesFit'
    BY <2>1, <2>2, <2>3, <1>a DEF TablesFit
  <2>5. MigrationFits'
    BY <2>1, <2>3, <1>b DEF MigrationFits
  <2>6. MigrationLosesNothing'
    BY <2>1, <2>3, <1>c, <1>d DEF MigrationLosesNothing
  <2>7. QED
    BY <2>4, <2>5, <2>6 DEF SchemaFits
<1>6. ASSUME NEW p \in Opener, Kill(p)
      PROVE  SchemaFits'
  <2>1. Goes(p, "start") /\ UNCHANGED <<column, snapshots, legacy, past, recorded, saves>>
    BY <1>6 DEF Kill
  <2>2. QED
    BY <1>1, <1>a, <1>d, <1>e, <2>1
<1>7. CASE UNCHANGED schemavars
  BY <1>7 DEF schemavars, SchemaFits, TablesFit, MigrationFits, MigrationLosesNothing,
               Present, RowsOf
<1>8. QED
  BY <1>2, <1>3, <1>4, <1>5, <1>6, <1>7 DEF SchemaNext

-----------------------------------------------------------------------------
(* The audit log: what a sink that fails leaves of it.                     *)

LogLine == [entry : Entry, text : {"whole", "open", "spoiled"}]
Distinct(s) == \A i, j \in DOMAIN s : s[i] = s[j] => i = j
EntriesOf(lines) == {lines[i].entry : i \in DOMAIN lines}

(* What has landed: an entry of a line that does not end torn.             *)
Landed(lines) == {lines[i].entry : i \in {j \in DOMAIN lines : lines[j].text # "open"}}
OpenLines(lines) == {i \in DOMAIN lines : lines[i].text = "open"}
SpoiledLines(lines) == {i \in DOMAIN lines : lines[i].text = "spoiled"}

(* Where the entries are: waiting, in the batch, or in lines that stay.    *)
Placed(waiting, writing, lines, all) ==
  /\ waiting \in Seq(Entry) /\ writing \in Seq(Entry) /\ lines \in Seq(LogLine)
  /\ Distinct(waiting) /\ Distinct(writing)
  /\ ToSet(waiting) \cap ToSet(writing) = {}
  /\ ToSet(waiting) \cup ToSet(writing) \cup EntriesOf(lines) \subseteq all

(* An entry that has still to be written has a copy on the disk only from  *)
(* one of the n rollbacks that failed.                                     *)
CopiesFit(owed, lines, n) ==
  \A e \in Entry : Cardinality(Copies(lines, e)) <= IF e \in owed THEN n ELSE n + 1

(* A torn line is of a rollback that failed, or of the end of the process; *)
(* a spoiled line follows a torn one.                                      *)
LinesFit(lines, alive, n) ==
  /\ Cardinality(OpenLines(lines)) <= IF alive THEN n ELSE n + 1
  /\ \A i \in SpoiledLines(lines) : i - 1 \in OpenLines(lines)

Kept(waiting, writing, lines, all, alive, n) ==
  /\ n \in Nat
  /\ Placed(waiting, writing, lines, all)
  /\ CopiesFit(ToSet(waiting) \cup ToSet(writing), lines, n)
  /\ LinesFit(lines, alive, n)
  /\ alive => all \subseteq ToSet(waiting) \cup ToSet(writing) \cup Landed(lines)

(* What a write adds: lines of the batch in its order, the last one torn.  *)
Adds(new, es) ==
  /\ new \in Seq(LogLine) /\ Len(new) <= Len(es)
  /\ \A i \in DOMAIN new : /\ new[i].entry = es[i]
                           /\ new[i].text \in {"whole", "open"}
                           /\ new[i].text = "open" => i = Len(new)

LEMMA LinesFacts ==
  ASSUME NEW es \in Seq(Entry)
  PROVE  /\ Adds(Lines(es), es) /\ Len(Lines(es)) = Len(es)
         /\ \A i \in DOMAIN Lines(es) : Whole(Lines(es)[i])
<1>1. \A e \in Entry : Line(e) \in LogLine /\ Line(e).entry = e /\ Line(e).text = "whole"
  BY DEF Line, LogLine
<1>2. DOMAIN es = 1..Len(es) /\ Len(es) \in Nat /\ \A i \in 1..Len(es) : es[i] \in Entry
  BY LenProperties, ElementOfSeq
<1>3. Lines(es) \in [1..Len(es) -> LogLine]
  BY <1>1, <1>2 DEF Lines
<1>4. Lines(es) \in Seq(LogLine) /\ Len(Lines(es)) = Len(es) /\ DOMAIN Lines(es) = 1..Len(es)
  BY <1>2, <1>3, SeqDef
<1>5. \A i \in 1..Len(es) : Lines(es)[i] = Line(es[i])
  BY <1>2 DEF Lines
<1>6. QED
  BY <1>1, <1>2, <1>4, <1>5 DEF Adds, Whole

LEMMA PartialFacts ==
  ASSUME NEW es \in Seq(Entry), NEW k \in 0..Len(es), NEW cut \in BOOLEAN
  PROVE  Adds(Partial(es, k, cut), es)
<1> DEFINE front == SubSeq(es, 1, k)
           rest == IF cut /\ k < Len(es) THEN <<TornLine(es[k + 1])>> ELSE <<>>
<1>1. Len(es) \in Nat /\ \A i \in 1..Len(es) : es[i] \in Entry
  BY LenProperties, ElementOfSeq
<1>2. front \in Seq(Entry) /\ Len(front) = k /\ \A i \in 1..k : front[i] = es[i]
  <2>1. \A i \in 1..k : es[i] \in Entry
    BY <1>1
  <2>2. QED
    BY <1>1, <2>1, SubSeqProperties
<1> HIDE DEF front
<1>3. Adds(Lines(front), front) /\ Len(Lines(front)) = k
      /\ \A i \in DOMAIN Lines(front) : Whole(Lines(front)[i])
  BY <1>2, LinesFacts
<1>4. /\ rest \in Seq(LogLine) /\ Len(rest) = IF cut /\ k < Len(es) THEN 1 ELSE 0
      /\ cut /\ k < Len(es) => rest[1].entry = es[k + 1] /\ rest[1].text = "open"
  <2>1. CASE cut /\ k < Len(es)
    <3>1. k + 1 \in 1..Len(es)
      BY <1>1, <2>1
    <3>2. TornLine(es[k + 1]) \in LogLine /\ TornLine(es[k + 1]).entry = es[k + 1]
          /\ TornLine(es[k + 1]).text = "open"
      BY <1>1, <3>1 DEF TornLine, LogLine
    <3>3. QED
      BY <2>1, <3>2
  <2>2. CASE ~(cut /\ k < Len(es))
    BY <2>2
  <2>3. QED
    BY <2>1, <2>2
<1>5. Partial(es, k, cut) = Lines(front) \o rest
  BY DEF Partial, front
<1> HIDE DEF rest
<1> DEFINE new == Lines(front) \o rest
           lines == Lines(front)
<1>6. lines \in Seq(LogLine) /\ Len(lines) = k /\ DOMAIN lines = 1..k
      /\ \A i \in 1..k : lines[i].entry = es[i] /\ lines[i].text = "whole"
  <2>1. DOMAIN lines = 1..k /\ lines \in Seq(LogLine)
    BY <1>3, LenProperties DEF Adds
  <2>2. QED
    BY <1>2, <1>3, <2>1 DEF Adds, Whole
<1> HIDE DEF lines
<1>7. /\ new \in Seq(LogLine) /\ Len(new) = k + Len(rest) /\ DOMAIN new = 1..k + Len(rest)
      /\ \A i \in 1..k : new[i] = lines[i]
      /\ \A j \in 1..Len(rest) : new[k + j] = rest[j]
  <2>1. new = lines \o rest
    BY DEF lines
  <2>2. lines \in Seq(LogLine) /\ rest \in Seq(LogLine)
    BY <1>4, <1>6
  <2>3. /\ lines \o rest \in Seq(LogLine) /\ Len(lines \o rest) = Len(lines) + Len(rest)
        /\ DOMAIN (lines \o rest) = 1..Len(lines) + Len(rest)
        /\ \A i \in 1..Len(lines) : (lines \o rest)[i] = lines[i]
        /\ \A j \in 1..Len(rest) : (lines \o rest)[Len(lines) + j] = rest[j]
    BY <2>2, Joined
  <2>4. Len(lines) = k
    BY <1>6
  <2> HIDE DEF new
  <2>5. QED
    BY <2>1, <2>3, <2>4
<1> HIDE DEF new
<1>8. \A i \in DOMAIN new :
        /\ new[i].entry = es[i]
        /\ new[i].text \in {"whole", "open"}
        /\ new[i].text = "open" => i = Len(new)
  <2> SUFFICES ASSUME NEW i \in 1..k + Len(rest)
               PROVE  /\ new[i].entry = es[i]
                      /\ new[i].text \in {"whole", "open"}
                      /\ new[i].text = "open" => i = k + Len(rest)
    BY <1>7
  <2>1. CASE i <= k
    BY <1>4, <1>6, <1>7, <2>1
  <2>2. CASE ~(i <= k)
    <3>1. cut /\ k < Len(es) /\ i = k + 1 /\ Len(rest) = 1
      BY <1>4, <2>2
    <3>2. new[i] = rest[1]
      BY <1>7, <3>1
    <3>3. QED
      BY <1>4, <3>1, <3>2
  <2>3. QED
    BY <2>1, <2>2
<1>9. Len(new) <= Len(es)
  BY <1>1, <1>4, <1>7
<1>10. Adds(new, es)
  <2>1. new \in Seq(LogLine) /\ Len(new) <= Len(es)
    BY <1>7, <1>9
  <2>2. QED
    BY <1>8, <2>1 DEF Adds
<1>11. QED
  BY <1>5, <1>10 DEF new

LEMMA ExtendedFacts ==
  ASSUME NEW s \in Seq(LogLine), NEW new \in Seq(LogLine)
  PROVE  LET r == Extended(s, new)
         IN /\ r \in Seq(LogLine) /\ Len(r) = Len(s) + Len(new)
            /\ \A i \in 1..Len(s) : r[i] = s[i]
            /\ \A j \in 1..Len(new) :
                 /\ r[Len(s) + j].entry = new[j].entry
                 /\ r[Len(s) + j].text = IF j = 1 /\ OpenEnded(s) /\ Whole(new[j])
                                         THEN "spoiled" ELSE new[j].text
<1> DEFINE spoilt == <<Spoiled(new[1])>> \o Tail(new)
           added == IF new # <<>> /\ OpenEnded(s) THEN spoilt ELSE new
<1>1. Len(s) \in Nat /\ Len(new) \in Nat
  BY LenProperties
<1>2. /\ added \in Seq(LogLine) /\ Len(added) = Len(new)
      /\ \A j \in 1..Len(new) : /\ added[j].entry = new[j].entry
                                /\ added[j].text = IF j = 1 /\ OpenEnded(s) /\ Whole(new[j])
                                                   THEN "spoiled" ELSE new[j].text
  <2>1. CASE new # <<>> /\ OpenEnded(s)
    <3>1. Len(new) > 0 /\ new[1] \in LogLine
      BY <2>1, EmptySeq, ElementOfSeq
    <3>2. /\ Spoiled(new[1]) \in LogLine /\ Spoiled(new[1]).entry = new[1].entry
          /\ Spoiled(new[1]).text = IF Whole(new[1]) THEN "spoiled" ELSE new[1].text
      BY <3>1 DEF Spoiled, LogLine, Whole
    <3>3. /\ Tail(new) \in Seq(LogLine) /\ Len(Tail(new)) = Len(new) - 1
          /\ \A j \in 1..Len(new) - 1 : Tail(new)[j] = new[j + 1]
      BY <2>1, HeadTailProperties
    <3> DEFINE one == <<Spoiled(new[1])>>
    <3>4. one \in Seq(LogLine) /\ Len(one) = 1 /\ one[1] = Spoiled(new[1])
      BY <3>2
    <3> HIDE DEF one
    <3> DEFINE whole == one \o Tail(new)
    <3>5. /\ whole \in Seq(LogLine) /\ Len(whole) = Len(new)
          /\ whole[1] = one[1]
          /\ \A j \in 1..Len(new) - 1 : whole[1 + j] = new[j + 1]
      <4> DEFINE rest == Tail(new)
      <4>1. rest \in Seq(LogLine) /\ Len(rest) = Len(new) - 1
            /\ \A j \in 1..Len(new) - 1 : rest[j] = new[j + 1]
        BY <3>3
      <4> HIDE DEF rest
      <4>2. one \in Seq(LogLine) /\ rest \in Seq(LogLine)
        BY <3>4, <4>1
      <4>3. /\ one \o rest \in Seq(LogLine) /\ Len(one \o rest) = Len(one) + Len(rest)
            /\ \A i \in 1..Len(one) : (one \o rest)[i] = one[i]
            /\ \A j \in 1..Len(rest) : (one \o rest)[Len(one) + j] = rest[j]
        BY <4>2, Joined
      <4>4. Len(one) = 1 /\ Len(rest) = Len(new) - 1
        BY <3>4, <4>1
      <4>5. QED
        BY <1>1, <4>1, <4>3, <4>4 DEF rest
    <3>6. added = whole
      BY <2>1 DEF one
    <3> HIDE DEF whole, added
    <3>7. ASSUME NEW j \in 1..Len(new)
          PROVE  /\ whole[j].entry = new[j].entry
                 /\ whole[j].text = IF j = 1 /\ Whole(new[j]) THEN "spoiled" ELSE new[j].text
      <4>1. CASE j = 1
        BY <3>2, <3>4, <3>5, <4>1
      <4>2. CASE j # 1
        <5>1. j - 1 \in 1..Len(new) - 1 /\ 1 + (j - 1) = j /\ (j - 1) + 1 = j
          BY <1>1, <4>2
        <5>2. whole[1 + (j - 1)] = new[(j - 1) + 1]
          BY <3>5, <5>1
        <5>3. whole[j] = new[j]
          BY <5>1, <5>2
        <5>4. QED
          BY <4>2, <5>3
      <4>3. QED
        BY <4>1, <4>2
    <3>8. QED
      BY <2>1, <3>5, <3>6, <3>7
  <2>2. CASE new = <<>>
    BY <2>2
  <2>3. CASE ~OpenEnded(s)
    BY <2>3
  <2>4. QED
    BY <2>1, <2>2, <2>3
<1>3. Extended(s, new) = s \o added
  BY DEF Extended
<1> HIDE DEF added
<1> DEFINE r == s \o added
<1>4. added \in Seq(LogLine) /\ Len(added) = Len(new)
  BY <1>2
<1>5. /\ r \in Seq(LogLine) /\ Len(r) = Len(s) + Len(added)
      /\ \A i \in 1..Len(s) : r[i] = s[i]
      /\ \A j \in 1..Len(added) : r[Len(s) + j] = added[j]
  <2>1. s \in Seq(LogLine) /\ added \in Seq(LogLine)
    BY <1>4
  <2>2. /\ s \o added \in Seq(LogLine) /\ Len(s \o added) = Len(s) + Len(added)
        /\ DOMAIN (s \o added) = 1..Len(s) + Len(added)
        /\ \A i \in 1..Len(s) : (s \o added)[i] = s[i]
        /\ \A j \in 1..Len(added) : (s \o added)[Len(s) + j] = added[j]
    BY <2>1, Joined
  <2>3. QED
    BY <2>2
<1> HIDE DEF r
<1>6. \A j \in 1..Len(new) : r[Len(s) + j] = added[j]
  BY <1>4, <1>5
<1>7. QED
  BY <1>2, <1>3, <1>4, <1>5, <1>6 DEF r

LEMMA AtMostOneMore ==
  ASSUME NEW A, IsFiniteSet(A), NEW x, NEW B, B \subseteq A \cup {x}
  PROVE  /\ Cardinality(A) \in Nat /\ Cardinality(B) \in Nat
         /\ Cardinality(B) <= Cardinality(A) + 1
<1>1. /\ IsFiniteSet(A \cup {x}) /\ Cardinality(A) \in Nat
      /\ Cardinality(A \cup {x}) = IF x \in A THEN Cardinality(A) ELSE Cardinality(A) + 1
  BY FS_AddElement, FS_CardinalityType
<1>2. IsFiniteSet(B) /\ Cardinality(B) <= Cardinality(A \cup {x})
  BY <1>1, FS_Subset
<1>3. Cardinality(B) \in Nat
  BY <1>2, FS_CardinalityType
<1>4. QED
  BY <1>1, <1>2, <1>3

LEMMA FewLines ==
  ASSUME NEW s \in Seq(LogLine), NEW S \in SUBSET DOMAIN s
  PROVE  IsFiniteSet(S) /\ Cardinality(S) \in Nat
<1>1. DOMAIN s = 1..Len(s) /\ Len(s) \in Nat
  BY LenProperties
<1>2. IsFiniteSet(1..Len(s))
  BY <1>1, FS_Interval
<1>3. IsFiniteSet(S)
  BY <1>1, <1>2, FS_Subset
<1>4. QED
  BY <1>3, FS_CardinalityType

LEMMA CopiesAreLines ==
  ASSUME NEW s \in Seq(LogLine)
  PROVE  /\ \A e : IsFiniteSet(Copies(s, e)) /\ Cardinality(Copies(s, e)) \in Nat
         /\ \A e : e \notin EntriesOf(s) => Cardinality(Copies(s, e)) = 0
         /\ IsFiniteSet(OpenLines(s)) /\ Cardinality(OpenLines(s)) \in Nat
<1>1. ASSUME NEW e
      PROVE  IsFiniteSet(Copies(s, e)) /\ Cardinality(Copies(s, e)) \in Nat
  <2>1. Copies(s, e) \in SUBSET DOMAIN s
    BY DEF Copies
  <2>2. QED
    BY <2>1, FewLines
<1>2. ASSUME NEW e, e \notin EntriesOf(s)
      PROVE  Cardinality(Copies(s, e)) = 0
  <2>1. Copies(s, e) = {}
    BY <1>2 DEF Copies, EntriesOf
  <2>2. QED
    BY <2>1, FS_EmptySet
<1>3. OpenLines(s) \in SUBSET DOMAIN s
  BY DEF OpenLines
<1>4. QED
  BY <1>1, <1>2, <1>3, FewLines

LEMMA KeptPush ==
  ASSUME NEW b, NEW h, NEW s, NEW P, NEW up, NEW n, Kept(b, h, s, P, up, n), NEW e \in Entry, e \notin P
  PROVE  Kept(Append(b, e), h, s, P \cup {e}, up, n)
<1> DEFINE c == Append(b, e)
<1>1. b \in Seq(Entry) /\ Len(b) \in Nat /\ DOMAIN b = 1..Len(b)
  BY LenProperties DEF Kept, Placed
<1>2. /\ c \in Seq(Entry) /\ Len(c) = Len(b) + 1 /\ DOMAIN c = 1..Len(b) + 1
      /\ \A i \in 1..Len(b) : c[i] = b[i]
      /\ c[Len(b) + 1] = e
  BY <1>1, AppendProperties, LenProperties
<1> HIDE DEF c
<1>3. ToSet(c) = ToSet(b) \cup {e}
  <2>1. ASSUME NEW x \in ToSet(c)
        PROVE  x \in ToSet(b) \cup {e}
    <3>1. PICK i \in 1..Len(b) + 1 : x = c[i]
      BY <1>2 DEF ToSet
    <3>2. i \in 1..Len(b) \/ i = Len(b) + 1
      BY <1>1
    <3>3. QED
      BY <1>1, <1>2, <3>1, <3>2 DEF ToSet
  <2>2. ASSUME NEW x \in ToSet(b)
        PROVE  x \in ToSet(c)
    <3>1. PICK i \in 1..Len(b) : x = b[i]
      BY <1>1 DEF ToSet
    <3>2. i \in DOMAIN c /\ c[i] = x
      BY <1>1, <1>2, <3>1
    <3>3. QED
      BY <3>2 DEF ToSet
  <2>3. e \in ToSet(c)
    <3>1. Len(b) + 1 \in DOMAIN c
      BY <1>1, <1>2
    <3>2. QED
      BY <1>2, <3>1 DEF ToSet
  <2>4. QED
    BY <2>1, <2>2, <2>3
<1>4. e \notin ToSet(b) /\ e \notin ToSet(h) /\ e \notin EntriesOf(s)
  BY DEF Kept, Placed
<1>5. Distinct(c)
  <2> SUFFICES ASSUME NEW i \in 1..Len(b) + 1, NEW j \in 1..Len(b) + 1, c[i] = c[j]
               PROVE  i = j
    BY <1>2 DEF Distinct
  <2>1. \A k \in 1..Len(b) : b[k] # e
    BY <1>1, <1>4 DEF ToSet
  <2>2. \A k, l \in 1..Len(b) : b[k] = b[l] => k = l
    BY <1>1 DEF Kept, Placed, Distinct
  <2>3. (i \in 1..Len(b) \/ i = Len(b) + 1) /\ (j \in 1..Len(b) \/ j = Len(b) + 1)
    BY <1>1
  <2>4. QED
    BY <1>2, <2>1, <2>2, <2>3
<1>6. Placed(c, h, s, P \cup {e})
  BY <1>2, <1>3, <1>4, <1>5 DEF Kept, Placed
<1>7. CopiesFit(ToSet(c) \cup ToSet(h), s, n)
  <2>1. Cardinality(Copies(s, e)) = 0
    BY <1>4, CopiesAreLines DEF Kept, Placed
  <2>2. n \in Nat
    BY DEF Kept
  <2>3. QED
    BY <1>3, <2>1, <2>2 DEF Kept, CopiesFit
<1>8. QED
  BY <1>3, <1>6, <1>7 DEF Kept, c

LEMMA NothingKept ==
  /\ ToSet(<<>>) = {} /\ Distinct(<<>>) /\ \A S : <<>> \in Seq(S)
BY DEF ToSet, Distinct

LEMMA KeptDrain ==
  ASSUME NEW b, NEW s, NEW P, NEW up, NEW n, Kept(b, <<>>, s, P, up, n)
  PROVE  Kept(<<>>, b, s, P, up, n)
BY NothingKept DEF Kept, Placed, CopiesFit

LEMMA KeptReturn ==
  ASSUME NEW b, NEW h, NEW s, NEW P, NEW up, NEW n, Kept(b, h, s, P, up, n)
  PROVE  Kept(h \o b, <<>>, s, P, up, n)
<1> DEFINE c == h \o b
<1>1. h \in Seq(Entry) /\ b \in Seq(Entry) /\ DOMAIN h = 1..Len(h) /\ DOMAIN b = 1..Len(b)
  BY LenProperties DEF Kept, Placed
<1>2. /\ c \in Seq(Entry) /\ Len(h) \in Nat /\ Len(b) \in Nat
      /\ DOMAIN c = 1..Len(h) + Len(b)
      /\ \A i \in 1..Len(h) : c[i] = h[i]
      /\ \A j \in 1..Len(b) : c[Len(h) + j] = b[j]
  BY <1>1, Joined
<1> HIDE DEF c
<1>3. \A i \in DOMAIN c : \/ i \in 1..Len(h)
                          \/ i - Len(h) \in 1..Len(b) /\ i = Len(h) + (i - Len(h))
  BY <1>2
<1>4. \A j \in 1..Len(b) : Len(h) + j \in DOMAIN c
  BY <1>2
<1>5. ToSet(c) = ToSet(h) \cup ToSet(b)
  <2>1. ASSUME NEW x \in ToSet(c)
        PROVE  x \in ToSet(h) \cup ToSet(b)
    <3>1. PICK i \in DOMAIN c : x = c[i]
      BY DEF ToSet
    <3>2. CASE i \in 1..Len(h)
      BY <1>1, <1>2, <3>1, <3>2 DEF ToSet
    <3>3. CASE i - Len(h) \in 1..Len(b) /\ i = Len(h) + (i - Len(h))
      <4>1. x = b[i - Len(h)]
        BY <1>2, <3>1, <3>3
      <4>2. QED
        BY <1>1, <3>3, <4>1 DEF ToSet
    <3>4. QED
      BY <1>3, <3>2, <3>3
  <2>2. ToSet(h) \subseteq ToSet(c)
    BY <1>1, <1>2 DEF ToSet
  <2>3. ToSet(b) \subseteq ToSet(c)
    BY <1>1, <1>2, <1>4 DEF ToSet
  <2>4. QED
    BY <2>1, <2>2, <2>3
<1>6. Distinct(c)
  <2> SUFFICES ASSUME NEW i \in DOMAIN c, NEW j \in DOMAIN c, c[i] = c[j]
               PROVE  i = j
    BY DEF Distinct
  <2>1. \A k \in 1..Len(h), l \in 1..Len(b) : h[k] # b[l]
    BY <1>1 DEF Kept, Placed, ToSet
  <2>2. \A k, l \in 1..Len(h) : h[k] = h[l] => k = l
    BY <1>1 DEF Kept, Placed, Distinct
  <2>3. \A k, l \in 1..Len(b) : b[k] = b[l] => k = l
    BY <1>1 DEF Kept, Placed, Distinct
  <2>4. CASE i \in 1..Len(h) /\ j \in 1..Len(h)
    BY <1>2, <2>2, <2>4
  <2>5. CASE i \in 1..Len(h) /\ j - Len(h) \in 1..Len(b) /\ j = Len(h) + (j - Len(h))
    <3>1. c[i] = h[i] /\ c[j] = b[j - Len(h)]
      BY <1>2, <2>5
    <3>2. QED
      BY <2>1, <2>5, <3>1
  <2>6. CASE j \in 1..Len(h) /\ i - Len(h) \in 1..Len(b) /\ i = Len(h) + (i - Len(h))
    <3>1. c[j] = h[j] /\ c[i] = b[i - Len(h)]
      BY <1>2, <2>6
    <3>2. QED
      BY <2>1, <2>6, <3>1
  <2>7. CASE /\ i - Len(h) \in 1..Len(b) /\ i = Len(h) + (i - Len(h))
             /\ j - Len(h) \in 1..Len(b) /\ j = Len(h) + (j - Len(h))
    <3>1. c[j] = b[j - Len(h)] /\ c[i] = b[i - Len(h)]
      BY <1>2, <2>7
    <3>2. i - Len(h) = j - Len(h)
      BY <2>3, <2>7, <3>1
    <3>3. QED
      BY <1>2, <2>7, <3>2
  <2>8. QED
    BY <1>3, <2>4, <2>5, <2>6, <2>7
<1>7. QED
  BY <1>2, <1>5, <1>6, NothingKept DEF Kept, Placed, CopiesFit, c

(* A batch on the disk, whole or cut off: one more copy of its entries and *)
(* one more torn line, and no torn line unless it was cut off.             *)
LEMMA AddedLines ==
  ASSUME NEW b, NEW h, NEW s, NEW P, Placed(b, h, s, P), NEW new, Adds(new, h)
  PROVE  LET r == Extended(s, new)
         IN /\ r \in Seq(LogLine)
            /\ DOMAIN s \subseteq DOMAIN r /\ \A i \in DOMAIN s : r[i] = s[i]
            /\ EntriesOf(r) \subseteq EntriesOf(s) \cup ToSet(h)
            /\ \A e : Cardinality(Copies(r, e)) <= Cardinality(Copies(s, e)) + 1
            /\ \A e : e \notin ToSet(h) => Copies(r, e) = Copies(s, e)
            /\ Cardinality(OpenLines(r)) <= Cardinality(OpenLines(s)) + 1
            /\ (\A i \in SpoiledLines(s) : i - 1 \in OpenLines(s))
                 => \A i \in SpoiledLines(r) : i - 1 \in OpenLines(r)
            /\ (\A i \in DOMAIN new : Whole(new[i])) => OpenLines(r) = OpenLines(s)
            /\ Landed(s) \subseteq Landed(r)
            /\ (\A i \in DOMAIN new : Whole(new[i])) /\ Len(new) = Len(h)
                 => ToSet(h) \subseteq Landed(r)
<1> DEFINE r == Extended(s, new)
<1>1. /\ s \in Seq(LogLine) /\ h \in Seq(Entry) /\ new \in Seq(LogLine)
      /\ Len(new) <= Len(h)
      /\ \A i \in DOMAIN new : /\ new[i].entry = h[i]
                               /\ new[i].text \in {"whole", "open"}
                               /\ new[i].text = "open" => i = Len(new)
  BY DEF Placed, Adds
<1>2. /\ Len(s) \in Nat /\ DOMAIN s = 1..Len(s) /\ Len(h) \in Nat /\ DOMAIN h = 1..Len(h)
      /\ Len(new) \in Nat /\ DOMAIN new = 1..Len(new)
  BY <1>1, LenProperties
<1>3. /\ r \in Seq(LogLine) /\ Len(r) = Len(s) + Len(new)
      /\ \A i \in 1..Len(s) : r[i] = s[i]
      /\ \A j \in 1..Len(new) :
           /\ r[Len(s) + j].entry = new[j].entry
           /\ r[Len(s) + j].text = IF j = 1 /\ OpenEnded(s) /\ Whole(new[j])
                                   THEN "spoiled" ELSE new[j].text
  BY <1>1, ExtendedFacts
<1>4. DOMAIN r = 1..Len(s) + Len(new)
  BY <1>3, LenProperties
<1> HIDE DEF r
<1>5. \A i \in DOMAIN r : \/ i \in 1..Len(s)
                          \/ i - Len(s) \in 1..Len(new) /\ i = Len(s) + (i - Len(s))
  BY <1>2, <1>4
<1>6. \A j \in 1..Len(new) : Len(s) + j \in DOMAIN r
  BY <1>2, <1>4
<1>7. \A j \in 1..Len(new) : j \in DOMAIN h /\ new[j].entry = h[j]
  BY <1>1, <1>2
<1>8. DOMAIN s \subseteq DOMAIN r /\ \A i \in DOMAIN s : r[i] = s[i]
  BY <1>2, <1>3, <1>4
<1>9. EntriesOf(r) \subseteq EntriesOf(s) \cup ToSet(h)
  <2> SUFFICES ASSUME NEW i \in DOMAIN r
               PROVE  r[i].entry \in EntriesOf(s) \cup ToSet(h)
    BY DEF EntriesOf
  <2>1. CASE i \in 1..Len(s)
    BY <1>2, <1>3, <2>1 DEF EntriesOf
  <2>2. CASE i - Len(s) \in 1..Len(new) /\ i = Len(s) + (i - Len(s))
    <3>1. r[i].entry = h[i - Len(s)] /\ i - Len(s) \in DOMAIN h
      BY <1>3, <1>7, <2>2
    <3>2. QED
      BY <3>1 DEF ToSet
  <2>3. QED
    BY <1>5, <2>1, <2>2
<1>10. ASSUME NEW e
       PROVE  /\ Cardinality(Copies(r, e)) <= Cardinality(Copies(s, e)) + 1
              /\ e \notin ToSet(h) => Copies(r, e) = Copies(s, e)
  <2>1. Copies(s, e) \subseteq Copies(r, e)
    BY <1>8 DEF Copies
  <2>2. \A i \in Copies(r, e) :
          \/ i \in Copies(s, e)
          \/ i - Len(s) \in 1..Len(h) /\ h[i - Len(s)] = e /\ i = Len(s) + (i - Len(s))
    <3> SUFFICES ASSUME NEW i \in Copies(r, e)
                 PROVE  \/ i \in Copies(s, e)
                        \/ i - Len(s) \in 1..Len(h) /\ h[i - Len(s)] = e
                           /\ i = Len(s) + (i - Len(s))
      OBVIOUS
    <3>1. i \in DOMAIN r /\ r[i].entry = e
      BY DEF Copies
    <3>2. CASE i \in 1..Len(s)
      BY <1>2, <1>3, <3>1, <3>2 DEF Copies
    <3>3. CASE i - Len(s) \in 1..Len(new) /\ i = Len(s) + (i - Len(s))
      <4>1. r[i].entry = h[i - Len(s)] /\ i - Len(s) \in DOMAIN h
        BY <1>3, <1>7, <3>3
      <4>2. QED
        BY <1>2, <3>1, <3>3, <4>1
    <3>4. QED
      BY <1>5, <3>1, <3>2, <3>3
  <2>3. CASE e \notin ToSet(h)
    <3>1. \A j \in 1..Len(h) : h[j] # e
      BY <1>2, <2>3 DEF ToSet
    <3>2. Copies(r, e) = Copies(s, e)
      BY <2>1, <2>2, <3>1
    <3>3. QED
      BY <1>1, <3>2, CopiesAreLines
  <2>4. CASE e \in ToSet(h)
    <3>1. PICK k \in 1..Len(h) : h[k] = e
      BY <1>2, <2>4 DEF ToSet
    <3>2. \A j \in 1..Len(h) : h[j] = e => j = k
      BY <1>2, <3>1 DEF Placed, Distinct
    <3>3. Copies(r, e) \subseteq Copies(s, e) \cup {Len(s) + k}
      BY <2>2, <3>2
    <3>4. IsFiniteSet(Copies(s, e))
      BY <1>1, CopiesAreLines
    <3>5. QED
      BY <2>4, <3>3, <3>4, AtMostOneMore
  <2>5. QED
    BY <2>3, <2>4
<1>11. \A i \in OpenLines(r) :
         i \in OpenLines(s) \/ (i = Len(s) + Len(new) /\ Len(new) \in DOMAIN new
                                /\ new[Len(new)].text = "open")
  <2> SUFFICES ASSUME NEW i \in DOMAIN r, r[i].text = "open"
               PROVE  i \in OpenLines(s) \/ (i = Len(s) + Len(new) /\ Len(new) \in DOMAIN new
                                             /\ new[Len(new)].text = "open")
    BY DEF OpenLines
  <2>1. CASE i \in 1..Len(s)
    BY <1>2, <1>3, <2>1 DEF OpenLines
  <2>2. CASE i - Len(s) \in 1..Len(new) /\ i = Len(s) + (i - Len(s))
    <3> DEFINE j == i - Len(s)
    <3>1. j \in 1..Len(new) /\ i = Len(s) + j
      BY <2>2
    <3> HIDE DEF j
    <3>2. r[i].text = IF j = 1 /\ OpenEnded(s) /\ Whole(new[j]) THEN "spoiled" ELSE new[j].text
      BY <1>3, <3>1
    <3>3. new[j].text = "open"
      BY <3>2
    <3>4. j = Len(new)
      BY <1>1, <1>2, <3>1, <3>3
    <3>5. QED
      BY <1>2, <3>1, <3>3, <3>4
  <2>3. QED
    BY <1>5, <2>1, <2>2
<1>12. OpenLines(s) \subseteq OpenLines(r)
  BY <1>8 DEF OpenLines
<1>13. Cardinality(OpenLines(r)) <= Cardinality(OpenLines(s)) + 1
  <2>1. OpenLines(r) \subseteq OpenLines(s) \cup {Len(s) + Len(new)}
    BY <1>11
  <2>2. IsFiniteSet(OpenLines(s))
    BY <1>1, CopiesAreLines
  <2>3. QED
    BY <2>1, <2>2, AtMostOneMore
<1>14. ASSUME \A i \in DOMAIN new : Whole(new[i])
       PROVE  OpenLines(r) = OpenLines(s)
  <2>1. \A i \in DOMAIN new : new[i].text # "open"
    BY <1>14 DEF Whole
  <2>2. QED
    BY <1>11, <1>12, <2>1
<1>15. ASSUME \A i \in SpoiledLines(s) : i - 1 \in OpenLines(s), NEW i \in SpoiledLines(r)
       PROVE  i - 1 \in OpenLines(r)
  <2>1. i \in DOMAIN r /\ r[i].text = "spoiled"
    BY <1>15 DEF SpoiledLines
  <2>2. CASE i \in 1..Len(s)
    <3>1. i \in SpoiledLines(s)
      BY <1>2, <1>3, <2>1, <2>2 DEF SpoiledLines
    <3>2. QED
      BY <1>12, <1>15, <3>1
  <2>3. CASE i - Len(s) \in 1..Len(new) /\ i = Len(s) + (i - Len(s))
    <3> DEFINE j == i - Len(s)
    <3>1. j \in 1..Len(new) /\ i = Len(s) + j
      BY <2>3
    <3> HIDE DEF j
    <3>2. r[i].text = IF j = 1 /\ OpenEnded(s) /\ Whole(new[j]) THEN "spoiled" ELSE new[j].text
      BY <1>3, <3>1
    <3>3. new[j].text # "spoiled"
      BY <1>1, <1>2, <3>1
    <3>4. j = 1 /\ OpenEnded(s)
      BY <2>1, <3>2, <3>3
    <3>5. i - 1 = Len(s)
      BY <1>2, <3>1, <3>4
    <3>6. s # <<>> /\ s[Len(s)].text = "open"
      BY <3>4 DEF OpenEnded, Last
    <3>7. Len(s) \in DOMAIN s
      BY <1>1, <1>2, <3>6, EmptySeq
    <3>8. QED
      BY <1>12, <3>5, <3>6, <3>7 DEF OpenLines
  <2>4. QED
    BY <1>5, <2>1, <2>2, <2>3
<1>16. Landed(s) \subseteq Landed(r)
  BY <1>8 DEF Landed
<1>17. ASSUME \A i \in DOMAIN new : Whole(new[i]), Len(new) = Len(h)
       PROVE  ToSet(h) \subseteq Landed(r)
  <2> SUFFICES ASSUME NEW j \in 1..Len(new)
               PROVE  h[j] \in Landed(r)
    BY <1>2, <1>17 DEF ToSet
  <2>1. Len(s) + j \in DOMAIN r /\ r[Len(s) + j].entry = h[j]
    BY <1>3, <1>6, <1>7
  <2>2. new[j].text = "whole"
    BY <1>2, <1>17 DEF Whole
  <2>3. r[Len(s) + j].text # "open"
    BY <1>3, <2>2
  <2>4. QED
    BY <2>1, <2>3 DEF Landed
<1>18. QED
  BY <1>3, <1>8, <1>9, <1>10, <1>13, <1>14, <1>15, <1>16, <1>17 DEF r

LEMMA KeptWrite ==
  ASSUME NEW b, NEW h, NEW s, NEW P, NEW up, NEW n, Kept(b, h, s, P, up, n)
  PROVE  Kept(b, <<>>, Extended(s, Lines(h)), P, up, n)
<1> DEFINE new == Lines(h)
           r == Extended(s, new)
<1>1. s \in Seq(LogLine) /\ h \in Seq(Entry) /\ n \in Nat /\ Placed(b, h, s, P)
  BY DEF Kept, Placed
<1>2. Adds(new, h) /\ Len(new) = Len(h) /\ \A i \in DOMAIN new : Whole(new[i])
  BY <1>1, LinesFacts
<1> HIDE DEF new
<1>3. /\ r \in Seq(LogLine)
      /\ EntriesOf(r) \subseteq EntriesOf(s) \cup ToSet(h)
      /\ \A e : Cardinality(Copies(r, e)) <= Cardinality(Copies(s, e)) + 1
      /\ \A e : e \notin ToSet(h) => Copies(r, e) = Copies(s, e)
      /\ OpenLines(r) = OpenLines(s)
      /\ \A i \in SpoiledLines(r) : i - 1 \in OpenLines(r)
      /\ Landed(s) \subseteq Landed(r) /\ ToSet(h) \subseteq Landed(r)
  BY <1>1, <1>2, AddedLines DEF Kept, LinesFit
<1> HIDE DEF r
<1>4. Placed(b, <<>>, r, P)
  BY <1>1, <1>3, NothingKept DEF Placed
<1>5. CopiesFit(ToSet(b) \cup ToSet(<<>>), r, n)
  <2> SUFFICES ASSUME NEW e \in Entry
               PROVE  Cardinality(Copies(r, e)) <= IF e \in ToSet(b) THEN n ELSE n + 1
    BY NothingKept DEF CopiesFit
  <2>1. Cardinality(Copies(s, e)) <= IF e \in ToSet(b) \cup ToSet(h) THEN n ELSE n + 1
    BY DEF Kept, CopiesFit
  <2>2. Cardinality(Copies(s, e)) \in Nat /\ Cardinality(Copies(r, e)) \in Nat
    BY <1>1, <1>3, CopiesAreLines
  <2>3. CASE e \in ToSet(h)
    <3>1. e \notin ToSet(b)
      BY <1>1, <2>3 DEF Placed
    <3>2. QED
      BY <1>1, <1>3, <2>1, <2>2, <2>3, <3>1
  <2>4. CASE e \notin ToSet(h)
    BY <1>3, <2>1, <2>4
  <2>5. QED
    BY <2>3, <2>4
<1>6. LinesFit(r, up, n)
  BY <1>3 DEF Kept, LinesFit
<1>7. up => P \subseteq ToSet(b) \cup ToSet(<<>>) \cup Landed(r)
  BY <1>3 DEF Kept
<1>8. QED
  BY <1>1, <1>4, <1>5, <1>6, <1>7 DEF Kept, new, r

(* What a rollback that failed leaves of a write that failed.              *)
LEMMA KeptUncut ==
  ASSUME NEW b, NEW h, NEW s, NEW P, NEW up \in BOOLEAN, NEW n, Kept(b, h, s, P, up, n),
         NEW new, Adds(new, h)
  PROVE  Kept(b, h, Extended(s, new), P, up, n + 1)
<1> DEFINE r == Extended(s, new)
<1>1. s \in Seq(LogLine) /\ n \in Nat /\ Placed(b, h, s, P)
  BY DEF Kept, Placed
<1>2. /\ r \in Seq(LogLine)
      /\ EntriesOf(r) \subseteq EntriesOf(s) \cup ToSet(h)
      /\ \A e : Cardinality(Copies(r, e)) <= Cardinality(Copies(s, e)) + 1
      /\ Cardinality(OpenLines(r)) <= Cardinality(OpenLines(s)) + 1
      /\ \A i \in SpoiledLines(r) : i - 1 \in OpenLines(r)
      /\ Landed(s) \subseteq Landed(r)
  BY <1>1, AddedLines DEF Kept, LinesFit
<1> HIDE DEF r
<1>3. Placed(b, h, r, P)
  BY <1>1, <1>2 DEF Placed
<1>4. CopiesFit(ToSet(b) \cup ToSet(h), r, n + 1)
  <2> SUFFICES ASSUME NEW e \in Entry
               PROVE  Cardinality(Copies(r, e))
                        <= IF e \in ToSet(b) \cup ToSet(h) THEN n + 1 ELSE (n + 1) + 1
    BY DEF CopiesFit
  <2>1. Cardinality(Copies(s, e)) <= IF e \in ToSet(b) \cup ToSet(h) THEN n ELSE n + 1
    BY DEF Kept, CopiesFit
  <2>2. Cardinality(Copies(s, e)) \in Nat /\ Cardinality(Copies(r, e)) \in Nat
    BY <1>1, <1>2, CopiesAreLines
  <2>3. Cardinality(Copies(r, e)) <= Cardinality(Copies(s, e)) + 1
    BY <1>2
  <2>4. QED
    BY <1>1, <2>1, <2>2, <2>3
<1>5. LinesFit(r, up, n + 1)
  <2>1. Cardinality(OpenLines(s)) <= IF up THEN n ELSE n + 1
    BY DEF Kept, LinesFit
  <2>2. Cardinality(OpenLines(s)) \in Nat /\ Cardinality(OpenLines(r)) \in Nat
    BY <1>1, <1>2, CopiesAreLines
  <2>3. Cardinality(OpenLines(r)) <= Cardinality(OpenLines(s)) + 1
    BY <1>2
  <2>4. Cardinality(OpenLines(r)) <= IF up THEN n + 1 ELSE (n + 1) + 1
    BY <1>1, <2>1, <2>2, <2>3
  <2>5. QED
    BY <1>2, <2>4 DEF LinesFit
<1>6. up => P \subseteq ToSet(b) \cup ToSet(h) \cup Landed(r)
  BY <1>2 DEF Kept
<1>7. n + 1 \in Nat
  BY <1>1
<1>8. QED
  BY <1>3, <1>4, <1>5, <1>6, <1>7 DEF Kept, r

(* The end of the process, with what was on its way cut off somewhere.     *)
LEMMA KeptEnd ==
  ASSUME NEW b, NEW h, NEW s, NEW P, NEW n, Kept(b, h, s, P, TRUE, n),
         NEW Q, P \subseteq Q
  PROVE  /\ Kept(<<>>, <<>>, s, Q, FALSE, n)
         /\ \A new : Adds(new, h) => Kept(<<>>, <<>>, Extended(s, new), Q, FALSE, n)
<1>0. s \in Seq(LogLine) /\ n \in Nat /\ Placed(b, h, s, P)
  BY DEF Kept, Placed
<1>1. Kept(<<>>, <<>>, s, Q, FALSE, n)
  <2>1. Placed(<<>>, <<>>, s, Q)
    BY <1>0, NothingKept DEF Placed
  <2>2. CopiesFit(ToSet(<<>>) \cup ToSet(<<>>), s, n)
    <3> SUFFICES ASSUME NEW e \in Entry
                 PROVE  Cardinality(Copies(s, e)) <= n + 1
      BY NothingKept DEF CopiesFit
    <3>1. Cardinality(Copies(s, e)) <= n \/ Cardinality(Copies(s, e)) <= n + 1
      BY DEF Kept, CopiesFit
    <3>2. Cardinality(Copies(s, e)) \in Nat
      BY <1>0, CopiesAreLines
    <3>3. QED
      BY <1>0, <3>1, <3>2
  <2>3. LinesFit(s, FALSE, n)
    <3>1. Cardinality(OpenLines(s)) <= n /\ Cardinality(OpenLines(s)) \in Nat
      BY <1>0, CopiesAreLines DEF Kept, LinesFit
    <3>2. Cardinality(OpenLines(s)) <= n + 1
      BY <1>0, <3>1
    <3>3. QED
      BY <3>2 DEF Kept, LinesFit
  <2>4. QED
    BY <1>0, <2>1, <2>2, <2>3 DEF Kept
<1>2. ASSUME NEW new, Adds(new, h)
      PROVE  Kept(<<>>, <<>>, Extended(s, new), Q, FALSE, n)
  <2> DEFINE r == Extended(s, new)
  <2>1. /\ r \in Seq(LogLine)
        /\ EntriesOf(r) \subseteq EntriesOf(s) \cup ToSet(h)
        /\ \A e : Cardinality(Copies(r, e)) <= Cardinality(Copies(s, e)) + 1
        /\ \A e : e \notin ToSet(h) => Copies(r, e) = Copies(s, e)
        /\ Cardinality(OpenLines(r)) <= Cardinality(OpenLines(s)) + 1
        /\ \A i \in SpoiledLines(r) : i - 1 \in OpenLines(r)
    BY <1>0, <1>2, AddedLines DEF Kept, LinesFit
  <2> HIDE DEF r
  <2>2. Placed(<<>>, <<>>, r, Q)
    BY <1>0, <2>1, NothingKept DEF Placed
  <2>3. CopiesFit(ToSet(<<>>) \cup ToSet(<<>>), r, n)
    <3> SUFFICES ASSUME NEW e \in Entry
                 PROVE  Cardinality(Copies(r, e)) <= n + 1
      BY NothingKept DEF CopiesFit
    <3>1. Cardinality(Copies(s, e)) <= IF e \in ToSet(b) \cup ToSet(h) THEN n ELSE n + 1
      BY DEF Kept, CopiesFit
    <3>2. Cardinality(Copies(s, e)) \in Nat /\ Cardinality(Copies(r, e)) \in Nat
      BY <1>0, <2>1, CopiesAreLines
    <3>3. CASE e \in ToSet(h)
      BY <1>0, <2>1, <3>1, <3>2, <3>3
    <3>4. CASE e \notin ToSet(h)
      BY <1>0, <2>1, <3>1, <3>2, <3>4
    <3>5. QED
      BY <3>3, <3>4
  <2>4. LinesFit(r, FALSE, n)
    <3>1. Cardinality(OpenLines(s)) <= n /\ Cardinality(OpenLines(s)) \in Nat
          /\ Cardinality(OpenLines(r)) \in Nat
      BY <1>0, <2>1, CopiesAreLines DEF Kept, LinesFit
    <3>2. Cardinality(OpenLines(r)) <= n + 1
      BY <1>0, <2>1, <3>1
    <3>3. QED
      BY <2>1, <3>2 DEF LinesFit
  <2>5. QED
    BY <1>0, <2>2, <2>3, <2>4 DEF Kept, r
<1>3. QED
  BY <1>1, <1>2

AuditTypes ==
  /\ logfile \in Seq(LogLine) /\ before \in Nat /\ recent \in Seq(Entry)
  /\ task \in [Logger -> [at : {"idle", "buffer", "check", "flush", "write", "rollback"},
                         entry : 0..PerTask]]
  /\ holder \in Logger \cup {NoHolder, "query"}
  /\ life \in {"up", "closed", "again"} /\ uncut \in Nat

(* Who has the file is writing to it; what a failed write added is all     *)
(* there is behind the length the rollback cuts the file to.               *)
SinkFits ==
  /\ \A t \in Logger : task[t].at \in {"write", "rollback"} <=> holder = t
  /\ \A t \in Logger : task[t].at # "idle" => task[t].entry > 0
  /\ holder \notin Logger => batch = <<>>
  /\ \A t \in Logger : task[t].at = "write" => before = Len(logfile)
  /\ \A t \in Logger : task[t].at = "rollback" =>
       /\ before <= Len(logfile)
       /\ \E new : Adds(new, batch) /\ logfile = Extended(SubSeq(logfile, 1, before), new)

Stays == IF holder \in Logger THEN SubSeq(logfile, 1, before) ELSE logfile
EntriesFit == Kept(buffer, batch, Stays, Pushed, life = "up", uncut)

LEMMA LoggerNames ==
  ASSUME AuditAssumption
  PROVE  /\ NoHolder \notin Logger /\ "query" \notin Logger /\ NoHolder # "query"
         /\ PerTask \in Nat
BY DEF AuditAssumption, NoHolder

LEMMA TaskMoves ==
  ASSUME AuditAssumption, AuditTypes, SinkFits, NEW t \in Logger,
         NEW a \in {"idle", "check", "flush", "write", "rollback"}, Moves(t, a),
         task[t].at # "idle"
  PROVE  /\ task' \in [Logger -> [at : {"idle", "buffer", "check", "flush", "write", "rollback"},
                                  entry : 0..PerTask]]
         /\ \A u \in Logger : task'[u].entry = task[u].entry
         /\ \A u \in Logger : task'[u].at = IF u = t THEN a ELSE task[u].at
         /\ Entered(t) \in Entry
         /\ Pushed' = IF task[t].at = "buffer" THEN Pushed \cup {Entered(t)} ELSE Pushed
         /\ task[t].at = "buffer" => Entered(t) \notin Pushed
<1>1. /\ task \in [Logger -> [at : {"idle", "buffer", "check", "flush", "write", "rollback"},
                             entry : 0..PerTask]]
      /\ task' = [task EXCEPT ![t].at = a] /\ PerTask \in Nat
  BY LoggerNames DEF AuditTypes, Moves
<1>2. /\ \A u \in Logger : task'[u].entry = task[u].entry
      /\ \A u \in Logger : task'[u].at = IF u = t THEN a ELSE task[u].at
  BY <1>1
<1>3. \A u \in Logger : task[u].entry \in 0..PerTask
  BY <1>1
<1>4. task[t].entry \in 1..PerTask
  BY <1>1, <1>3 DEF SinkFits
<1>5. Entered(t) \in Entry /\ Session(Entered(t)) = t /\ Entered(t)[2] = task[t].entry
  BY <1>4 DEF Entered, Entry, Session
<1>6. \A e \in Entry : Session(e) \in Logger /\ e[2] \in 1..PerTask
      /\ e = <<Session(e), e[2]>>
  BY DEF Session, Entry
<1>7. \A e \in Entry : e \in Pushed <=>
        \/ e[2] < task[Session(e)].entry
        \/ e[2] = task[Session(e)].entry /\ task[Session(e)].at # "buffer"
  BY <1>6 DEF Pushed, Entered
<1>8. \A e \in Entry : e \in Pushed' <=>
        \/ e[2] < task'[Session(e)].entry
        \/ e[2] = task'[Session(e)].entry /\ task'[Session(e)].at # "buffer"
  BY <1>6 DEF Pushed, Entered, Session
<1>9. Pushed \subseteq Entry /\ Pushed' \subseteq Entry
  BY DEF Pushed, Entry
<1>10. \A e \in Entry : e \in Pushed' <=>
         e \in Pushed \/ (e = Entered(t) /\ task[t].at = "buffer")
  <2> SUFFICES ASSUME NEW e \in Entry
               PROVE  e \in Pushed' <=> e \in Pushed \/ (e = Entered(t) /\ task[t].at = "buffer")
    OBVIOUS
  <2>1. CASE Session(e) # t
    BY <1>2, <1>5, <1>6, <1>7, <1>8, <2>1
  <2>2. CASE Session(e) = t
    <3>1. e = Entered(t) <=> e[2] = task[t].entry
      BY <1>6, <2>2 DEF Entered
    <3>2. a # "buffer"
      OBVIOUS
    <3>3. QED
      BY <1>2, <1>7, <1>8, <2>2, <3>1, <3>2
  <2>3. QED
    BY <2>1, <2>2
<1>11. Pushed' = IF task[t].at = "buffer" THEN Pushed \cup {Entered(t)} ELSE Pushed
  BY <1>5, <1>9, <1>10
<1>12. task[t].at = "buffer" => Entered(t) \notin Pushed
  BY <1>3, <1>5, <1>7
<1>13. task' \in [Logger -> [at : {"idle", "buffer", "check", "flush", "write", "rollback"},
                            entry : 0..PerTask]]
  BY <1>1
<1>14. QED
  BY <1>2, <1>5, <1>11, <1>12, <1>13

LEMMA AuditInitial == AuditAssumption /\ AuditInit => AuditTypes /\ SinkFits /\ EntriesFit
<1> SUFFICES ASSUME AuditAssumption, AuditInit
             PROVE  AuditTypes /\ SinkFits /\ EntriesFit
  OBVIOUS
<1> USE LoggerNames
<1>1. AuditTypes
  BY DEF AuditInit, AuditTypes, NoHolder
<1>2. SinkFits
  BY DEF AuditInit, SinkFits
<1>3. Stays = <<>>
  BY DEF AuditInit, Stays
<1>4. Pushed = {}
  <2>1. \A t \in Logger : task[t].entry = 0
    BY DEF AuditInit
  <2>2. \A e \in Entry : Session(e) \in Logger /\ e[2] \in 1..PerTask
    BY DEF Session, Entry
  <2>3. ASSUME NEW e \in Pushed
        PROVE  FALSE
    <3>1. e \in Entry /\ (e[2] < 0 \/ e = Entered(Session(e)))
      BY <2>1, <2>2 DEF Pushed
    <3>2. Entered(Session(e))[2] = 0
      BY <2>1, <2>2, <3>1 DEF Entered
    <3>3. QED
      BY <2>2, <3>1, <3>2
  <2>4. QED
    BY <2>3
<1>5. EntriesOf(<<>>) = {} /\ OpenLines(<<>>) = {} /\ SpoiledLines(<<>>) = {}
      /\ \A e : Copies(<<>>, e) = {}
  BY DEF EntriesOf, OpenLines, SpoiledLines, Copies
<1>6. EntriesFit
  <2>1. CopiesFit({}, <<>>, 0) /\ LinesFit(<<>>, TRUE, 0)
    <3>1. Cardinality({}) = 0
      BY FS_EmptySet
    <3>2. CopiesFit({}, <<>>, 0)
      <4>1. \A e \in Entry : Cardinality(Copies(<<>>, e)) = 0
        BY <1>5, <3>1
      <4>2. QED
        BY <4>1 DEF CopiesFit
    <3>3. LinesFit(<<>>, TRUE, 0)
      <4>1. Cardinality(OpenLines(<<>>)) = 0 /\ SpoiledLines(<<>>) = {}
        BY <1>5, <3>1
      <4>2. QED
        BY <4>1 DEF LinesFit
    <3>4. QED
      BY <3>2, <3>3
  <2>2. Placed(<<>>, <<>>, <<>>, {})
    BY <1>5, NothingKept DEF Placed
  <2>3. Kept(<<>>, <<>>, <<>>, {}, TRUE, 0)
    BY <2>1, <2>2, NothingKept DEF Kept
  <2>4. buffer = <<>> /\ batch = <<>> /\ uncut = 0 /\ (life = "up") = TRUE
    BY DEF AuditInit
  <2>5. QED
    BY <1>3, <1>4, <2>3, <2>4 DEF EntriesFit
<1>7. QED
  BY <1>1, <1>2, <1>6
LEMMA StaysFacts ==
  ASSUME AuditAssumption, AuditTypes, SinkFits
  PROVE  /\ Stays \in Seq(LogLine)
         /\ holder \notin Logger => Stays = logfile
         /\ \A t \in Logger : task[t].at = "write" => Stays = logfile
         /\ \A t \in Logger : task[t].at = "rollback" => Stays = SubSeq(logfile, 1, before)
<1>1. logfile \in Seq(LogLine) /\ before \in Nat /\ Len(logfile) \in Nat
      /\ \A i \in 1..Len(logfile) : logfile[i] \in LogLine
  BY LenProperties, ElementOfSeq DEF AuditTypes
<1>2. ASSUME NEW t \in Logger, task[t].at \in {"write", "rollback"}
      PROVE  /\ holder = t /\ Stays = SubSeq(logfile, 1, before) /\ before <= Len(logfile)
             /\ Stays \in Seq(LogLine)
             /\ task[t].at = "write" => Stays = logfile
  <2>1. holder = t /\ Stays = SubSeq(logfile, 1, before)
    BY <1>2 DEF SinkFits, Stays
  <2>2. before <= Len(logfile)
    BY <1>1, <1>2 DEF SinkFits
  <2>3. SubSeq(logfile, 1, before) \in Seq(LogLine)
    <3>1. \A i \in 1..before : logfile[i] \in LogLine
      BY <1>1, <2>2
    <3>2. QED
      BY <1>1, <2>2, <3>1, SubSeqProperties
  <2>4. task[t].at = "write" => Stays = logfile
    <3>1. SubSeq(logfile, 1, Len(logfile)) = logfile
      BY <1>1, SubSeqFull
    <3>2. QED
      BY <2>1, <3>1 DEF SinkFits
  <2>5. QED
    BY <2>1, <2>2, <2>3, <2>4
<1>3. holder \notin Logger => Stays = logfile
  BY DEF Stays
<1>4. holder \in Logger => task[holder].at \in {"write", "rollback"}
  BY DEF SinkFits
<1>5. QED
  BY <1>1, <1>2, <1>3, <1>4

LEMMA LogMoves ==
  ASSUME AuditAssumption, AuditTypes, SinkFits, NEW t \in Logger, Log(t)
  PROVE  /\ task' \in [Logger -> [at : {"idle", "buffer", "check", "flush", "write", "rollback"},
                                  entry : 0..PerTask]]
         /\ recent' \in Seq(Entry)
         /\ Pushed' = Pushed
         /\ \A u \in Logger : u # t => task'[u] = task[u]
         /\ task'[t].at = "buffer" /\ task'[t].entry = task[t].entry + 1
<1>1. /\ task \in [Logger -> [at : {"idle", "buffer", "check", "flush", "write", "rollback"},
                             entry : 0..PerTask]]
      /\ task[t].at = "idle" /\ task[t].entry < PerTask /\ PerTask \in Nat
      /\ task[t].entry \in 0..PerTask
      /\ task' = [task EXCEPT ![t] = [at |-> "buffer", entry |-> task[t].entry + 1]]
  BY LoggerNames DEF AuditTypes, Log
<1>2. /\ \A u \in Logger : u # t => task'[u] = task[u]
      /\ task'[t].at = "buffer" /\ task'[t].entry = task[t].entry + 1
  BY <1>1
<1>3. task[t].entry + 1 \in 1..PerTask
  BY <1>1
<1>4. task' \in [Logger -> [at : {"idle", "buffer", "check", "flush", "write", "rollback"},
                           entry : 0..PerTask]]
  <2>1. [at |-> "buffer", entry |-> task[t].entry + 1]
          \in [at : {"idle", "buffer", "check", "flush", "write", "rollback"}, entry : 0..PerTask]
    BY <1>1, <1>3
  <2>2. QED
    BY <1>1, <2>1
<1>5. recent' \in Seq(Entry)
  <2> DEFINE e == <<t, task[t].entry + 1>>
  <2>1. e \in Entry
    BY <1>3 DEF Entry
  <2> HIDE DEF e
  <2>2. Append(recent, e) \in Seq(Entry)
    BY <2>1, AppendProperties DEF AuditTypes
  <2>3. LastOf(Append(recent, e), HistorySize) \in Seq(Entry)
    BY <2>2, LastOfFacts DEF AuditAssumption
  <2>4. QED
    BY <2>3 DEF Log, e
<1>6. \A e \in Entry : Session(e) \in Logger /\ e[2] \in 1..PerTask
      /\ e = <<Session(e), e[2]>>
  BY DEF Session, Entry
<1>7. \A e \in Entry : e \in Pushed <=>
        \/ e[2] < task[Session(e)].entry
        \/ e[2] = task[Session(e)].entry /\ task[Session(e)].at # "buffer"
  BY <1>6 DEF Pushed, Entered
<1>8. \A e \in Entry : e \in Pushed' <=>
        \/ e[2] < task'[Session(e)].entry
        \/ e[2] = task'[Session(e)].entry /\ task'[Session(e)].at # "buffer"
  BY <1>6 DEF Pushed, Entered, Session
<1>9. Pushed \subseteq Entry /\ Pushed' \subseteq Entry
  BY DEF Pushed, Entry
<1>10. ASSUME NEW e \in Entry
       PROVE  e \in Pushed' <=> e \in Pushed
  <2>1. CASE Session(e) # t
    BY <1>2, <1>6, <1>7, <1>8, <2>1
  <2>2. CASE Session(e) = t
    <3>1. e \in Pushed' <=> e[2] < task[t].entry + 1
      BY <1>2, <1>8, <2>2
    <3>2. e \in Pushed <=> e[2] <= task[t].entry
      BY <1>1, <1>6, <1>7, <2>2
    <3>3. QED
      BY <1>1, <1>6, <3>1, <3>2
  <2>3. QED
    BY <2>1, <2>2
<1>11. Pushed' = Pushed
  BY <1>9, <1>10
<1>12. QED
  BY <1>2, <1>4, <1>5, <1>11

AuditFits == AuditTypes /\ SinkFits /\ EntriesFit

(* A step of a task that leaves file, mutex and batch as they are.         *)
LEMMA AuditSameSink ==
  ASSUME AuditAssumption, AuditFits, NEW t \in Logger,
         NEW a \in {"idle", "check", "flush"}, Moves(t, a),
         task[t].at \in {"buffer", "check", "flush"},
         UNCHANGED <<logfile, recent, batch, before, holder, life, uncut>>
  PROVE  AuditTypes' /\ SinkFits' /\ Stays' = Stays
<1>1. /\ task' \in [Logger -> [at : {"idle", "buffer", "check", "flush", "write", "rollback"},
                               entry : 0..PerTask]]
      /\ \A u \in Logger : task'[u].entry = task[u].entry
      /\ \A u \in Logger : task'[u].at = IF u = t THEN a ELSE task[u].at
  <2>1. a \in {"idle", "check", "flush", "write", "rollback"} /\ task[t].at # "idle"
    OBVIOUS
  <2>2. QED
    BY <2>1, TaskMoves DEF AuditFits
<1>2. AuditTypes'
  BY <1>1 DEF AuditTypes, AuditFits
<1>3. SinkFits'
  BY <1>1 DEF SinkFits, AuditFits
<1>4. QED
  BY <1>2, <1>3 DEF Stays

LEMMA AuditTask ==
  ASSUME AuditAssumption, AuditFits, NEW t \in Logger, LogStep(t)
  PROVE  AuditFits'
<1> USE LoggerNames
<1>0. /\ AuditTypes /\ SinkFits /\ EntriesFit
      /\ Kept(buffer, batch, Stays, Pushed, life = "up", uncut)
  BY DEF AuditFits, EntriesFit
<1>1. CASE Log(t)
  <2>1. /\ task' \in [Logger -> [at : {"idle", "buffer", "check", "flush", "write", "rollback"},
                                 entry : 0..PerTask]]
        /\ recent' \in Seq(Entry) /\ Pushed' = Pushed
        /\ \A u \in Logger : u # t => task'[u] = task[u]
        /\ task'[t].at = "buffer" /\ task'[t].entry = task[t].entry + 1
        /\ task[t].at = "idle" /\ task[t].entry \in Nat
        /\ UNCHANGED <<logfile, buffer, batch, before, holder, life, uncut>>
    <3>1. task[t].entry \in Nat
      BY <1>0 DEF AuditTypes
    <3>2. task[t].at = "idle" /\ UNCHANGED <<logfile, buffer, batch, before, holder, life, uncut>>
      BY <1>1 DEF Log
    <3> HIDE DEF AuditTypes, SinkFits
    <3>3. QED
      BY <1>0, <1>1, <3>1, <3>2, LogMoves
  <2>2. AuditTypes'
    BY <1>0, <2>1 DEF AuditTypes
  <2>3. SinkFits'
    <3>1. \A u \in Logger : task'[u].at = IF u = t THEN "buffer" ELSE task[u].at
      BY <2>1
    <3>2. \A u \in Logger : task'[u].at # "idle" => task'[u].entry > 0
      BY <1>0, <2>1 DEF SinkFits
    <3>3. QED
      BY <1>0, <2>1, <3>1, <3>2 DEF SinkFits
  <2>4. EntriesFit'
    BY <1>0, <2>1 DEF EntriesFit, Stays
  <2>5. QED
    BY <2>2, <2>3, <2>4 DEF AuditFits
<1>2. CASE PushBuffer(t)
  <2>1. task[t].at = "buffer" /\ Moves(t, "check") /\ buffer' = Append(buffer, Entered(t))
        /\ UNCHANGED <<logfile, recent, batch, before, holder, life, uncut>>
    BY <1>2 DEF PushBuffer
  <2>2. AuditTypes' /\ SinkFits' /\ Stays' = Stays
    BY <2>1, AuditSameSink
  <2>3. /\ Entered(t) \in Entry /\ Pushed' = Pushed \cup {Entered(t)} /\ Entered(t) \notin Pushed
    BY <1>0, <2>1, TaskMoves
  <2>4. Kept(buffer', batch, Stays, Pushed', life = "up", uncut)
    BY <1>0, <2>1, <2>3, KeptPush
  <2>5. QED
    BY <2>1, <2>2, <2>4 DEF AuditFits, EntriesFit
<1>3. CASE CheckBuffer(t)
  <2>1. task[t].at = "check" /\ (Moves(t, "idle") \/ Moves(t, "flush"))
        /\ UNCHANGED <<logfile, buffer, recent, batch, before, holder, life, uncut>>
    BY <1>3 DEF CheckBuffer
  <2>2. AuditTypes' /\ SinkFits' /\ Stays' = Stays
    BY <2>1, AuditSameSink
  <2>3. Pushed' = Pushed
    BY <1>0, <2>1, TaskMoves
  <2>4. QED
    BY <1>0, <2>1, <2>2, <2>3 DEF AuditFits, EntriesFit
<1>4. CASE FlushNothing(t) \/ FlushRefused(t)
  <2>1. task[t].at = "flush" /\ Moves(t, "idle")
        /\ UNCHANGED <<logfile, buffer, recent, batch, before, holder, life, uncut>>
    BY <1>4 DEF FlushNothing, FlushRefused, Returns
  <2>2. AuditTypes' /\ SinkFits' /\ Stays' = Stays
    BY <2>1, AuditSameSink
  <2>3. Pushed' = Pushed
    BY <1>0, <2>1, TaskMoves
  <2>4. QED
    BY <1>0, <2>1, <2>2, <2>3 DEF AuditFits, EntriesFit
<1>5. CASE Drain(t)
  <2>1. /\ task[t].at = "flush" /\ holder = NoHolder /\ Moves(t, "write")
        /\ holder' = t /\ batch' = buffer /\ buffer' = <<>> /\ before' = Len(logfile)
        /\ UNCHANGED <<logfile, recent, life, uncut>>
    BY <1>5 DEF Drain
  <2>2. /\ task' \in [Logger -> [at : {"idle", "buffer", "check", "flush", "write", "rollback"},
                                 entry : 0..PerTask]]
        /\ \A u \in Logger : task'[u].entry = task[u].entry
        /\ \A u \in Logger : task'[u].at = IF u = t THEN "write" ELSE task[u].at
        /\ Pushed' = Pushed
    BY <1>0, <2>1, TaskMoves
  <2>3. Len(logfile) \in Nat
    BY <1>0, LenProperties DEF AuditTypes
  <2>4. AuditTypes'
    BY <1>0, <2>1, <2>2, <2>3 DEF AuditTypes
  <2>5. \A u \in Logger : task[u].at \notin {"write", "rollback"}
    BY <1>0, <2>1 DEF SinkFits
  <2>6. SinkFits'
    BY <1>0, <2>1, <2>2, <2>5 DEF SinkFits
  <2>7. Stays = logfile /\ batch = <<>>
    BY <1>0, <2>1 DEF Stays, SinkFits
  <2>8. Stays' = logfile
    <3>1. SubSeq(logfile, 1, Len(logfile)) = logfile
      BY <1>0, SubSeqFull DEF AuditTypes
    <3>2. QED
      BY <2>1, <3>1 DEF Stays
  <2>9. Kept(<<>>, buffer, logfile, Pushed, life = "up", uncut)
    BY <1>0, <2>7, KeptDrain
  <2>10. EntriesFit'
    BY <2>1, <2>2, <2>8, <2>9 DEF EntriesFit
  <2>11. QED
    BY <2>4, <2>6, <2>10 DEF AuditFits
<1>6. CASE WriteAndSync(t)
  <2>1. /\ task[t].at = "write" /\ Moves(t, "idle")
        /\ logfile' = Extended(logfile, Lines(batch))
        /\ batch' = <<>> /\ before' = 0 /\ holder' = NoHolder
        /\ UNCHANGED <<buffer, recent, life, uncut>>
    BY <1>6 DEF WriteAndSync, Returns
  <2>2. /\ task' \in [Logger -> [at : {"idle", "buffer", "check", "flush", "write", "rollback"},
                                 entry : 0..PerTask]]
        /\ \A u \in Logger : task'[u].entry = task[u].entry
        /\ \A u \in Logger : task'[u].at = IF u = t THEN "idle" ELSE task[u].at
        /\ Pushed' = Pushed
    BY <1>0, <2>1, TaskMoves
  <2>3. Stays = logfile
    BY <1>0, <2>1, StaysFacts
  <2>4. Kept(buffer, <<>>, Extended(logfile, Lines(batch)), Pushed, life = "up", uncut)
    BY <1>0, <2>3, KeptWrite
  <2>5. Kept(buffer', <<>>, logfile', Pushed', life' = "up", uncut')
    BY <2>1, <2>2, <2>4
  <2>6. AuditTypes'
    BY <1>0, <2>1, <2>2, <2>5 DEF AuditTypes, Kept, Placed
  <2>7. \A u \in Logger : task'[u].at \notin {"write", "rollback"}
    BY <1>0, <2>1, <2>2 DEF SinkFits
  <2>8. SinkFits'
    BY <1>0, <2>1, <2>2, <2>7 DEF SinkFits
  <2>9. Stays' = logfile'
    BY <2>1 DEF Stays
  <2>10. EntriesFit'
    BY <2>1, <2>5, <2>9 DEF EntriesFit
  <2>11. QED
    BY <2>6, <2>8, <2>10 DEF AuditFits
<1>7. CASE SinkFails(t)
  <2>1. /\ task[t].at = "write" /\ Moves(t, "rollback")
        /\ UNCHANGED <<buffer, recent, batch, before, holder, life, uncut>>
    BY <1>7 DEF SinkFails
  <2>2. PICK k \in 0..Len(batch), cut \in BOOLEAN :
          logfile' = Extended(logfile, Partial(batch, k, cut))
    BY <1>7 DEF SinkFails
  <2>3. /\ task' \in [Logger -> [at : {"idle", "buffer", "check", "flush", "write", "rollback"},
                                 entry : 0..PerTask]]
        /\ \A u \in Logger : task'[u].entry = task[u].entry
        /\ \A u \in Logger : task'[u].at = IF u = t THEN "rollback" ELSE task[u].at
        /\ Pushed' = Pushed
    BY <1>0, <2>1, TaskMoves
  <2>4. Stays = logfile /\ holder = t /\ before = Len(logfile)
    BY <1>0, <2>1, StaysFacts DEF SinkFits
  <2>5. batch \in Seq(Entry) /\ logfile \in Seq(LogLine) /\ Len(logfile) \in Nat
    BY <1>0, LenProperties DEF Kept, Placed, AuditTypes
  <2> DEFINE new == Partial(batch, k, cut)
  <2>6. Adds(new, batch)
    BY <2>5, PartialFacts
  <2> HIDE DEF new
  <2>7. logfile' = Extended(logfile, new)
    BY <2>2 DEF new
  <2>8. new \in Seq(LogLine) /\ Len(new) \in Nat
    BY <2>6, LenProperties DEF Adds
  <2>9. logfile' \in Seq(LogLine) /\ Len(logfile') = Len(logfile) + Len(new)
        /\ \A i \in 1..Len(logfile) : logfile'[i] = logfile[i]
    BY <2>5, <2>7, <2>8, ExtendedFacts
  <2>10. SubSeq(logfile', 1, before) = logfile
    <3> DEFINE l == logfile'
    <3>1. l \in Seq(LogLine) /\ Len(l) = Len(logfile) + Len(new)
          /\ \A i \in 1..Len(logfile) : l[i] = logfile[i]
      BY <2>9
    <3> HIDE DEF l
    <3> DEFINE n == Len(logfile)
    <3>2. n \in Nat /\ n <= Len(l) /\ logfile = [i \in 1..n |-> logfile[i]]
      BY <2>5, <2>8, <3>1, LenProperties
    <3>3. \A i \in 1..n : l[i] \in LogLine
      BY <2>5, <3>1, ElementOfSeq
    <3>4. SubSeq(l, 1, n) \in Seq(LogLine) /\ Len(SubSeq(l, 1, n)) = n
          /\ \A i \in 1..n : SubSeq(l, 1, n)[i] = l[i]
      BY <3>2, <3>3, SubSeqProperties
    <3>5. SubSeq(l, 1, n) = logfile
      BY <2>5, <3>1, <3>4, SeqEqual
    <3>6. QED
      BY <2>4, <3>5 DEF l
  <2>11. AuditTypes'
    BY <1>0, <2>1, <2>3, <2>9 DEF AuditTypes
  <2>12. before <= Len(logfile')
    BY <2>4, <2>5, <2>8, <2>9
  <2>13. \E x : Adds(x, batch) /\ logfile' = Extended(SubSeq(logfile', 1, before), x)
    BY <2>6, <2>7, <2>10
  <2>14. SinkFits'
    <3>1. \A u \in Logger : task[u].at \in {"write", "rollback"} => u = t
      BY <1>0, <2>4 DEF SinkFits
    <3>2. \A u \in Logger : task'[u].at = "rollback" => u = t
      BY <2>3, <3>1
    <3>3. \A u \in Logger : task'[u].at # "write"
      BY <2>3, <3>1
    <3>4. \A u \in Logger : task'[u].at \in {"write", "rollback"} <=> holder' = u
      BY <2>1, <2>3, <2>4, <3>2, <3>3
    <3>5. QED
      BY <1>0, <2>1, <2>3, <2>4, <2>12, <2>13, <3>2, <3>3, <3>4 DEF SinkFits
  <2>15. Stays' = Stays
    BY <2>1, <2>4, <2>10 DEF Stays
  <2>16. EntriesFit'
    BY <1>0, <2>1, <2>3, <2>15 DEF EntriesFit
  <2>17. QED
    BY <2>11, <2>14, <2>16 DEF AuditFits
<1>8. ASSUME GiveBack(t),
             Kept(buffer, batch, logfile', Pushed, life = "up", uncut'), uncut' \in Nat
      PROVE  AuditFits'
  <2>1. /\ task[t].at = "rollback" /\ Moves(t, "idle")
        /\ buffer' = batch \o buffer
        /\ batch' = <<>> /\ before' = 0 /\ holder' = NoHolder
        /\ UNCHANGED <<recent, life>>
    BY <1>8 DEF GiveBack, Returns
  <2>2. /\ task' \in [Logger -> [at : {"idle", "buffer", "check", "flush", "write", "rollback"},
                                 entry : 0..PerTask]]
        /\ \A u \in Logger : task'[u].entry = task[u].entry
        /\ \A u \in Logger : task'[u].at = IF u = t THEN "idle" ELSE task[u].at
        /\ Pushed' = Pushed
    BY <1>0, <2>1, TaskMoves
  <2>3. Kept(batch \o buffer, <<>>, logfile', Pushed, life = "up", uncut')
    BY <1>8, KeptReturn
  <2>4. AuditTypes'
    BY <1>0, <1>8, <2>1, <2>2 DEF AuditTypes, Kept, Placed
  <2>5. \A u \in Logger : task'[u].at \notin {"write", "rollback"}
    BY <1>0, <2>1, <2>2 DEF SinkFits
  <2>6. SinkFits'
    BY <1>0, <2>1, <2>2, <2>5 DEF SinkFits
  <2>7. Stays' = logfile'
    BY <2>1 DEF Stays
  <2>8. EntriesFit'
    BY <2>1, <2>2, <2>3, <2>7 DEF EntriesFit
  <2>9. QED
    BY <2>4, <2>6, <2>8 DEF AuditFits
<1>9. CASE Rollback(t)
  <2>1. GiveBack(t) /\ logfile' = SubSeq(logfile, 1, before) /\ uncut' = uncut
        /\ task[t].at = "rollback" /\ uncut \in Nat
    BY <1>0, <1>9 DEF Rollback, GiveBack, AuditTypes
  <2>2. logfile' = Stays
    BY <1>0, <2>1, StaysFacts
  <2>3. QED
    BY <1>0, <1>8, <2>1, <2>2
<1>10. CASE RollbackFails(t)
  <2>1. GiveBack(t) /\ logfile' = logfile /\ uncut' = uncut + 1
        /\ task[t].at = "rollback" /\ uncut \in Nat
    BY <1>0, <1>10 DEF RollbackFails, GiveBack, AuditTypes
  <2>2. PICK new : Adds(new, batch) /\ logfile = Extended(Stays, new)
    BY <1>0, <2>1, StaysFacts DEF SinkFits
  <2>3. Kept(buffer, batch, Extended(Stays, new), Pushed, life = "up", uncut + 1)
    <3> DEFINE up == life = "up"
    <3>1. up \in BOOLEAN /\ Kept(buffer, batch, Stays, Pushed, up, uncut)
      BY <1>0
    <3> HIDE DEF up
    <3>2. Kept(buffer, batch, Extended(Stays, new), Pushed, up, uncut + 1)
      BY <2>2, <3>1, KeptUncut
    <3>3. QED
      BY <3>2 DEF up
  <2>4. QED
    BY <1>8, <2>1, <2>2, <2>3
<1>11. QED
  BY <1>1, <1>2, <1>3, <1>4, <1>5, <1>6, <1>7, <1>9, <1>10 DEF LogStep

LEMMA AuditInductive ==
  ASSUME AuditAssumption, AuditFits, [AuditNext]_avars
  PROVE  AuditFits'
<1> USE LoggerNames
<1>0. /\ AuditTypes /\ SinkFits /\ EntriesFit
      /\ Kept(buffer, batch, Stays, Pushed, life = "up", uncut)
  BY DEF AuditFits, EntriesFit
<1>1. ASSUME NEW t \in Logger, LogStep(t)
      PROVE  AuditFits'
  BY <1>1, AuditTask
<1>2. ASSUME UNCHANGED <<logfile, buffer, recent, batch, before, task, life, uncut>>,
             holder \notin Logger, holder' \in {NoHolder, "query"}
      PROVE  AuditFits'
  <2>1. AuditTypes'
    BY <1>0, <1>2 DEF AuditTypes
  <2>2. SinkFits'
    BY <1>0, <1>2 DEF SinkFits
  <2>3. Stays' = Stays
    BY <1>2 DEF Stays
  <2>4. Pushed' = Pushed
    BY <1>2 DEF Pushed, Entered
  <2>5. EntriesFit'
    BY <1>0, <1>2, <2>3, <2>4 DEF EntriesFit
  <2>6. QED
    BY <2>1, <2>2, <2>5 DEF AuditFits
<1>3. CASE StartQuery
  BY <1>2, <1>3 DEF StartQuery, QueryHistory
<1>4. CASE QueryFile \/ QueryReturns
  BY <1>0, <1>2, <1>4, LoggerNames DEF QueryFile, QueryReturns
<1>5. CASE DropLogger
  <2>1. /\ life = "up" /\ holder = NoHolder /\ \A t \in Logger : task[t].at = "idle"
        /\ buffer' = <<>> /\ recent' = <<>> /\ life' = "closed"
        /\ UNCHANGED <<batch, before, holder, task, uncut>>
    BY <1>5 DEF DropLogger, Quiet
  <2>2. Stays = logfile /\ batch = <<>>
    BY <1>0, <2>1 DEF Stays, SinkFits
  <2>3. Kept(<<>>, buffer, logfile, Pushed, life = "up", uncut)
    BY <1>0, <2>2, KeptDrain
  <2>4. buffer \in Seq(Entry) /\ Len(buffer) \in Nat
    BY <1>0, LenProperties DEF Kept, Placed
  <2>5. PICK new : Adds(new, buffer) /\ logfile' = Extended(logfile, new)
    <3>1. CASE logfile' = Extended(logfile, Lines(buffer))
      BY <2>4, <3>1, LinesFacts
    <3>2. CASE \E k \in 0..(Len(buffer) - 1), cut \in BOOLEAN :
                 logfile' = Extended(logfile, Partial(buffer, k, cut))
      <4>1. PICK k \in 0..(Len(buffer) - 1), cut \in BOOLEAN :
              logfile' = Extended(logfile, Partial(buffer, k, cut))
        BY <3>2
      <4>2. k \in 0..Len(buffer)
        BY <2>4
      <4>3. QED
        BY <2>4, <4>1, <4>2, PartialFacts
    <3>3. QED
      BY <1>5, <3>1, <3>2 DEF DropLogger
  <2>6. Pushed' = Pushed
    BY <2>1 DEF Pushed, Entered
  <2>7. Kept(<<>>, <<>>, Extended(logfile, new), Pushed, life' = "up", uncut)
    <3>1. Kept(<<>>, buffer, logfile, Pushed, TRUE, uncut)
      BY <2>1, <2>3 DEF Kept, LinesFit
    <3>2. \A x : Adds(x, buffer) => Kept(<<>>, <<>>, Extended(logfile, x), Pushed, FALSE, uncut)
      BY <3>1, KeptEnd
    <3>3. Kept(<<>>, <<>>, Extended(logfile, new), Pushed, FALSE, uncut)
      BY <2>5, <3>2
    <3>4. QED
      BY <2>1, <3>3 DEF Kept, LinesFit
  <2>8. Kept(buffer', batch', logfile', Pushed', life' = "up", uncut')
    BY <2>1, <2>2, <2>5, <2>6, <2>7
  <2>9. AuditTypes'
    BY <1>0, <2>1, <2>8, NothingKept DEF AuditTypes, Kept, Placed
  <2>10. SinkFits'
    BY <1>0, <2>1 DEF SinkFits
  <2>11. Stays' = logfile'
    BY <2>1 DEF Stays
  <2>12. EntriesFit'
    BY <2>8, <2>11 DEF EntriesFit
  <2>13. QED
    BY <2>9, <2>10, <2>12 DEF AuditFits
<1>6. CASE Crash
  <2>1. /\ life = "up" /\ life' = "closed" /\ holder' = NoHolder
        /\ buffer' = <<>> /\ recent' = <<>> /\ batch' = <<>>
        /\ task' = [t \in Logger |-> [task[t] EXCEPT !.at = "idle"]]
        /\ before' = 0 /\ UNCHANGED <<logfile, uncut>>
    BY <1>6 DEF Crash
  <2>2. /\ task' \in [Logger -> [at : {"idle", "buffer", "check", "flush", "write", "rollback"},
                                 entry : 0..PerTask]]
        /\ \A t \in Logger : task'[t].entry = task[t].entry /\ task'[t].at = "idle"
    BY <1>0, <2>1 DEF AuditTypes
  <2>3. AuditTypes'
    BY <1>0, <2>1, <2>2, NothingKept DEF AuditTypes
  <2>4. SinkFits'
    BY <2>1, <2>2 DEF SinkFits
  <2>5. Pushed \subseteq Pushed'
    <3>1. \A e \in Entry : Session(e) \in Logger
      BY DEF Session, Entry
    <3>2. Pushed' = {e \in Entry : \/ e[2] < task'[Session(e)].entry
                                   \/ e = <<Session(e), task'[Session(e)].entry>>
                                      /\ task'[Session(e)].at # "buffer"}
      BY DEF Pushed, Entered, Session
    <3>3. Pushed' = {e \in Entry : \/ e[2] < task[Session(e)].entry
                                   \/ e = <<Session(e), task[Session(e)].entry>>}
      BY <2>2, <3>1, <3>2
    <3>4. QED
      BY <3>3 DEF Pushed, Entered
  <2>6. logfile = Stays \/ \E new : Adds(new, batch) /\ logfile = Extended(Stays, new)
    <3>1. CASE holder \notin Logger
      BY <3>1 DEF Stays
    <3>2. CASE holder \in Logger
      <4>1. task[holder].at \in {"write", "rollback"}
        BY <1>0, <3>2 DEF SinkFits
      <4>2. CASE task[holder].at = "write"
        BY <1>0, <3>2, <4>2, StaysFacts
      <4>3. CASE task[holder].at = "rollback"
        <5>1. Stays = SubSeq(logfile, 1, before)
          BY <1>0, <3>2, <4>3, StaysFacts
        <5>2. QED
          BY <1>0, <3>2, <4>3, <5>1 DEF SinkFits
      <4>4. QED
        BY <4>1, <4>2, <4>3
    <3>3. QED
      BY <3>1, <3>2
  <2>7. Kept(<<>>, <<>>, logfile, Pushed', life' = "up", uncut)
    <3> DEFINE Q == Pushed'
    <3>1. Kept(buffer, batch, Stays, Pushed, TRUE, uncut) /\ Pushed \subseteq Q
      <4>1. Kept(buffer, batch, Stays, Pushed, life = "up", uncut)
        BY <1>0
      <4>2. QED
        BY <2>1, <2>5, <4>1 DEF Kept, LinesFit
    <3> HIDE DEF Q
    <3>2. /\ Kept(<<>>, <<>>, Stays, Q, FALSE, uncut)
          /\ \A new : Adds(new, batch) => Kept(<<>>, <<>>, Extended(Stays, new), Q, FALSE, uncut)
      BY <3>1, KeptEnd
    <3>3. Kept(<<>>, <<>>, logfile, Q, FALSE, uncut)
      BY <2>6, <3>2
    <3>4. QED
      BY <2>1, <3>3 DEF Kept, LinesFit, Q
  <2>8. Stays' = logfile
    BY <2>1 DEF Stays
  <2>9. EntriesFit'
    BY <2>1, <2>7, <2>8 DEF EntriesFit
  <2>10. QED
    BY <2>3, <2>4, <2>9 DEF AuditFits
<1>7. CASE OpenFile
  <2>1. /\ life = "closed" /\ life' = "again"
        /\ UNCHANGED <<logfile, buffer, recent, batch, before, holder, task, uncut>>
    BY <1>7 DEF OpenFile
  <2>2. AuditTypes' /\ SinkFits' /\ Stays' = Stays /\ Pushed' = Pushed
    BY <1>0, <2>1 DEF AuditTypes, SinkFits, Stays, Pushed, Entered
  <2>3. EntriesFit'
    <3> DEFINE up == life = "up"
               down == life' = "up"
    <3>1. (up <=> FALSE) /\ (down <=> FALSE) /\ Kept(buffer, batch, Stays, Pushed, up, uncut)
      BY <1>0, <2>1
    <3> HIDE DEF up, down
    <3>2. Kept(buffer, batch, Stays, Pushed, down, uncut)
      BY <3>1 DEF Kept, LinesFit
    <3>3. QED
      BY <2>1, <2>2, <3>2 DEF EntriesFit, down
  <2>4. QED
    BY <2>2, <2>3 DEF AuditFits
<1>8. CASE UNCHANGED avars
  <2>1. UNCHANGED <<logfile, buffer, recent, batch, before, holder, task, life, uncut>>
    BY <1>8 DEF avars
  <2>2. AuditTypes' /\ SinkFits' /\ Stays' = Stays /\ Pushed' = Pushed
    BY <1>0, <2>1 DEF AuditTypes, SinkFits, Stays, Pushed, Entered
  <2>3. EntriesFit'
    BY <1>0, <2>1, <2>2 DEF EntriesFit
  <2>4. QED
    BY <2>2, <2>3 DEF AuditFits
<1>9. QED
  BY <1>1, <1>3, <1>4, <1>5, <1>6, <1>7, <1>8 DEF AuditNext

LEMMA AuditSound == AuditAssumption /\ AuditFits => EntriesKept
<1> SUFFICES ASSUME AuditAssumption, AuditFits
             PROVE  EntriesKept
  OBVIOUS
<1>0. /\ AuditTypes /\ SinkFits
      /\ Kept(buffer, batch, Stays, Pushed, life = "up", uncut)
      /\ Placed(buffer, batch, Stays, Pushed)
  BY DEF AuditFits, EntriesFit, Kept
<1>1. holder \notin Logger => Stays = logfile
  BY DEF Stays
<1>2. logfile \in Seq(LogLine) /\ Stays \in Seq(LogLine) /\ DOMAIN Stays \subseteq DOMAIN logfile
      /\ \A i \in DOMAIN Stays : logfile[i] = Stays[i]
  <2>1. logfile \in Seq(LogLine) /\ Stays \in Seq(LogLine)
    BY <1>0, StaysFacts DEF AuditTypes
  <2>2. CASE holder \notin Logger
    BY <1>1, <2>1, <2>2
  <2>3. CASE holder \in Logger
    <3>1. Stays = SubSeq(logfile, 1, before) /\ before \in Nat /\ before <= Len(logfile)
          /\ Len(logfile) \in Nat /\ DOMAIN logfile = 1..Len(logfile)
      <4>1. task[holder].at \in {"write", "rollback"} /\ before \in Nat
        BY <1>0, <2>3 DEF SinkFits, AuditTypes
      <4>2. Len(logfile) \in Nat /\ DOMAIN logfile = 1..Len(logfile)
        BY <2>1, LenProperties
      <4>3. before <= Len(logfile)
        <5>1. task[holder].at = "write" => before = Len(logfile)
          BY <1>0, <2>3 DEF SinkFits
        <5>2. task[holder].at = "rollback" => before <= Len(logfile)
          BY <1>0, <2>3 DEF SinkFits
        <5>3. \A x, y \in Nat : x = y => x <= y
          OBVIOUS
        <5>4. before = Len(logfile) \/ before <= Len(logfile)
          BY <4>1, <5>1, <5>2
        <5>5. QED
          BY <4>1, <4>2, <5>3, <5>4
      <4>4. QED
        BY <2>3, <4>1, <4>2, <4>3 DEF Stays
    <3>2. \A i \in 1..before : logfile[i] \in LogLine
      BY <2>1, <3>1, ElementOfSeq
    <3>3. Len(Stays) = before /\ \A i \in 1..before : Stays[i] = logfile[i]
      BY <3>1, <3>2, SubSeqProperties
    <3>4. DOMAIN Stays = 1..before
      BY <2>1, <3>3, LenProperties
    <3>5. QED
      BY <2>1, <3>1, <3>3, <3>4
  <2>4. QED
    BY <2>2, <2>3
<1>3. uncut \in Nat /\ CopiesFit(ToSet(buffer) \cup ToSet(batch), Stays, uncut)
      /\ LinesFit(Stays, life = "up", uncut)
  BY <1>0 DEF Kept
<1>4. ToSet(buffer) \cap ToSet(batch) = {}
  BY <1>0 DEF Placed
<1>5. /\ SpoiledLines(Stays) \in SUBSET DOMAIN Stays
      /\ IsFiniteSet(OpenLines(Stays)) /\ Cardinality(OpenLines(Stays)) \in Nat
      /\ IsFiniteSet(SpoiledLines(Stays)) /\ Cardinality(SpoiledLines(Stays)) \in Nat
      /\ Cardinality(SpoiledLines(Stays)) <= Cardinality(OpenLines(Stays))
  <2>1. SpoiledLines(Stays) \in SUBSET DOMAIN Stays
    BY DEF SpoiledLines
  <2>2. \A i \in SpoiledLines(Stays) : i \in Nat /\ i - 1 \in OpenLines(Stays)
    BY <1>2, <1>3, <2>1, LenProperties DEF LinesFit
  <2> DEFINE f == [i \in SpoiledLines(Stays) |-> i - 1]
  <2>3. f \in Injection(SpoiledLines(Stays), OpenLines(Stays))
    BY <2>2 DEF Injection, IsInjective
  <2>4. IsFiniteSet(OpenLines(Stays)) /\ Cardinality(OpenLines(Stays)) \in Nat
    BY <1>2, CopiesAreLines
  <2> HIDE DEF f
  <2>5. /\ IsFiniteSet(SpoiledLines(Stays))
        /\ Cardinality(SpoiledLines(Stays)) <= Cardinality(OpenLines(Stays))
    BY <2>3, <2>4, FS_Injection
  <2>6. QED
    BY <2>1, <2>4, <2>5, FS_CardinalityType
<1>6. ASSUME life = "up"
      PROVE  Cardinality(Pushed \ (Held \cup Readable(logfile))) <= uncut
  <2> DEFINE lost == Pushed \ (Held \cup Readable(logfile))
             spoiled == {Stays[i].entry : i \in SpoiledLines(Stays)}
  <2>1. lost \subseteq spoiled
    <3> SUFFICES ASSUME NEW e \in lost
                 PROVE  e \in spoiled
      OBVIOUS
    <3>1. e \in Landed(Stays)
      BY <1>0, <1>6 DEF Kept, Held
    <3>2. PICK i \in DOMAIN Stays : e = Stays[i].entry /\ Stays[i].text # "open"
      BY <3>1 DEF Landed
    <3>3. i \in DOMAIN logfile /\ logfile[i] = Stays[i]
      BY <1>2
    <3>4. ~Whole(Stays[i])
      BY <3>2, <3>3 DEF Readable, ToSet
    <3>5. Stays[i] \in LogLine
      BY <1>2, LenProperties, ElementOfSeq
    <3>6. Stays[i].text = "spoiled"
      BY <3>2, <3>4, <3>5 DEF LogLine, Whole
    <3>7. QED
      BY <3>2, <3>6 DEF SpoiledLines
  <2> DEFINE f == [i \in SpoiledLines(Stays) |-> Stays[i].entry]
  <2>2. f \in Surjection(SpoiledLines(Stays), spoiled)
    BY DEF Surjection
  <2> HIDE DEF f, spoiled, lost
  <2>3. IsFiniteSet(spoiled) /\ Cardinality(spoiled) <= Cardinality(SpoiledLines(Stays))
    BY <1>5, <2>2, FS_Surjection
  <2>4. IsFiniteSet(lost) /\ Cardinality(lost) <= Cardinality(spoiled)
    BY <2>1, <2>3, FS_Subset
  <2>5. Cardinality(spoiled) \in Nat /\ Cardinality(lost) \in Nat
    BY <2>3, <2>4, FS_CardinalityType
  <2>6. Cardinality(OpenLines(Stays)) <= uncut
    BY <1>3, <1>6 DEF LinesFit
  <2>7. Cardinality(lost) <= uncut
    BY <1>3, <1>5, <2>3, <2>4, <2>5, <2>6
  <2>8. QED
    BY <2>7 DEF lost
<1>7. ASSUME holder \notin Logger, NEW e \in Entry
      PROVE  Cardinality(Copies(logfile, e)) <= uncut + 1
  <2>1. Cardinality(Copies(Stays, e)) \in Nat
    BY <1>2, CopiesAreLines
  <2>2. Cardinality(Copies(Stays, e)) <= uncut \/ Cardinality(Copies(Stays, e)) <= uncut + 1
    BY <1>3 DEF CopiesFit
  <2>3. QED
    BY <1>1, <1>3, <1>7, <2>1, <2>2
<1>8. ASSUME holder \notin Logger
      PROVE  Cardinality(Broken(logfile)) <= 2 * TornAtMost
  <2>1. Broken(logfile) = OpenLines(Stays) \cup SpoiledLines(Stays)
    <3>1. \A i \in DOMAIN Stays : Stays[i].text \in {"whole", "open", "spoiled"}
      <4>1. Stays \in Seq(LogLine)
        BY <1>2
      <4> HIDE DEF Stays
      <4>2. DOMAIN Stays = 1..Len(Stays) /\ \A i \in 1..Len(Stays) : Stays[i] \in LogLine
        BY <4>1, LenProperties, ElementOfSeq
      <4>3. QED
        BY <4>2 DEF LogLine
    <3>2. QED
      BY <1>1, <1>8, <3>1 DEF Broken, Whole, OpenLines, SpoiledLines
  <2>2. OpenLines(Stays) \cap SpoiledLines(Stays) = {}
    BY DEF OpenLines, SpoiledLines
  <2> DEFINE o == Cardinality(OpenLines(Stays))
             sp == Cardinality(SpoiledLines(Stays))
             c == Cardinality(Broken(logfile))
  <2>3. c = o + sp
    <3>1. Cardinality(OpenLines(Stays) \cap SpoiledLines(Stays)) = 0
      BY <2>2, FS_EmptySet
    <3>2. c = o + sp - Cardinality(OpenLines(Stays) \cap SpoiledLines(Stays))
      BY <1>5, <2>1, FS_Union
    <3>3. QED
      BY <1>5, <3>1, <3>2
  <2>4. o \in Nat /\ sp \in Nat /\ sp <= o
    BY <1>5
  <2>5. o <= TornAtMost /\ TornAtMost \in Nat
    BY <1>3 DEF LinesFit, TornAtMost
  <2> HIDE DEF o, sp, c
  <2>6. c <= 2 * TornAtMost
    BY <2>3, <2>4, <2>5
  <2>7. QED
    BY <2>6 DEF c
<1>9. QED
  BY <1>4, <1>6, <1>7, <1>8 DEF EntriesKept

QueryRecord == [of : Logger \cup {"any", "none"}, found : Seq(Entry), known : SUBSET Entry,
                must : SUBSET Entry, answer : {"none", "ok", "error"}]

(* The history holds logged entries, each once.                            *)
RecentFit ==
  /\ IsInjective(recent)
  /\ \A i \in DOMAIN recent : recent[i][2] <= task[recent[i][1]].entry

(* Between its two parts a query has the newest of the history, all of     *)
(* them if that is not enough, and the file is the one it began with.      *)
QueryFit ==
  /\ query \in QueryRecord
  /\ holder = "query" /\ query.answer = "none" =>
       /\ IsInjective(query.found) /\ Len(query.found) <= QueryLimit
       /\ ToSet(query.found) \subseteq query.known
       /\ query.must \subseteq {e \in Readable(logfile) : Of(query.of, e)}
       /\ Len(query.found) < QueryLimit =>
            {e \in query.known : Of(query.of, e)} \subseteq ToSet(query.found)
  /\ QueryIsComplete

LEMMA QueryStays ==
  ASSUME QueryFit, query' = query, uncut' = 0 => uncut = 0,
         holder' # "query" \/ UNCHANGED <<holder, logfile>>
  PROVE  QueryFit'
BY DEF QueryFit, QueryIsComplete, Readable, Of, Session

LEMMA QueryBegins ==
  ASSUME AuditAssumption, AuditFits, RecentFit, StartQuery
  PROVE  QueryFit'
<1>1. PICK s \in Logger \cup {"any"} : QueryHistory(s)
  BY DEF StartQuery
<1> DEFINE h == OfHistory(s)
           mine == {i \in DOMAIN recent : Of(s, recent[i])}
           known == ToSet(recent)
           must == {e \in Readable(logfile) : Of(s, e)}
           found == LastOf(h, QueryLimit)
<1>2. /\ query' = [of |-> s, found |-> found, known |-> known, must |-> must, answer |-> "none"]
      /\ logfile' = logfile
  BY <1>1 DEF QueryHistory, NewestOf
<1>3. recent \in Seq(Entry) /\ logfile \in Seq(LogLine) /\ QueryLimit \in Nat
      /\ DOMAIN recent = 1..Len(recent) /\ \A i \in 1..Len(recent) : recent[i] \in Entry
  BY LenProperties, ElementOfSeq DEF AuditFits, AuditTypes, AuditAssumption
<1>4. /\ h \in Seq(Entry) /\ ToSet(h) = {recent[i] : i \in mine} /\ IsInjective(h)
  <2>1. mine \in SUBSET (1..Len(recent))
    BY <1>3
  <2>2. \A i, j \in mine : recent[i] = recent[j] => i = j
    BY DEF RecentFit, IsInjective
  <2>3. h = Pick(recent, mine)
    BY DEF OfHistory
  <2> HIDE DEF mine, h
  <2>4. /\ Pick(recent, mine) \in Seq(Entry)
        /\ ToSet(Pick(recent, mine)) = {recent[i] : i \in mine}
        /\ (\A i, j \in mine : recent[i] = recent[j] => i = j) => IsInjective(Pick(recent, mine))
    <3>1. recent \in Seq(Entry)
      BY <1>3
    <3>2. QED
      BY <2>1, <3>1, Picked
  <2>5. QED
    BY <2>2, <2>3, <2>4
<1>5. ToSet(h) = {e \in known : Of(s, e)} /\ known \subseteq Entry
  BY <1>3, <1>4 DEF ToSet
<1> HIDE DEF h, mine
<1>6. /\ found \in Seq(Entry) /\ Len(found) <= QueryLimit
      /\ ToSet(found) \subseteq ToSet(h) /\ IsInjective(found)
      /\ Len(found) < QueryLimit => found = h
  BY <1>3, <1>4, LastOfFacts
<1>7. must \subseteq Entry
  <2>1. DOMAIN logfile = 1..Len(logfile) /\ \A i \in 1..Len(logfile) : logfile[i] \in LogLine
    BY <1>3, LenProperties, ElementOfSeq
  <2>2. \A i \in DOMAIN logfile : logfile[i].entry \in Entry
    BY <2>1 DEF LogLine
  <2>3. QED
    BY <2>2 DEF Readable, ToSet
<1> HIDE DEF found, known, must
<1>8. query' \in QueryRecord
  BY <1>2, <1>5, <1>6, <1>7 DEF QueryRecord
<1>9. /\ query'.answer = "none" /\ query'.found = found /\ query'.known = known
      /\ query'.must = must /\ query'.of = s
  BY <1>2
<1>10. must \subseteq {e \in Readable(logfile') : Of(s, e)}
  BY <1>2 DEF must
<1>11. QueryFit'
  <2>1. QueryIsComplete'
    BY <1>9 DEF QueryIsComplete
  <2>2. {e \in query'.known : Of(query'.of, e)} = ToSet(h)
    BY <1>5, <1>9
  <2>3. {e \in Readable(logfile') : Of(query'.of, e)} = {e \in Readable(logfile') : Of(s, e)}
    BY <1>9
  <2>4. /\ query'.answer = "none"
        /\ IsInjective(query'.found) /\ Len(query'.found) <= QueryLimit
        /\ ToSet(query'.found) \subseteq query'.known
        /\ query'.must \subseteq {e \in Readable(logfile') : Of(query'.of, e)}
        /\ Len(query'.found) < QueryLimit =>
            {e \in query'.known : Of(query'.of, e)} \subseteq ToSet(query'.found)
    BY <1>5, <1>6, <1>9, <1>10, <2>2, <2>3
  <2>5. QED
    BY <1>8, <2>1, <2>4 DEF QueryFit, Of, Session, Readable
<1>12. QED
  BY <1>11

LEMMA SoughtReached ==
  ASSUME AuditAssumption, AuditTypes, query \in QueryRecord,
         Len(query.found) <= QueryLimit, Len(query.found) + Cardinality(Older) < QueryLimit
  PROVE  \A i \in DOMAIN logfile : Sought(i) => i \in Older
<1>1. logfile \in Seq(LogLine) /\ Len(logfile) \in Nat /\ DOMAIN logfile = 1..Len(logfile)
      /\ QueryLimit \in Nat /\ Len(query.found) \in Nat
  BY LenProperties DEF AuditTypes, AuditAssumption, QueryRecord
<1> DEFINE far == {i \in DOMAIN logfile : Sought(i) /\ ~Reached(i)}
<1>2. Older \subseteq 1..Len(logfile) /\ IsFiniteSet(Older) /\ Cardinality(Older) \in Nat
  <2>1. Older \subseteq 1..Len(logfile)
    BY <1>1 DEF Older
  <2>2. IsFiniteSet(1..Len(logfile))
    BY <1>1, FS_Interval
  <2>3. IsFiniteSet(Older)
    BY <2>1, <2>2, FS_Subset
  <2>4. QED
    BY <2>1, <2>3, FS_CardinalityType
<1>3. ASSUME far # {}
      PROVE  FALSE
  <2>1. far \in SUBSET (1..Len(logfile))
    BY <1>1
  <2>2. PICK i \in far : \A j \in far : j <= i
    BY <1>1, <1>3, <2>1, Greatest
  <2> DEFINE later == {j \in (i + 1)..Len(logfile) : Sought(j)}
  <2>3. i \in 1..Len(logfile) /\ ~Reached(i)
    BY <1>1, <2>2
  <2>4. later \subseteq Older
    <3> SUFFICES ASSUME NEW j \in later
                 PROVE  j \in Older
      OBVIOUS
    <3>1. j \in DOMAIN logfile /\ ~(j <= i) /\ Sought(j)
      BY <1>1, <2>3
    <3>2. j \notin far
      BY <2>2, <3>1
    <3>3. Reached(j)
      BY <3>1, <3>2
    <3>4. QED
      BY <3>1, <3>3 DEF Older
  <2>5. IsFiniteSet(later) /\ Cardinality(later) <= Cardinality(Older)
    BY <1>2, <2>4, FS_Subset
  <2>6. Cardinality(later) \in Nat
    BY <2>5, FS_CardinalityType
  <2>7. ~(Cardinality(later) < QueryLimit - Len(query.found))
    BY <2>3 DEF Reached, Missing
  <2> HIDE DEF later
  <2>8. QED
    BY <1>1, <1>2, <2>5, <2>6, <2>7
<1>4. QED
  BY <1>3 DEF Older

LEMMA QueryEnds ==
  ASSUME AuditAssumption, AuditFits, QueryFit, QueryFile
  PROVE  QueryFit'
<1> DEFINE entries == [i \in DOMAIN logfile |-> logfile[i].entry]
           older == Pick(entries, Older)
           all == older \o query.found
<1>1. /\ holder = "query" /\ query.answer = "none" /\ logfile' = logfile /\ uncut' = uncut
      /\ query' = IF \E i \in DOMAIN logfile : Reached(i) /\ ~Whole(logfile[i])
                  THEN [query EXCEPT !.answer = "error", !.known = {}]
                  ELSE [query EXCEPT !.answer = "ok", !.known = {}, !.found = all]
  BY DEF QueryFile
<1>2. /\ query \in QueryRecord
      /\ IsInjective(query.found) /\ Len(query.found) <= QueryLimit
      /\ ToSet(query.found) \subseteq query.known
      /\ query.must \subseteq {e \in Readable(logfile) : Of(query.of, e)}
      /\ Len(query.found) < QueryLimit =>
            {e \in query.known : Of(query.of, e)} \subseteq ToSet(query.found)
  BY <1>1 DEF QueryFit
<1>3. logfile \in Seq(LogLine) /\ Len(logfile) \in Nat /\ DOMAIN logfile = 1..Len(logfile)
      /\ \A i \in 1..Len(logfile) : logfile[i] \in LogLine /\ logfile[i].entry \in Entry
  <2>1. logfile \in Seq(LogLine)
    BY DEF AuditFits, AuditTypes
  <2>2. Len(logfile) \in Nat /\ DOMAIN logfile = 1..Len(logfile)
        /\ \A i \in 1..Len(logfile) : logfile[i] \in LogLine
    BY <2>1, LenProperties, ElementOfSeq
  <2>3. \A l \in LogLine : l.entry \in Entry
    BY DEF LogLine
  <2>4. QED
    BY <2>1, <2>2, <2>3
<1>4. uncut = 0 => \A i, j \in DOMAIN logfile : logfile[i].entry = logfile[j].entry => i = j
  <2> SUFFICES ASSUME uncut = 0, NEW i \in DOMAIN logfile, NEW j \in DOMAIN logfile,
                      logfile[i].entry = logfile[j].entry, i # j
               PROVE  FALSE
    OBVIOUS
  <2> DEFINE e == logfile[i].entry
             same == Copies(logfile, e)
  <2>1. e \in Entry /\ {i, j} \subseteq same
    BY <1>3 DEF Copies
  <2>2. holder \notin Logger
    BY <1>1, LoggerNames
  <2>3. Cardinality(same) <= 1
    BY <2>1, <2>2, AuditSound DEF EntriesKept
  <2>4. IsFiniteSet(same) /\ Cardinality(same) \in Nat
    BY <1>3, CopiesAreLines
  <2> HIDE DEF same, e
  <2>5. Cardinality({i, j}) = 2
    <3>1. IsFiniteSet({i}) /\ Cardinality({i}) = 1
      BY FS_Singleton
    <3>2. {i, j} = {i} \cup {j} /\ j \notin {i}
      OBVIOUS
    <3>3. Cardinality({i} \cup {j}) = Cardinality({i}) + 1
      BY <3>1, <3>2, FS_AddElement
    <3>4. QED
      BY <3>1, <3>2, <3>3
  <2>6. Cardinality({i, j}) <= Cardinality(same)
    BY <2>1, <2>4, FS_Subset
  <2>7. QED
    BY <2>3, <2>4, <2>5, <2>6
<1>5. entries \in Seq(Entry) /\ Len(entries) = Len(logfile)
      /\ \A i \in 1..Len(logfile) : entries[i] = logfile[i].entry
  <2>1. entries \in [1..Len(logfile) -> Entry]
    BY <1>3
  <2>2. \A i \in 1..Len(logfile) : entries[i] = logfile[i].entry
    BY <1>3
  <2> HIDE DEF entries
  <2>3. entries \in Seq(Entry)
    BY <1>3, <2>1, SeqDef
  <2>4. DOMAIN entries = 1..Len(logfile) /\ DOMAIN entries = 1..Len(entries) /\ Len(entries) \in Nat
    BY <2>1, <2>3, LenProperties
  <2>5. Len(entries) = Len(logfile)
    BY <1>3, <2>4
  <2>6. QED
    BY <2>2, <2>3, <2>5
<1> HIDE DEF entries
<1>6. Older \in SUBSET (1..Len(entries)) /\ \A i \in Older : Sought(i)
  BY <1>3, <1>5 DEF Older
<1>7. /\ older \in Seq(Entry) /\ Len(older) = Cardinality(Older)
      /\ ToSet(older) = {entries[i] : i \in Older}
      /\ uncut = 0 => IsInjective(older)
  <2>1. uncut = 0 => \A i, j \in Older : entries[i] = entries[j] => i = j
    BY <1>3, <1>4, <1>5, <1>6
  <2>2. /\ Pick(entries, Older) \in Seq(Entry) /\ Len(Pick(entries, Older)) = Cardinality(Older)
        /\ ToSet(Pick(entries, Older)) = {entries[i] : i \in Older}
        /\ (\A i, j \in Older : entries[i] = entries[j] => i = j)
             => IsInjective(Pick(entries, Older))
    <3>1. entries \in Seq(Entry) /\ Older \in SUBSET (1..Len(entries))
      BY <1>5, <1>6
    <3>2. QED
      BY <3>1, Picked
  <2>3. QED
    BY <2>1, <2>2
<1>8. \A x \in ToSet(older) : x \notin ToSet(query.found)
  <2> SUFFICES ASSUME NEW i \in Older
               PROVE  entries[i] \notin ToSet(query.found)
    BY <1>7
  <2>1. i \in 1..Len(logfile) /\ Sought(i)
    BY <1>5, <1>6
  <2>2. logfile[i].entry \notin query.known
    BY <2>1 DEF Sought, Known
  <2>3. QED
    BY <1>2, <1>5, <2>1, <2>2
<1> HIDE DEF older
<1> DEFINE found == query.found
<1>9. found \in Seq(Entry) /\ DOMAIN found = 1..Len(found) /\ DOMAIN older = 1..Len(older)
  <2>1. found \in Seq(Entry)
    BY <1>2 DEF QueryRecord
  <2> HIDE DEF found
  <2>2. QED
    BY <1>7, <2>1, LenProperties
<1>10. /\ all \in Seq(Entry) /\ Len(older) \in Nat /\ Len(found) \in Nat
       /\ Len(all) = Len(older) + Len(found)
       /\ DOMAIN all = 1..Len(older) + Len(found)
       /\ \A i \in 1..Len(older) : all[i] = older[i]
       /\ \A j \in 1..Len(found) : all[Len(older) + j] = found[j]
  <2> HIDE DEF found
  <2>1. older \in Seq(Entry) /\ found \in Seq(Entry)
    BY <1>7, <1>9
  <2>2. /\ older \o found \in Seq(Entry) /\ Len(older) \in Nat /\ Len(found) \in Nat
        /\ Len(older \o found) = Len(older) + Len(found)
        /\ DOMAIN (older \o found) = 1..Len(older) + Len(found)
        /\ \A i \in 1..Len(older) : (older \o found)[i] = older[i]
        /\ \A j \in 1..Len(found) : (older \o found)[Len(older) + j] = found[j]
    BY <2>1, Joined
  <2>3. all = older \o found
    BY DEF found
  <2> HIDE DEF all
  <2>4. QED
    BY <2>2, <2>3
<1> HIDE DEF found, all
<1>11. \A i \in DOMAIN all : \/ i \in 1..Len(older)
                             \/ i - Len(older) \in 1..Len(found)
                               /\ i = Len(older) + (i - Len(older))
  BY <1>10
<1>12. uncut = 0 => IsInjective(all)
  <2> SUFFICES ASSUME uncut = 0, NEW i \in DOMAIN all, NEW j \in DOMAIN all, all[i] = all[j]
               PROVE  i = j
    BY DEF IsInjective
  <2>1. \A k \in 1..Len(older), l \in 1..Len(found) : older[k] # found[l]
    BY <1>8, <1>9 DEF ToSet, found
  <2>2. \A k, l \in 1..Len(older) : older[k] = older[l] => k = l
    BY <1>7, <1>9 DEF IsInjective
  <2>3. \A k, l \in 1..Len(found) : found[k] = found[l] => k = l
    <3>1. IsInjective(found)
      BY <1>2 DEF found
    <3>2. QED
      BY <1>9, <3>1 DEF IsInjective
  <2>4. CASE i \in 1..Len(older) /\ j \in 1..Len(older)
    BY <1>10, <2>2, <2>4
  <2>5. CASE i \in 1..Len(older) /\ j - Len(older) \in 1..Len(found)
             /\ j = Len(older) + (j - Len(older))
    <3>1. all[i] = older[i] /\ all[j] = found[j - Len(older)]
      BY <1>10, <2>5
    <3>2. QED
      BY <2>1, <2>5, <3>1
  <2>6. CASE j \in 1..Len(older) /\ i - Len(older) \in 1..Len(found)
             /\ i = Len(older) + (i - Len(older))
    <3>1. all[j] = older[j] /\ all[i] = found[i - Len(older)]
      BY <1>10, <2>6
    <3>2. QED
      BY <2>1, <2>6, <3>1
  <2>7. CASE /\ i - Len(older) \in 1..Len(found) /\ i = Len(older) + (i - Len(older))
             /\ j - Len(older) \in 1..Len(found) /\ j = Len(older) + (j - Len(older))
    <3>1. all[j] = found[j - Len(older)] /\ all[i] = found[i - Len(older)]
      BY <1>10, <2>7
    <3>2. i - Len(older) = j - Len(older)
      BY <2>3, <2>7, <3>1
    <3>3. QED
      BY <1>10, <2>7, <3>2
  <2>8. QED
    BY <1>11, <2>4, <2>5, <2>6, <2>7
<1>13. ToSet(older) \subseteq ToSet(all) /\ ToSet(found) \subseteq ToSet(all)
  <2>1. \A i \in 1..Len(older) : i \in DOMAIN all
    BY <1>10
  <2>2. \A j \in 1..Len(found) : Len(older) + j \in DOMAIN all
    BY <1>10
  <2>3. QED
    BY <1>9, <1>10, <2>1, <2>2 DEF ToSet
<1>14. ASSUME Len(all) < QueryLimit
       PROVE  query.must \subseteq ToSet(all)
  <2> SUFFICES ASSUME NEW e \in query.must
               PROVE  e \in ToSet(all)
    OBVIOUS
  <2>1. Len(query.found) + Cardinality(Older) < QueryLimit /\ Len(query.found) < QueryLimit
    <3>1. QueryLimit \in Nat /\ Len(found) \in Nat /\ Len(older) \in Nat
      BY <1>10 DEF AuditAssumption
    <3>2. Len(found) + Len(older) < QueryLimit /\ Len(found) < QueryLimit
      BY <1>10, <1>14, <3>1
    <3>3. QED
      BY <1>7, <3>2 DEF found
  <2>2. e \in Readable(logfile) /\ Of(query.of, e)
    BY <1>2
  <2>3. PICK i \in DOMAIN logfile : e = logfile[i].entry /\ Whole(logfile[i])
    BY <2>2 DEF Readable, ToSet
  <2>4. CASE e \in query.known
    <3>1. e \in ToSet(query.found)
      BY <1>2, <2>1, <2>2, <2>4
    <3>2. QED
      BY <1>13, <3>1 DEF found
  <2>5. CASE e \notin query.known
    <3>1. Sought(i)
      BY <2>2, <2>3, <2>5 DEF Sought, Known
    <3>2. i \in Older
      <4>1. AuditTypes /\ query \in QueryRecord /\ Len(query.found) <= QueryLimit
        BY <1>2 DEF AuditFits
      <4>2. QED
        BY <2>1, <3>1, <4>1, SoughtReached
    <3>3. e \in ToSet(older)
      BY <1>3, <1>5, <1>7, <2>3, <3>2
    <3>4. QED
      BY <1>13, <3>3
  <2>6. QED
    BY <2>4, <2>5
<1>15. CASE query' = [query EXCEPT !.answer = "error", !.known = {}]
  <2>1. query' \in QueryRecord /\ query'.answer = "error"
    <3>1. query \in QueryRecord
      BY <1>2
    <3>2. QED
      BY <1>15, <3>1 DEF QueryRecord
  <2>2. QED
    BY <2>1 DEF QueryFit, QueryIsComplete
<1>16. CASE query' = [query EXCEPT !.answer = "ok", !.known = {}, !.found = all]
  <2>1. query' \in QueryRecord /\ query'.answer = "ok" /\ query'.found = all
        /\ query'.must = query.must
    <3>1. query \in QueryRecord /\ all \in Seq(Entry)
      BY <1>2, <1>10
    <3>2. QED
      BY <1>16, <3>1 DEF QueryRecord
  <2> HIDE DEF all
  <2>2. QueryIsComplete'
    <3>1. uncut' = uncut
      BY <1>1
    <3>2. QED
      BY <1>12, <1>14, <2>1, <3>1 DEF QueryIsComplete
  <2>3. QED
    BY <2>1, <2>2 DEF QueryFit
<1>17. QED
  BY <1>1, <1>15, <1>16

LEMMA RecentGrows ==
  ASSUME AuditAssumption, AuditFits, RecentFit, NEW t \in Logger, Log(t)
  PROVE  RecentFit'
<1> DEFINE e == <<t, task[t].entry + 1>>
           all == Append(recent, e)
<1>1. /\ recent \in Seq(Entry) /\ HistorySize \in Nat /\ task[t].entry \in 0..PerTask
      /\ PerTask \in Nat /\ task[t].entry < PerTask /\ \A u \in Logger : task[u].entry \in Nat
  BY DEF AuditFits, AuditTypes, AuditAssumption, Log
<1>2. recent' = LastOf(all, HistorySize)
  BY DEF Log
<1>3. e \in Entry /\ e[1] = t /\ e[2] = task[t].entry + 1
  BY <1>1 DEF Entry
<1>4. /\ \A u \in Logger : task'[u].entry = IF u = t THEN e[2] ELSE task[u].entry
  BY <1>3, LogMoves DEF AuditFits
<1> HIDE DEF e
<1>5. Len(recent) \in Nat /\ DOMAIN recent = 1..Len(recent)
      /\ \A i \in 1..Len(recent) : recent[i] \in Entry
  BY <1>1, LenProperties, ElementOfSeq
<1>6. /\ all \in Seq(Entry) /\ DOMAIN all = 1..Len(recent) + 1
      /\ \A i \in 1..Len(recent) : all[i] = recent[i]
      /\ all[Len(recent) + 1] = e
  BY <1>1, <1>3, <1>5, AppendProperties, LenProperties
<1> HIDE DEF all
<1>7. \A x \in Entry : x[1] \in Logger /\ x[2] \in Nat
  BY DEF Entry
<1>8. \A i \in 1..Len(recent) : recent[i] # e
  <2> TAKE i \in 1..Len(recent)
  <2>1. recent[i][2] <= task[recent[i][1]].entry
    BY <1>5 DEF RecentFit
  <2>2. task[t].entry \in Nat
    BY <1>1
  <2>3. ~(e[2] <= task[e[1]].entry)
    BY <1>3, <2>2
  <2>4. QED
    BY <2>1, <2>3
<1>9. \A i \in DOMAIN all : i \in 1..Len(recent) \/ i = Len(recent) + 1
  BY <1>5, <1>6
<1>10. IsInjective(all)
  <2>1. \A i, j \in 1..Len(recent) : recent[i] = recent[j] => i = j
    BY <1>5 DEF RecentFit, IsInjective
  <2>2. QED
    BY <1>6, <1>8, <1>9, <2>1 DEF IsInjective
<1>11. \A x \in ToSet(all) : x[2] <= task'[x[1]].entry
  <2> SUFFICES ASSUME NEW i \in DOMAIN all
               PROVE  all[i][2] <= task'[all[i][1]].entry
    BY DEF ToSet
  <2>1. CASE i = Len(recent) + 1
    <3>1. all[i] = e /\ task'[e[1]].entry = e[2] /\ e[2] \in Nat
      BY <1>3, <1>4, <1>6, <1>7, <2>1
    <3>2. QED
      BY <3>1
  <2>2. CASE i \in 1..Len(recent)
    <3> DEFINE x == recent[i]
    <3>1. all[i] = x /\ x \in Entry /\ x[1] \in Logger /\ x[2] \in Nat
          /\ x[2] <= task[x[1]].entry
      BY <1>5, <1>6, <1>7, <2>2 DEF RecentFit
    <3> HIDE DEF x
    <3>2. x[2] <= task'[x[1]].entry
      <4>1. CASE x[1] = t
        BY <1>1, <1>3, <1>4, <3>1, <4>1
      <4>2. CASE x[1] # t
        BY <1>4, <3>1, <4>2
      <4>3. QED
        BY <4>1, <4>2
    <3>3. QED
      BY <3>1, <3>2
  <2>3. QED
    BY <1>9, <2>1, <2>2
<1>12. /\ LastOf(all, HistorySize) \in Seq(Entry)
       /\ ToSet(LastOf(all, HistorySize)) \subseteq ToSet(all)
       /\ IsInjective(all) => IsInjective(LastOf(all, HistorySize))
  BY <1>1, <1>6, LastOfFacts
<1>13. IsInjective(recent') /\ \A x \in ToSet(recent') : x[2] <= task'[x[1]].entry
  BY <1>2, <1>10, <1>11, <1>12
<1>14. \A i \in DOMAIN recent' : recent'[i][2] <= task'[recent'[i][1]].entry
  BY <1>13 DEF ToSet
<1>15. QED
  BY <1>13, <1>14 DEF RecentFit, IsInjective

LEMMA QueryInitial == AuditAssumption /\ AuditInit => RecentFit /\ QueryFit
<1> SUFFICES ASSUME AuditInit, AuditAssumption
             PROVE  RecentFit /\ QueryFit
  OBVIOUS
<1>1. RecentFit
  BY DEF AuditInit, RecentFit, IsInjective
<1>2. query \in QueryRecord /\ query.answer = "none" /\ holder # "query"
  BY DEF AuditInit, NoQuery, QueryRecord, NoHolder
<1>3. QED
  BY <1>1, <1>2 DEF QueryFit, QueryIsComplete

LEMMA QueryInductive ==
  ASSUME AuditAssumption, AuditFits, RecentFit, QueryFit, [AuditNext]_avars
  PROVE  RecentFit' /\ QueryFit'
<1> USE LoggerNames
<1>0. AuditTypes /\ SinkFits
  BY DEF AuditFits
<1>1. ASSUME NEW t \in Logger, LogStep(t)
      PROVE  RecentFit' /\ QueryFit'
  <2>1. query' = query /\ (uncut' = 0 => uncut = 0)
    <3>1. uncut \in Nat
      BY <1>0 DEF AuditTypes
    <3>2. query' = query
      BY <1>1 DEF LogStep, Log, PushBuffer, CheckBuffer, FlushNothing, Drain, WriteAndSync,
                  SinkFails, Rollback, FlushRefused, RollbackFails, GiveBack
    <3>3. CASE RollbackFails(t)
      BY <3>1, <3>2, <3>3 DEF RollbackFails
    <3>4. CASE ~RollbackFails(t)
      <4>1. uncut' = uncut
        BY <1>1, <3>4 DEF LogStep, Log, PushBuffer, CheckBuffer, FlushNothing, Drain,
                          WriteAndSync, SinkFails, Rollback, FlushRefused
      <4>2. QED
        BY <3>2, <4>1
    <3>5. QED
      BY <3>3, <3>4
  <2>2. holder' # "query" \/ UNCHANGED <<holder, logfile>>
    <3>1. CASE task[t].at \in {"write", "rollback"}
      <4>1. holder = t
        BY <1>0, <3>1 DEF SinkFits
      <4>2. holder' \in {t, NoHolder}
        BY <1>1, <3>1, <4>1 DEF LogStep, Log, PushBuffer, CheckBuffer, FlushNothing, Drain,
                                WriteAndSync, SinkFails, Rollback, FlushRefused, RollbackFails, GiveBack
      <4>3. QED
        BY <4>2
    <3>2. CASE task[t].at \notin {"write", "rollback"}
      BY <1>1, <3>2 DEF LogStep, Log, PushBuffer, CheckBuffer, FlushNothing, Drain,
                        WriteAndSync, SinkFails, Rollback, FlushRefused, RollbackFails, GiveBack
    <3>3. QED
      BY <3>1, <3>2
  <2>3. QueryFit'
    BY <2>1, <2>2, QueryStays
  <2>4. CASE Log(t)
    BY <2>3, <2>4, RecentGrows
  <2>5. CASE ~Log(t)
    <3>1. recent' = recent
      BY <1>1, <2>5 DEF LogStep, PushBuffer, CheckBuffer, FlushNothing, Drain, WriteAndSync,
                        SinkFails, Rollback, FlushRefused, RollbackFails, GiveBack
    <3>2. PICK a \in {"idle", "check", "flush", "write", "rollback"} :
            Moves(t, a) /\ task[t].at # "idle"
      BY <1>1, <2>5 DEF LogStep, PushBuffer, CheckBuffer, FlushNothing, Drain, WriteAndSync,
                        SinkFails, Rollback, FlushRefused, RollbackFails, GiveBack, Returns
    <3>3. \A u \in Logger : task'[u].entry = task[u].entry
      BY <1>0, <3>2, TaskMoves
    <3>4. \A i \in DOMAIN recent : recent[i][1] \in Logger
      BY <1>0, LenProperties, ElementOfSeq DEF AuditTypes, Entry
    <3>5. RecentFit'
      BY <3>1, <3>3, <3>4 DEF RecentFit, IsInjective
    <3>6. QED
      BY <2>3, <3>5
  <2>6. QED
    BY <2>4, <2>5
<1>2. ASSUME UNCHANGED <<recent, task>>
      PROVE  RecentFit'
  BY <1>2 DEF RecentFit, IsInjective
<1>3. CASE StartQuery
  BY <1>2, <1>3, QueryBegins DEF StartQuery, QueryHistory
<1>4. CASE QueryFile
  BY <1>2, <1>4, QueryEnds DEF QueryFile
<1>10. CASE QueryReturns
  <2>1. query' = NoQuery /\ NoQuery \in QueryRecord /\ NoQuery.answer = "none" /\ holder' # "query"
    BY <1>10 DEF QueryReturns, NoQuery, QueryRecord, NoHolder
  <2>2. QueryFit'
    BY <2>1 DEF QueryFit, QueryIsComplete
  <2>3. QED
    BY <1>2, <1>10, <2>2 DEF QueryReturns
<1>5. CASE DropLogger
  <2>1. recent' = <<>> /\ query' = query /\ holder' # "query" /\ uncut' = uncut
    BY <1>5 DEF DropLogger, Quiet
  <2>2. QED
    BY <2>1, QueryStays DEF RecentFit, IsInjective
<1>6. CASE Crash
  <2>1. recent' = <<>> /\ query' = NoQuery /\ holder' # "query"
    BY <1>6 DEF Crash
  <2>2. RecentFit'
    BY <2>1 DEF RecentFit, IsInjective
  <2>3. query' \in QueryRecord /\ query'.answer = "none"
    BY <2>1 DEF NoQuery, QueryRecord
  <2>4. QED
    BY <2>1, <2>2, <2>3 DEF QueryFit, QueryIsComplete
<1>7. CASE OpenFile
  BY <1>2, <1>7, QueryStays DEF OpenFile
<1>8. CASE UNCHANGED avars
  BY <1>2, <1>8, QueryStays DEF avars
<1>9. QED
  BY <1>1, <1>3, <1>4, <1>5, <1>6, <1>7, <1>8, <1>10 DEF AuditNext

-----------------------------------------------------------------------------
(* The scores of the tools: the table and what the programs hold of it.    *)

Told == Outcomes \cup {"validation_failure", "policy_denial"}
SampleRecord == [tool : Tools, outcome : Told, at : Nat, n : Nat]
OncePerNumber(seq) == \A i, j \in DOMAIN seq : seq[i].n = seq[j].n => i = j

LEMMA OfToolAppend ==
  ASSUME NEW seq \in Seq(SampleRecord), NEW s \in SampleRecord, NEW t
  PROVE  /\ OfTool(seq, t) \in Seq(SampleRecord)
         /\ OfTool(Append(seq, s), t) = IF s.tool = t THEN Append(OfTool(seq, t), s)
                                                      ELSE OfTool(seq, t)
<1> DEFINE all == Append(seq, s)
           S == {i \in DOMAIN seq : seq[i].tool = t}
           R == {i \in DOMAIN all : all[i].tool = t}
           last == Len(seq) + 1
<1>1. /\ all \in Seq(SampleRecord) /\ Len(all) = last /\ all[last] = s
      /\ \A i \in 1..Len(seq) : all[i] = seq[i]
  BY AppendProperties
<1>2. DOMAIN seq = 1..Len(seq) /\ Len(seq) \in Nat
  BY LenProperties
<1>3. DOMAIN all = 1..last
  BY <1>1, LenProperties
<1>4. OfTool(seq, t) = Pick(seq, S) /\ OfTool(all, t) = Pick(all, R)
  BY DEF OfTool
<1> HIDE DEF all
<1>5. R = IF s.tool = t THEN S \cup {last} ELSE S
  <2>1. \A i \in DOMAIN all : i \in DOMAIN seq \/ i = last
    BY <1>2, <1>3
  <2>2. \A i \in DOMAIN seq : i \in DOMAIN all
    BY <1>2, <1>3
  <2>3. last \in DOMAIN all
    BY <1>2, <1>3
  <2> HIDE DEF last
  <2>4. QED
    BY <1>1, <1>2, <2>1, <2>2, <2>3
<1>6. S \in SUBSET (1..Len(seq))
  BY <1>2
<1> HIDE DEF S, R, last
<1>7. Pick(Append(seq, s), S) = Pick(seq, S)
      /\ Pick(Append(seq, s), S \cup {Len(seq) + 1}) = Append(Pick(seq, S), s)
  BY <1>6, PickAppend
<1>8. Pick(seq, S) \in Seq(SampleRecord)
  BY <1>6, Picked
<1>9. QED
  BY <1>4, <1>5, <1>7, <1>8 DEF all, last

(* The rows of the sample's tool are trimmed to the window, the others     *)
(* stay as they are.                                                       *)
LEMMA AppendedFacts ==
  ASSUME NEW table \in Seq(SampleRecord), NEW s \in SampleRecord, ReliabilityAssumption,
         OncePerNumber(Append(table, s))
  PROVE  /\ Appended(table, s) \in Seq(SampleRecord)
         /\ ToSet(Appended(table, s)) \subseteq ToSet(Append(table, s))
         /\ OncePerNumber(Appended(table, s))
         /\ OfTool(Appended(table, s), s.tool) = Trim(Append(OfTool(table, s.tool), s))
         /\ \A t : t # s.tool => OfTool(Appended(table, s), t) = OfTool(table, t)
<1> DEFINE all == Append(table, s)
           size == Len(all)
           Mine(t) == {i \in 1..size : all[i].tool = t}
           mine == Mine(s.tool)
           picked == Pick(all, mine)
           lastOnes == {k \in 1..Len(picked) : k > Len(picked) - Window}
           rest == {Nth(mine, k) : k \in lastOnes}
           kept == Trim(OfTool(all, s.tool))
           K == {i \in DOMAIN all : all[i].tool # s.tool \/ Contains(kept, all[i])}
           new == Pick(all, K)
<1>1. /\ all \in Seq(SampleRecord) /\ DOMAIN all = 1..size /\ size \in Nat
      /\ \A i \in 1..size : all[i] \in SampleRecord
      /\ \A i, j \in 1..size : all[i] = all[j] => i = j
  <2>1. all \in Seq(SampleRecord)
    BY AppendProperties
  <2>2. OncePerNumber(all)
    OBVIOUS
  <2> HIDE DEF all
  <2>3. DOMAIN all = 1..size /\ size \in Nat /\ \A i \in 1..size : all[i] \in SampleRecord
    BY <2>1, LenProperties, ElementOfSeq
  <2>4. QED
    BY <2>1, <2>2, <2>3 DEF OncePerNumber
<1>2. Appended(table, s) = new
  BY DEF Appended
<1>3. \A t : OfTool(all, t) = Pick(all, Mine(t))
  BY <1>1 DEF OfTool
<1>4. Window \in Nat
  BY DEF ReliabilityAssumption
<1> HIDE DEF all
<1>5. mine \in SUBSET (1..Len(all)) /\ \A t : Mine(t) \in SUBSET (1..Len(all))
  OBVIOUS
<1> HIDE DEF size, mine
<1>6. /\ picked \in Seq(SampleRecord) /\ Len(picked) = Cardinality(mine)
      /\ \A n \in 1..Cardinality(mine) : Nth(mine, n) \in mine
      /\ Cardinality(mine) \in Nat
  BY <1>1, <1>5, PickFacts
<1> HIDE DEF picked
<1>7. kept = Pick(all, rest)
  <2>1. LastOf(picked, Window) = Pick(picked, lastOnes)
    BY <1>4, <1>6, LastIsPick
  <2>2. lastOnes \in SUBSET (1..Cardinality(mine))
    BY <1>6
  <2> HIDE DEF lastOnes
  <2>3. Pick(Pick(all, mine), lastOnes) = Pick(all, {Nth(mine, k) : k \in lastOnes})
    BY <1>1, <1>5, <2>2, PickPick
  <2>4. kept = LastOf(picked, Window)
    BY <1>3 DEF Trim, picked, mine
  <2> HIDE DEF kept
  <2>5. QED
    BY <2>1, <2>3, <2>4 DEF picked
<1>8. rest \subseteq mine
  BY <1>6
<1> HIDE DEF lastOnes, rest, kept
<1>9. rest \in SUBSET (1..Len(all))
  BY <1>5, <1>8
<1>10. ToSet(kept) = {all[i] : i \in rest} /\ kept \in Seq(SampleRecord)
  <2>1. Pick(all, rest) \in Seq(SampleRecord)
        /\ ToSet(Pick(all, rest)) = {all[i] : i \in rest}
    <3>1. all \in Seq(SampleRecord)
      BY <1>1
    <3>2. QED
      BY <1>9, <3>1, Picked
  <2>2. QED
    BY <1>7, <2>1
<1>11. \A x : Contains(kept, x) <=> x \in {all[i] : i \in rest}
  <2>1. DOMAIN kept = 1..Len(kept)
    BY <1>10, LenProperties
  <2>2. \A x : Contains(kept, x) <=> x \in ToSet(kept)
    BY <2>1 DEF Contains, ToSet
  <2>3. QED
    BY <1>10, <2>2
<1>12. K = {i \in 1..Len(all) : all[i].tool # s.tool} \cup rest
  <2>1. \A i \in 1..Len(all) : Contains(kept, all[i]) <=> i \in rest
    BY <1>1, <1>9, <1>11 DEF size
  <2>2. DOMAIN all = 1..Len(all)
    BY <1>1 DEF size
  <2>3. QED
    BY <1>9, <2>1, <2>2
<1>13. K \in SUBSET (1..Len(all))
  BY <1>9, <1>12
<1> HIDE DEF K
<1>14. /\ new \in Seq(SampleRecord) /\ Len(new) = Cardinality(K) /\ Cardinality(K) \in Nat
       /\ \A n \in 1..Cardinality(K) : Nth(K, n) \in K /\ new[n] = all[Nth(K, n)]
       /\ \A i \in K : \E n \in 1..Cardinality(K) : Nth(K, n) = i
       /\ \A m, n \in 1..Cardinality(K) : m < n => Nth(K, m) < Nth(K, n)
  BY <1>1, <1>13, PickFacts
<1>15. DOMAIN new = 1..Cardinality(K)
  BY <1>14, LenProperties
<1> HIDE DEF new
<1>16. \A t : OfTool(new, t) = Pick(all, {i \in K : all[i].tool = t})
  <2> TAKE t
  <2> DEFINE M == {n \in 1..Cardinality(K) : new[n].tool = t}
  <2>1. OfTool(new, t) = Pick(new, M)
    BY <1>15 DEF OfTool
  <2>2. {Nth(K, n) : n \in M} = {i \in K : all[i].tool = t}
    BY <1>14
  <2>3. M \in SUBSET (1..Cardinality(K))
    OBVIOUS
  <2> HIDE DEF M
  <2>4. Pick(Pick(all, K), M) = Pick(all, {Nth(K, n) : n \in M})
    BY <1>1, <1>13, <2>3, PickPick
  <2>5. QED
    BY <2>1, <2>2, <2>4 DEF new
<1>17. OfTool(new, s.tool) = Trim(Append(OfTool(table, s.tool), s))
  <2>1. {i \in K : all[i].tool = s.tool} = rest
    BY <1>8, <1>12 DEF mine
  <2>2. OfTool(new, s.tool) = kept
    BY <1>7, <1>16, <2>1
  <2>3. OfTool(all, s.tool) = Append(OfTool(table, s.tool), s)
    BY OfToolAppend DEF all
  <2>4. QED
    BY <2>2, <2>3 DEF kept
<1>18. ASSUME NEW t, t # s.tool
       PROVE  OfTool(new, t) = OfTool(table, t)
  <2>1. {i \in K : all[i].tool = t} = Mine(t)
    BY <1>8, <1>9, <1>12, <1>18 DEF mine, size
  <2>2. OfTool(new, t) = OfTool(all, t)
    BY <1>3, <1>16, <2>1
  <2>3. OfTool(all, t) = OfTool(table, t)
    BY <1>18, OfToolAppend DEF all
  <2>4. QED
    BY <2>2, <2>3
<1>19. ToSet(new) \subseteq ToSet(all)
  <2>1. \A n \in 1..Cardinality(K) : Nth(K, n) \in DOMAIN all
    BY <1>1, <1>13, <1>14 DEF size
  <2>2. ToSet(new) = {new[n] : n \in 1..Cardinality(K)}
    BY <1>15 DEF ToSet
  <2>3. ToSet(all) = {all[i] : i \in DOMAIN all}
    BY DEF ToSet
  <2>4. QED
    BY <1>14, <2>1, <2>2, <2>3
<1>20. OncePerNumber(new)
  <2> SUFFICES ASSUME NEW m \in 1..Cardinality(K), NEW n \in 1..Cardinality(K),
                      new[m].n = new[n].n
               PROVE  m = n
    BY <1>15 DEF OncePerNumber
  <2>1. Nth(K, m) \in DOMAIN all /\ Nth(K, n) \in DOMAIN all
    BY <1>1, <1>13, <1>14 DEF size
  <2>2. Nth(K, m) = Nth(K, n)
    BY <1>14, <2>1 DEF OncePerNumber, all
  <2>3. Nth(K, m) \in Nat /\ Nth(K, n) \in Nat
    BY <1>1, <2>1
  <2>4. ~(m < n) /\ ~(n < m)
    BY <1>14, <2>2, <2>3
  <2>5. QED
    BY <1>14, <2>4
<1>21. QED
  BY <1>2, <1>14, <1>17, <1>18, <1>19, <1>20 DEF all

RelTypes ==
  /\ rows \in Seq(SampleRecord) /\ samples \in Nat /\ clock \in Nat
  /\ held \in [Programs -> [open : BOOLEAN, of : [Tools -> Seq(SampleRecord)]]]
  /\ flights \subseteq [by : Programs, sample : SampleRecord]
  /\ apart \subseteq Programs

(* A sample has a number of its own and is in the table or on its way.     *)
Numbered ==
  /\ OncePerNumber(rows)
  /\ \A i \in DOMAIN rows : rows[i].n < samples
  /\ \A f \in flights : f.sample.n < samples /\ held[f.by].open
  /\ \A f \in flights, i \in DOMAIN rows : rows[i].n # f.sample.n
  /\ \A f, g \in flights : f.sample.n = g.sample.n => f = g

(* What is on its way to the table from a program, in order.               *)
Awaiting(fs, p, t) == {f.sample : f \in {g \in fs : g.by = p /\ g.sample.tool = t}}
FlightsInOrder(q, all) ==
  /\ q \in Seq(SampleRecord) /\ ToSet(q) = all
  /\ \A i, j \in DOMAIN q : i < j => q[i].n < q[j].n

(* The table with what is on its way is what the program remembers.        *)
Agrees(seq, table, all) ==
  \E q : FlightsInOrder(q, all) /\ seq = Trim(table \o q)
AllAgree ==
  \A p \in Programs \ apart : held[p].open =>
    \A t \in Tools : Agrees(held[p].of[t], OfTool(rows, t), Awaiting(flights, p, t))

RelFits == RelTypes /\ Numbered /\ AllAgree

LEMMA NothingAwaited ==
  ASSUME NEW table \in Seq(SampleRecord)
  PROVE  /\ Agrees(Trim(table), table, {})
         /\ \A seq : Agrees(seq, table, {}) => seq = Trim(table)
<1>1. FlightsInOrder(<<>>, {})
  BY DEF FlightsInOrder, ToSet
<1>2. table \o <<>> = table
  BY ConcatEmptySeq
<1>3. \A q : FlightsInOrder(q, {}) => q = <<>>
  <2> SUFFICES ASSUME NEW q, FlightsInOrder(q, {}), q # <<>>
               PROVE  FALSE
    OBVIOUS
  <2>1. q \in Seq(SampleRecord) /\ ToSet(q) = {}
    BY DEF FlightsInOrder
  <2>2. 1 \in DOMAIN q
    BY <2>1, EmptySeq, LenProperties
  <2>3. QED
    BY <2>1, <2>2 DEF ToSet
<1>4. QED
  BY <1>1, <1>2, <1>3 DEF Agrees

LEMMA AgreeRecord ==
  ASSUME ReliabilityAssumption, NEW table \in Seq(SampleRecord), NEW seq, NEW all,
         Agrees(seq, table, all), NEW s \in SampleRecord, \A x \in all : x.n < s.n
  PROVE  Agrees(Trim(Append(seq, s)), table, all \cup {s})
<1>1. PICK q : FlightsInOrder(q, all) /\ seq = Trim(table \o q)
  BY DEF Agrees
<1> DEFINE r == q \o <<s>>
           one == <<s>>
           z == table \o q
<1>2. q \in Seq(SampleRecord) /\ Len(q) \in Nat /\ DOMAIN q = 1..Len(q)
  BY <1>1, LenProperties DEF FlightsInOrder
<1>3. one \in Seq(SampleRecord)
  OBVIOUS
<1>4. r = Append(q, s)
  BY <1>2, AppendIsConcat
<1>5. /\ r \in Seq(SampleRecord) /\ DOMAIN r = 1..Len(q) + 1
      /\ \A i \in 1..Len(q) : r[i] = q[i]
      /\ r[Len(q) + 1] = s
  <2>1. /\ Append(q, s) \in Seq(SampleRecord) /\ Len(Append(q, s)) = Len(q) + 1
        /\ \A i \in 1..Len(q) : Append(q, s)[i] = q[i]
        /\ Append(q, s)[Len(q) + 1] = s
    BY <1>2, AppendProperties
  <2> HIDE DEF r
  <2>2. r \in Seq(SampleRecord) /\ Len(r) = Len(q) + 1
    BY <1>4, <2>1
  <2>3. DOMAIN r = 1..Len(q) + 1
    BY <2>2, LenProperties
  <2>4. QED
    BY <1>4, <2>1, <2>2, <2>3
<1>6. z \in Seq(SampleRecord)
  BY <1>2, ConcatProperties
<1>7. Trim(Append(seq, s)) = Trim(table \o r)
  <2>1. LastOf(z, Window) \in Seq(SampleRecord) /\ Window \in Nat
    BY <1>6, LastOfFacts DEF ReliabilityAssumption
  <2> DEFINE y == LastOf(z, Window)
  <2>2. y \in Seq(SampleRecord)
    BY <2>1
  <2>3. seq = y
    BY <1>1 DEF Trim
  <2> HIDE DEF y
  <2>4. Append(seq, s) = y \o one
    BY <2>2, <2>3, AppendIsConcat
  <2> HIDE DEF z, one
  <2>5. LastOf(LastOf(z, Window) \o one, Window) = LastOf(z \o one, Window)
    BY <1>3, <1>6, <2>1, LastAfter
  <2>6. z \o one = table \o r
    BY <1>2, <1>3, ConcatAssociative DEF z, one
  <2> HIDE DEF r
  <2>7. QED
    BY <2>4, <2>5, <2>6 DEF Trim, y
<1> HIDE DEF r
<1>8. FlightsInOrder(r, all \cup {s})
  <2>1. \A i \in DOMAIN r : i \in 1..Len(q) \/ i = Len(q) + 1
    BY <1>2, <1>5
  <2>2. ToSet(q) = all /\ \A i, j \in 1..Len(q) : i < j => q[i].n < q[j].n
    BY <1>1, <1>2 DEF FlightsInOrder
  <2>3. \A i \in 1..Len(q) : q[i] \in all
    BY <1>2, <2>2 DEF ToSet
  <2>4. ToSet(r) = all \cup {s}
    <3>1. \A i \in 1..Len(q) : i \in DOMAIN r
      BY <1>2, <1>5
    <3>2. Len(q) + 1 \in DOMAIN r
      BY <1>2, <1>5
    <3>3. ToSet(r) = {r[i] : i \in DOMAIN r}
      BY DEF ToSet
    <3>4. all = {q[i] : i \in 1..Len(q)}
      BY <1>2, <2>2 DEF ToSet
    <3>5. QED
      BY <1>5, <2>1, <3>1, <3>2, <3>3, <3>4
  <2>5. ASSUME NEW i \in DOMAIN r, NEW j \in DOMAIN r, i < j
        PROVE  r[i].n < r[j].n
    <3>1. i \in 1..Len(q)
      BY <1>2, <1>5, <2>5
    <3>2. CASE j \in 1..Len(q)
      BY <1>5, <2>2, <2>5, <3>1, <3>2
    <3>3. CASE j = Len(q) + 1
      BY <1>5, <2>3, <3>1, <3>3
    <3>4. QED
      BY <2>1, <3>2, <3>3
  <2>6. QED
    BY <1>5, <2>4, <2>5 DEF FlightsInOrder
<1>9. QED
  BY <1>7, <1>8 DEF Agrees

LEMMA AgreeAppend ==
  ASSUME ReliabilityAssumption, NEW table \in Seq(SampleRecord), NEW seq, NEW all,
         Agrees(seq, table, all), NEW s \in SampleRecord, s \in all,
         \A x \in all : ~(x.n < s.n)
  PROVE  Agrees(seq, Trim(Append(table, s)), all \ {s})
<1>1. PICK q : FlightsInOrder(q, all) /\ seq = Trim(table \o q)
  BY DEF Agrees
<1>2. /\ q \in Seq(SampleRecord) /\ Len(q) \in Nat /\ DOMAIN q = 1..Len(q)
      /\ \A i \in 1..Len(q) : q[i] \in SampleRecord
      /\ ToSet(q) = all
      /\ \A i, j \in 1..Len(q) : i < j => q[i].n < q[j].n
  <2>1. q \in Seq(SampleRecord)
    BY <1>1 DEF FlightsInOrder
  <2>2. Len(q) \in Nat /\ DOMAIN q = 1..Len(q) /\ \A i \in 1..Len(q) : q[i] \in SampleRecord
    BY <2>1, LenProperties, ElementOfSeq
  <2>3. QED
    BY <1>1, <2>1, <2>2 DEF FlightsInOrder
<1>3. PICK i \in 1..Len(q) : q[i] = s
  BY <1>2 DEF ToSet
<1>4. i = 1
  <2> SUFFICES ASSUME i # 1
               PROVE  FALSE
    OBVIOUS
  <2>1. 1 \in 1..Len(q) /\ 1 < i
    BY <1>2
  <2>2. q[1] \in all /\ q[1].n < s.n
    BY <1>2, <1>3, <2>1 DEF ToSet
  <2>3. QED
    BY <2>2
<1> DEFINE r == Tail(q)
           one == <<s>>
           z == table \o one
<1>5. q # <<>> /\ 1 \in 1..Len(q)
  BY <1>2, <1>3, <1>4
<1>6. /\ r \in Seq(SampleRecord) /\ Len(r) = Len(q) - 1
      /\ \A k \in 1..Len(r) : r[k] = q[k + 1]
  BY <1>2, <1>5, HeadTailProperties
<1>7. DOMAIN r = 1..Len(q) - 1
  BY <1>6, LenProperties
<1> HIDE DEF r
<1>8. one \in Seq(SampleRecord) /\ Len(one) = 1 /\ one[1] = s
  OBVIOUS
<1> HIDE DEF one
<1>9. q = one \o r
  <2>1. /\ one \o r \in Seq(SampleRecord) /\ Len(one \o r) = Len(one) + Len(r)
        /\ \A k \in 1..Len(one) : (one \o r)[k] = one[k]
        /\ \A k \in 1..Len(r) : (one \o r)[Len(one) + k] = r[k]
    <3>1. one \in Seq(SampleRecord) /\ r \in Seq(SampleRecord)
      BY <1>6, <1>8
    <3>2. QED
      BY <3>1, Joined
  <2> DEFINE u == one \o r
  <2>2. /\ u \in Seq(SampleRecord) /\ Len(u) = Len(q) /\ u[1] = s
        /\ \A k \in 1..Len(q) - 1 : u[1 + k] = q[k + 1]
    BY <1>2, <1>6, <1>8, <2>1
  <2> HIDE DEF u
  <2>3. ASSUME NEW k \in 1..Len(q)
        PROVE  q[k] = u[k]
    <3>1. CASE k = 1
      BY <1>3, <1>4, <2>2, <3>1
    <3>2. CASE k # 1
      <4>1. k - 1 \in 1..Len(q) - 1 /\ 1 + (k - 1) = k /\ (k - 1) + 1 = k
        BY <1>2, <3>2
      <4>2. u[1 + (k - 1)] = q[(k - 1) + 1]
        BY <2>2, <4>1
      <4>3. QED
        BY <4>1, <4>2
    <3>3. QED
      BY <3>1, <3>2
  <2>4. q = u
    BY <1>2, <2>2, <2>3, SeqEqual
  <2>5. QED
    BY <2>4 DEF u
<1>10. Trim(Trim(Append(table, s)) \o r) = Trim(table \o q)
  <2>1. Append(table, s) = z
    BY AppendIsConcat DEF one
  <2>2. z \in Seq(SampleRecord) /\ Window \in Nat
    BY <1>8, ConcatProperties DEF ReliabilityAssumption
  <2>3. z \o r = table \o q
    <3>1. (table \o one) \o r = table \o (one \o r)
      BY <1>6, <1>8, ConcatAssociative
    <3>2. QED
      BY <1>9, <3>1
  <2> HIDE DEF z
  <2>4. LastOf(LastOf(z, Window) \o r, Window) = LastOf(z \o r, Window)
    BY <1>6, <2>2, LastAfter
  <2>5. QED
    BY <2>1, <2>3, <2>4 DEF Trim
<1>11. FlightsInOrder(r, all \ {s})
  <2>1. \A k \in 1..Len(q) - 1 : k + 1 \in 1..Len(q) /\ 1 < k + 1
    BY <1>2
  <2>2. ToSet(r) = {q[k + 1] : k \in 1..Len(q) - 1}
    BY <1>6, <1>7 DEF ToSet
  <2>3. all = {q[k] : k \in 1..Len(q)}
    BY <1>2 DEF ToSet
  <2>4. \A k \in 1..Len(q) - 1 : q[k + 1] # s
    <3> TAKE k \in 1..Len(q) - 1
    <3>1. q[1].n < q[k + 1].n /\ q[1] = s /\ s.n \in Nat
      BY <1>2, <1>3, <1>4, <1>5, <2>1 DEF SampleRecord
    <3>2. QED
      BY <3>1
  <2>5. \A k \in 1..Len(q) : k = 1 \/ (k - 1 \in 1..Len(q) - 1 /\ k = (k - 1) + 1)
    BY <1>2
  <2>6. ToSet(r) = all \ {s}
    <3>1. ASSUME NEW x \in all \ {s}
          PROVE  x \in ToSet(r)
      <4>1. PICK k \in 1..Len(q) : x = q[k]
        BY <2>3
      <4>2. k # 1
        BY <1>3, <1>4, <4>1
      <4>3. k - 1 \in 1..Len(q) - 1 /\ x = q[(k - 1) + 1]
        BY <2>5, <4>1, <4>2
      <4>4. QED
        BY <2>2, <4>3
    <3>2. ASSUME NEW x \in ToSet(r)
          PROVE  x \in all \ {s}
      BY <2>1, <2>2, <2>3, <2>4
    <3>3. QED
      BY <3>1, <3>2
  <2>7. ASSUME NEW j \in DOMAIN r, NEW k \in DOMAIN r, j < k
        PROVE  r[j].n < r[k].n
    <3>1. j + 1 \in 1..Len(q) /\ k + 1 \in 1..Len(q) /\ j + 1 < k + 1
      BY <1>2, <1>7, <2>1, <2>7
    <3>2. q[j + 1].n < q[k + 1].n
      BY <1>2, <3>1
    <3>3. QED
      BY <1>6, <1>7, <3>2
  <2>8. QED
    BY <1>6, <2>6, <2>7 DEF FlightsInOrder
<1>12. QED
  BY <1>1, <1>10, <1>11 DEF Agrees

LEMMA RelInitial == ReliabilityAssumption /\ RelInit => RelFits
<1> SUFFICES ASSUME ReliabilityAssumption, RelInit
             PROVE  RelFits
  OBVIOUS
<1>1. RelTypes
  <2>1. Closed \in [open : BOOLEAN, of : [Tools -> Seq(SampleRecord)]]
    BY EmptySeq DEF Closed
  <2>2. <<>> \in Seq(SampleRecord)
    BY EmptySeq
  <2>3. QED
    BY <2>1, <2>2 DEF RelInit, RelTypes
<1>2. Numbered
  BY DEF RelInit, Numbered, OncePerNumber
<1>3. AllAgree
  BY DEF RelInit, AllAgree, Closed
<1>4. QED
  BY <1>1, <1>2, <1>3 DEF RelFits

LEMMA AppendNumbered ==
  ASSUME NEW table \in Seq(SampleRecord), NEW s \in SampleRecord, OncePerNumber(table),
         \A i \in DOMAIN table : table[i].n # s.n
  PROVE  /\ OncePerNumber(Append(table, s))
         /\ ToSet(Append(table, s)) = ToSet(table) \cup {s}
<1> DEFINE all == Append(table, s)
           last == Len(table) + 1
<1>1. /\ all \in Seq(SampleRecord) /\ Len(all) = last /\ all[last] = s
      /\ \A i \in 1..Len(table) : all[i] = table[i]
  BY AppendProperties
<1>2. DOMAIN table = 1..Len(table) /\ Len(table) \in Nat
  BY LenProperties
<1>3. DOMAIN all = 1..last
  BY <1>1, LenProperties
<1> HIDE DEF all
<1>4. /\ \A i \in DOMAIN all : i \in DOMAIN table \/ i = last
      /\ \A i \in DOMAIN table : i \in DOMAIN all
      /\ last \in DOMAIN all
  BY <1>2, <1>3
<1> HIDE DEF last
<1>5. OncePerNumber(all)
  BY <1>1, <1>2, <1>4 DEF OncePerNumber
<1>6. ToSet(all) = ToSet(table) \cup {s}
  <2>1. ToSet(all) = {all[i] : i \in DOMAIN all} /\ ToSet(table) = {table[i] : i \in DOMAIN table}
    BY DEF ToSet
  <2>2. QED
    BY <1>1, <1>2, <1>4, <2>1
<1>7. QED
  BY <1>5, <1>6 DEF all

LEMMA RelInductive ==
  ASSUME ReliabilityAssumption, RelFits, [RelNext]_relvars
  PROVE  RelFits'
<1>0. /\ rows \in Seq(SampleRecord) /\ samples \in Nat /\ clock \in Nat
      /\ held \in [Programs -> [open : BOOLEAN, of : [Tools -> Seq(SampleRecord)]]]
      /\ flights \subseteq [by : Programs, sample : SampleRecord]
      /\ apart \subseteq Programs
      /\ OncePerNumber(rows)
      /\ \A i \in DOMAIN rows : rows[i].n < samples
      /\ \A f \in flights : f.sample.n < samples /\ held[f.by].open
      /\ \A f \in flights, i \in DOMAIN rows : rows[i].n # f.sample.n
      /\ \A f, g \in flights : f.sample.n = g.sample.n => f = g
  BY DEF RelFits, RelTypes, Numbered
<1>00. \A f \in flights : f.by \in Programs /\ f.sample \in SampleRecord
  BY <1>0
<1>000. \A s \in SampleRecord : s.n \in Nat /\ s.tool \in Tools
  BY DEF SampleRecord
<1>001. \A t : OfTool(rows, t) \in Seq(SampleRecord)
  <2>1. CASE SampleRecord = {}
    <3>1. rows = <<>>
      BY <1>0, <2>1, EmptySeq, ElementOfSeq
    <3>2. \A t : OfTool(rows, t) \in Seq(SampleRecord)
      <4> TAKE t
      <4> DEFINE S == {i \in DOMAIN rows : rows[i].tool = t}
      <4>1. S \in SUBSET (1..Len(rows))
        BY <1>0, LenProperties
      <4> HIDE DEF S
      <4>2. Pick(rows, S) \in Seq(SampleRecord)
        BY <1>0, <4>1, Picked
      <4>3. QED
        BY <4>2 DEF OfTool, S
    <3>3. QED
      BY <3>2
  <2>2. CASE SampleRecord # {}
    BY <1>0, <2>2, OfToolAppend
  <2>3. QED
    BY <2>1, <2>2
<1>1. ASSUME NEW p \in Programs, OpenTracker(p)
      PROVE  RelFits'
  <2>1. /\ ~held[p].open
        /\ held' = [held EXCEPT ![p] = [open |-> TRUE, of |-> LoadedSamples]]
        /\ apart' = apart \ {p}
        /\ UNCHANGED <<rows, flights, samples, clock>>
    BY <1>1 DEF OpenTracker
  <2>2. LoadedSamples \in [Tools -> Seq(SampleRecord)]
        /\ \A t \in Tools : LoadedSamples[t] = Trim(OfTool(rows, t))
    <3>1. \A t : Trim(OfTool(rows, t)) \in Seq(SampleRecord)
      BY <1>001, LastOfFacts DEF Trim, ReliabilityAssumption
    <3>2. QED
      BY <3>1 DEF LoadedSamples
  <2>3. /\ held' \in [Programs -> [open : BOOLEAN, of : [Tools -> Seq(SampleRecord)]]]
        /\ held'[p] = [open |-> TRUE, of |-> LoadedSamples]
        /\ \A r \in Programs : r # p => held'[r] = held[r]
    BY <1>0, <2>1, <2>2
  <2>4. RelTypes'
    BY <1>0, <2>1, <2>3 DEF RelTypes
  <2>5. \A f \in flights : f.by # p
    BY <1>0, <2>1
  <2>6. Numbered'
    BY <1>0, <1>00, <2>1, <2>3, <2>5 DEF Numbered
  <2>7. ASSUME NEW r \in Programs, r \notin apart', held'[r].open, NEW t \in Tools
        PROVE  Agrees(held'[r].of[t], OfTool(rows', t), Awaiting(flights', r, t))
    <3>1. CASE r = p
      <4>1. Awaiting(flights, p, t) = {}
        BY <2>5 DEF Awaiting
      <4>2. held'[r].of[t] = Trim(OfTool(rows, t))
        BY <2>2, <2>3, <3>1
      <4>3. QED
        BY <1>001, <2>1, <3>1, <4>1, <4>2, NothingAwaited
    <3>2. CASE r # p
      <4>1. r \notin apart /\ held[r].open /\ held'[r] = held[r]
        BY <2>1, <2>3, <2>7, <3>2
      <4>2. QED
        BY <2>1, <4>1 DEF RelFits, AllAgree
    <3>3. QED
      BY <3>1, <3>2
  <2>8. AllAgree'
    BY <2>7 DEF AllAgree, OfTool
  <2>9. QED
    BY <2>4, <2>6, <2>8 DEF RelFits
<1>2. ASSUME NEW p \in Programs, Exit(p)
      PROVE  RelFits'
  <2>1. /\ held[p].open
        /\ held' = [held EXCEPT ![p] = Closed]
        /\ flights' = {f \in flights : f.by # p}
        /\ UNCHANGED <<rows, samples, clock, apart>>
    BY <1>2 DEF Exit
  <2>2. Closed \in [open : BOOLEAN, of : [Tools -> Seq(SampleRecord)]] /\ ~Closed.open
    BY EmptySeq DEF Closed
  <2>3. /\ held' \in [Programs -> [open : BOOLEAN, of : [Tools -> Seq(SampleRecord)]]]
        /\ ~held'[p].open
        /\ \A r \in Programs : r # p => held'[r] = held[r]
    BY <1>0, <2>1, <2>2
  <2>4. RelTypes'
    BY <1>0, <2>1, <2>3 DEF RelTypes
  <2>5. Numbered'
    BY <1>0, <1>00, <2>1, <2>3 DEF Numbered
  <2>6. ASSUME NEW r \in Programs, r \notin apart', held'[r].open, NEW t \in Tools
        PROVE  Agrees(held'[r].of[t], OfTool(rows', t), Awaiting(flights', r, t))
    <3>1. r # p /\ r \notin apart /\ held[r].open /\ held'[r] = held[r]
      BY <2>1, <2>3, <2>6
    <3>2. Awaiting(flights', r, t) = Awaiting(flights, r, t)
      BY <2>1, <3>1 DEF Awaiting
    <3>3. QED
      BY <2>1, <3>1, <3>2 DEF RelFits, AllAgree
  <2>7. AllAgree'
    BY <2>6 DEF AllAgree, OfTool
  <2>8. QED
    BY <2>4, <2>5, <2>7 DEF RelFits
<1>3. ASSUME NEW p \in Programs, NEW t \in Tools, NEW o \in Outcomes, Record(p, t, o)
      PROVE  RelFits'
  <2> DEFINE s == Sample(t, o)
             f == [by |-> p, sample |-> s]
  <2>1. /\ held[p].open /\ samples' = samples + 1
        /\ held' = [held EXCEPT ![p].of[t] = Trim(Append(@, s))]
        /\ flights' = flights \cup {f}
        /\ UNCHANGED <<rows, clock, apart>>
    BY <1>3 DEF Record
  <2>2. s \in SampleRecord /\ s.n = samples /\ s.tool = t
    BY <1>0 DEF Sample, SampleRecord, Told
  <2>3. f \in [by : Programs, sample : SampleRecord] /\ f.by = p /\ f.sample = s
    BY <2>2
  <2> HIDE DEF s, f
  <2>4. held[p] \in [open : BOOLEAN, of : [Tools -> Seq(SampleRecord)]]
    BY <1>0
  <2> DEFINE z == Trim(Append(held[p].of[t], s))
  <2>5. z \in Seq(SampleRecord)
    <3>1. held[p].of[t] \in Seq(SampleRecord)
      BY <2>4
    <3>2. Append(held[p].of[t], s) \in Seq(SampleRecord)
      BY <2>2, <3>1, AppendProperties
    <3>3. QED
      BY <3>2, LastOfFacts DEF Trim, ReliabilityAssumption
  <2> HIDE DEF z
  <2>6. /\ held' \in [Programs -> [open : BOOLEAN, of : [Tools -> Seq(SampleRecord)]]]
        /\ held'[p].open /\ held'[p].of[t] = z
        /\ \A u \in Tools : u # t => held'[p].of[u] = held[p].of[u]
        /\ \A r \in Programs : r # p => held'[r] = held[r]
    <3>1. held' = [held EXCEPT ![p].of[t] = z]
      BY <2>1 DEF z
    <3> DEFINE of == [held[p].of EXCEPT ![t] = z]
               h == [held[p] EXCEPT !.of = of]
    <3>2. /\ of \in [Tools -> Seq(SampleRecord)] /\ of[t] = z
          /\ \A u \in Tools : u # t => of[u] = held[p].of[u]
      BY <2>4, <2>5
    <3>3. held' = [held EXCEPT ![p] = h]
      BY <3>1
    <3> HIDE DEF of
    <3>4. /\ h \in [open : BOOLEAN, of : [Tools -> Seq(SampleRecord)]]
          /\ h.open = held[p].open /\ h.of = of
      BY <2>4, <3>2
    <3> HIDE DEF h
    <3>5. held \in [Programs -> [open : BOOLEAN, of : [Tools -> Seq(SampleRecord)]]]
      BY <1>0
    <3>6. /\ held' \in [Programs -> [open : BOOLEAN, of : [Tools -> Seq(SampleRecord)]]]
          /\ held'[p] = h
          /\ \A r \in Programs : r # p => held'[r] = held[r]
      BY <3>3, <3>4, <3>5
    <3>7. h.open
      BY <2>1, <3>4
    <3>8. QED
      BY <3>2, <3>4, <3>6, <3>7
  <2>7. RelTypes'
    <3>1. flights' \subseteq [by : Programs, sample : SampleRecord]
      BY <1>0, <2>1, <2>3
    <3>2. samples' \in Nat
      BY <1>0, <2>1
    <3>3. QED
      BY <1>0, <2>1, <2>6, <3>1, <3>2 DEF RelTypes
  <2>8. \A g \in flights' : g \in flights \/ g = f
    BY <2>1
  <2>9. \A g \in flights : g.sample.n # samples
    BY <1>0, <1>00, <1>000
  <2>10. \A i \in DOMAIN rows : rows[i].n \in Nat
    BY <1>0, <1>000, LenProperties, ElementOfSeq
  <2>11. Numbered'
    <3>1. \A g \in flights' : g.sample.n < samples' /\ held'[g.by].open
      <4> TAKE g \in flights'
      <4>1. CASE g = f
        BY <1>0, <2>1, <2>2, <2>3, <2>6, <4>1
      <4>2. CASE g \in flights
        BY <1>0, <1>00, <1>000, <2>1, <2>6, <4>2
      <4>3. QED
        BY <2>8, <4>1, <4>2
    <3>2. \A i \in DOMAIN rows' : rows'[i].n < samples'
      BY <1>0, <2>1, <2>10
    <3>3. \A g \in flights', i \in DOMAIN rows' : rows'[i].n # g.sample.n
      BY <1>0, <2>1, <2>2, <2>3, <2>8, <2>10
    <3>4. \A g, h \in flights' : g.sample.n = h.sample.n => g = h
      BY <1>0, <2>2, <2>3, <2>8, <2>9
    <3>5. QED
      BY <1>0, <2>1, <3>1, <3>2, <3>3, <3>4 DEF Numbered
  <2>12. ASSUME NEW r \in Programs, r \notin apart', held'[r].open, NEW u \in Tools
         PROVE  Agrees(held'[r].of[u], OfTool(rows', u), Awaiting(flights', r, u))
    <3>1. r \notin apart /\ held[r].open
      BY <2>1, <2>6, <2>12
    <3>2. Agrees(held[r].of[u], OfTool(rows, u), Awaiting(flights, r, u))
      BY <3>1 DEF RelFits, AllAgree
    <3>3. CASE r = p /\ u = t
      <4>1. Awaiting(flights', p, t) = Awaiting(flights, p, t) \cup {s}
        BY <2>1, <2>2, <2>3 DEF Awaiting
      <4>2. \A x \in Awaiting(flights, p, t) : x.n < s.n
        BY <1>0, <2>2 DEF Awaiting
      <4>3. OfTool(rows, t) \in Seq(SampleRecord)
        BY <1>001
      <4>4. Agrees(z, OfTool(rows, t), Awaiting(flights, p, t) \cup {s})
        BY <2>2, <3>2, <3>3, <4>2, <4>3, AgreeRecord DEF z
      <4>5. QED
        BY <2>1, <2>6, <3>3, <4>1, <4>4
    <3>4. CASE ~(r = p /\ u = t)
      <4>1. Awaiting(flights', r, u) = Awaiting(flights, r, u)
        BY <2>1, <2>2, <2>3, <3>4 DEF Awaiting
      <4>2. held'[r].of[u] = held[r].of[u]
        BY <2>6, <3>4
      <4>3. QED
        BY <2>1, <3>2, <4>1, <4>2
    <3>5. QED
      BY <3>3, <3>4
  <2>13. AllAgree'
    BY <2>12 DEF AllAgree, OfTool
  <2>14. QED
    BY <2>7, <2>11, <2>13 DEF RelFits
<1>4. ASSUME NEW f \in flights, AppendFlight(f)
      PROVE  RelFits'
  <2> DEFINE s == f.sample
             all == Append(rows, s)
  <2>1. /\ rows' = Appended(rows, s) /\ flights' = flights \ {f}
        /\ apart' = apart \cup {p \in Programs : p # f.by \/ Overtakes(f)}
        /\ UNCHANGED <<held, samples, clock>>
    BY <1>4 DEF AppendFlight
  <2>2. s \in SampleRecord /\ s.n < samples /\ \A i \in DOMAIN rows : rows[i].n # s.n
    BY <1>0, <1>00
  <2> HIDE DEF s
  <2>3. OncePerNumber(all) /\ ToSet(all) = ToSet(rows) \cup {s}
    BY <1>0, <2>2, AppendNumbered
  <2> HIDE DEF all
  <2>4. /\ rows' \in Seq(SampleRecord)
        /\ ToSet(rows') \subseteq ToSet(rows) \cup {s}
        /\ OncePerNumber(rows')
        /\ OfTool(rows', s.tool) = Trim(Append(OfTool(rows, s.tool), s))
        /\ \A t : t # s.tool => OfTool(rows', t) = OfTool(rows, t)
    BY <1>0, <2>1, <2>2, <2>3, AppendedFacts DEF all
  <2>5. RelTypes'
    BY <1>0, <2>1, <2>4 DEF RelTypes
  <2>6. \A i \in DOMAIN rows' : rows'[i] = s \/ \E j \in DOMAIN rows : rows'[i] = rows[j]
    <3>1. \A i \in DOMAIN rows' : rows'[i] \in ToSet(rows')
      BY DEF ToSet
    <3>2. \A x \in ToSet(rows) : \E j \in DOMAIN rows : x = rows[j]
      BY DEF ToSet
    <3>3. QED
      BY <2>4, <3>1, <3>2
  <2>7. Numbered'
    <3>1. \A i \in DOMAIN rows' : rows'[i].n < samples'
      BY <1>0, <2>1, <2>2, <2>6
    <3>2. \A g \in flights', i \in DOMAIN rows' : rows'[i].n # g.sample.n
      <4> TAKE g \in flights', i \in DOMAIN rows'
      <4>1. g \in flights /\ g.sample.n # s.n
        BY <1>0, <2>1 DEF s
      <4>2. CASE rows'[i] = s
        BY <4>1, <4>2
      <4>3. CASE \E j \in DOMAIN rows : rows'[i] = rows[j]
        BY <1>0, <4>1, <4>3
      <4>4. QED
        BY <2>6, <4>2, <4>3
    <3>3. QED
      BY <1>0, <2>1, <2>4, <3>1, <3>2 DEF Numbered
  <2>8. ASSUME NEW r \in Programs, r \notin apart', held'[r].open, NEW t \in Tools
        PROVE  Agrees(held'[r].of[t], OfTool(rows', t), Awaiting(flights', r, t))
    <3>1. r = f.by /\ ~Overtakes(f) /\ r \notin apart /\ held[r].open
      BY <2>1, <2>8
    <3>2. Agrees(held[r].of[t], OfTool(rows, t), Awaiting(flights, r, t))
      BY <3>1 DEF RelFits, AllAgree
    <3>3. CASE t = s.tool
      <4>1. s \in Awaiting(flights, r, t)
        BY <3>1, <3>3 DEF Awaiting, s
      <4>2. \A x \in Awaiting(flights, r, t) : ~(x.n < s.n)
        BY <3>1, <3>3 DEF Awaiting, Overtakes, s
      <4>3. Awaiting(flights', r, t) = Awaiting(flights, r, t) \ {s}
        <5>1. \A g \in flights : g # f => g.sample # s
          BY <1>0 DEF s
        <5>2. QED
          BY <2>1, <5>1 DEF Awaiting, s
      <4>4. OfTool(rows, t) \in Seq(SampleRecord)
        BY <1>001
      <4>5. Agrees(held[r].of[t], Trim(Append(OfTool(rows, t), s)), Awaiting(flights, r, t) \ {s})
        BY <2>2, <3>2, <4>1, <4>2, <4>4, AgreeAppend
      <4>6. QED
        BY <2>1, <2>4, <3>3, <4>3, <4>5
    <3>4. CASE t # s.tool
      <4>1. Awaiting(flights', r, t) = Awaiting(flights, r, t)
        BY <2>1, <3>4 DEF Awaiting, s
      <4>2. QED
        BY <2>1, <2>4, <3>2, <3>4, <4>1
    <3>5. QED
      BY <3>3, <3>4
  <2>9. AllAgree'
    BY <2>8 DEF AllAgree, OfTool
  <2>10. QED
    BY <2>5, <2>7, <2>9 DEF RelFits
<1>5. ASSUME NEW f \in flights, AppendFails(f)
      PROVE  RelFits'
  <2>1. /\ flights' = flights \ {f} /\ apart' = apart \cup {f.by}
        /\ UNCHANGED <<rows, held, samples, clock>>
    BY <1>5 DEF AppendFails
  <2>2. RelTypes'
    BY <1>0, <1>00, <2>1 DEF RelTypes
  <2>3. Numbered'
    BY <1>0, <2>1 DEF Numbered
  <2>4. ASSUME NEW r \in Programs, r \notin apart', held'[r].open, NEW t \in Tools
        PROVE  Agrees(held'[r].of[t], OfTool(rows', t), Awaiting(flights', r, t))
    <3>1. r # f.by /\ r \notin apart /\ held[r].open
      BY <2>1, <2>4
    <3>2. Awaiting(flights', r, t) = Awaiting(flights, r, t)
      BY <2>1, <3>1 DEF Awaiting
    <3>3. QED
      BY <2>1, <3>1, <3>2 DEF RelFits, AllAgree
  <2>5. AllAgree'
    BY <2>4 DEF AllAgree, OfTool
  <2>6. QED
    BY <2>2, <2>3, <2>5 DEF RelFits
<1>6. ASSUME NEW t \in Tools, NEW arguments, NEW dryRun, NEW approve, NEW ran \in Outcomes,
             TestTool(t, arguments, dryRun, approve, ran), ~dryRun
      PROVE  RelFits'
  <2> DEFINE s == Sample(t, TestOutcome(t, arguments, approve, ran))
             all == Append(rows, s)
  <2>1. /\ rows' = Appended(rows, s) /\ samples' = samples + 1 /\ apart' = Programs
        /\ UNCHANGED <<held, flights, clock>>
    BY <1>6 DEF TestTool
  <2>2. s \in SampleRecord /\ s.n = samples
    BY <1>0 DEF Sample, SampleRecord, Told, TestOutcome
  <2>3. \A i \in DOMAIN rows : rows[i].n \in Nat /\ rows[i].n # samples
    BY <1>0, <1>000, LenProperties, ElementOfSeq
  <2> HIDE DEF s
  <2>4. OncePerNumber(all) /\ ToSet(all) = ToSet(rows) \cup {s}
    BY <1>0, <2>2, <2>3, AppendNumbered
  <2> HIDE DEF all
  <2>5. /\ rows' \in Seq(SampleRecord) /\ OncePerNumber(rows')
        /\ ToSet(rows') \subseteq ToSet(rows) \cup {s}
    BY <1>0, <2>1, <2>2, <2>4, AppendedFacts DEF all
  <2>6. RelTypes'
    BY <1>0, <2>1, <2>5 DEF RelTypes
  <2>7. \A i \in DOMAIN rows' : rows'[i] = s \/ \E j \in DOMAIN rows : rows'[i] = rows[j]
    <3>1. \A i \in DOMAIN rows' : rows'[i] \in ToSet(rows')
      BY DEF ToSet
    <3>2. \A x \in ToSet(rows) : \E j \in DOMAIN rows : x = rows[j]
      BY DEF ToSet
    <3>3. QED
      BY <2>5, <3>1, <3>2
  <2>8. \A g \in flights : g.sample.n \in Nat /\ g.sample.n # samples
    BY <1>0, <1>00, <1>000
  <2>9. Numbered'
    <3>1. \A i \in DOMAIN rows' : rows'[i].n < samples'
      BY <1>0, <2>1, <2>2, <2>3, <2>7
    <3>2. \A g \in flights' : g.sample.n < samples' /\ held'[g.by].open
      BY <1>0, <2>1, <2>8
    <3>3. \A g \in flights', i \in DOMAIN rows' : rows'[i].n # g.sample.n
      <4> TAKE g \in flights', i \in DOMAIN rows'
      <4>1. g \in flights
        BY <2>1
      <4>2. CASE rows'[i] = s
        BY <2>2, <2>8, <4>1, <4>2
      <4>3. CASE \E j \in DOMAIN rows : rows'[i] = rows[j]
        BY <1>0, <4>1, <4>3
      <4>4. QED
        BY <2>7, <4>2, <4>3
    <3>4. QED
      BY <1>0, <2>1, <2>5, <3>1, <3>2, <3>3 DEF Numbered
  <2>10. AllAgree'
    BY <2>1 DEF AllAgree
  <2>11. QED
    BY <2>6, <2>9, <2>10 DEF RelFits
<1>7. ASSUME UNCHANGED <<rows, held, flights, samples, apart>>, clock' \in Nat
      PROVE  RelFits'
  BY <1>7 DEF RelFits, RelTypes, Numbered, AllAgree, OfTool, OncePerNumber
<1>8. ASSUME NEW t, NEW arguments, NEW dryRun, NEW approve, NEW ran,
             TestTool(t, arguments, dryRun, approve, ran), dryRun
      PROVE  RelFits'
  BY <1>0, <1>7, <1>8 DEF TestTool
<1>9. CASE HalfLife
  BY <1>0, <1>7, <1>9 DEF HalfLife
<1>10. CASE UNCHANGED relvars
  BY <1>0, <1>7, <1>10 DEF relvars
<1>11. QED
  BY <1>1, <1>2, <1>3, <1>4, <1>5, <1>6, <1>8, <1>9, <1>10 DEF RelNext

LEMMA RelSound == ReliabilityAssumption /\ RelFits => RestartAgrees
<1> SUFFICES ASSUME ReliabilityAssumption, RelFits, NEW p \in Programs \ apart,
                    held[p].open, \A f \in flights : f.by # p
             PROVE  held[p].of = LoadedSamples
  BY DEF RestartAgrees
<1>1. ASSUME NEW t \in Tools
      PROVE  held[p].of[t] = Trim(OfTool(rows, t))
  <2>1. Awaiting(flights, p, t) = {}
    BY DEF Awaiting
  <2>2. Agrees(held[p].of[t], OfTool(rows, t), {})
    BY <2>1 DEF RelFits, AllAgree
  <2>3. OfTool(rows, t) \in Seq(SampleRecord)
    <3> DEFINE S == {i \in DOMAIN rows : rows[i].tool = t}
    <3>1. S \in SUBSET (1..Len(rows)) /\ rows \in Seq(SampleRecord)
      BY LenProperties DEF RelFits, RelTypes
    <3> HIDE DEF S
    <3>2. Pick(rows, S) \in Seq(SampleRecord)
      BY <3>1, Picked
    <3>3. QED
      BY <3>2 DEF OfTool, S
  <2>4. QED
    BY <2>2, <2>3, NothingAwaited
<1>2. held[p].of \in [Tools -> Seq(SampleRecord)]
  BY DEF RelFits, RelTypes
<1>3. QED
  BY <1>1, <1>2 DEF LoadedSamples

-----------------------------------------------------------------------------
(* Of the registry of tools.                                               *)

(* No tool that an agent may use again changes anything.                   *)
OnlyReads(b) ==
  b.name \in ReadOnlyTools =>
    /\ b.via \notin {"write", "delete"}
    /\ \A i \in DOMAIN b.programs : b.programs[i] \notin Changing

LEMMA CommandReads ==
  ASSUME NEW name, NEW p, NEW check, NEW timer, NEW approval, NEW safe,
         p \notin Changing \/ name \notin ReadOnlyTools
  PROVE  OnlyReads(Command(name, <<p>>, check, timer, approval, safe))
BY DEF OnlyReads, Command

LEMMA CommandsRead ==
  ASSUME NEW name, NEW p, NEW q, NEW check, NEW timer, NEW approval, NEW safe,
         p \notin Changing, q \notin Changing
  PROVE  OnlyReads(Command(name, <<p, q>>, check, timer, approval, safe))
BY DEF OnlyReads, Command

LEMMA FileReads ==
  ASSUME NEW name, NEW via, NEW check, NEW approval, NEW safe,
         via \notin {"write", "delete"} \/ name \notin ReadOnlyTools
  PROVE  OnlyReads(FileTool(name, via, check, approval, safe))
BY DEF OnlyReads, FileTool

LEMMA WebReads ==
  ASSUME NEW name, NEW approval, NEW safe
  PROVE  OnlyReads(WebTool(name, approval, safe))
BY DEF OnlyReads, WebTool

LEMMA ComputedReads ==
  ASSUME NEW name, NEW answers, NEW approval, NEW safe
  PROVE  OnlyReads(Computed(name, answers, approval, safe))
BY DEF OnlyReads, Computed

LEMMA CatalogReads == \A b \in Catalog : OnlyReads(b)
<1>1. \A p \in {"ls or find", "df", "ps", "ping", "uname", "free", "gh issue list",
                "gh pr view or list", "gh run list"} : p \notin Changing
  BY DEF Changing
<1>2. \A n \in {"shell", "git", "github_issue_create", "github_pr_create", "file_write",
                "file_delete"} : n \notin ReadOnlyTools
  BY DEF ReadOnlyTools
<1>3. OnlyReads(FileRead) /\ OnlyReads(FileWrite) /\ OnlyReads(FileDelete) /\ OnlyReads(FileExists)
  BY <1>2, FileReads DEF FileRead, FileWrite, FileDelete, FileExists
<1>4. OnlyReads(FileList) /\ OnlyReads(DiskUsage) /\ OnlyReads(ProcessList)
      /\ OnlyReads(NetworkPing)
  BY <1>1, CommandReads, Zenon DEF FileList, DiskUsage, ProcessList, NetworkPing
<1>5. OnlyReads(Shell) /\ OnlyReads(Git) /\ OnlyReads(GithubIssueCreate)
      /\ OnlyReads(GithubPrCreate)
  BY <1>2, CommandReads, Zenon DEF Shell, Git, GithubIssueCreate, GithubPrCreate
<1>6. OnlyReads(SystemInfo)
  BY <1>1, CommandsRead, Zenon DEF SystemInfo
<1>7. OnlyReads(GithubIssueSearch) /\ OnlyReads(GithubPrStatus) /\ OnlyReads(GithubActionsStatus)
  BY <1>1, CommandReads, Zenon DEF GithubIssueSearch, GithubPrStatus, GithubActionsStatus
<1>8. OnlyReads(WebFetch) /\ OnlyReads(WebSearch) /\ OnlyReads(HttpRequest)
  BY WebReads DEF WebFetch, WebSearch, HttpRequest
<1>9. /\ OnlyReads(JsonExtract) /\ OnlyReads(EnvVar) /\ OnlyReads(TimeNow)
      /\ OnlyReads(RandomNumber) /\ OnlyReads(JsonValidate) /\ OnlyReads(TextSearch)
  BY ComputedReads DEF JsonExtract, EnvVar, TimeNow, RandomNumber, JsonValidate, TextSearch
<1>10. QED
  BY <1>3, <1>4, <1>5, <1>6, <1>7, <1>8, <1>9 DEF Catalog

LEMMA CatalogFinite == IsFiniteSet(Catalog)
<1> DEFINE five(a, b, c, d, e) == {a} \cup ({b} \cup ({c} \cup ({d} \cup {e})))
<1>1. \A a, b, c, d, e : IsFiniteSet(five(a, b, c, d, e))
  <2> SUFFICES ASSUME NEW a, NEW b, NEW c, NEW d, NEW e
               PROVE  IsFiniteSet(five(a, b, c, d, e))
    OBVIOUS
  <2>1. /\ IsFiniteSet({a}) /\ IsFiniteSet({b}) /\ IsFiniteSet({c}) /\ IsFiniteSet({d})
        /\ IsFiniteSet({e})
    BY FS_Singleton
  <2>2. IsFiniteSet({d} \cup {e})
    BY <2>1, FS_Union
  <2>3. IsFiniteSet({c} \cup ({d} \cup {e}))
    BY <2>1, <2>2, FS_Union
  <2>4. IsFiniteSet({b} \cup ({c} \cup ({d} \cup {e})))
    BY <2>1, <2>3, FS_Union
  <2>5. QED
    BY <2>1, <2>4, FS_Union
<1> DEFINE one == five(FileRead, FileWrite, FileDelete, FileExists, FileList)
           two == five(Shell, Git, SystemInfo, DiskUsage, ProcessList)
           three == five(NetworkPing, GithubIssueCreate, GithubIssueSearch, GithubPrCreate,
                         GithubPrStatus)
           four == five(GithubActionsStatus, WebFetch, WebSearch, HttpRequest, JsonExtract)
           last == five(EnvVar, TimeNow, RandomNumber, JsonValidate, TextSearch)
<1>2. Catalog = one \cup (two \cup (three \cup (four \cup last)))
  BY DEF Catalog
<1>3. /\ IsFiniteSet(one) /\ IsFiniteSet(two) /\ IsFiniteSet(three) /\ IsFiniteSet(four)
      /\ IsFiniteSet(last)
  BY <1>1
<1> HIDE DEF one, two, three, four, last
<1>4. IsFiniteSet(four \cup last)
  BY <1>3, FS_Union
<1>5. IsFiniteSet(three \cup (four \cup last))
  BY <1>3, <1>4, FS_Union
<1>6. IsFiniteSet(two \cup (three \cup (four \cup last)))
  BY <1>3, <1>5, FS_Union
<1>7. QED
  BY <1>2, <1>3, <1>6, FS_Union

-----------------------------------------------------------------------------
(* Where each tool of the registry is from, and what its tags say; and the *)
(* agent that was made has a part of the registry, which stays.            *)
BoxFits ==
  /\ IsFiniteSet(toolbox)
  /\ \A t \in toolbox : /\ t.from = "builtin" => \E b \in Catalog : t.name = b.name
                        /\ t.tags = IF t.safe THEN {"safe"} ELSE {"dangerous"}
  /\ NamesIn(toolbox) \cap toolConfig.disabled = {}
  /\ sub.verdict = "scoped" =>
       \A t \in sub.box : t \in toolbox /\ t.name \in sub.names
  /\ sub.retries => sub.names \subseteq ReadOnlyTools

LEMMA ImageFinite ==
  ASSUME NEW S, IsFiniteSet(S), NEW f, f = [x \in S |-> f[x]]
  PROVE  IsFiniteSet({f[x] : x \in S})
<1> DEFINE T == {f[x] : x \in S}
<1>1. f \in [S -> T] /\ \A y \in T : \E x \in S : f[x] = y
  OBVIOUS
<1>2. f \in Surjection(S, T)
  BY <1>1 DEF Surjection
<1> HIDE DEF T
<1>3. IsFiniteSet(T)
  BY <1>2, FS_Surjection
<1>4. QED
  BY <1>3 DEF T

LEMMA RegistryFinite ==
  ASSUME NEW S \in SUBSET Catalog
  PROVE  IsFiniteSet({AsTool(b) : b \in S})
<1> DEFINE as == [b \in S |-> AsTool(b)]
<1>1. IsFiniteSet(S)
  BY CatalogFinite, FS_Subset
<1>2. {AsTool(b) : b \in S} = {as[b] : b \in S}
  OBVIOUS
<1>5. as = [b \in S |-> as[b]]
  OBVIOUS
<1> HIDE DEF as
<1>3. IsFiniteSet({as[b] : b \in S})
  BY <1>1, <1>5, ImageFinite
<1>4. QED
  BY <1>2, <1>3

LEMMA BuiltinsFit ==
  ASSUME NEW S \in SUBSET Catalog
  PROVE  \A t \in {AsTool(b) : b \in S} :
           /\ \E b \in S : t.name = b.name
           /\ t.tags = IF t.safe THEN {"safe"} ELSE {"dangerous"}
BY DEF AsTool

LEMMA BoxInitial == BoxInit => BoxFits
<1> SUFFICES ASSUME BoxInit PROVE BoxFits
  OBVIOUS
<1>1. PICK S \in SUBSET Catalog : /\ toolbox = {AsTool(b) : b \in S}
                                  /\ \A b \in S : b.name \notin toolConfig.disabled
  <2>1. CASE toolConfig \in ToolConfigs /\ toolbox = BuiltinRegistry(toolConfig)
    <3> DEFINE S == {x \in Catalog : x.name \in EffectiveEnabled(toolConfig)}
    <3>1. S \in SUBSET Catalog /\ toolbox = {AsTool(b) : b \in S}
      BY <2>1 DEF BuiltinRegistry
    <3>2. \A b \in S : b.name \notin toolConfig.disabled
      BY DEF EffectiveEnabled
    <3>3. QED
      BY <3>1, <3>2
  <2>2. CASE toolConfig = Everything /\ toolbox = GatewayRegistry(Everything)
    <3> DEFINE S == {x \in Catalog : /\ Everything.enabled = {} \/ x.name \in Everything.enabled
                                     /\ x.name \notin Everything.disabled}
    <3>1. S \in SUBSET Catalog /\ toolbox = {AsTool(b) : b \in S}
      BY <2>2 DEF GatewayRegistry
    <3>2. \A b \in S : b.name \notin toolConfig.disabled
      BY <2>2
    <3>3. QED
      BY <3>1, <3>2
  <2>3. QED
    BY <2>1, <2>2 DEF BoxInit
<1>2. IsFiniteSet(toolbox)
  BY <1>1, RegistryFinite
<1>3. \A t \in toolbox : /\ \E b \in S : t.name = b.name
                         /\ t.tags = IF t.safe THEN {"safe"} ELSE {"dangerous"}
  BY <1>1, BuiltinsFit
<1>4. NamesIn(toolbox) \cap toolConfig.disabled = {}
  BY <1>1, <1>3 DEF NamesIn
<1>5. sub.verdict = "none" /\ sub.retries = FALSE
  BY DEF BoxInit, NoSub
<1>6. QED
  BY <1>2, <1>3, <1>4, <1>5 DEF BoxFits

LEMMA BoxInductive == BoxFits /\ [BoxNext]_boxvars => BoxFits'
<1> SUFFICES ASSUME BoxFits, [BoxNext]_boxvars PROVE BoxFits'
  OBVIOUS
<1>1. ASSUME NEW o \in Offers, LoadOffer(o)
      PROVE  BoxFits'
  <2>1. sub' = NoSub /\ toolConfig' = toolConfig
    BY <1>1 DEF LoadOffer
  <2>2. sub'.verdict = "none" /\ sub'.retries = FALSE
    BY <2>1 DEF NoSub
  <2>3. CASE toolbox' = toolbox
    BY <2>1, <2>2, <2>3 DEF BoxFits, NamesIn
  <2>4. CASE toolbox' = toolbox \cup {WithSafety(o)} /\ o.name \notin toolConfig.disabled
    <3>1. IsFiniteSet(toolbox')
      BY <2>4, FS_AddElement DEF BoxFits
    <3>2. /\ WithSafety(o).from = "mcp" /\ WithSafety(o).name = o.name
          /\ WithSafety(o).tags = IF WithSafety(o).safe THEN {"safe"} ELSE {"dangerous"}
      BY DEF WithSafety
    <3>3. \A t \in toolbox' : /\ t.from = "builtin" => \E b \in Catalog : t.name = b.name
                              /\ t.tags = IF t.safe THEN {"safe"} ELSE {"dangerous"}
      BY <2>4, <3>2 DEF BoxFits
    <3>4. NamesIn(toolbox)' \cap toolConfig'.disabled = {}
      BY <2>1, <2>4, <3>2 DEF BoxFits, NamesIn
    <3>5. QED
      BY <2>2, <3>1, <3>3, <3>4 DEF BoxFits
  <2>5. QED
    BY <1>1, <2>3, <2>4 DEF LoadOffer, Refuses
<1>2. ASSUME NEW caps \in SUBSET Capabilities, NEW words \in SUBSET Capabilities,
             CreateSubAgent(caps, words)
      PROVE  BoxFits'
  <2> DEFINE names == Toolkit(Wanted(caps, words))
             scope == Scoped(toolbox, names)
  <2>1. /\ toolbox' = toolbox /\ toolConfig' = toolConfig
        /\ sub'.verdict = scope.verdict /\ sub'.box = scope.box /\ sub'.names = names
        /\ sub'.retries = RetryIsIdempotent(names)
    BY <1>2 DEF CreateSubAgent
  <2> HIDE DEF names
  <2>2. sub'.verdict = "scoped" => \A t \in sub'.box : t \in toolbox' /\ t.name \in sub'.names
    BY <2>1 DEF Scoped
  <2>3. sub'.retries => sub'.names \subseteq ReadOnlyTools
    BY <2>1 DEF RetryIsIdempotent
  <2>4. QED
    BY <2>1, <2>2, <2>3 DEF BoxFits, NamesIn
<1>3. CASE UNCHANGED boxvars
  BY <1>3 DEF boxvars, BoxFits, NamesIn
<1>4. QED
  BY <1>1, <1>2, <1>3 DEF BoxNext

Looked == {"name", "description", "schema", "required", "tags", "safety", "safeTag",
           "function"}

(* A tally of nothing: nothing has the grade.                              *)
LEMMA NoneTallied ==
  ASSUME BoxFits, NEW grade
  PROVE  /\ Tally(toolbox, grade) \in Nat
         /\ Tally(toolbox, grade) = 0 =>
              /\ \A n \in NamesIn(toolbox), c \in Looked : Examined(toolbox)[n][c] # grade
              /\ Ecosystem(toolbox).duplicates # grade
<1> DEFINE names == NamesIn(toolbox)
           looked == DOMAIN Examine(AsTool(Shell))
           tools == {e \in names \X looked : Examined(toolbox)[e[1]][e[2]] = grade}
           whole == {c \in {"duplicates", "count"} : Ecosystem(toolbox)[c] = grade}
<1>1. looked = Looked
  BY DEF Examine, Looked
<1>2. IsFiniteSet(names)
  <2> DEFINE nameOf == [t \in toolbox |-> t.name]
  <2>1. IsFiniteSet(toolbox)
    BY DEF BoxFits
  <2>2. names = {nameOf[t] : t \in toolbox}
    BY DEF NamesIn
  <2>3. nameOf = [t \in toolbox |-> nameOf[t]]
    OBVIOUS
  <2> HIDE DEF nameOf
  <2>4. QED
    BY <2>1, <2>2, <2>3, ImageFinite
<1>3. IsFiniteSet(Looked)
  <2>1. /\ IsFiniteSet({"name"}) /\ IsFiniteSet({"description"}) /\ IsFiniteSet({"schema"})
        /\ IsFiniteSet({"required"}) /\ IsFiniteSet({"tags"}) /\ IsFiniteSet({"safety"})
        /\ IsFiniteSet({"safeTag"}) /\ IsFiniteSet({"function"})
    BY FS_Singleton
  <2>2. IsFiniteSet({"name"} \cup {"description"}) /\ IsFiniteSet({"schema"} \cup {"required"})
        /\ IsFiniteSet({"tags"} \cup {"safety"}) /\ IsFiniteSet({"safeTag"} \cup {"function"})
    BY <2>1, FS_Union
  <2>3. IsFiniteSet(({"name"} \cup {"description"}) \cup ({"schema"} \cup {"required"}))
        /\ IsFiniteSet(({"tags"} \cup {"safety"}) \cup ({"safeTag"} \cup {"function"}))
    BY <2>1, <2>2, FS_Union
  <2>4. IsFiniteSet((({"name"} \cup {"description"}) \cup ({"schema"} \cup {"required"}))
                     \cup (({"tags"} \cup {"safety"}) \cup ({"safeTag"} \cup {"function"})))
    BY <2>3, FS_Union
  <2>5. Looked = (({"name"} \cup {"description"}) \cup ({"schema"} \cup {"required"}))
                     \cup (({"tags"} \cup {"safety"}) \cup ({"safeTag"} \cup {"function"}))
    BY DEF Looked
  <2>6. QED
    BY <2>4, <2>5
<1>4. IsFiniteSet(tools)
  <2>1. IsFiniteSet(names \X looked)
    BY <1>1, <1>2, <1>3, FS_Product
  <2>2. tools \subseteq names \X looked
    OBVIOUS
  <2> HIDE DEF tools, names, looked
  <2>3. QED
    BY <2>1, <2>2, FS_Subset
<1>5. IsFiniteSet(whole)
  <2>1. IsFiniteSet({"duplicates"}) /\ IsFiniteSet({"count"})
    BY FS_Singleton
  <2>2. IsFiniteSet({"duplicates"} \cup {"count"})
    BY <2>1, FS_Union
  <2>3. whole \subseteq {"duplicates"} \cup {"count"}
    OBVIOUS
  <2> HIDE DEF whole
  <2>4. QED
    BY <2>2, <2>3, FS_Subset
<1>6. Tally(toolbox, grade) = Cardinality(tools) + Cardinality(whole)
  BY DEF Tally
<1>7. /\ Tally(toolbox, grade) \in Nat
      /\ Tally(toolbox, grade) = 0 => tools = {} /\ whole = {}
  <2> HIDE DEF tools, whole
  <2>1. Cardinality(tools) \in Nat /\ Cardinality(whole) \in Nat
    BY <1>4, <1>5, FS_CardinalityType
  <2>2. /\ Tally(toolbox, grade) \in Nat
        /\ Tally(toolbox, grade) = 0 => Cardinality(tools) = 0 /\ Cardinality(whole) = 0
    BY <1>6, <2>1
  <2>3. QED
    BY <1>4, <1>5, <2>2, FS_EmptySet
<1>8. ASSUME Tally(toolbox, grade) = 0, NEW n \in names, NEW c \in Looked
      PROVE  Examined(toolbox)[n][c] # grade
  <2>1. <<n, c>> \in names \X looked
    BY <1>1, <1>8
  <2>2. <<n, c>>[1] = n /\ <<n, c>>[2] = c
    OBVIOUS
  <2>3. <<n, c>> \notin tools
    BY <1>7, <1>8
  <2> HIDE DEF names, looked
  <2>4. QED
    BY <2>1, <2>2, <2>3
<1>9. Tally(toolbox, grade) = 0 => Ecosystem(toolbox).duplicates # grade
  BY <1>7
<1>10. QED
  BY <1>7, <1>8, <1>9

LEMMA CleanTool ==
  ASSUME NEW t, t.tags = IF t.safe THEN {"safe"} ELSE {"dangerous"},
         \A c \in Looked : Examine(t)[c] \notin {"fail", "warn"}
  PROVE  SchemaFailures(t) = {} /\ PermissionFailures(t) = {}
<1>1. /\ Examine(t).name \notin {"fail", "warn"} /\ Examine(t).description \notin {"fail", "warn"}
      /\ Examine(t).schema \notin {"fail", "warn"} /\ Examine(t).required \notin {"fail", "warn"}
      /\ Examine(t).safety \notin {"fail", "warn"} /\ Examine(t).safeTag \notin {"fail", "warn"}
  BY DEF Looked
<1>2. /\ t.name # "" /\ t.description # "" /\ WellFormed(t)
      /\ Documents(t) \notin {"fail", "warn"}
      /\ Safety(t) \notin {"fail", "warn"}
      /\ "safe" \in t.tags => t.safe
  BY <1>1 DEF Examine, Grade
<1>3. Undocumented(t.schema) = {}
  BY <1>2 DEF Documents
<1>4. /\ t.dangerous <=> "dangerous" \in t.tags
      /\ t.dangerous => t.approval
  BY <1>2 DEF Safety, Grade
<1>5. SchemaFailures(t) = {}
  BY <1>2, <1>3 DEF SchemaFailures, WellFormed
<1>6. /\ ~("dangerous" \in t.tags /\ ~t.approval)
      /\ ~("dangerous" \in t.tags /\ t.safe)
      /\ ~("safe" \in t.tags /\ ~t.safe)
  <2>1. ~("dangerous" \in t.tags /\ ~t.approval) /\ ~("safe" \in t.tags /\ ~t.safe)
    BY <1>2, <1>4
  <2>2. ASSUME t.safe PROVE "dangerous" \notin t.tags
    <3>1. t.tags = {"safe"}
      BY <2>2
    <3>2. QED
      BY <3>1
  <2>3. QED
    BY <2>1, <2>2, Zenon
<1>7. PermissionFailures(t) = {}
  BY <1>6 DEF PermissionFailures
<1>8. QED
  BY <1>5, <1>7

LEMMA BoxSound == BoxFits => CleanBill /\ RetriesOnlyRead
<1> SUFFICES ASSUME BoxFits PROVE CleanBill /\ RetriesOnlyRead
  OBVIOUS
<1>1. ASSUME Tally(toolbox, "fail") + Tally(toolbox, "warn") = 0
      PROVE  /\ \A n \in NamesIn(toolbox) : ValidateAll(toolbox)[n] \subseteq {"arguments"}
             /\ Twins(toolbox) = {}
  <2>0. Tally(toolbox, "fail") \in Nat /\ Tally(toolbox, "warn") \in Nat
    BY NoneTallied
  <2>1. Tally(toolbox, "fail") = 0 /\ Tally(toolbox, "warn") = 0
    BY <1>1, <2>0
  <2>2. /\ \A n \in NamesIn(toolbox), c \in Looked : Examined(toolbox)[n][c] # "fail"
        /\ \A n \in NamesIn(toolbox), c \in Looked : Examined(toolbox)[n][c] # "warn"
        /\ Ecosystem(toolbox).duplicates # "fail"
    BY <2>1, NoneTallied
  <2>3. Twins(toolbox) = {}
    BY <2>2 DEF Ecosystem, Grade
  <2>4. ASSUME NEW n \in NamesIn(toolbox)
        PROVE  ValidateAll(toolbox)[n] \subseteq {"arguments"}
    <3> DEFINE t == Named(toolbox, n)
    <3>1. t \in toolbox
      BY DEF NamesIn, Named
    <3>2. \A c \in Looked : Examine(t)[c] \notin {"fail", "warn"}
      BY <2>2, <2>4 DEF Examined
    <3>3. ValidateAll(toolbox)[n] = SchemaFailures(t) \cup ArgumentFailures(t)
          \cup PermissionFailures(t)
      BY DEF ValidateAll
    <3> HIDE DEF t
    <3>4. SchemaFailures(t) = {} /\ PermissionFailures(t) = {}
      BY <3>1, <3>2, CleanTool DEF BoxFits
    <3>5. QED
      BY <3>3, <3>4 DEF ArgumentFailures
  <2>5. QED
    BY <2>3, <2>4
<1>2. ASSUME sub.verdict = "scoped", sub.retries, NEW t \in sub.box, t.from = "builtin"
      PROVE  LET b == CHOOSE x \in Catalog : x.name = t.name
             IN /\ b.via \notin {"write", "delete"}
                /\ \A i \in DOMAIN b.programs : b.programs[i] \notin Changing
  <2> DEFINE b == CHOOSE x \in Catalog : x.name = t.name
  <2>1. t.name \in ReadOnlyTools /\ \E x \in Catalog : x.name = t.name
    BY <1>2 DEF BoxFits
  <2>2. b \in Catalog /\ b.name = t.name
    BY <2>1
  <2> HIDE DEF b
  <2>3. OnlyReads(b)
    BY <2>2, CatalogReads
  <2>4. QED
    BY <2>1, <2>2, <2>3 DEF OnlyReads, b
<1>3. QED
  BY <1>1, <1>2 DEF CleanBill, RetriesOnlyRead, BoxFits

-----------------------------------------------------------------------------
(* Of the input line.                                                      *)

LEMMA OffsetsGrow ==
  ASSUME NEW t \in Seq(Nat)
  PROVE  /\ Offsets(t) \in [0..Len(t) -> Nat]
         /\ Offsets(t)[0] = 0
         /\ \A i \in 1..Len(t) : Offsets(t)[i] = Offsets(t)[i - 1] + t[i]
<1> DEFINE plus == [a \in Nat |-> [b \in Nat |-> a + b]]
           Sums(m) == m = [i \in 0..Len(t) |-> IF i = 0 THEN 0 ELSE m[i - 1] + t[i]]
<1>1. plus \in [Nat -> [Nat -> Nat]] /\ \A a, b \in Nat : plus[a][b] = a + b
  OBVIOUS
<1>2. Len(t) \in Nat /\ \A i \in 1..Len(t) : t[i] \in Nat
  OBVIOUS
<1> HIDE DEF plus
<1>3. PICK m \in [0..Len(t) -> Nat] :
        Turns(m, t, 0, plus)
  <2>1. 0 \in Nat /\ t \in Seq(Nat) /\ plus \in [Nat -> [Nat -> Nat]]
    BY <1>1
  <2>2. QED
    BY <2>1, AlongExists
<1>4. \A i \in 1..Len(t) : m[i] = m[i - 1] + t[i]
  <2>1. \A i \in 1..Len(t) : i - 1 \in 0..Len(t)
    BY <1>2
  <2>2. \A i \in 1..Len(t) : m[i - 1] \in Nat /\ t[i] \in Nat
    BY <1>2, <2>1
  <2>3. QED
    BY <1>1, <1>3, <2>2 DEF Turns
<1>5. Sums(m)
  BY <1>2, <1>3, <1>4 DEF Turns
<1>6. Offsets(t) = CHOOSE n : Sums(n)
  BY DEF Offsets, Along
<1>7. Sums(Offsets(t))
  <2> HIDE DEF Sums
  <2>1. QED
    BY <1>5, <1>6
<1> DEFINE o == Offsets(t)
<1>8. /\ DOMAIN o = 0..Len(t) /\ o[0] = 0
      /\ \A i \in 1..Len(t) : o[i] = o[i - 1] + t[i]
  <2> HIDE DEF o
  <2>1. o = [i \in 0..Len(t) |-> IF i = 0 THEN 0 ELSE o[i - 1] + t[i]]
    BY <1>7 DEF o
  <2>2. QED
    BY <1>2, <2>1
<1> DEFINE Good == {i \in Nat : i <= Len(t) => o[i] \in Nat}
<1>9. 0 \in Good /\ \A i \in Nat : i \in Good => i + 1 \in Good
  <2> HIDE DEF o
  <2>1. ASSUME NEW i \in Nat, i \in Good, i + 1 <= Len(t)
        PROVE  o[i + 1] \in Nat
    <3>1. i + 1 \in 1..Len(t) /\ (i + 1) - 1 = i /\ o[i] \in Nat
      BY <1>2, <2>1
    <3>2. o[i + 1] = o[i] + t[i + 1]
      BY <1>8, <3>1
    <3>3. QED
      BY <1>2, <3>1, <3>2
  <2>2. QED
    BY <1>8, <2>1
<1> HIDE DEF Good
<1>10. Nat \subseteq Good
  BY <1>9, SetInduction
<1>11. \A i \in 0..Len(t) : o[i] \in Nat
  <2> HIDE DEF o
  <2>1. QED
    BY <1>2, <1>10 DEF Good
<1>12. o = [i \in 0..Len(t) |-> o[i]]
  <2> HIDE DEF o
  <2>1. o = [i \in 0..Len(t) |-> IF i = 0 THEN 0 ELSE o[i - 1] + t[i]]
    BY <1>7 DEF o
  <2>2. QED
    BY <2>1
<1>13. o \in [0..Len(t) -> Nat]
  <2> HIDE DEF o
  <2>1. QED
    BY <1>11, <1>12
<1>14. QED
  BY <1>8, <1>13

(* Behind their places k and l the next n characters have the same widths; *)
(* and their offsets differ as those of the places do.                     *)
SameText(t, r, k, l, n) == \A i \in 1..n : r[l + i] = t[k + i]
SameSteps(t, r, k, l, n) ==
  \A i \in 0..n : Offsets(r)[l + i] + Offsets(t)[k] = Offsets(t)[k + i] + Offsets(r)[l]

LEMMA OffsetsShift ==
  ASSUME NEW t \in Seq(Nat), NEW r \in Seq(Nat),
         NEW k \in 0..Len(t), NEW l \in 0..Len(r), NEW n \in Nat,
         k + n <= Len(t), l + n <= Len(r),
         SameText(t, r, k, l, n)
  PROVE  SameSteps(t, r, k, l, n)
<1> DEFINE o == Offsets(t)
           p == Offsets(r)
           Good == {i \in Nat : i <= n => p[l + i] + o[k] = o[k + i] + p[l]}
<1>1. /\ Len(t) \in Nat /\ Len(r) \in Nat /\ k \in Nat /\ l \in Nat
      /\ \A i \in 1..Len(t) : t[i] \in Nat
  OBVIOUS
<1>2. /\ o \in [0..Len(t) -> Nat] /\ \A i \in 1..Len(t) : o[i] = o[i - 1] + t[i]
      /\ p \in [0..Len(r) -> Nat] /\ \A i \in 1..Len(r) : p[i] = p[i - 1] + r[i]
  BY OffsetsGrow
<1> HIDE DEF o, p
<1>3. 0 \in Good
  <2>1. k + 0 = k /\ l + 0 = l
    BY <1>1
  <2>2. k \in 0..Len(t) /\ l \in 0..Len(r)
    OBVIOUS
  <2>3. p[l] \in Nat /\ o[k] \in Nat
    BY <1>2, <2>2
  <2>4. p[l] + o[k] = o[k] + p[l]
    BY <2>3
  <2>5. QED
    BY <2>1, <2>4
<1>4. ASSUME NEW i \in Nat, i \in Good, i + 1 <= n
      PROVE  p[l + (i + 1)] + o[k] = o[k + (i + 1)] + p[l]
  <2>1. /\ k + (i + 1) \in 1..Len(t) /\ l + (i + 1) \in 1..Len(r) /\ i + 1 \in 1..n
        /\ (k + (i + 1)) - 1 = k + i /\ (l + (i + 1)) - 1 = l + i
        /\ k + i \in 0..Len(t) /\ l + i \in 0..Len(r)
    BY <1>1, <1>4
  <2>2. /\ o[k + (i + 1)] = o[k + i] + t[k + (i + 1)]
        /\ p[l + (i + 1)] = p[l + i] + r[l + (i + 1)]
        /\ r[l + (i + 1)] = t[k + (i + 1)]
    BY <1>2, <2>1 DEF SameText
  <2>3. p[l + i] + o[k] = o[k + i] + p[l]
    BY <1>4
  <2>4. /\ p[l + i] \in Nat /\ o[k] \in Nat /\ o[k + i] \in Nat /\ p[l] \in Nat
        /\ t[k + (i + 1)] \in Nat
    BY <1>1, <1>2, <2>1
  <2> DEFINE a == p[l + i]
             b == o[k]
             c == o[k + i]
             d == p[l]
             e == t[k + (i + 1)]
  <2>5. a + b = c + d /\ a \in Nat /\ b \in Nat /\ c \in Nat /\ d \in Nat /\ e \in Nat
    BY <2>3, <2>4
  <2>6. p[l + (i + 1)] = a + e /\ o[k + (i + 1)] = c + e /\ o[k] = b /\ p[l] = d
    BY <2>2
  <2> HIDE DEF a, b, c, d, e
  <2>7. (a + e) + b = (c + e) + d
    BY <2>5
  <2>8. QED
    BY <2>6, <2>7
<1> HIDE DEF Good
<1>5. \A i \in Nat : i \in Good => i + 1 \in Good
  BY <1>4 DEF Good
<1>6. Nat \subseteq Good
  BY <1>3, <1>5, SetInduction
<1>7. QED
  BY <1>6 DEF Good, o, p, SameSteps

Shapes ==
  [text : Seq(Widths), cursor : Nat, query : Seq(Widths), searching : BOOLEAN,
   help : BOOLEAN, panel : 0..Panels - 1, side : 0..MaxScroll, chat : 0..MaxScroll,
   quit : BOOLEAN]

InputFits == ui \in Shapes /\ CursorOnBoundary

(* A text with other characters between a place and a later one.           *)
LEMMA Spliced ==
  ASSUME NEW t \in Seq(Nat), NEW k \in 0..Len(t), NEW m \in k..Len(t),
         NEW r \in Seq(Nat), NEW n \in Nat, Len(r) = (k + n) + (Len(t) - m),
         \A i \in 1..k : r[i] = t[i],
         \A i \in 1..Len(t) - m : r[(k + n) + i] = t[m + i]
  PROVE  /\ \A i \in 0..k : Offsets(r)[i] = Offsets(t)[i]
         /\ Bytes(r) + Offsets(t)[m] = Bytes(t) + Offsets(r)[k + n]
<1>1. Len(t) \in Nat /\ Len(r) \in Nat /\ k \in Nat /\ m \in Nat /\ Len(t) - m \in Nat
  OBVIOUS
<1>2. \A i \in 0..k : Offsets(r)[0 + i] + Offsets(t)[0] = Offsets(t)[0 + i] + Offsets(r)[0]
  <2>1. /\ 0 \in 0..Len(t) /\ 0 \in 0..Len(r) /\ 0 + k <= Len(t) /\ 0 + k <= Len(r)
        /\ SameText(t, r, 0, 0, k)
    BY <1>1 DEF SameText
  <2>2. SameSteps(t, r, 0, 0, k)
    BY <1>1, <2>1, OffsetsShift
  <2>3. QED
    BY <2>2 DEF SameSteps
<1>3. \A i \in 0..Len(t) - m :
        Offsets(r)[(k + n) + i] + Offsets(t)[m] = Offsets(t)[m + i] + Offsets(r)[k + n]
  <2>1. /\ m \in 0..Len(t) /\ k + n \in 0..Len(r)
        /\ m + (Len(t) - m) <= Len(t) /\ (k + n) + (Len(t) - m) <= Len(r)
        /\ SameText(t, r, m, k + n, Len(t) - m)
    <3>1. \A a, b, c \in Nat : a <= c =>
            /\ a \in 0..c /\ b \in 0..b + (c - a)
            /\ a + (c - a) <= c /\ b + (c - a) <= b + (c - a)
      OBVIOUS
    <3>2. m <= Len(t) /\ k + n \in Nat
      BY <1>1
    <3>3. SameText(t, r, m, k + n, Len(t) - m)
      BY DEF SameText
    <3>4. QED
      BY <1>1, <3>1, <3>2, <3>3
  <2>2. SameSteps(t, r, m, k + n, Len(t) - m)
    BY <1>1, <2>1, OffsetsShift
  <2>3. QED
    BY <2>2 DEF SameSteps
<1>4. /\ Offsets(t)[0] = 0 /\ Offsets(r)[0] = 0
      /\ Offsets(t) \in [0..Len(t) -> Nat] /\ Offsets(r) \in [0..Len(r) -> Nat]
  BY OffsetsGrow
<1>5. ASSUME NEW i \in 0..k
      PROVE  Offsets(r)[i] = Offsets(t)[i]
  <2>1. 0 + i = i /\ i \in 0..Len(t) /\ i \in 0..Len(r)
    BY <1>1
  <2> DEFINE x == Offsets(r)[i]
             y == Offsets(t)[i]
  <2>2. x \in Nat /\ y \in Nat /\ x + 0 = y + 0
    BY <1>2, <1>4, <2>1
  <2> HIDE DEF x, y
  <2>3. x = y
    BY <2>2
  <2>4. QED
    BY <2>3 DEF x, y
<1>6. Bytes(r) + Offsets(t)[m] = Bytes(t) + Offsets(r)[k + n]
  <2>1. Len(t) - m \in 0..Len(t) - m /\ m + (Len(t) - m) = Len(t) /\ (k + n) + (Len(t) - m) = Len(r)
    BY <1>1
  <2>2. QED
    BY <1>3, <2>1 DEF Bytes
<1>7. QED
  BY <1>5, <1>6

LEMMA WidthsAreNumbers ==
  ASSUME InputAssumption
  PROVE  /\ \A w \in Widths : w \in 1..4
         /\ \A t \in Seq(Widths) : t \in Seq(Nat)
         /\ InputLimit \in Nat /\ SearchLimit \in Nat /\ MaxScroll \in Nat
<1>1. Widths \subseteq Nat
  BY DEF InputAssumption
<1>2. ASSUME NEW t \in Seq(Widths)
      PROVE  t \in Seq(Nat)
  <2>1. Len(t) \in Nat /\ t \in [1..Len(t) -> Widths]
    BY LenProperties
  <2>2. t \in [1..Len(t) -> Nat]
    BY <1>1, <2>1
  <2>3. QED
    BY <2>1, <2>2
<1>3. QED
  BY <1>2 DEF InputAssumption

(* Where the cursor stands among the characters, and what is on its sides. *)
LEMMA CursorPlace ==
  ASSUME InputAssumption, InputFits
  PROVE  \E k \in 0..Len(ui.text) :
           /\ k = Split(ui) /\ Offsets(ui.text)[k] = ui.cursor
           /\ Before(ui) \in Seq(Widths) /\ Len(Before(ui)) = k
           /\ \A i \in 1..k : Before(ui)[i] = ui.text[i]
           /\ Rest(ui) \in Seq(Widths) /\ Len(Rest(ui)) = Len(ui.text) - k
           /\ \A i \in 1..Len(ui.text) - k : Rest(ui)[i] = ui.text[k + i]
<1> DEFINE t == ui.text
           k == Split(ui)
<1>1. t \in Seq(Widths) /\ Len(t) \in Nat /\ \A i \in 1..Len(t) : t[i] \in Widths
  BY DEF InputFits, Shapes
<1>2. k \in 0..Len(t) /\ Offsets(t)[k] = ui.cursor
  BY DEF InputFits, CursorOnBoundary, Boundaries, Split
<1> HIDE DEF k
<1>3. /\ SubSeq(t, 1, k) \in Seq(Widths) /\ Len(SubSeq(t, 1, k)) = k
      /\ \A i \in 1..k : SubSeq(t, 1, k)[i] = t[i]
  <2>1. 1 \in Int /\ k \in Int /\ \A i \in 1..k : t[i] \in Widths
    BY <1>1, <1>2
  <2>2. /\ SubSeq(t, 1, k) \in Seq(Widths)
        /\ Len(SubSeq(t, 1, k)) = IF 1 <= k THEN k - 1 + 1 ELSE 0
        /\ \A i \in 1..k - 1 + 1 : SubSeq(t, 1, k)[i] = t[1 + i - 1]
    BY <2>1, SubSeqProperties
  <2>3. QED
    BY <1>1, <1>2, <2>2
<1>4. /\ SubSeq(t, k + 1, Len(t)) \in Seq(Widths)
      /\ Len(SubSeq(t, k + 1, Len(t))) = Len(t) - k
      /\ \A i \in 1..Len(t) - k : SubSeq(t, k + 1, Len(t))[i] = t[k + i]
  <2>1. k + 1 \in Int /\ Len(t) \in Int /\ \A i \in k + 1..Len(t) : t[i] \in Widths
    BY <1>1, <1>2
  <2>2. /\ SubSeq(t, k + 1, Len(t)) \in Seq(Widths)
        /\ Len(SubSeq(t, k + 1, Len(t))) = IF k + 1 <= Len(t) THEN Len(t) - (k + 1) + 1 ELSE 0
        /\ \A i \in 1..Len(t) - (k + 1) + 1 :
             SubSeq(t, k + 1, Len(t))[i] = t[(k + 1) + i - 1]
    BY <2>1, SubSeqProperties
  <2>3. QED
    BY <1>1, <1>2, <2>2
<1>5. Before(ui) = SubSeq(t, 1, k) /\ Rest(ui) = SubSeq(t, k + 1, Len(t))
  BY DEF Before, Rest, k
<1>6. QED
  BY <1>2, <1>3, <1>4, <1>5 DEF k

(* A character more at the cursor.                                         *)
LEMMA TypedText ==
  ASSUME InputAssumption, InputFits, NEW w \in Widths,
         Bytes(ui.text) < InputLimit
  PROVE  LET r == Before(ui) \o <<w>> \o Rest(ui)
         IN /\ r \in Seq(Widths) /\ ui.cursor + w \in Boundaries(r)
            /\ Bytes(r) < InputLimit + 4
<1> DEFINE t == ui.text
           b == Before(ui)
           e == Rest(ui)
           r == (b \o <<w>>) \o e
<1>1. PICK k \in 0..Len(t) :
        /\ Offsets(t)[k] = ui.cursor
        /\ b \in Seq(Widths) /\ Len(b) = k /\ \A i \in 1..k : b[i] = t[i]
        /\ e \in Seq(Widths) /\ Len(e) = Len(t) - k
        /\ \A i \in 1..Len(t) - k : e[i] = t[k + i]
  BY CursorPlace
<1>2. t \in Seq(Widths) /\ t \in Seq(Nat) /\ Len(t) \in Nat /\ w \in 1..4 /\ InputLimit \in Nat
  BY WidthsAreNumbers DEF InputFits, Shapes
<1> HIDE DEF t, b, e
<1> DEFINE f == b \o <<w>>
<1>3. /\ f \in Seq(Widths) /\ Len(f) = k + 1
      /\ \A i \in 1..k : f[i] = t[i]
      /\ f[k + 1] = w
  <2>1. /\ <<w>> \in Seq(Widths) /\ Len(<<w>>) = 1 /\ <<w>>[1] = w
    OBVIOUS
  <2>2. /\ f \in Seq(Widths) /\ Len(f) = Len(b) + Len(<<w>>)
        /\ \A i \in 1..Len(b) : f[i] = b[i]
        /\ \A j \in 1..Len(<<w>>) : f[Len(b) + j] = <<w>>[j]
    BY <1>1, <2>1, Joined
  <2> HIDE DEF f
  <2>3. f[k + 1] = w
    BY <1>1, <2>1, <2>2
  <2>4. QED
    BY <1>1, <2>1, <2>2, <2>3
<1> HIDE DEF f
<1>4. /\ r \in Seq(Widths) /\ Len(r) = (k + 1) + (Len(t) - k)
      /\ \A i \in 1..k + 1 : r[i] = f[i]
      /\ \A j \in 1..Len(t) - k : r[(k + 1) + j] = e[j]
  <2>1. /\ f \o e \in Seq(Widths) /\ Len(f \o e) = Len(f) + Len(e)
        /\ \A i \in 1..Len(f) : (f \o e)[i] = f[i]
        /\ \A j \in 1..Len(e) : (f \o e)[Len(f) + j] = e[j]
    <3>1. f \in Seq(Widths) /\ e \in Seq(Widths)
      BY <1>1, <1>3
    <3>2. QED
      BY <3>1, Joined
  <2>2. r = f \o e
    BY DEF f
  <2>3. QED
    BY <1>1, <1>3, <2>1, <2>2
<1> HIDE DEF r
<1>5. /\ r \in Seq(Nat) /\ r[k + 1] = w
      /\ \A i \in 1..k : r[i] = t[i]
      /\ \A i \in 1..Len(t) - k : r[(k + 1) + i] = t[k + i]
  <2>1. r \in Seq(Nat)
    BY <1>4, WidthsAreNumbers
  <2>2. k + 1 \in 1..k + 1 /\ \A i \in 1..k : i \in 1..k + 1
    BY <1>2
  <2>3. r[k + 1] = w /\ \A i \in 1..k : r[i] = t[i]
    BY <1>3, <1>4, <2>2
  <2>4. QED
    BY <1>1, <1>4, <2>1, <2>3
<1>6. /\ \A i \in 0..k : Offsets(r)[i] = Offsets(t)[i]
      /\ Bytes(r) + Offsets(t)[k] = Bytes(t) + Offsets(r)[k + 1]
  <2>1. k \in k..Len(t) /\ 1 \in Nat
    BY <1>2
  <2>2. QED
    BY <1>2, <1>4, <1>5, <2>1, Spliced
<1>7. Offsets(r)[k + 1] = ui.cursor + w
  <2>1. k + 1 \in 1..Len(r) /\ (k + 1) - 1 = k /\ k \in 0..k
    <3>1. \A i, n \in Nat : i <= n =>
            i + 1 \in 1..(i + 1) + (n - i) /\ (i + 1) - 1 = i /\ i \in 0..i
      OBVIOUS
    <3>2. k \in Nat /\ k <= Len(t)
      BY <1>2
    <3>3. QED
      BY <1>2, <1>4, <3>1, <3>2
  <2>2. Offsets(r)[k + 1] = Offsets(r)[k] + r[k + 1]
    BY <1>5, <2>1, OffsetsGrow
  <2>3. QED
    BY <1>1, <1>5, <1>6, <2>1, <2>2
<1>8. Bytes(r) = Bytes(t) + w
  <2>1. Bytes(r) \in Nat /\ Bytes(t) \in Nat /\ ui.cursor \in Nat
    <3>1. Len(r) \in 0..Len(r) /\ Len(t) \in 0..Len(t)
      BY <1>2, <1>4
    <3>2. Offsets(r) \in [0..Len(r) -> Nat] /\ Offsets(t) \in [0..Len(t) -> Nat]
      BY <1>2, <1>5, OffsetsGrow
    <3>3. QED
      BY <1>1, <3>1, <3>2 DEF Bytes
  <2>2. Bytes(r) + ui.cursor = Bytes(t) + (ui.cursor + w)
    BY <1>1, <1>6, <1>7
  <2> DEFINE x == Bytes(r)
             y == Bytes(t)
             c == ui.cursor
  <2>3. x \in Nat /\ y \in Nat /\ c \in Nat /\ w \in Nat /\ x + c = y + (c + w)
    BY <1>2, <2>1, <2>2
  <2> HIDE DEF x, y, c
  <2>4. x = y + w
    BY <2>3
  <2>5. QED
    BY <2>4 DEF x, y
<1>9. ui.cursor + w \in Boundaries(r)
  <2>1. k + 1 \in 0..Len(r)
    BY <1>2, <1>4
  <2>2. QED
    BY <1>7, <2>1 DEF Boundaries
<1>10. Bytes(t) \in Nat /\ Bytes(t) < InputLimit
  <2>1. Len(t) \in 0..Len(t) /\ Offsets(t) \in [0..Len(t) -> Nat]
    BY <1>2, OffsetsGrow
  <2>2. QED
    BY <2>1 DEF Bytes, t
<1>11. Bytes(r) < InputLimit + 4
  BY <1>2, <1>8, <1>10
<1>12. QED
  BY <1>4, <1>9, <1>11 DEF r, b, e

LEMMA BytesCount ==
  ASSUME InputAssumption, NEW t \in Seq(Widths)
  PROVE  /\ Len(t) \in Nat /\ Bytes(t) \in Nat /\ Offsets(t) \in [0..Len(t) -> Nat]
         /\ Offsets(t)[0] = 0
         /\ \A i \in 1..Len(t) : t[i] \in 1..4 /\ Offsets(t)[i] = Offsets(t)[i - 1] + t[i]
<1>1. t \in Seq(Nat) /\ Len(t) \in Nat /\ \A i \in 1..Len(t) : t[i] \in Widths
  BY WidthsAreNumbers
<1>2. /\ Offsets(t) \in [0..Len(t) -> Nat] /\ Offsets(t)[0] = 0
      /\ \A i \in 1..Len(t) : Offsets(t)[i] = Offsets(t)[i - 1] + t[i]
  BY <1>1, OffsetsGrow
<1>3. Bytes(t) \in Nat
  BY <1>1, <1>2 DEF Bytes
<1>4. QED
  BY <1>1, <1>2, <1>3, WidthsAreNumbers

(* A text without its m-th character.                                      *)
LEMMA CutText ==
  ASSUME InputAssumption, NEW t \in Seq(Widths), NEW m \in 1..Len(t),
         NEW b \in Seq(Widths), Len(b) = m - 1, \A i \in 1..m - 1 : b[i] = t[i],
         NEW e \in Seq(Widths), Len(e) = Len(t) - m, \A i \in 1..Len(t) - m : e[i] = t[m + i]
  PROVE  /\ b \o e \in Seq(Widths)
         /\ Offsets(t)[m - 1] \in Boundaries(b \o e)
         /\ Bytes(b \o e) <= Bytes(t)
<1> DEFINE r == b \o e
           k == m - 1
<1>1. /\ Len(t) \in Nat /\ m \in Nat /\ k \in Nat /\ k \in 0..Len(t) /\ m \in k..Len(t)
      /\ k + 0 = k /\ Len(t) - m \in Nat
  BY BytesCount
<1>2. /\ r \in Seq(Widths) /\ Len(r) = Len(b) + Len(e)
      /\ \A i \in 1..Len(b) : r[i] = b[i]
      /\ \A j \in 1..Len(e) : r[Len(b) + j] = e[j]
  <2>1. b \in Seq(Widths) /\ e \in Seq(Widths)
    OBVIOUS
  <2>2. /\ b \o e \in Seq(Widths) /\ Len(b) \in Nat /\ Len(e) \in Nat
        /\ Len(b \o e) = Len(b) + Len(e)
        /\ DOMAIN (b \o e) = 1..Len(b) + Len(e)
        /\ \A i \in 1..Len(b) : (b \o e)[i] = b[i]
        /\ \A j \in 1..Len(e) : (b \o e)[Len(b) + j] = e[j]
    BY ONLY <2>1, Joined
  <2>3. QED
    BY <2>2
<1> HIDE DEF r
<1>3. /\ r \in Seq(Nat) /\ t \in Seq(Nat) /\ Len(r) = (k + 0) + (Len(t) - m)
      /\ \A i \in 1..k : r[i] = t[i]
      /\ \A i \in 1..Len(t) - m : r[(k + 0) + i] = t[m + i]
  BY <1>1, <1>2, WidthsAreNumbers
<1>4. /\ \A i \in 0..k : Offsets(r)[i] = Offsets(t)[i]
      /\ Bytes(r) + Offsets(t)[m] = Bytes(t) + Offsets(r)[k + 0]
  <2> HIDE DEF k
  <2>1. 0 \in Nat
    OBVIOUS
  <2>2. QED
    BY <1>1, <1>3, <2>1, Spliced
<1>5. k \in 0..Len(r) /\ Offsets(r)[k] = Offsets(t)[k]
  BY <1>1, <1>3, <1>4
<1>6. Bytes(r) <= Bytes(t)
  <2> DEFINE x == Bytes(r)
             y == Bytes(t)
             c == Offsets(t)[k]
             d == Offsets(t)[m]
             w == t[m]
  <2>1. x \in Nat /\ y \in Nat /\ c \in Nat /\ w \in 1..4 /\ d = c + w
    BY <1>1, <1>2, BytesCount
  <2>2. x + d = y + c
    BY <1>1, <1>4, <1>5
  <2> HIDE DEF x, y, c, d, w
  <2>3. x <= y
    BY <2>1, <2>2
  <2>4. QED
    BY <2>3 DEF x, y
<1>7. Offsets(t)[k] \in Boundaries(r)
  BY <1>5 DEF Boundaries
<1>8. QED
  BY <1>2, <1>6, <1>7 DEF r

(* The text up to a place has the bytes that are before it.                *)
LEMMA StartText ==
  ASSUME InputAssumption, NEW t \in Seq(Widths), NEW k \in 0..Len(t),
         NEW b \in Seq(Widths), Len(b) = k, \A i \in 1..k : b[i] = t[i]
  PROVE  Bytes(b) = Offsets(t)[k]
<1>1. /\ t \in Seq(Nat) /\ b \in Seq(Nat) /\ Len(t) \in Nat
  BY WidthsAreNumbers, BytesCount
<1>2. /\ Len(t) \in k..Len(t) /\ 0 \in Nat /\ Len(b) = (k + 0) + (Len(t) - Len(t))
      /\ \A i \in 1..Len(t) - Len(t) : b[(k + 0) + i] = t[Len(t) + i]
  BY <1>1
<1>3. \A i \in 0..k : Offsets(b)[i] = Offsets(t)[i]
  BY <1>1, <1>2, Spliced
<1>4. k \in 0..k
  BY <1>1
<1>5. QED
  BY <1>3, <1>4 DEF Bytes

-----------------------------------------------------------------------------
LEMMA InputInitial == InputAssumption /\ InputInit => InputFits
<1> SUFFICES ASSUME InputAssumption, InputInit PROVE InputFits
  OBVIOUS
<1>1. /\ ui.text = <<>> /\ ui.cursor = 0 /\ <<>> \in Seq(Widths) /\ Len(<<>>) = 0
  BY DEF InputInit
<1>2. Offsets(<<>>)[0] = 0
  BY <1>1, BytesCount
<1>3. ui.cursor \in Boundaries(ui.text) /\ Bytes(ui.text) = 0
  BY <1>1, <1>2 DEF Boundaries, Bytes
<1>4. ui \in Shapes
  BY <1>1, WidthsAreNumbers DEF InputInit, Shapes, Panels
<1>5. QED
  BY <1>3, <1>4, WidthsAreNumbers DEF InputFits, CursorOnBoundary

(* What leaves the text and the cursor alone.                              *)
LEMMA TextStays ==
  ASSUME InputFits, ui' \in Shapes, ui'.text = ui.text, ui'.cursor = ui.cursor
  PROVE  InputFits'
BY DEF InputFits, CursorOnBoundary

(* A new text, and a cursor in it.                                         *)
LEMMA TextChanges ==
  ASSUME InputFits, NEW r \in Seq(Widths), NEW c \in Boundaries(r), c \in Nat,
         Bytes(r) < InputLimit + 4,
         ui' = [ui EXCEPT !.text = r, !.cursor = c]
  PROVE  InputFits'
<1>1. ui \in Shapes /\ ui'.text = r /\ ui'.cursor = c
  BY DEF InputFits, Shapes
<1>2. ui' \in Shapes
  BY <1>1 DEF Shapes
<1>3. CursorOnBoundary'
  BY <1>1 DEF CursorOnBoundary
<1>4. QED
  BY <1>2, <1>3 DEF InputFits

LEMMA BoundariesCount ==
  ASSUME InputAssumption, NEW t \in Seq(Widths), NEW c \in Boundaries(t)
  PROVE  c \in Nat
BY BytesCount DEF Boundaries

LEMMA FrontFacts ==
  ASSUME NEW T, NEW s \in Seq(T), s # <<>>
  PROVE  /\ Front(s) \in Seq(T) /\ Len(Front(s)) = Len(s) - 1
         /\ \A i \in 1..Len(s) - 1 : Front(s)[i] = s[i]
<1>1. Len(s) \in Nat /\ Len(s) # 0 /\ \A i \in 1..Len(s) : s[i] \in T
  OBVIOUS
<1>2. 1 \in Int /\ Len(s) - 1 \in Int /\ \A i \in 1..Len(s) - 1 : s[i] \in T
  BY <1>1
<1>3. /\ SubSeq(s, 1, Len(s) - 1) \in Seq(T)
      /\ Len(SubSeq(s, 1, Len(s) - 1)) = IF 1 <= Len(s) - 1 THEN (Len(s) - 1) - 1 + 1 ELSE 0
      /\ \A i \in 1..(Len(s) - 1) - 1 + 1 : SubSeq(s, 1, Len(s) - 1)[i] = s[1 + i - 1]
  BY <1>2, SubSeqProperties
<1>4. Front(s) = SubSeq(s, 1, Len(s) - 1)
  BY DEF Front
<1>5. \A i \in 1..Len(s) - 1 : i \in 1..(Len(s) - 1) - 1 + 1 /\ 1 + i - 1 = i
  <2>1. \A n \in Nat : \A i \in 1..n - 1 : i \in 1..(n - 1) - 1 + 1 /\ 1 + i - 1 = i
    OBVIOUS
  <2>2. QED
    BY <1>1, <2>1
<1>6. (IF 1 <= Len(s) - 1 THEN (Len(s) - 1) - 1 + 1 ELSE 0) = Len(s) - 1
  <2>1. \A n \in Nat \ {0} : (IF 1 <= n - 1 THEN (n - 1) - 1 + 1 ELSE 0) = n - 1
    OBVIOUS
  <2>2. QED
    BY <1>1, <2>1
<1>7. QED
  BY <1>3, <1>4, <1>5, <1>6

LEMMA TypingStep ==
  ASSUME InputAssumption, InputFits, NEW w \in Widths, Bytes(ui.text) < InputLimit,
         ui' = [ui EXCEPT !.text = Before(ui) \o <<w>> \o Rest(ui), !.cursor = @ + w]
  PROVE  InputFits'
<1> DEFINE r == Before(ui) \o <<w>> \o Rest(ui)
<1>1. /\ r \in Seq(Widths) /\ ui.cursor + w \in Boundaries(r)
      /\ Bytes(r) < InputLimit + 4
  BY TypedText
<1>2. ui' = [ui EXCEPT !.text = r, !.cursor = ui.cursor + w]
  BY DEF InputFits, Shapes
<1> HIDE DEF r
<1>3. ui.cursor + w \in Nat
  BY <1>1, BoundariesCount
<1>4. QED
  BY <1>1, <1>2, <1>3, TextChanges

LEMMA DeletePrevStep ==
  ASSUME InputAssumption, InputFits, DeletePrev
  PROVE  InputFits'
<1> DEFINE t == ui.text
           b == Before(ui)
           e == Rest(ui)
<1>1. PICK k \in 0..Len(t) :
        /\ Offsets(t)[k] = ui.cursor
        /\ b \in Seq(Widths) /\ Len(b) = k /\ \A i \in 1..k : b[i] = t[i]
        /\ e \in Seq(Widths) /\ Len(e) = Len(t) - k
        /\ \A i \in 1..Len(t) - k : e[i] = t[k + i]
  BY CursorPlace
<1>2. t \in Seq(Widths) /\ Len(t) \in Nat /\ ui \in Shapes
  BY DEF InputFits, Shapes
<1>3. CASE ui.searching
  <2>1. ui.query # <<>> /\ ui' = [ui EXCEPT !.query = Front(ui.query)]
    BY <1>2, <1>3 DEF DeletePrev, Shapes
  <2>2. Front(ui.query) \in Seq(Widths)
    BY <1>2, <2>1, FrontFacts DEF Shapes
  <2>3. ui' \in Shapes /\ ui'.text = ui.text /\ ui'.cursor = ui.cursor
    BY <1>2, <2>1, <2>2 DEF Shapes
  <2>4. QED
    BY <2>3, TextStays
<1>4. CASE ~ui.searching
  <2>1. ui.cursor > 0 /\ ui' = [ui EXCEPT !.text = Front(b) \o e, !.cursor = Bytes(Front(b))]
    BY <1>4 DEF DeletePrev
  <2>2. k # 0 /\ k \in 1..Len(t)
    <3>1. Offsets(t)[0] = 0
      BY <1>2, BytesCount
    <3>2. ui.cursor # 0
      BY <1>2, <2>1 DEF Shapes
    <3>3. k # 0
      BY <1>1, <3>1, <3>2
    <3>4. QED
      BY <1>2, <3>3
  <2> HIDE DEF t, b, e
  <2>3. b # <<>>
    BY <1>1, <2>2
  <2>4. /\ Front(b) \in Seq(Widths) /\ Len(Front(b)) = k - 1
        /\ \A i \in 1..k - 1 : Front(b)[i] = b[i]
    BY <1>1, <2>3, FrontFacts
  <2> DEFINE f == Front(b)
  <2> HIDE DEF f
  <2>5. f \in Seq(Widths) /\ Len(f) = k - 1 /\ \A i \in 1..k - 1 : f[i] = t[i]
    <3>1. \A i \in 1..k - 1 : i \in 1..k
      BY <1>2, <2>2
    <3>2. QED
      BY <1>1, <2>4, <3>1 DEF f
  <2>6. /\ f \o e \in Seq(Widths) /\ Offsets(t)[k - 1] \in Boundaries(f \o e)
        /\ Bytes(f \o e) <= Bytes(t)
    BY <1>1, <1>2, <2>2, <2>5, CutText
  <2>7. Bytes(f) = Offsets(t)[k - 1]
    <3>1. k - 1 \in 0..Len(t)
      BY <1>2, <2>2
    <3>2. QED
      BY <1>2, <2>5, <3>1, StartText
  <2>8. Bytes(f \o e) < InputLimit + 4
    <3>1. Bytes(t) < InputLimit + 4
      BY DEF InputFits, CursorOnBoundary, t
    <3>2. Bytes(t) \in Nat /\ Bytes(f \o e) \in Nat /\ InputLimit \in Nat
      BY <1>2, <2>6, BytesCount, WidthsAreNumbers
    <3>3. QED
      BY <2>6, <3>1, <3>2
  <2>9. ui' = [ui EXCEPT !.text = f \o e, !.cursor = Bytes(f)]
    BY <2>1 DEF f
  <2>10. Bytes(f) \in Boundaries(f \o e) /\ Bytes(f) \in Nat
    BY <2>5, <2>6, <2>7, BytesCount
  <2>11. QED
    BY <2>6, <2>8, <2>9, <2>10, TextChanges
<1>5. QED
  BY <1>3, <1>4

LEMMA DeleteNextStep ==
  ASSUME InputAssumption, InputFits, DeleteNext
  PROVE  InputFits'
<1> DEFINE t == ui.text
           b == Before(ui)
           e == Rest(ui)
<1>1. PICK k \in 0..Len(t) :
        /\ Offsets(t)[k] = ui.cursor
        /\ b \in Seq(Widths) /\ Len(b) = k /\ \A i \in 1..k : b[i] = t[i]
        /\ e \in Seq(Widths) /\ Len(e) = Len(t) - k
        /\ \A i \in 1..Len(t) - k : e[i] = t[k + i]
  BY CursorPlace
<1>2. t \in Seq(Widths) /\ Len(t) \in Nat /\ ui \in Shapes
  BY DEF InputFits, Shapes
<1>3. ui.cursor < Bytes(ui.text) /\ ui' = [ui EXCEPT !.text = b \o Tail(e)]
  BY DEF DeleteNext
<1>4. k # Len(t) /\ k + 1 \in 1..Len(t)
  <2>1. Bytes(t) \in Nat /\ Bytes(t) = Offsets(t)[Len(t)]
    BY <1>2, BytesCount DEF Bytes
  <2>2. ui.cursor \in Nat /\ ui.cursor < Bytes(t)
    BY <1>2, <1>3 DEF Shapes
  <2>3. ui.cursor # Bytes(t)
    <3> DEFINE x == ui.cursor
               y == Bytes(t)
    <3>1. x \in Nat /\ y \in Nat /\ x < y
      BY <2>1, <2>2
    <3> HIDE DEF x, y
    <3>2. x # y
      BY <3>1
    <3>3. QED
      BY <3>2 DEF x, y
  <2>4. k # Len(t)
    BY <1>1, <2>1, <2>3
  <2>5. QED
    BY <1>2, <2>4
<1> HIDE DEF t, b, e
<1>5. e # <<>> /\ k \in Nat
  BY <1>1, <1>2, <1>4
<1> DEFINE f == Tail(e)
<1>6. /\ f \in Seq(Widths) /\ Len(f) = Len(t) - (k + 1)
      /\ \A i \in 1..Len(t) - (k + 1) : f[i] = e[i + 1]
  BY <1>1, <1>2, <1>5, HeadTailProperties
<1> HIDE DEF f
<1>7. \A i \in 1..Len(t) - (k + 1) : f[i] = t[(k + 1) + i]
  <2>1. \A i \in 1..Len(t) - (k + 1) : i + 1 \in 1..Len(t) - k /\ k + (i + 1) = (k + 1) + i
    BY <1>2, <1>5
  <2>2. QED
    BY <1>1, <1>6, <2>1
<1>8. Len(b) = (k + 1) - 1 /\ \A i \in 1..(k + 1) - 1 : b[i] = t[i]
  BY <1>1, <1>5
<1>9. /\ b \o f \in Seq(Widths) /\ Offsets(t)[(k + 1) - 1] \in Boundaries(b \o f)
      /\ Bytes(b \o f) <= Bytes(t)
  BY <1>1, <1>2, <1>4, <1>6, <1>7, <1>8, CutText
<1>10. Bytes(b \o f) < InputLimit + 4
  <2>1. Bytes(t) < InputLimit + 4
    BY DEF InputFits, CursorOnBoundary, t
  <2>2. Bytes(t) \in Nat /\ Bytes(b \o f) \in Nat /\ InputLimit \in Nat
    BY <1>2, <1>9, BytesCount, WidthsAreNumbers
  <2>3. QED
    BY <1>9, <2>1, <2>2
<1>11. ui.cursor \in Boundaries(b \o f) /\ ui.cursor \in Nat
  <2>1. (k + 1) - 1 = k
    BY <1>5
  <2>2. QED
    BY <1>1, <1>2, <1>9, <2>1 DEF Shapes
<1>12. ui' = [ui EXCEPT !.text = b \o f, !.cursor = ui.cursor]
  BY <1>2, <1>3 DEF Shapes, f
<1>13. QED
  BY <1>9, <1>10, <1>11, <1>12, TextChanges

LEMMA MoveStep ==
  ASSUME InputAssumption, InputFits,
         MoveCursorLeft \/ MoveCursorRight \/ MoveCursorHome \/ MoveCursorEnd
  PROVE  InputFits'
<1> DEFINE t == ui.text
           b == Before(ui)
           e == Rest(ui)
<1>1. PICK k \in 0..Len(t) :
        /\ Offsets(t)[k] = ui.cursor
        /\ b \in Seq(Widths) /\ Len(b) = k /\ \A i \in 1..k : b[i] = t[i]
        /\ e \in Seq(Widths) /\ Len(e) = Len(t) - k
        /\ \A i \in 1..Len(t) - k : e[i] = t[k + i]
  BY CursorPlace
<1>2. /\ t \in Seq(Widths) /\ Len(t) \in Nat /\ ui \in Shapes
      /\ Bytes(t) < InputLimit + 4 /\ Bytes(t) = Offsets(t)[Len(t)]
  BY DEF InputFits, Shapes, CursorOnBoundary, Bytes
<1>3. ASSUME NEW i \in 0..Len(t), ui' = [ui EXCEPT !.cursor = Offsets(t)[i]]
      PROVE  InputFits'
  <2>1. Offsets(t)[i] \in Boundaries(t) /\ Offsets(t)[i] \in Nat
    BY <1>2, BytesCount DEF Boundaries
  <2>2. ui' = [ui EXCEPT !.text = t, !.cursor = Offsets(t)[i]]
    BY <1>2, <1>3 DEF Shapes
  <2> HIDE DEF t
  <2>3. QED
    BY <1>2, <2>1, <2>2, TextChanges
<1>4. CASE MoveCursorLeft
  <2>1. ui.cursor > 0 /\ ui' = [ui EXCEPT !.cursor = Bytes(Front(b))]
    BY <1>4 DEF MoveCursorLeft
  <2>2. k # 0 /\ k \in 1..Len(t) /\ k - 1 \in 0..Len(t)
    <3>1. Offsets(t)[0] = 0
      BY <1>2, BytesCount
    <3>2. ui.cursor # 0
      BY <1>2, <2>1 DEF Shapes
    <3>3. k # 0
      BY <1>1, <3>1, <3>2
    <3>4. QED
      BY <1>2, <3>3
  <2> HIDE DEF t, b, e
  <2>3. b # <<>>
    BY <1>1, <2>2
  <2>4. /\ Front(b) \in Seq(Widths) /\ Len(Front(b)) = k - 1
        /\ \A i \in 1..k - 1 : Front(b)[i] = b[i]
    BY <1>1, <2>3, FrontFacts
  <2>5. \A i \in 1..k - 1 : Front(b)[i] = t[i]
    <3>1. \A i \in 1..k - 1 : i \in 1..k
      BY <1>2, <2>2
    <3>2. QED
      BY <1>1, <2>4, <3>1
  <2>6. Bytes(Front(b)) = Offsets(t)[k - 1]
    BY <1>2, <2>2, <2>4, <2>5, StartText
  <2>7. QED
    BY <1>3, <2>1, <2>2, <2>6
<1>5. CASE MoveCursorRight
  <2>1. ui.cursor < Bytes(t) /\ ui' = [ui EXCEPT !.cursor = ui.cursor + Head(e)]
    BY <1>2, <1>5 DEF MoveCursorRight, Shapes
  <2>2. k # Len(t) /\ k + 1 \in 1..Len(t) /\ 1 \in 1..Len(t) - k
    <3>1. Bytes(t) \in Nat /\ Bytes(t) = Offsets(t)[Len(t)]
      BY <1>2, BytesCount
    <3> DEFINE x == ui.cursor
               y == Bytes(t)
    <3>2. x \in Nat /\ y \in Nat /\ x < y
      BY <1>2, <2>1, <3>1 DEF Shapes
    <3>3. x # y
      <4> HIDE DEF x, y
      <4>1. QED
        BY <3>2
    <3>4. k # Len(t)
      BY <1>1, <3>1, <3>3
    <3>5. QED
      BY <1>2, <3>4
  <2> HIDE DEF t, b, e
  <2>3. Head(e) = t[k + 1]
    <3>1. Head(e) = e[1]
      BY <1>1, <2>2
    <3>2. QED
      BY <1>1, <2>2, <3>1
  <2>4. Offsets(t)[k + 1] = Offsets(t)[k] + t[k + 1]
    <3>1. (k + 1) - 1 = k
      BY <1>2
    <3>2. QED
      BY <1>2, <2>2, <3>1, BytesCount
  <2>5. k + 1 \in 0..Len(t)
    BY <1>2, <2>2
  <2>6. QED
    BY <1>1, <1>3, <2>1, <2>3, <2>4, <2>5
<1>6. CASE MoveCursorHome
  <2>1. Offsets(t)[0] = 0 /\ 0 \in 0..Len(t)
    BY <1>2, BytesCount
  <2>2. QED
    BY <1>3, <1>6, <2>1 DEF MoveCursorHome
<1>7. CASE MoveCursorEnd
  <2>1. Len(t) \in 0..Len(t) /\ ui' = [ui EXCEPT !.cursor = Bytes(t)]
    BY <1>2, <1>7 DEF MoveCursorEnd
  <2>2. QED
    BY <1>2, <1>3, <2>1
<1>8. QED
  BY <1>4, <1>5, <1>6, <1>7

(* Keys that reach neither the text nor the cursor.                        *)
LEMMA ApartStep ==
  ASSUME InputAssumption, InputFits,
         \/ ToggleSearch \/ ToggleHelp \/ CancelSearch \/ NextPanel \/ PrevPanel
         \/ \E panel \in 0..(Panels - 1) : Focus(panel)
         \/ \E up \in BOOLEAN : Scroll(up)
         \/ ui' = [ui EXCEPT !.quit = TRUE]
  PROVE  InputFits'
<1>1. ui \in Shapes /\ MaxScroll \in Nat /\ Panels = 8
  BY WidthsAreNumbers DEF InputFits, Panels
<1>2. <<>> \in Seq(Widths)
  OBVIOUS
<1>3. CASE ToggleSearch \/ ToggleHelp \/ CancelSearch \/ ui' = [ui EXCEPT !.quit = TRUE]
  <2>1. ui' \in Shapes /\ ui'.text = ui.text /\ ui'.cursor = ui.cursor
    BY <1>1, <1>2, <1>3 DEF ToggleSearch, ToggleHelp, CancelSearch, Shapes
  <2>2. QED
    BY <2>1, TextStays
<1>4. ASSUME NEW panel \in 0..(Panels - 1), Focus(panel)
      PROVE  InputFits'
  <2>1. ui' \in Shapes /\ ui'.text = ui.text /\ ui'.cursor = ui.cursor
    <3>1. ui' = [ui EXCEPT !.panel = panel, !.side = 0] /\ 0 \in 0..MaxScroll
      BY <1>1, <1>4 DEF Focus
    <3>2. QED
      BY <1>1, <1>4, <3>1 DEF Shapes
  <2>2. QED
    BY <2>1, TextStays
<1>5. CASE NextPanel \/ PrevPanel
  <2>1. ui.panel \in 0..7
    BY <1>1 DEF Shapes
  <2>2. (ui.panel + 1) % Panels \in 0..Panels - 1
        /\ (ui.panel + Panels - 1) % Panels \in 0..Panels - 1
    BY <1>1, <2>1
  <2>3. QED
    BY <1>4, <1>5, <2>2 DEF NextPanel, PrevPanel
<1>6. ASSUME NEW up \in BOOLEAN, Scroll(up)
      PROVE  InputFits'
  <2>1. \A n \in 0..MaxScroll : Scrolled(n, up) \in 0..MaxScroll
    BY <1>1 DEF Scrolled
  <2>2. ui' \in Shapes /\ ui'.text = ui.text /\ ui'.cursor = ui.cursor
    BY <1>1, <1>6, <2>1 DEF Scroll, Shapes
  <2>3. QED
    BY <2>2, TextStays
<1>7. QED
  BY <1>3, <1>4, <1>5, <1>6

LEMMA InputInductive == InputAssumption /\ InputFits /\ [InputNext]_inputvars => InputFits'
<1> SUFFICES ASSUME InputAssumption, InputFits, [InputNext]_inputvars PROVE InputFits'
  OBVIOUS
<1>1. ASSUME NEW w \in Widths, InsertChar(w)
      PROVE  InputFits'
  <2>1. CASE ui.searching
    <3>1. ui \in Shapes /\ ui.query \in Seq(Widths)
      BY DEF InputFits, Shapes
    <3>2. Append(ui.query, w) \in Seq(Widths)
      BY <3>1
    <3>3. ui' \in Shapes /\ ui'.text = ui.text /\ ui'.cursor = ui.cursor
      BY <1>1, <2>1, <3>1, <3>2 DEF InsertChar, Shapes
    <3>4. QED
      BY <3>3, TextStays
  <2>2. CASE ~ui.searching /\ Bytes(ui.text) < InputLimit
    BY <1>1, <2>2, TypingStep DEF InsertChar
  <2>3. CASE ~ui.searching /\ ~(Bytes(ui.text) < InputLimit)
    <3>1. ui' = ui
      BY <1>1, <2>3 DEF InsertChar
    <3>2. QED
      BY <3>1, TextStays DEF InputFits
  <2>4. QED
    BY <2>1, <2>2, <2>3
<1>2. CASE InsertNewline
  <2>1. 1 \in Widths
    BY DEF InputAssumption
  <2>2. QED
    BY <1>2, <2>1, TypingStep DEF InsertNewline
<1>3. CASE TakeInput
  <2>1. <<>> \in Seq(Widths) /\ Len(<<>>) = 0
    OBVIOUS
  <2>2. 0 \in Boundaries(<<>>) /\ Bytes(<<>>) = 0
    <3>1. Offsets(<<>>)[0] = 0
      BY <2>1, BytesCount
    <3>2. QED
      BY <2>1, <3>1 DEF Boundaries, Bytes
  <2>3. QED
    <3>1. ui' = [ui EXCEPT !.text = <<>>, !.cursor = 0] /\ 0 \in Nat
      BY <1>3 DEF TakeInput
    <3>2. Bytes(<<>>) < InputLimit + 4
      BY <2>2, WidthsAreNumbers
    <3>3. QED
      BY <2>1, <2>2, <3>1, <3>2, TextChanges
<1>4. CASE UNCHANGED inputvars
  <2>1. ui' = ui
    BY <1>4 DEF inputvars
  <2>2. QED
    BY <2>1, TextStays DEF InputFits
<1>5. QED
  BY <1>1, <1>2, <1>3, <1>4, DeletePrevStep, DeleteNextStep, MoveStep, ApartStep
     DEF InputNext, ControlKey, AltKey, PlainKey, EditingKey

-----------------------------------------------------------------------------
(* Of what agents remember.                                                *)

Remembered(top) == [id : 1..top, by : Workers, subject : STRING, size : Nat]
Packs(found) ==
  {p \in [chars : Nat, shown : Seq(found), full : BOOLEAN] : p.chars + Footer <= BriefBudget}
Briefs(found) ==
  {b \in [chars : Nat, shown : Seq(found)] :
     /\ b.chars <= BriefBudget
     /\ b.chars > 0 <=> b.shown # <<>>}
Fields == {"at", "attempt", "brief", "leaves", "result"}

(* Who may try again has left nothing: neither in the table nor to store;  *)
(* and a brief has nothing of the agent's own.                             *)
MemFits ==
  /\ stamp \in Nat /\ memory \subseteq Remembered(stamp)
  /\ DOMAIN worker = Workers
  /\ \A w \in Workers :
       /\ DOMAIN worker[w] = Fields
       /\ worker[w].at = "storing" =>
            /\ worker[w].leaves \in Remembered(stamp) /\ worker[w].leaves.by = w
            /\ worker[w].result \in {"success", "failure"}
       /\ worker[w].at \in {"ready", "working"} => \A e \in memory : e.by # w
       /\ w \notin Runtimes =>
            worker[w].brief \in Briefs({e \in Remembered(stamp) : e.by # w})

(* The newest entries are entries.                                         *)
LEMMA NewestAre ==
  ASSUME NEW top \in Nat, NEW table \in SUBSET Remembered(top)
  PROVE  Newest(table) \in Seq(table)
<1> DEFINE ids == {e.id : e \in table}
           c == Cardinality(ids)
           s == [i \in 1..top |-> i]
<1>1. s \in Seq(Nat) /\ Len(s) = top
  OBVIOUS
<1>2. ids \in SUBSET (1..Len(s))
  BY <1>1 DEF Remembered
<1> HIDE DEF s, ids
<1>3. c \in Nat /\ \A n \in 1..c : Nth(ids, n) \in ids
  BY <1>1, <1>2, PickFacts
<1> HIDE DEF c
<1>4. \A n \in 1..c : c + 1 - n \in 1..c
  BY <1>3
<1>5. ASSUME NEW n \in 1..c
      PROVE  (CHOOSE e \in table : e.id = Nth(ids, c + 1 - n)) \in table
  <2>1. Nth(ids, c + 1 - n) \in ids
    BY <1>3, <1>4
  <2>2. \E e \in table : e.id = Nth(ids, c + 1 - n)
    BY <2>1 DEF ids
  <2>3. QED
    BY <2>2
<1>6. Newest(table) = [n \in 1..c |-> CHOOSE e \in table : e.id = Nth(ids, c + 1 - n)]
  BY DEF Newest, c, ids
<1>7. [n \in 1..c |-> CHOOSE e \in table : e.id = Nth(ids, c + 1 - n)] \in [1..c -> table]
  BY <1>5
<1>8. \A f \in [1..c -> table] : f \in Seq(table)
  BY <1>3
<1>9. QED
  BY <1>6, <1>7, <1>8

LEMMA FirstOnes ==
  ASSUME NEW T, NEW s \in Seq(T), NEW n \in Nat
  PROVE  SubSeq(s, 1, IF Len(s) > n THEN n ELSE Len(s)) \in Seq(T)
<1>1. Len(s) \in Nat /\ \A i \in 1..Len(s) : s[i] \in T
  OBVIOUS
<1> DEFINE k == IF Len(s) > n THEN n ELSE Len(s)
<1>2. k \in 0..Len(s)
  BY <1>1
<1> HIDE DEF k
<1>3. 1 \in Int /\ k \in Int /\ \A i \in 1..k : s[i] \in T
  BY <1>1, <1>2
<1>4. SubSeq(s, 1, k) \in Seq(T)
  BY <1>3, SubSeqProperties
<1>5. QED
  BY <1>4 DEF k

LEMMA FoundAre ==
  ASSUME NEW top \in Nat, NEW table \in SUBSET Remembered(top), NEW subject, NEW limit \in Nat
  PROVE  Search(table, subject, limit) \in Seq(table)
<1> DEFINE some == {e \in table : e.subject = subject}
<1>1. some \in SUBSET Remembered(top) /\ some \subseteq table
  OBVIOUS
<1> HIDE DEF some
<1>2. Newest(some) \in Seq(some)
  BY <1>1, NewestAre
<1>3. Newest(some) \in Seq(table)
  <2>1. Newest(some) \in [1..Len(Newest(some)) -> some] /\ Len(Newest(some)) \in Nat
    BY <1>2, LenProperties
  <2>2. Newest(some) \in [1..Len(Newest(some)) -> table]
    BY <1>1, <2>1
  <2>3. QED
    BY <2>1, <2>2
<1>4. SubSeq(Newest(some), 1, IF Len(Newest(some)) > limit THEN limit ELSE Len(Newest(some)))
        \in Seq(table)
  BY <1>3, FirstOnes
<1>5. QED
  BY <1>4 DEF Search, some

LEMMA MemNumbers ==
  ASSUME MemoryAssumption
  PROVE  /\ MaxEntries \in Nat /\ BriefBudget \in Nat /\ Header \in Nat
         /\ Footer \in Nat \ {0} /\ Least \in Nat \ {0} /\ Retention \in Nat
         /\ Sizes \subseteq Nat /\ Subject \in [Workers -> STRING]
BY DEF MemoryAssumption

(* A line more leaves room for the closing tag.                            *)
LEMMA PackFits ==
  ASSUME MemoryAssumption, NEW found, NEW top \in Nat, found \subseteq Remembered(top),
         NEW p \in Packs(found), NEW e \in found
  PROVE  Pack(p, e) \in Packs(found)
<1>1. /\ p \in [chars : Nat, shown : Seq(found), full : BOOLEAN]
      /\ p.chars \in Nat /\ p.shown \in Seq(found) /\ p.full \in BOOLEAN
      /\ p.chars + Footer <= BriefBudget
      /\ e.size \in Nat /\ Append(p.shown, e) \in Seq(found)
      /\ BriefBudget \in Nat /\ Footer \in Nat /\ Least \in Nat
  BY MemNumbers DEF Packs, Remembered
<1>2. CASE p.full
  BY <1>2 DEF Pack
<1>3. CASE ~p.full /\ p.chars + e.size + Footer <= BriefBudget
  <2> DEFINE r == [p EXCEPT !.chars = p.chars + e.size, !.shown = Append(p.shown, e)]
  <2>1. /\ r \in [chars : Nat, shown : Seq(found), full : BOOLEAN]
        /\ r.chars = p.chars + e.size
    <3>1. p.chars + e.size \in Nat
      BY <1>1
    <3>2. QED
      BY <1>1, <3>1
  <2>2. r \in Packs(found)
    BY <1>3, <2>1 DEF Packs
  <2>3. Pack(p, e) = r
    BY <1>1, <1>3 DEF Pack
  <2>4. QED
    BY <2>2, <2>3
<1>4. CASE ~p.full /\ ~(p.chars + e.size + Footer <= BriefBudget)
  <2> DEFINE m == BriefBudget - (p.chars + Footer)
  <2>1. Pack(p, e) = IF m > Least
                     THEN [chars |-> p.chars + (m - 1) + 1,
                           shown |-> Append(p.shown, e), full |-> TRUE]
                     ELSE [p EXCEPT !.full = TRUE]
    BY <1>4 DEF Pack
  <2>2. m \in Nat /\ p.chars + (m - 1) + 1 \in Nat
        /\ (p.chars + (m - 1) + 1) + Footer <= BriefBudget
    <3>1. \A x, f, b \in Nat : x + f <= b =>
            /\ b - (x + f) \in Nat /\ x + ((b - (x + f)) - 1) + 1 \in Nat
            /\ (x + ((b - (x + f)) - 1) + 1) + f <= b
      OBVIOUS
    <3>2. QED
      BY <1>1, <3>1
  <2> HIDE DEF m
  <2>3. /\ [chars |-> p.chars + (m - 1) + 1, shown |-> Append(p.shown, e), full |-> TRUE]
             \in Packs(found)
        /\ [p EXCEPT !.full = TRUE] \in Packs(found)
    BY <1>1, <2>2 DEF Packs
  <2>4. QED
    BY <2>1, <2>3
<1>5. QED
  BY <1>2, <1>3, <1>4

LEMMA PackedFits ==
  ASSUME MemoryAssumption, NEW found, NEW top \in Nat, found \subseteq Remembered(top),
         NEW s \in Seq(found), Header + Footer < BriefBudget
  PROVE  Along(s, NewPack, Pack)[Len(s)] \in Packs(found)
<1> DEFINE T == Packs(found)
           turn == [p \in T |-> [e \in found |-> Pack(p, e)]]
           o == Along(s, NewPack, Pack)
           Sums(m) == m = [i \in 0..Len(s) |-> IF i = 0 THEN NewPack ELSE Pack(m[i - 1], s[i])]
<1>1. Len(s) \in Nat /\ \A i \in 1..Len(s) : s[i] \in found
  OBVIOUS
<1>2. NewPack \in T
  BY MemNumbers DEF NewPack, Packs
<1>3. turn \in [T -> [found -> T]] /\ \A p \in T : \A e \in found : turn[p][e] = Pack(p, e)
  BY PackFits
<1> HIDE DEF T, turn
<1>4. PICK m \in [0..Len(s) -> T] : Turns(m, s, NewPack, turn)
  <2>1. NewPack \in T /\ s \in Seq(found) /\ turn \in [T -> [found -> T]]
    BY <1>2, <1>3
  <2>2. QED
    BY <2>1, AlongExists
<1>5. \A i \in 1..Len(s) : m[i] = Pack(m[i - 1], s[i])
  <2>1. \A i \in 1..Len(s) : i - 1 \in 0..Len(s)
    BY <1>1
  <2>2. \A i \in 1..Len(s) : m[i - 1] \in T /\ s[i] \in found
    BY <1>1, <2>1
  <2>3. QED
    BY <1>3, <1>4, <2>2 DEF Turns
<1>6. Sums(m)
  BY <1>1, <1>4, <1>5 DEF Turns
<1>7. o = CHOOSE n : Sums(n)
  BY DEF Along
<1>8. Sums(o)
  <2> HIDE DEF Sums, o
  <2>1. QED
    BY <1>6, <1>7
<1>9. /\ o[0] = NewPack
      /\ \A i \in 1..Len(s) : o[i] = Pack(o[i - 1], s[i])
  <2> HIDE DEF o
  <2>1. o = [i \in 0..Len(s) |-> IF i = 0 THEN NewPack ELSE Pack(o[i - 1], s[i])]
    BY <1>8 DEF o
  <2>2. QED
    BY <1>1, <2>1
<1> HIDE DEF o
<1> DEFINE Good == {i \in Nat : i <= Len(s) => o[i] \in T}
<1>10. 0 \in Good
  BY <1>2, <1>9
<1>11. ASSUME NEW i \in Nat, i \in Good
       PROVE  i + 1 \in Good
  <2> SUFFICES ASSUME i + 1 <= Len(s)
               PROVE  o[i + 1] \in T
    OBVIOUS
  <2>1. i + 1 \in 1..Len(s) /\ (i + 1) - 1 = i /\ i <= Len(s)
    <3>1. \A n \in Nat : i + 1 <= n => i + 1 \in 1..n /\ (i + 1) - 1 = i /\ i <= n
      OBVIOUS
    <3>2. QED
      BY <1>1, <3>1
  <2>2. o[i + 1] = Pack(o[i], s[i + 1])
    BY <1>9, <2>1
  <2>3. o[i] \in T /\ s[i + 1] \in found
    BY <1>1, <1>11, <2>1
  <2>4. Pack(o[i], s[i + 1]) \in T
    BY <2>3, PackFits DEF T
  <2>5. QED
    BY <2>2, <2>4
<1> HIDE DEF Good
<1>12. Nat \subseteq Good
  BY <1>10, <1>11, SetInduction
<1>13. o[Len(s)] \in T
  BY <1>1, <1>12 DEF Good
<1>14. QED
  BY <1>13 DEF T, o

LEMMA ContextFits ==
  ASSUME MemoryAssumption, NEW top \in Nat, NEW table \in SUBSET Remembered(top), NEW subject
  PROVE  RetrieveTaskContext(table, subject) \in Briefs(table)
<1> DEFINE found == Search(table, subject, MaxEntries)
           packed == Along(found, NewPack, Pack)[Len(found)]
<1>1. NoBrief \in Briefs(table)
  <2>1. 0 \in Nat /\ <<>> \in Seq(table) /\ 0 <= BriefBudget /\ ~(0 > 0)
    BY MemNumbers
  <2>2. QED
    BY <2>1 DEF NoBrief, Briefs
<1>2. found \in Seq(table)
  BY FoundAre, MemNumbers
<1> HIDE DEF found, packed
<1>3. RetrieveTaskContext(table, subject) =
        IF found = <<>> \/ Header + Footer >= BriefBudget \/ packed.shown = <<>>
        THEN NoBrief
        ELSE [chars |-> packed.chars + Footer, shown |-> packed.shown]
  BY DEF RetrieveTaskContext, found, packed
<1>4. CASE ~(Header + Footer >= BriefBudget) /\ packed.shown # <<>>
  <2>1. Header + Footer < BriefBudget
    BY <1>4, MemNumbers
  <2>2. packed \in Packs(table)
    BY <1>2, <2>1, PackedFits DEF packed
  <2>3. /\ packed.chars \in Nat /\ packed.shown \in Seq(table)
        /\ packed.chars + Footer <= BriefBudget
        /\ Footer \in Nat \ {0}
    BY <2>2, MemNumbers DEF Packs
  <2> DEFINE b == [chars |-> packed.chars + Footer, shown |-> packed.shown]
  <2>4. /\ b.chars \in Nat /\ b.chars <= BriefBudget /\ b.chars > 0 /\ b.shown # <<>>
        /\ b \in [chars : Nat, shown : Seq(table)]
    BY <1>4, <2>3
  <2>5. b \in Briefs(table)
    BY <2>4 DEF Briefs
  <2>6. QED
    BY <1>1, <1>3, <2>5
<1>5. CASE Header + Footer >= BriefBudget \/ packed.shown = <<>>
  BY <1>1, <1>3, <1>5
<1>6. QED
  BY <1>4, <1>5

(* A brief stays one when more entries may be in it.                       *)
LEMMA BriefsGrow ==
  ASSUME NEW A, NEW B, A \subseteq B
  PROVE  Briefs(A) \subseteq Briefs(B)
<1>1. ASSUME NEW s \in Seq(A)
      PROVE  s \in Seq(B)
  <2>1. Len(s) \in Nat /\ s \in [1..Len(s) -> A]
    BY LenProperties
  <2>2. s \in [1..Len(s) -> B]
    BY <2>1
  <2>3. QED
    BY <2>1, <2>2
<1>2. QED
  BY <1>1 DEF Briefs

LEMMA NoBriefFits == MemoryAssumption => \A S : NoBrief \in Briefs(S)
<1> SUFFICES ASSUME MemoryAssumption, NEW S PROVE NoBrief \in Briefs(S)
  OBVIOUS
<1>1. 0 \in Nat /\ <<>> \in Seq(S) /\ 0 <= BriefBudget /\ ~(0 > 0)
  BY MemNumbers
<1>2. QED
  BY <1>1 DEF NoBrief, Briefs

LEMMA RetainedAre ==
  ASSUME MemoryAssumption, NEW top \in Nat, NEW table \in SUBSET Remembered(top)
  PROVE  Retained(table) \subseteq table
<1> DEFINE s == Newest(table)
           r == SubSeq(s, 1, IF Len(s) > Retention THEN Retention ELSE Len(s))
<1>1. s \in Seq(table)
  BY NewestAre
<1>2. r \in Seq(table)
  BY <1>1, FirstOnes, MemNumbers
<1> HIDE DEF r
<1>3. \A i \in DOMAIN r : r[i] \in table
  BY <1>2
<1>4. QED
  BY <1>3 DEF Retained, ToSet, r

LEMMA MemInitial == MemoryAssumption /\ MemInit => MemFits
<1> SUFFICES ASSUME MemoryAssumption, MemInit PROVE MemFits
  OBVIOUS
<1>1. memory = {} /\ stamp = 0
  BY DEF MemInit
<1>2. DOMAIN worker = Workers
  BY DEF MemInit
<1>3. \A w \in Workers :
        worker[w] = [at |-> "ready", attempt |-> 0, brief |-> NoBrief, leaves |-> NoEntry,
                     result |-> "none"]
  BY DEF MemInit
<1>4. QED
  BY <1>1, <1>2, <1>3, NoBriefFits DEF MemFits, Fields

(* Of a worker that moves, and of the others.                              *)
Stands(w, top, table, v) ==
  /\ DOMAIN v = Fields
  /\ v.at = "storing" => /\ v.leaves \in Remembered(top) /\ v.leaves.by = w
                         /\ v.result \in {"success", "failure"}
  /\ v.at \in {"ready", "working"} => \A e \in table : e.by # w
  /\ w \notin Runtimes => v.brief \in Briefs({e \in Remembered(top) : e.by # w})

LEMMA FitsIsStands ==
  MemFits <=> /\ stamp \in Nat /\ memory \subseteq Remembered(stamp) /\ DOMAIN worker = Workers
              /\ \A w \in Workers : Stands(w, stamp, memory, worker[w])
BY DEF MemFits, Stands

LEMMA Moved ==
  ASSUME NEW x, DOMAIN x = Fields, NEW a, NEW b, NEW l, NEW r
  PROVE  /\ LET v == [x EXCEPT !.at = a, !.brief = b]
            IN /\ DOMAIN v = Fields /\ v.at = a /\ v.brief = b
               /\ v.leaves = x.leaves /\ v.result = x.result
         /\ LET v == [x EXCEPT !.at = a, !.result = r]
            IN /\ DOMAIN v = Fields /\ v.at = a /\ v.brief = x.brief
               /\ v.leaves = x.leaves /\ v.result = r
         /\ LET v == [x EXCEPT !.at = a, !.result = r, !.brief = b, !.leaves = l]
            IN /\ DOMAIN v = Fields /\ v.at = a /\ v.brief = b
               /\ v.leaves = l /\ v.result = r
BY DEF Fields

LEMMA OthersStand ==
  ASSUME NEW w \in Workers, NEW top \in Nat, NEW later \in Nat, top <= later,
         NEW table, NEW more, \A e \in more : e \in table \/ e.by # w,
         NEW v, Stands(w, top, table, v)
  PROVE  Stands(w, later, more, v)
<1>1. Remembered(top) \subseteq Remembered(later)
  <2>1. 1..top \subseteq 1..later
    OBVIOUS
  <2>2. QED
    BY <2>1 DEF Remembered
<1>2. w \notin Runtimes => v.brief \in Briefs({e \in Remembered(later) : e.by # w})
  <2>1. {e \in Remembered(top) : e.by # w} \subseteq {e \in Remembered(later) : e.by # w}
    BY <1>1
  <2>2. QED
    BY <2>1, BriefsGrow DEF Stands
<1>3. QED
  BY <1>1, <1>2 DEF Stands

(* A brief of an agent that has left nothing has nothing of its own.       *)
LEMMA BriefStep ==
  ASSUME MemoryAssumption, MemFits, NEW w \in Workers, Brief(w)
  PROVE  MemFits'
<1>1. /\ stamp \in Nat /\ memory \subseteq Remembered(stamp) /\ DOMAIN worker = Workers
      /\ \A v \in Workers : Stands(v, stamp, memory, worker[v])
  BY FitsIsStands
<1>2. UNCHANGED <<memory, stamp>> /\ worker[w].at = "ready"
  BY DEF Brief
<1>3. \A e \in memory : e.by # w
  BY <1>1, <1>2 DEF Stands
<1>4. PICK v : worker' = [worker EXCEPT ![w] = v] /\ Stands(w, stamp, memory, v)
  <2>1. ASSUME NEW b, w \notin Runtimes => b \in Briefs(memory)
        PROVE  Stands(w, stamp, memory, [worker[w] EXCEPT !.at = "working", !.brief = b])
    <3>1. w \notin Runtimes => b \in Briefs({e \in Remembered(stamp) : e.by # w})
      <4>1. memory \subseteq {e \in Remembered(stamp) : e.by # w}
        BY <1>1, <1>3
      <4>2. QED
        BY <2>1, <4>1, BriefsGrow
    <3> DEFINE v == [worker[w] EXCEPT !.at = "working", !.brief = b]
    <3>2. DOMAIN v = Fields /\ v.at = "working" /\ v.brief = b
      <4>1. DOMAIN worker[w] = Fields
        BY <1>1 DEF Stands
      <4>2. QED
        BY <4>1, Moved
    <3> HIDE DEF v
    <3>3. Stands(w, stamp, memory, v)
      BY <1>3, <3>1, <3>2 DEF Stands
    <3>4. QED
      BY <3>3 DEF v
  <2>2. ASSUME w \in Runtimes
        PROVE  Stands(w, stamp, memory, [worker[w] EXCEPT !.at = "over", !.result = "error"])
    <3> DEFINE v == [worker[w] EXCEPT !.at = "over", !.result = "error"]
    <3>1. DOMAIN v = Fields /\ v.at = "over"
      <4>1. DOMAIN worker[w] = Fields
        BY <1>1 DEF Stands
      <4>2. QED
        BY <4>1, Moved
    <3> HIDE DEF v
    <3>2. Stands(w, stamp, memory, v)
      BY <2>2, <3>1 DEF Stands
    <3>3. QED
      BY <3>2 DEF v
  <2> DEFINE b == IF w \in Runtimes THEN TaskWithMemory(memory, Subject[w])
                                    ELSE RetrieveTaskContext(memory, Subject[w])
  <2>3. w \notin Runtimes => b \in Briefs(memory) /\ NoBrief \in Briefs(memory)
    BY <1>1, ContextFits, NoBriefFits
  <2>4. CASE worker' = [worker EXCEPT ![w].at = "working", ![w].brief = b]
    <3> HIDE DEF b
    <3>1. worker' = [worker EXCEPT ![w] = [worker[w] EXCEPT !.at = "working", !.brief = b]]
      BY <1>1, <2>4
    <3>2. QED
      BY <2>1, <2>3, <3>1
  <2>5. CASE w \notin Runtimes
             /\ worker' = [worker EXCEPT ![w].at = "working", ![w].brief = NoBrief]
    <3>1. worker' = [worker EXCEPT ![w] = [worker[w] EXCEPT !.at = "working", !.brief = NoBrief]]
      BY <1>1, <2>5
    <3>2. QED
      BY <2>1, <2>3, <2>5, <3>1
  <2>6. CASE w \in Runtimes /\ worker' = [worker EXCEPT ![w].at = "over", ![w].result = "error"]
    <3>1. worker' = [worker EXCEPT ![w] = [worker[w] EXCEPT !.at = "over", !.result = "error"]]
      BY <1>1, <2>6
    <3>2. QED
      BY <2>2, <2>6, <3>1
  <2>7. QED
    BY <2>4, <2>5, <2>6 DEF Brief
<1>5. DOMAIN worker' = Workers /\ \A u \in Workers : worker'[u] = IF u = w THEN v ELSE worker[u]
  BY <1>1, <1>4
<1>6. \A u \in Workers : Stands(u, stamp, memory, worker'[u])
  BY <1>1, <1>4, <1>5
<1>7. QED
  BY <1>1, <1>2, <1>5, <1>6 DEF MemFits, Stands

LEMMA AfterStands ==
  ASSUME MemoryAssumption, NEW w \in Workers, NEW result, NEW top, NEW table,
         ~Repeats(w, result) \/ \A e \in table : e.by # w
  PROVE  Stands(w, top, table, After(w, result))
<1>1. NoBrief \in Briefs({e \in Remembered(top) : e.by # w})
  BY NoBriefFits
<1>2. QED
  BY <1>1 DEF After, Stands, Fields

LEMMA EndStep ==
  ASSUME MemoryAssumption, MemFits, NEW w \in Workers, EndAttempt(w)
  PROVE  MemFits'
<1>1. /\ stamp \in Nat /\ memory \subseteq Remembered(stamp) /\ DOMAIN worker = Workers
      /\ \A v \in Workers : Stands(v, stamp, memory, worker[v])
  BY FitsIsStands
<1>2. memory' = memory /\ worker[w].at = "working"
  BY DEF EndAttempt
<1>3. \A e \in memory : e.by # w
  BY <1>1, <1>2 DEF Stands
<1>4. PICK v : /\ worker' = [worker EXCEPT ![w] = v] /\ stamp' \in {stamp, stamp + 1}
               /\ Stands(w, stamp', memory, v)
  <2>1. ASSUME NEW result \in {"success", "failure"}, NEW size \in Sizes,
               NEW s \in {Subject[u] : u \in Workers}, stamp' = stamp + 1,
               worker' = [worker EXCEPT
                 ![w].at = "storing", ![w].result = result, ![w].brief = NoBrief,
                 ![w].leaves = [id |-> stamp + 1, by |-> w, subject |-> s, size |-> size]]
        PROVE  \E v : /\ worker' = [worker EXCEPT ![w] = v]
                      /\ Stands(w, stamp', memory, v)
    <3> DEFINE e == [id |-> stamp + 1, by |-> w, subject |-> s, size |-> size]
               v == [worker[w] EXCEPT !.at = "storing", !.result = result,
                                      !.brief = NoBrief, !.leaves = e]
    <3>1. e \in Remembered(stamp') /\ e.by = w
      <4>1. stamp + 1 \in 1..stamp' /\ size \in Nat /\ s \in STRING
        BY <1>1, <2>1, MemNumbers
      <4>2. QED
        BY <4>1 DEF Remembered
    <3> HIDE DEF e
    <3>2. worker' = [worker EXCEPT ![w] = v]
      BY <1>1, <2>1 DEF e
    <3>3. NoBrief \in Briefs({f \in Remembered(stamp') : f.by # w})
      BY NoBriefFits
    <3>4. /\ DOMAIN v = Fields /\ v.at = "storing" /\ v.brief = NoBrief
          /\ v.leaves = e /\ v.result = result
      <4>1. DOMAIN worker[w] = Fields
        BY <1>1 DEF Stands
      <4>2. QED
        BY <4>1, Moved
    <3> HIDE DEF v
    <3>5. Stands(w, stamp', memory, v)
      BY <2>1, <3>1, <3>3, <3>4 DEF Stands
    <3>6. QED
      BY <3>2, <3>5
  <2>2. ASSUME NEW result \in {"success", "failure", "transient", "error"},
               worker' = [worker EXCEPT ![w] = After(w, result)], stamp' = stamp
        PROVE  \E v : /\ worker' = [worker EXCEPT ![w] = v]
                      /\ Stands(w, stamp', memory, v)
    <3>1. Stands(w, stamp', memory, After(w, result))
      BY <1>3, AfterStands
    <3>2. QED
      BY <2>2, <3>1
  <2>3. QED
    BY <2>1, <2>2 DEF EndAttempt
<1>5. DOMAIN worker' = Workers /\ \A u \in Workers : worker'[u] = IF u = w THEN v ELSE worker[u]
  BY <1>1, <1>4
<1>6. stamp' \in Nat /\ stamp <= stamp'
  BY <1>1, <1>4
<1>7. ASSUME NEW u \in Workers
      PROVE  Stands(u, stamp', memory, worker'[u])
  <2>1. CASE u = w
    BY <1>4, <1>5, <2>1
  <2>2. CASE u # w
    <3>1. Stands(u, stamp, memory, worker[u])
      BY <1>1
    <3>2. Stands(u, stamp', memory, worker[u])
      BY <1>1, <1>6, <3>1, OthersStand
    <3>3. QED
      BY <1>5, <2>2, <3>2
  <2>3. QED
    BY <2>1, <2>2
<1>8. memory \subseteq Remembered(stamp')
  <2>1. 1..stamp \subseteq 1..stamp'
    BY <1>1, <1>6
  <2>2. QED
    BY <1>1, <2>1 DEF Remembered
<1>9. QED
  BY <1>2, <1>5, <1>6, <1>7, <1>8 DEF MemFits, Stands

LEMMA StoreStep ==
  ASSUME MemoryAssumption, MemFits, NEW w \in Workers, StoreOutcome(w)
  PROVE  MemFits'
<1>1. /\ stamp \in Nat /\ memory \subseteq Remembered(stamp) /\ DOMAIN worker = Workers
      /\ \A v \in Workers : Stands(v, stamp, memory, worker[v])
  BY FitsIsStands
<1>2. stamp' = stamp /\ worker[w].at = "storing"
  BY DEF StoreOutcome
<1>3. /\ worker[w].leaves \in Remembered(stamp) /\ worker[w].leaves.by = w
      /\ worker[w].result \in {"success", "failure"}
  BY <1>1, <1>2 DEF Stands
<1>4. ~Repeats(w, worker[w].result) /\ ~Repeats(w, "error")
  BY <1>3 DEF Repeats
<1>5. memory' \subseteq memory \cup {worker[w].leaves}
  <2>1. memory \cup {worker[w].leaves} \in SUBSET Remembered(stamp)
    BY <1>1, <1>3
  <2>2. Retained(memory \cup {worker[w].leaves}) \subseteq memory \cup {worker[w].leaves}
    BY <1>1, <2>1, RetainedAre
  <2>3. QED
    BY <2>2 DEF StoreOutcome
<1>6. PICK v : worker' = [worker EXCEPT ![w] = v] /\ Stands(w, stamp, memory', v)
  BY <1>4, AfterStands DEF StoreOutcome
<1>7. DOMAIN worker' = Workers /\ \A u \in Workers : worker'[u] = IF u = w THEN v ELSE worker[u]
  BY <1>1, <1>6
<1>8. ASSUME NEW u \in Workers
      PROVE  Stands(u, stamp, memory', worker'[u])
  <2>1. CASE u = w
    BY <1>6, <1>7, <2>1
  <2>2. CASE u # w
    <3>1. Stands(u, stamp, memory, worker[u]) /\ stamp <= stamp
      BY <1>1
    <3>2. \A e \in memory' : e \in memory \/ e.by # u
      BY <1>3, <1>5, <2>2
    <3>3. Stands(u, stamp, memory', worker[u])
      BY <1>1, <3>1, <3>2, OthersStand
    <3>4. QED
      BY <1>7, <2>2, <3>3
  <2>3. QED
    BY <2>1, <2>2
<1>9. memory' \subseteq Remembered(stamp)
  BY <1>1, <1>3, <1>5
<1>10. QED
  BY <1>1, <1>2, <1>7, <1>8, <1>9 DEF MemFits, Stands

LEMMA MemInductive == MemoryAssumption /\ MemFits /\ [MemNext]_memvars => MemFits'
<1> SUFFICES ASSUME MemoryAssumption, MemFits, [MemNext]_memvars PROVE MemFits'
  OBVIOUS
<1>1. CASE UNCHANGED memvars
  BY <1>1 DEF memvars, MemFits
<1>2. QED
  BY <1>1, BriefStep, EndStep, StoreStep DEF MemNext

LEMMA MemSound == MemFits => BriefsAreSound
<1> SUFFICES ASSUME MemFits, NEW w \in Workers \ Runtimes
             PROVE  /\ worker[w].brief.chars <= BriefBudget
                    /\ worker[w].brief.chars > 0 <=> worker[w].brief.shown # <<>>
                    /\ \A i \in DOMAIN worker[w].brief.shown : worker[w].brief.shown[i].by # w
  BY DEF BriefsAreSound
<1> DEFINE S == {e \in Remembered(stamp) : e.by # w}
           b == worker[w].brief
<1>1. b \in Briefs(S)
  BY DEF MemFits
<1>2. \A i \in DOMAIN b.shown : b.shown[i] \in S
  <2> HIDE DEF S, b
  <2>1. b.shown \in Seq(S)
    BY <1>1 DEF Briefs
  <2>2. QED
    BY <2>1
<1>3. QED
  BY <1>1, <1>2 DEF Briefs

-----------------------------------------------------------------------------
(* Of the two readings of a plan.                                          *)

Source(i) == plan.edges[i][1]
Target(i) == plan.edges[i][2]

(* A graph on finitely many nodes.                                         *)
GraphFits ==
  /\ plan.nodes \subseteq Nat /\ IsFiniteSet(plan.nodes)
  /\ plan.edges \in Seq(plan.nodes \X plan.nodes)

LEMMA EdgeFacts ==
  ASSUME GraphFits
  PROVE  /\ Len(plan.edges) \in Nat /\ DOMAIN plan.edges = 1..Len(plan.edges)
         /\ \A i \in DOMAIN plan.edges :
              /\ plan.edges[i] \in plan.nodes \X plan.nodes
              /\ Source(i) \in plan.nodes /\ Target(i) \in plan.nodes
         /\ \A n : Into(n) = {i \in DOMAIN plan.edges : Target(i) = n}
         /\ \A n : From(n) = {i \in DOMAIN plan.edges : Source(i) = n}
<1>1. /\ Len(plan.edges) \in Nat /\ DOMAIN plan.edges = 1..Len(plan.edges)
      /\ \A i \in DOMAIN plan.edges : plan.edges[i] \in plan.nodes \X plan.nodes
  BY DEF GraphFits
<1>2. QED
  BY <1>1 DEF Source, Target, Into, From

(* Ways along the edges.                                                   *)
LEMMA BehindIsNode ==
  ASSUME GraphFits, NEW m, NEW n, Behind(m, n)
  PROVE  n \in plan.nodes
BY EdgeFacts DEF Behind, Target, Source

LEMMA EdgeBehind ==
  ASSUME GraphFits, NEW i \in DOMAIN plan.edges
  PROVE  Behind(Source(i), Target(i))
BY DEF Behind, Target, Source

LEMMA StepBehind ==
  ASSUME GraphFits, NEW i \in DOMAIN plan.edges, NEW m, Behind(m, Source(i))
  PROVE  Behind(m, Target(i))
BY DEF Behind, Target, Source

LEMMA BehindBehind ==
  ASSUME GraphFits, NEW a, NEW b, NEW c, Behind(a, b), Behind(b, c)
  PROVE  Behind(a, c)
<1> SUFFICES ASSUME NEW S \in SUBSET plan.nodes,
                    \A i \in DOMAIN plan.edges :
                      plan.edges[i][1] \in S \cup {a} => plan.edges[i][2] \in S
             PROVE  c \in S
  BY DEF Behind
<1>1. b \in S
  BY DEF Behind
<1>2. \A i \in DOMAIN plan.edges : plan.edges[i][1] \in S \cup {b} => plan.edges[i][2] \in S
  BY <1>1
<1>3. QED
  BY <1>2 DEF Behind

LEMMA LastEdge ==
  ASSUME GraphFits, NEW m, NEW n, Behind(m, n)
  PROVE  \E i \in DOMAIN plan.edges :
           Target(i) = n /\ (Source(i) = m \/ Behind(m, Source(i)))
<1> DEFINE S == {x \in plan.nodes : \E i \in DOMAIN plan.edges :
                   Target(i) = x /\ (Source(i) = m \/ Behind(m, Source(i)))}
<1>1. ASSUME NEW i \in DOMAIN plan.edges, Source(i) \in S \cup {m}
      PROVE  Target(i) \in S
  <2>1. Source(i) = m \/ Behind(m, Source(i))
    <3>1. CASE Source(i) \in S
      <4>1. PICK j \in DOMAIN plan.edges :
              Target(j) = Source(i) /\ (Source(j) = m \/ Behind(m, Source(j)))
        BY <3>1
      <4>2. Behind(m, Target(j))
        BY <4>1, EdgeBehind, StepBehind
      <4>3. QED
        BY <4>1, <4>2
    <3>2. QED
      BY <1>1, <3>1
  <2>2. Target(i) \in plan.nodes
    BY EdgeFacts
  <2>3. QED
    BY <2>1, <2>2
<1> HIDE DEF S
<1>2. S \in SUBSET plan.nodes
  BY DEF S
<1>3. n \in S
  BY <1>1, <1>2 DEF Behind, Source, Target
<1>4. QED
  BY <1>3 DEF S

(* What all sources of the edges into its members are in is never entered. *)
LEMMA Upwards ==
  ASSUME GraphFits, NEW C,
         \A i \in DOMAIN plan.edges : Target(i) \in C => Source(i) \in C,
         NEW m \in plan.nodes, NEW n \in C, Behind(m, n)
  PROVE  m \in C
<1> SUFFICES ASSUME m \notin C
             PROVE  FALSE
  OBVIOUS
<1> DEFINE S == plan.nodes \ C
<1>1. \A i \in DOMAIN plan.edges : Source(i) \in S \cup {m} => Target(i) \in S
  BY EdgeFacts
<1>2. S \in SUBSET plan.nodes
  OBVIOUS
<1> HIDE DEF S
<1>3. n \in S
  BY <1>1, <1>2 DEF Behind, Source, Target
<1>4. QED
  BY <1>3 DEF S

(* Where every node has one before it there is a cycle.                    *)
LEMMA CycleIn ==
  ASSUME GraphFits, NEW R \in SUBSET plan.nodes, R # {},
         \A n \in R : \E i \in DOMAIN plan.edges : Target(i) = n /\ Source(i) \in R
  PROVE  \E n \in R : OnCycle(n)
<1> SUFFICES ASSUME \A n \in R : ~OnCycle(n)
             PROVE  FALSE
  OBVIOUS
<1>1. \A n \in R : IsFiniteSet(Upstreams(n)) /\ Cardinality(Upstreams(n)) \in Nat
  <2>1. \A n : Upstreams(n) \in SUBSET plan.nodes
    BY DEF Upstreams
  <2>2. QED
    BY <2>1, FS_Subset, FS_CardinalityType DEF GraphFits
<1>2. ASSUME NEW n \in R
      PROVE  \E p \in R : Cardinality(Upstreams(p)) < Cardinality(Upstreams(n))
  <2>1. PICK i \in DOMAIN plan.edges : Target(i) = n /\ Source(i) \in R
    OBVIOUS
  <2> DEFINE p == Source(i)
  <2>2. p \in plan.nodes /\ Behind(p, n) /\ p \in R
    BY <2>1, EdgeBehind
  <2> HIDE DEF p
  <2>3. p \in Upstreams(n)
    BY <2>2 DEF Upstreams
  <2>4. p \notin Upstreams(p)
    BY <2>2 DEF Upstreams, OnCycle
  <2>5. Upstreams(p) \in SUBSET Upstreams(n)
    BY <2>2, BehindBehind DEF Upstreams
  <2>6. /\ Cardinality(Upstreams(p)) <= Cardinality(Upstreams(n))
        /\ Cardinality(Upstreams(n)) = Cardinality(Upstreams(p)) => Upstreams(n) = Upstreams(p)
    BY <1>1, <2>5, FS_Subset
  <2>7. Cardinality(Upstreams(p)) # Cardinality(Upstreams(n))
    BY <2>3, <2>4, <2>6
  <2>8. Cardinality(Upstreams(p)) < Cardinality(Upstreams(n))
    BY <1>1, <2>2, <2>6, <2>7
  <2>9. QED
    BY <2>2, <2>8
<1> DEFINE Good == {k \in Nat : \A n \in R : Cardinality(Upstreams(n)) >= k}
<1>3. 0 \in Good
  BY <1>1
<1>4. ASSUME NEW k \in Nat, k \in Good
      PROVE  k + 1 \in Good
  <2> SUFFICES ASSUME NEW n \in R
               PROVE  Cardinality(Upstreams(n)) >= k + 1
    OBVIOUS
  <2>1. PICK p \in R : Cardinality(Upstreams(p)) < Cardinality(Upstreams(n))
    BY <1>2
  <2>2. /\ Cardinality(Upstreams(p)) >= k
        /\ Cardinality(Upstreams(p)) \in Nat /\ Cardinality(Upstreams(n)) \in Nat
    BY <1>1, <1>4
  <2>3. QED
    BY <2>1, <2>2
<1> HIDE DEF Good
<1>5. Nat \subseteq Good
  BY <1>3, <1>4, SetInduction
<1>6. PICK n \in R : TRUE
  OBVIOUS
<1>7. Cardinality(Upstreams(n)) + 1 \in Good
  BY <1>1, <1>5
<1>8. Cardinality(Upstreams(n)) >= Cardinality(Upstreams(n)) + 1
  BY <1>7 DEF Good
<1>9. QED
  BY <1>1, <1>8

(* The edges into m from a node that is not in s yet.                      *)
Waiting(m, s) == {i \in Into(m) : Source(i) \notin ToSet(s)}

(* An order s of some nodes, the nodes q that may follow, and of each node *)
(* the number d of its edges from others.                                  *)
Ordered(s, q, d) ==
  /\ s \in Seq(plan.nodes) /\ IsInjective(s)
  /\ q \in Seq(plan.nodes) /\ IsInjective(q)
  /\ ToSet(s) \cap ToSet(q) = {}
  /\ d \in [plan.nodes -> Nat]
  /\ \A m \in plan.nodes :
       /\ d[m] = Cardinality(Waiting(m, s))
       /\ d[m] = 0 <=> m \in ToSet(s) \cup ToSet(q)
  /\ \A k \in DOMAIN s : \A i \in Into(s[k]) :
       \E j \in DOMAIN s : j < k /\ s[j] = Source(i)
OrderFits == Ordered(sorted, queue, degree)

(* What is in a group of g is pending, in no other group, and needs what   *)
(* is done or in an earlier group, the one before among them; what remains *)
(* was not ready before the last group.                                    *)
GroupedIn(n, g) == \E k \in DOMAIN g : n \in g[k]
Staged(g) ==
  \A k \in DOMAIN g : \A n \in g[k] :
    /\ status[n] = "pending"
    /\ \A j \in DOMAIN g : n \in g[j] => j = k
    /\ \A i \in Into(n) :
         status[Source(i)] = "done" \/ \E j \in DOMAIN g : j < k /\ Source(i) \in g[j]
    /\ k > 1 => \E i \in Into(n) : Source(i) \in g[k - 1]
Parted(g, todo, over) ==
  /\ g \in Seq(SUBSET plan.nodes)
  /\ over = {n \in plan.nodes : status[n] = "done" \/ GroupedIn(n, g)}
  /\ todo = {n \in plan.nodes : status[n] = "pending" /\ ~GroupedIn(n, g)}
  /\ Staged(g)
  /\ g # <<>> => \A n \in todo : \E i \in Into(n) : Source(i) \notin over \ g[Len(g)]
GroupsFit == Parted(groups, remaining, finished)

OutcomeFits ==
  /\ outcome = "sorted" => queue = <<>> /\ Len(sorted) = Cardinality(plan.nodes)
  /\ outcome = "cycle" => queue = <<>> /\ Len(sorted) # Cardinality(plan.nodes)
  /\ outcome = "grouped" => Group = {}

PlanFits == GraphFits /\ status \in Statuses /\ OrderFits /\ GroupsFit /\ OutcomeFits

LEMMA InjectiveSize ==
  ASSUME NEW T, NEW s \in Seq(T), IsInjective(s)
  PROVE  IsFiniteSet(ToSet(s)) /\ Cardinality(ToSet(s)) = Len(s)
<1>1. Len(s) \in Nat /\ s \in [1..Len(s) -> T] /\ DOMAIN s = 1..Len(s)
  BY LenProperties
<1>2. s \in [1..Len(s) -> ToSet(s)] /\ \A y \in ToSet(s) : \E i \in 1..Len(s) : s[i] = y
  BY <1>1 DEF ToSet
<1>3. s \in Surjection(1..Len(s), ToSet(s))
  BY <1>2 DEF Surjection
<1>4. s \in Injection(1..Len(s), ToSet(s))
  BY <1>1, <1>2 DEF Injection, IsInjective
<1>5. IsFiniteSet(1..Len(s)) /\ Cardinality(1..Len(s)) = Len(s)
  <2>1. 1 \in Int /\ Len(s) \in Int
    BY <1>1
  <2>2. IsFiniteSet(1..Len(s)) /\ Cardinality(1..Len(s)) = IF 1 > Len(s) THEN 0 ELSE Len(s) - 1 + 1
    BY <2>1, FS_Interval
  <2>3. QED
    BY <1>1, <2>2
<1>6. /\ IsFiniteSet(ToSet(s))
      /\ Cardinality(ToSet(s)) = Cardinality(1..Len(s)) <=> s \in Injection(1..Len(s), ToSet(s))
  BY <1>3, <1>5, FS_Surjection
<1>7. QED
  BY <1>4, <1>5, <1>6

LEMMA SortIsRight ==
  ASSUME PlanFits
  PROVE  /\ outcome = "sorted" =>
              /\ ToSet(sorted) = plan.nodes
              /\ \A i, j \in DOMAIN sorted : Behind(sorted[i], sorted[j]) => i < j
         /\ outcome = "cycle" => \E n \in plan.nodes : OnCycle(n)
<1>1. GraphFits /\ OrderFits /\ OutcomeFits /\ IsFiniteSet(plan.nodes)
  BY DEF PlanFits, GraphFits
<1>2. /\ ToSet(sorted) \in SUBSET plan.nodes /\ Cardinality(ToSet(sorted)) = Len(sorted)
      /\ Len(sorted) \in Nat /\ DOMAIN sorted = 1..Len(sorted)
      /\ \A k \in DOMAIN sorted : sorted[k] \in plan.nodes
  <2>1. sorted \in Seq(plan.nodes) /\ IsInjective(sorted)
    BY <1>1 DEF OrderFits, Ordered
  <2>2. Cardinality(ToSet(sorted)) = Len(sorted)
    BY <2>1, InjectiveSize
  <2>3. /\ Len(sorted) \in Nat /\ DOMAIN sorted = 1..Len(sorted)
        /\ \A k \in DOMAIN sorted : sorted[k] \in plan.nodes
    BY <2>1
  <2>4. QED
    BY <2>2, <2>3 DEF ToSet
<1>3. Len(sorted) = Cardinality(plan.nodes) => ToSet(sorted) = plan.nodes
  BY <1>1, <1>2, FS_Subset
<1>4. ASSUME NEW i \in DOMAIN sorted, NEW j \in DOMAIN sorted, Behind(sorted[i], sorted[j])
      PROVE  i < j
  <2> DEFINE C == {sorted[k] : k \in 1..j - 1}
  <2>0. \A k \in 1..j - 1 : k \in DOMAIN sorted
    BY <1>2
  <2>1. ASSUME NEW k \in DOMAIN sorted, k <= j, NEW e \in DOMAIN plan.edges,
               Target(e) = sorted[k]
        PROVE  Source(e) \in C
    <3>1. e \in Into(sorted[k])
      BY <1>1, <2>1, EdgeFacts
    <3>2. PICK l \in DOMAIN sorted : l < k /\ sorted[l] = Source(e)
      BY <1>1, <3>1 DEF OrderFits, Ordered
    <3>3. l \in 1..j - 1
      BY <1>2, <2>1, <3>2
    <3>4. QED
      BY <3>2, <3>3
  <2>2. ASSUME NEW e \in DOMAIN plan.edges, Target(e) \in C
        PROVE  Source(e) \in C
    <3>1. PICK k \in 1..j - 1 : sorted[k] = Target(e)
      BY <2>2
    <3>2. k \in DOMAIN sorted /\ k <= j
      BY <1>2, <2>0
    <3>3. QED
      BY <2>1, <3>1, <3>2
  <2>3. PICK e \in DOMAIN plan.edges :
          Target(e) = sorted[j] /\ (Source(e) = sorted[i] \/ Behind(sorted[i], Source(e)))
    BY <1>1, <1>4, LastEdge
  <2>4. j <= j
    BY <1>2
  <2>5. Source(e) \in C
    BY <2>1, <2>3, <2>4
  <2>6. sorted[i] \in C
    <3> HIDE DEF C
    <3>1. sorted[i] \in plan.nodes
      BY <1>2
    <3>2. QED
      BY <1>1, <2>2, <2>3, <2>5, <3>1, Upwards
  <2>7. PICK k \in 1..j - 1 : sorted[k] = sorted[i]
    BY <2>6
  <2>8. k = i
    BY <1>1, <2>0, <2>7 DEF OrderFits, Ordered, IsInjective
  <2>9. QED
    BY <1>2, <2>8
<1>5. ASSUME outcome = "cycle"
      PROVE  \E n \in plan.nodes : OnCycle(n)
  <2> DEFINE R == plan.nodes \ ToSet(sorted)
  <2>1. R # {}
    <3>1. ToSet(sorted) # plan.nodes
      BY <1>1, <1>2, <1>5 DEF OutcomeFits
    <3>2. QED
      BY <1>2, <3>1
  <2>2. ASSUME NEW n \in R
        PROVE  \E i \in DOMAIN plan.edges : Target(i) = n /\ Source(i) \in R
    <3>1. ToSet(queue) = {}
      BY <1>1, <1>5 DEF OutcomeFits, ToSet
    <3>2. Cardinality(Waiting(n, sorted)) # 0
      BY <1>1, <3>1 DEF OrderFits, Ordered
    <3>3. PICK i \in Waiting(n, sorted) : TRUE
      BY <3>2, FS_EmptySet
    <3>4. QED
      BY <1>1, <3>3, EdgeFacts DEF Waiting
  <2> HIDE DEF R
  <2>3. R \in SUBSET plan.nodes
    BY DEF R
  <2>4. \E n \in R : OnCycle(n)
    BY <1>1, <2>1, <2>2, <2>3, CycleIn
  <2>5. QED
    BY <2>3, <2>4
<1>6. QED
  BY <1>1, <1>3, <1>4, <1>5 DEF OutcomeFits

LEMMA StatusFacts ==
  ASSUME status \in Statuses
  PROVE  \A n \in plan.nodes :
           /\ status[n] \in {"pending", "running", "done", "failed"}
           /\ status[n] = "done" =>
                ~OnCycle(n) /\ \A m \in plan.nodes : Behind(m, n) => status[m] = "done"
BY DEF Statuses, Upstreams

LEMMA GroupsAreRight ==
  ASSUME PlanFits, outcome = "grouped"
  PROVE  /\ \A n \in plan.nodes :
              (\E k \in DOMAIN groups : n \in groups[k]) <=>
                /\ status[n] = "pending"
                /\ \A m \in Upstreams(n) : ~OnCycle(m) /\ status[m] \in {"pending", "done"}
         /\ \A k \in DOMAIN groups : \A n \in groups[k] :
              k > 1 => \E m \in groups[k - 1] : Behind(m, n)
<1>1. GraphFits /\ GroupsFit /\ Group = {} /\ status \in Statuses
  BY DEF PlanFits, OutcomeFits
<1>2. /\ groups \in Seq(SUBSET plan.nodes) /\ Staged(groups)
      /\ finished = {n \in plan.nodes : status[n] = "done" \/ GroupedIn(n, groups)}
      /\ remaining = {n \in plan.nodes : status[n] = "pending" /\ ~GroupedIn(n, groups)}
      /\ DOMAIN groups = 1..Len(groups) /\ Len(groups) \in Nat
      /\ \A k \in DOMAIN groups : groups[k] \subseteq plan.nodes
  BY <1>1 DEF GroupsFit, Parted
(* What a node of the first k groups needs, or one that is done.           *)
<1> DEFINE Till(k) == {n \in plan.nodes : \/ status[n] = "done"
                                          \/ \E j \in DOMAIN groups : j <= k /\ n \in groups[j]}
<1>3. ASSUME NEW k \in Nat, NEW e \in DOMAIN plan.edges, Target(e) \in Till(k)
      PROVE  Source(e) \in Till(k)
  <2>1. Source(e) \in plan.nodes /\ Target(e) \in plan.nodes /\ e \in Into(Target(e))
    BY <1>1, EdgeFacts
  <2>2. CASE status[Target(e)] = "done"
    <3>1. status[Source(e)] = "done"
      BY <1>1, <2>1, <2>2, EdgeBehind, StatusFacts
    <3>2. QED
      BY <2>1, <3>1
  <2>3. ASSUME NEW j \in DOMAIN groups, j <= k, Target(e) \in groups[j]
        PROVE  Source(e) \in Till(k)
    <3>1. \/ status[Source(e)] = "done"
          \/ \E l \in DOMAIN groups : l < j /\ Source(e) \in groups[l]
      <4>1. \A n \in groups[j] : \A i \in Into(n) :
              \/ status[Source(i)] = "done"
              \/ \E l \in DOMAIN groups : l < j /\ Source(i) \in groups[l]
        BY <1>2 DEF Staged
      <4>2. QED
        BY <2>1, <2>3, <4>1
    <3>2. \A l \in DOMAIN groups : l < j => l <= k
      BY <1>2, <2>3
    <3>3. QED
      BY <2>1, <3>1, <3>2
  <2>4. QED
    BY <1>3, <2>2, <2>3
<1>4. ASSUME NEW k \in DOMAIN groups, NEW n \in groups[k]
      PROVE  /\ ~OnCycle(n)
             /\ \A m \in Upstreams(n) : m \in Till(k)
  <2>1. n \in Till(k) /\ n \in plan.nodes /\ k \in Nat
    BY <1>2
  <2>2. \A m \in Upstreams(n) : m \in Till(k)
    <3> HIDE DEF Till
    <3>1. ASSUME NEW m \in plan.nodes, Behind(m, n)
          PROVE  m \in Till(k)
      BY <1>1, <1>3, <2>1, <3>1, Upwards
    <3>2. QED
      BY <3>1 DEF Upstreams
  <2>3. ~OnCycle(n)
    <3> SUFFICES ASSUME Behind(n, n)
                 PROVE  FALSE
      BY DEF OnCycle
    <3>1. PICK e \in DOMAIN plan.edges :
            Target(e) = n /\ (Source(e) = n \/ Behind(n, Source(e)))
      BY <1>1, LastEdge
    <3>2. k - 1 \in Nat /\ \A l \in DOMAIN groups : l < k => l <= k - 1
      BY <1>2
    <3>3. Source(e) \in Till(k - 1)
      <4>1. e \in Into(n) /\ Source(e) \in plan.nodes
        BY <1>1, <3>1, EdgeFacts
      <4>2. \/ status[Source(e)] = "done"
            \/ \E l \in DOMAIN groups : l < k /\ Source(e) \in groups[l]
        BY <1>2, <4>1 DEF Staged
      <4>3. QED
        BY <3>2, <4>1, <4>2
    <3>4. n \in Till(k - 1)
      <4> HIDE DEF Till
      <4>1. QED
        BY <1>1, <1>3, <2>1, <3>1, <3>2, <3>3, Upwards
    <3>5. PICK j \in DOMAIN groups : j <= k - 1 /\ n \in groups[j]
      BY <1>2, <3>4 DEF Staged
    <3>6. j = k
      BY <1>2, <3>5 DEF Staged
    <3>7. QED
      BY <1>2, <3>5, <3>6
  <2>4. QED
    BY <2>2, <2>3
<1>5. ASSUME NEW k \in DOMAIN groups, NEW n \in groups[k]
      PROVE  /\ status[n] = "pending"
             /\ \A m \in Upstreams(n) : ~OnCycle(m) /\ status[m] \in {"pending", "done"}
  <2>1. status[n] = "pending"
    BY <1>2 DEF Staged
  <2>2. ASSUME NEW m \in Upstreams(n)
        PROVE  ~OnCycle(m) /\ status[m] \in {"pending", "done"}
    <3>1. m \in Till(k)
      BY <1>4
    <3>2. CASE status[m] = "done"
      BY <1>1, <3>1, <3>2, StatusFacts
    <3>3. ASSUME NEW j \in DOMAIN groups, m \in groups[j]
          PROVE  ~OnCycle(m) /\ status[m] \in {"pending", "done"}
      BY <1>2, <1>4, <3>3 DEF Staged
    <3>4. QED
      BY <3>1, <3>2, <3>3
  <2>3. QED
    BY <2>1, <2>2
<1>6. ASSUME NEW n \in plan.nodes, status[n] = "pending",
             \A m \in Upstreams(n) : ~OnCycle(m) /\ status[m] \in {"pending", "done"}
      PROVE  GroupedIn(n, groups)
  <2> SUFFICES ASSUME ~GroupedIn(n, groups)
               PROVE  FALSE
    OBVIOUS
  <2> DEFINE R == {x \in remaining : x = n \/ Behind(x, n)}
  <2>1. n \in R
    BY <1>2, <1>6
  <2>2. ASSUME NEW x \in R
        PROVE  \E i \in DOMAIN plan.edges : Target(i) = x /\ Source(i) \in R
    <3>1. x \in remaining /\ x \notin Group
      BY <1>1
    <3>2. PICK i \in Into(x) : Source(i) \notin finished
      BY <3>1 DEF Group, Source
    <3>3. i \in DOMAIN plan.edges /\ Target(i) = x /\ Source(i) \in plan.nodes
      BY <1>1, <3>2, EdgeFacts
    <3>4. Behind(Source(i), n)
      <4>1. Behind(Source(i), x)
        BY <1>1, <3>3, EdgeBehind
      <4>2. QED
        BY <1>1, <2>2, <4>1, BehindBehind
    <3>5. status[Source(i)] \in {"pending", "done"}
      BY <1>6, <3>3, <3>4 DEF Upstreams
    <3>6. Source(i) \in remaining
      BY <1>2, <3>2, <3>3, <3>5
    <3>7. QED
      BY <3>3, <3>4, <3>6
  <2>3. R \in SUBSET plan.nodes
    BY <1>2
  <2> HIDE DEF R
  <2>4. PICK c \in R : OnCycle(c)
    BY <1>1, <2>1, <2>2, <2>3, CycleIn
  <2>5. c \in Upstreams(n)
    BY <2>3, <2>4 DEF R, OnCycle, Upstreams
  <2>6. QED
    BY <1>6, <2>4, <2>5
<1>7. ASSUME NEW k \in DOMAIN groups, NEW n \in groups[k], k > 1
      PROVE  \E m \in groups[k - 1] : Behind(m, n)
  <2>1. PICK i \in Into(n) : Source(i) \in groups[k - 1]
    BY <1>2, <1>7 DEF Staged
  <2>2. i \in DOMAIN plan.edges /\ Target(i) = n
    BY <1>1, <2>1, EdgeFacts
  <2>3. QED
    BY <1>1, <2>1, <2>2, EdgeBehind
<1>8. QED
  BY <1>5, <1>6, <1>7 DEF GroupedIn

LEMMA PlanSound == PlanFits => ReadingsAreRight
BY SortIsRight, GroupsAreRight DEF ReadingsAreRight

(* One turn of the loop of independent_groups.                             *)
LEMMA NextParted ==
  ASSUME GraphFits, GroupsFit
  PROVE  Parted(Append(groups, Group), remaining \ Group, finished \cup Group)
<1> DEFINE g == Append(groups, Group)
           last == Len(groups)
<1>1. /\ groups \in Seq(SUBSET plan.nodes) /\ Staged(groups)
      /\ finished = {n \in plan.nodes : status[n] = "done" \/ GroupedIn(n, groups)}
      /\ remaining = {n \in plan.nodes : status[n] = "pending" /\ ~GroupedIn(n, groups)}
      /\ groups # <<>> => \A n \in remaining : \E i \in Into(n) :
                            Source(i) \notin finished \ groups[last]
  BY DEF GroupsFit, Parted
<1>2. /\ Group \in SUBSET plan.nodes /\ Group \subseteq remaining
      /\ \A n \in Group : \A i \in Into(n) : Source(i) \in finished
      /\ \A n \in remaining \ Group : \E i \in Into(n) : Source(i) \notin finished
  BY <1>1 DEF Group, Source
<1>3. /\ g \in Seq(SUBSET plan.nodes) /\ Len(g) = last + 1 /\ last \in Nat
      /\ DOMAIN groups = 1..last /\ DOMAIN g = 1..last + 1
      /\ \A k \in 1..last : g[k] = groups[k]
      /\ g[last + 1] = Group
  <2>1. g \in Seq(SUBSET plan.nodes) /\ Len(g) = Len(groups) + 1
    BY <1>1, <1>2, AppendProperties
  <2>2. (\A k \in 1..Len(groups) : g[k] = groups[k]) /\ g[Len(groups) + 1] = Group
    BY <1>1, <1>2, AppendProperties
  <2>3. Len(groups) \in Nat /\ DOMAIN groups = 1..Len(groups) /\ DOMAIN g = 1..Len(g)
    BY <1>1, <2>1, LenProperties
  <2>4. QED
    BY <2>1, <2>2, <2>3
<1> HIDE DEF g, last
<1>4. \A n : GroupedIn(n, g) <=> GroupedIn(n, groups) \/ n \in Group
  <2>1. last + 1 \in DOMAIN g /\ \A k \in DOMAIN g : k \in 1..last \/ k = last + 1
    BY <1>3
  <2>2. \A k \in 1..last : k \in DOMAIN g
    BY <1>3
  <2>3. QED
    BY <1>3, <2>1, <2>2 DEF GroupedIn
<1>5. ASSUME NEW k \in DOMAIN g, NEW n \in g[k]
      PROVE  /\ status[n] = "pending"
             /\ \A j \in DOMAIN g : n \in g[j] => j = k
             /\ \A i \in Into(n) :
                  status[Source(i)] = "done" \/ \E j \in DOMAIN g : j < k /\ Source(i) \in g[j]
             /\ k > 1 => \E i \in Into(n) : Source(i) \in g[k - 1]
  <2>1. CASE k \in 1..last
    <3>1. n \in groups[k] /\ k \in DOMAIN groups /\ k # last + 1 /\ GroupedIn(n, groups)
      BY <1>3, <1>5, <2>1 DEF GroupedIn
    <3>2. /\ status[n] = "pending"
          /\ \A j \in DOMAIN groups : n \in groups[j] => j = k
          /\ \A i \in Into(n) : \/ status[Source(i)] = "done"
                                \/ \E j \in DOMAIN groups : j < k /\ Source(i) \in groups[j]
          /\ k > 1 => \E i \in Into(n) : Source(i) \in groups[k - 1]
      <4>1. \A x \in groups[k] :
              /\ status[x] = "pending"
              /\ \A j \in DOMAIN groups : x \in groups[j] => j = k
              /\ \A i \in Into(x) : \/ status[Source(i)] = "done"
                                    \/ \E j \in DOMAIN groups : j < k /\ Source(i) \in groups[j]
              /\ k > 1 => \E i \in Into(x) : Source(i) \in groups[k - 1]
        BY <1>1, <3>1 DEF Staged
      <4>2. QED
        BY <3>1, <4>1
    <3>3. ASSUME NEW j \in DOMAIN g, n \in g[j]
          PROVE  j = k
      <4>1. CASE j \in 1..last
        BY <1>3, <3>2, <3>3, <4>1
      <4>2. CASE j = last + 1
        BY <1>1, <1>2, <1>3, <3>1, <3>3, <4>2
      <4>3. QED
        BY <1>3, <4>1, <4>2
    <3>4. \A j \in DOMAIN groups : j \in DOMAIN g /\ g[j] = groups[j]
      BY <1>3
    <3>5. k > 1 => g[k - 1] = groups[k - 1]
      BY <1>3, <2>1
    <3>6. QED
      BY <3>2, <3>3, <3>4, <3>5
  <2>2. CASE k = last + 1
    <3>1. n \in Group /\ n \in remaining /\ ~GroupedIn(n, groups) /\ status[n] = "pending"
      BY <1>1, <1>2, <1>3, <1>5, <2>2
    <3>2. ASSUME NEW j \in DOMAIN g, n \in g[j]
          PROVE  j = k
      <4>1. j \notin 1..last
        BY <1>3, <3>1, <3>2 DEF GroupedIn
      <4>2. QED
        BY <1>3, <2>2, <4>1
    <3>3. ASSUME NEW i \in Into(n)
          PROVE  \/ status[Source(i)] = "done"
                 \/ \E j \in DOMAIN g : j < k /\ Source(i) \in g[j]
      <4>1. status[Source(i)] = "done" \/ GroupedIn(Source(i), groups)
        BY <1>1, <1>2, <3>1
      <4>2. \A j \in DOMAIN groups : j \in DOMAIN g /\ j < k /\ g[j] = groups[j]
        BY <1>3, <2>2
      <4>3. QED
        BY <4>1, <4>2 DEF GroupedIn
    <3>4. ASSUME k > 1
          PROVE  \E i \in Into(n) : Source(i) \in g[k - 1]
      <4>1. last \in 1..last /\ k - 1 = last /\ groups # <<>>
        BY <1>3, <2>2, <3>4
      <4>2. PICK i \in Into(n) : Source(i) \notin finished \ groups[last]
        BY <1>1, <3>1, <4>1
      <4>3. Source(i) \in finished
        BY <1>2, <3>1
      <4>4. Source(i) \in g[last]
        BY <1>3, <4>1, <4>2, <4>3
      <4>5. QED
        BY <4>1, <4>4
    <3>5. QED
      BY <3>1, <3>2, <3>3, <3>4
  <2>3. QED
    BY <1>3, <2>1, <2>2
<1>6. Staged(g)
  BY <1>5 DEF Staged
<1>7. /\ finished \cup Group = {n \in plan.nodes : status[n] = "done" \/ GroupedIn(n, g)}
      /\ remaining \ Group = {n \in plan.nodes : status[n] = "pending" /\ ~GroupedIn(n, g)}
  BY <1>1, <1>2, <1>4
<1>8. \A n \in remaining \ Group : \E i \in Into(n) :
         Source(i) \notin (finished \cup Group) \ g[Len(g)]
  BY <1>2, <1>3
<1>9. Parted(g, remaining \ Group, finished \cup Group)
  BY <1>3, <1>6, <1>7, <1>8 DEF Parted
<1>10. QED
  BY <1>9 DEF g

(* The edges that free a node: one for each node that has no edge left.    *)
LEMMA FreedFacts ==
  ASSUME GraphFits, OrderFits, NEW n \in plan.nodes, n \notin ToSet(sorted)
  PROVE  LET d     == DegreeAfter(n)
             freed == Pick(plan.edges, Freeing(n))
             f     == [k \in DOMAIN freed |-> freed[k][2]]
         IN /\ d \in [plan.nodes -> Nat]
            /\ \A m \in plan.nodes :
                 /\ d[m] = Cardinality(Waiting(m, Append(sorted, n)))
                 /\ d[m] <= degree[m]
            /\ f \in Seq(plan.nodes) /\ IsInjective(f)
            /\ ToSet(f) = {m \in plan.nodes : degree[m] > 0 /\ d[m] = 0}
<1> DEFINE d == DegreeAfter(n)
           c == Cardinality(Freeing(n))
           freed == Pick(plan.edges, Freeing(n))
           f == [k \in DOMAIN freed |-> freed[k][2]]
<1>1. /\ sorted \in Seq(plan.nodes) /\ degree \in [plan.nodes -> Nat]
      /\ \A m \in plan.nodes : degree[m] = Cardinality(Waiting(m, sorted))
      /\ IsFiniteSet(DOMAIN plan.edges)
  <2>1. Len(plan.edges) \in Int /\ 1 \in Int /\ DOMAIN plan.edges = 1..Len(plan.edges)
    BY EdgeFacts
  <2>2. IsFiniteSet(DOMAIN plan.edges)
    BY <2>1, FS_Interval
  <2>3. QED
    BY <2>2 DEF OrderFits, Ordered
<1>2. ToSet(Append(sorted, n)) = ToSet(sorted) \cup {n}
  <2>1. /\ Append(sorted, n) \in Seq(plan.nodes) /\ Len(Append(sorted, n)) = Len(sorted) + 1
        /\ \A k \in 1..Len(sorted) : Append(sorted, n)[k] = sorted[k]
        /\ Append(sorted, n)[Len(sorted) + 1] = n
    BY <1>1, AppendProperties
  <2>2. /\ Len(sorted) \in Nat /\ DOMAIN sorted = 1..Len(sorted)
        /\ DOMAIN Append(sorted, n) = 1..Len(sorted) + 1
    BY <1>1, <2>1, LenProperties
  <2> DEFINE r == Append(sorted, n)
             l == Len(sorted)
  <2> HIDE DEF r, l
  <2>3. ToSet(r) = {r[k] : k \in 1..l + 1} /\ ToSet(sorted) = {sorted[k] : k \in 1..l}
    BY <2>2 DEF ToSet, r, l
  <2>4. l \in Nat /\ r[l + 1] = n /\ \A k \in 1..l : r[k] = sorted[k]
    BY <2>1, <2>2 DEF r, l
  <2>5. /\ \A k \in 1..l + 1 : k \in 1..l \/ k = l + 1
        /\ \A k \in 1..l : k \in 1..l + 1
        /\ l + 1 \in 1..l + 1
    BY <2>4
  <2>6. ToSet(r) = ToSet(sorted) \cup {n}
    BY <2>3, <2>4, <2>5
  <2>7. QED
    BY <2>6 DEF r
<1>3. ASSUME NEW m \in plan.nodes
      PROVE  /\ d[m] = Cardinality(Waiting(m, Append(sorted, n)))
             /\ d[m] \in Nat /\ d[m] <= degree[m]
             /\ d[m] # degree[m] => From(n) \cap Into(m) # {}
  <2> DEFINE A == Waiting(m, sorted)
             B == From(n) \cap Into(m)
  <2>1. B \subseteq A /\ A \subseteq DOMAIN plan.edges
    BY EdgeFacts DEF Waiting
  <2>2. Waiting(m, Append(sorted, n)) = A \ B
    BY <1>2, EdgeFacts DEF Waiting
  <2>3. d[m] = degree[m] - Cardinality(B)
    BY DEF DegreeAfter
  <2> HIDE DEF A, B
  <2>4. IsFiniteSet(A) /\ IsFiniteSet(B) /\ A \cap B = B
    BY <1>1, <2>1, FS_Subset
  <2>5. Cardinality(A \ B) = Cardinality(A) - Cardinality(B) /\ IsFiniteSet(A \ B)
    BY <2>4, FS_Difference
  <2>6. Cardinality(A \ B) \in Nat /\ Cardinality(B) \in Nat /\ Cardinality(A) \in Nat
    BY <2>4, <2>5, FS_CardinalityType
  <2>7. degree[m] = Cardinality(A)
    BY <1>1 DEF A
  <2>8. /\ d[m] = Cardinality(A \ B) /\ Cardinality(A \ B) <= Cardinality(A)
        /\ d[m] # degree[m] => Cardinality(B) # 0
    BY <2>3, <2>5, <2>6, <2>7
  <2>9. Cardinality(B) # 0 => B # {}
    BY FS_EmptySet
  <2>10. QED
    BY <2>2, <2>6, <2>7, <2>8, <2>9 DEF B
<1>4. d \in [plan.nodes -> Nat]
  BY <1>3 DEF DegreeAfter
<1> HIDE DEF d
<1>5. /\ Freeing(n) \in SUBSET (1..Len(plan.edges))
      /\ \A i \in Freeing(n) : /\ i \in From(n) \cap Into(Target(i)) /\ Target(i) \in plan.nodes
                               /\ degree[Target(i)] > 0 /\ d[Target(i)] = 0
                               /\ \A j \in From(n) \cap Into(Target(i)) : j <= i
  BY EdgeFacts DEF Freeing, d, Target
<1>6. /\ c \in Nat /\ freed \in Seq(plan.nodes \X plan.nodes) /\ Len(freed) = c
      /\ \A k \in 1..c : Nth(Freeing(n), k) \in Freeing(n)
           /\ freed[k] = plan.edges[Nth(Freeing(n), k)]
      /\ \A i \in Freeing(n) : \E k \in 1..c : Nth(Freeing(n), k) = i
      /\ \A k, l \in 1..c : k < l => Nth(Freeing(n), k) < Nth(Freeing(n), l)
  <2>1. plan.edges \in Seq(plan.nodes \X plan.nodes)
    BY DEF GraphFits
  <2>2. QED
    BY <1>5, <2>1, PickFacts
<1>7. DOMAIN freed = 1..c
  BY <1>6
<1> HIDE DEF freed, c
<1>8. /\ DOMAIN f = 1..c
      /\ \A k \in 1..c : f[k] = Target(Nth(Freeing(n), k)) /\ f[k] \in plan.nodes
  BY <1>5, <1>6, <1>7 DEF Target
<1> DEFINE p == [k \in 1..c |-> f[k]]
<1>9. f = p
  BY <1>7
<1> HIDE DEF f
<1>10. f \in Seq(plan.nodes)
  <2>1. f \in [1..c -> plan.nodes]
    BY <1>8, <1>9
  <2>2. QED
    BY <1>6, <2>1
<1>11. IsInjective(f)
  <2> SUFFICES ASSUME NEW k \in 1..c, NEW l \in 1..c, f[k] = f[l]
               PROVE  k = l
    BY <1>8 DEF IsInjective
  <2> DEFINE i == Nth(Freeing(n), k)
             j == Nth(Freeing(n), l)
  <2>1. i \in Freeing(n) /\ j \in Freeing(n) /\ Target(i) = Target(j)
    BY <1>6, <1>8
  <2> HIDE DEF i, j
  <2>2. i <= j /\ j <= i /\ i \in Int /\ j \in Int
    BY <1>5, <2>1
  <2>3. i = j
    BY <2>2
  <2>4. ~(k < l) /\ ~(l < k)
    BY <1>6, <2>2, <2>3 DEF i, j
  <2>5. QED
    BY <2>4
<1>12. ASSUME NEW m \in plan.nodes, degree[m] > 0, d[m] = 0
       PROVE  m \in ToSet(f)
  <2> DEFINE B == From(n) \cap Into(m)
  <2>1. B # {} /\ B \in SUBSET (1..Len(plan.edges)) /\ Len(plan.edges) \in Nat
    BY <1>1, <1>3, <1>12, EdgeFacts
  <2>2. PICK i \in B : \A j \in B : j <= i
    <3> HIDE DEF B
    <3>1. QED
      BY <2>1, Greatest
  <2>3. Target(i) = m /\ i \in From(n)
    BY EdgeFacts
  <2>4. i \in Freeing(n)
    BY <1>12, <2>2, <2>3 DEF Freeing, Target, d
  <2>5. PICK k \in 1..c : Nth(Freeing(n), k) = i
    BY <1>6, <2>4
  <2>6. f[k] = m
    BY <1>8, <2>3, <2>5
  <2>7. QED
    BY <1>8, <2>6 DEF ToSet
<1>13. ASSUME NEW m \in ToSet(f)
       PROVE  m \in plan.nodes /\ degree[m] > 0 /\ d[m] = 0
  BY <1>5, <1>6, <1>8 DEF ToSet
<1>14. ToSet(f) = {m \in plan.nodes : degree[m] > 0 /\ d[m] = 0}
  BY <1>12, <1>13
<1>15. QED
  BY <1>3, <1>4, <1>10, <1>11, <1>14 DEF d, f, freed

(* What three lists without repetitions and without a common element give. *)
LEMMA JoinedInjective ==
  ASSUME NEW T, NEW s \in Seq(T), NEW t \in Seq(T), IsInjective(s), IsInjective(t),
         ToSet(s) \cap ToSet(t) = {}
  PROVE  s \o t \in Seq(T) /\ IsInjective(s \o t) /\ ToSet(s \o t) = ToSet(s) \cup ToSet(t)
<1> DEFINE r == s \o t
           m == Len(s)
           n == Len(t)
<1>1. /\ r \in Seq(T) /\ m \in Nat /\ n \in Nat
      /\ DOMAIN r = 1..m + n
      /\ \A i \in 1..m : r[i] = s[i]
      /\ \A j \in 1..n : r[m + j] = t[j]
  <2>1. s \in Seq(T) /\ t \in Seq(T)
    OBVIOUS
  <2>2. QED
    BY ONLY <2>1, Joined
<1>2. /\ ToSet(s) = {s[i] : i \in 1..m} /\ ToSet(t) = {t[j] : j \in 1..n}
      /\ ToSet(r) = {r[i] : i \in 1..m + n}
      /\ \A i, j \in 1..m : s[i] = s[j] => i = j
      /\ \A i, j \in 1..n : t[i] = t[j] => i = j
  <2>1. DOMAIN s = 1..m /\ DOMAIN t = 1..n
    BY LenProperties
  <2>2. QED
    BY <1>1, <2>1 DEF ToSet, IsInjective
<1>3. \A i \in 1..m + n : i \in 1..m \/ \E j \in 1..n : i = m + j
  <2> HIDE DEF m, n, r
  <2>1. \A i \in 1..m + n : i \notin 1..m => i - m \in 1..n /\ i = m + (i - m)
    BY <1>1
  <2>2. QED
    BY <2>1
<1>4. /\ \A i \in 1..m : i \in 1..m + n
      /\ \A j \in 1..n : m + j \in 1..m + n
  <2> HIDE DEF m, n, r
  <2>1. QED
    BY <1>1
<1> HIDE DEF r, m, n
<1>5. \A i \in 1..m : \A j \in 1..n : s[i] # t[j]
  BY <1>2
<1>6. ToSet(r) = ToSet(s) \cup ToSet(t)
  <2>1. ASSUME NEW x \in ToSet(r)
        PROVE  x \in ToSet(s) \cup ToSet(t)
    <3>1. PICK i \in 1..m + n : x = r[i]
      BY <1>2, <2>1
    <3>2. CASE i \in 1..m
      BY <1>1, <1>2, <3>1, <3>2
    <3>3. ASSUME NEW j \in 1..n, i = m + j
          PROVE  x \in ToSet(t)
      <4>1. x = t[j]
        BY <1>1, <3>1, <3>3
      <4>2. QED
        BY <1>2, <4>1
    <3>4. QED
      BY <1>3, <3>2, <3>3
  <2>2. ASSUME NEW x \in ToSet(s)
        PROVE  x \in ToSet(r)
    BY <1>1, <1>2, <1>4, <2>2
  <2>3. ASSUME NEW x \in ToSet(t)
        PROVE  x \in ToSet(r)
    <3>1. PICK j \in 1..n : x = t[j]
      BY <1>2, <2>3
    <3>2. x = r[m + j] /\ m + j \in 1..m + n
      BY <1>1, <1>4, <3>1
    <3>3. QED
      BY <1>2, <3>2
  <2>4. QED
    BY <2>1, <2>2, <2>3
<1>7. ASSUME NEW i \in 1..m + n, NEW j \in 1..m + n, r[i] = r[j]
      PROVE  i = j
  <2>1. CASE i \in 1..m /\ j \in 1..m
    BY <1>1, <1>2, <1>7, <2>1
  <2>2. ASSUME NEW k \in 1..n, i = m + k, NEW l \in 1..n, j = m + l
        PROVE  i = j
    <3>1. t[k] = r[i] /\ t[l] = r[j]
      BY <1>1, <2>2
    <3>2. k = l
      BY <1>2, <1>7, <3>1
    <3>3. QED
      BY <2>2, <3>2
  <2>3. ASSUME NEW k \in 1..n, i = m + k, j \in 1..m
        PROVE  i = j
    BY <1>1, <1>5, <1>7, <2>3
  <2>4. ASSUME NEW l \in 1..n, j = m + l, i \in 1..m
        PROVE  i = j
    BY <1>1, <1>5, <1>7, <2>4
  <2>5. QED
    BY <1>3, <2>1, <2>2, <2>3, <2>4
<1>8. IsInjective(r)
  BY <1>1, <1>7 DEF IsInjective
<1>9. QED
  BY <1>1, <1>6, <1>8 DEF r

LEMMA HeadAndTail ==
  ASSUME NEW T, NEW q \in Seq(T), q # <<>>, IsInjective(q)
  PROVE  /\ Head(q) \in T /\ Head(q) \in ToSet(q)
         /\ Tail(q) \in Seq(T) /\ IsInjective(Tail(q))
         /\ ToSet(Tail(q)) = ToSet(q) \ {Head(q)}
<1> DEFINE t == Tail(q)
           n == Len(q)
<1>1. /\ n \in Nat \ {0} /\ DOMAIN q = 1..n /\ Head(q) = q[1] /\ Head(q) \in T
      /\ t \in Seq(T) /\ Len(t) = n - 1
      /\ \A i \in 1..n - 1 : t[i] = q[i + 1]
  <2>1. n \in Nat /\ n # 0 /\ DOMAIN q = 1..n /\ Head(q) = q[1]
    OBVIOUS
  <2>2. /\ Head(q) \in T /\ t \in Seq(T) /\ Len(t) = Len(q) - 1
        /\ \A i \in 1..Len(Tail(q)) : t[i] = q[i + 1]
    BY HeadTailProperties
  <2>3. QED
    BY <2>1, <2>2
<1>2. DOMAIN t = 1..n - 1
  BY <1>1, LenProperties
<1> HIDE DEF t, n
<1>3. /\ 1 \in 1..n /\ \A i \in 1..n - 1 : i + 1 \in 1..n
      /\ \A i \in 1..n : i # 1 => i - 1 \in 1..n - 1 /\ (i - 1) + 1 = i
  BY <1>1
<1>4. \A i, j \in 1..n : q[i] = q[j] => i = j
  BY <1>1 DEF IsInjective
<1>5. IsInjective(t)
  <2>1. ASSUME NEW i \in 1..n - 1, NEW j \in 1..n - 1, t[i] = t[j]
        PROVE  i = j
    <3>1. i + 1 = j + 1
      BY <1>1, <1>3, <1>4, <2>1
    <3>2. QED
      BY <3>1
  <2>2. QED
    BY <1>2, <2>1 DEF IsInjective
<1>6. ASSUME NEW x \in ToSet(t)
      PROVE  x \in ToSet(q) \ {Head(q)}
  <2>1. PICK i \in 1..n - 1 : x = t[i]
    BY <1>2, <1>6 DEF ToSet
  <2>2. x = q[i + 1] /\ i + 1 \in 1..n /\ i + 1 # 1
    BY <1>1, <1>3, <2>1
  <2>3. x # q[1]
    BY <1>3, <1>4, <2>2
  <2>4. QED
    BY <1>1, <2>2, <2>3 DEF ToSet
<1>7. ASSUME NEW x \in ToSet(q), x # Head(q)
      PROVE  x \in ToSet(t)
  <2>1. PICK i \in 1..n : x = q[i]
    BY <1>1 DEF ToSet
  <2>2. i # 1
    BY <1>1, <1>7, <2>1
  <2>3. i - 1 \in 1..n - 1 /\ t[i - 1] = x
    BY <1>1, <1>3, <2>1, <2>2
  <2>4. QED
    BY <1>2, <2>3 DEF ToSet
<1>8. Head(q) \in ToSet(q)
  BY <1>1, <1>3 DEF ToSet
<1>9. QED
  BY <1>1, <1>5, <1>6, <1>7, <1>8 DEF t

(* One turn of the loop of topological_sort.                               *)
LEMMA NextOrdered ==
  ASSUME GraphFits, OrderFits, queue # <<>>
  PROVE  LET n     == Head(queue)
             freed == Pick(plan.edges, Freeing(n))
         IN Ordered(Append(sorted, n), Tail(queue) \o [k \in DOMAIN freed |-> freed[k][2]],
                    DegreeAfter(n))
<1> DEFINE n == Head(queue)
           freed == Pick(plan.edges, Freeing(n))
           f == [k \in DOMAIN freed |-> freed[k][2]]
           d == DegreeAfter(n)
           s == Append(sorted, n)
           t == Tail(queue)
           q == t \o f
<1>1. /\ sorted \in Seq(plan.nodes) /\ IsInjective(sorted)
      /\ queue \in Seq(plan.nodes) /\ IsInjective(queue)
      /\ ToSet(sorted) \cap ToSet(queue) = {}
      /\ degree \in [plan.nodes -> Nat]
      /\ \A m \in plan.nodes :
           /\ degree[m] = Cardinality(Waiting(m, sorted))
           /\ degree[m] = 0 <=> m \in ToSet(sorted) \cup ToSet(queue)
      /\ \A k \in DOMAIN sorted : \A i \in Into(sorted[k]) :
           \E j \in DOMAIN sorted : j < k /\ sorted[j] = Source(i)
  BY DEF OrderFits, Ordered
<1>2. /\ n \in plan.nodes /\ n \in ToSet(queue) /\ n \notin ToSet(sorted)
      /\ t \in Seq(plan.nodes) /\ IsInjective(t) /\ ToSet(t) = ToSet(queue) \ {n}
  BY <1>1, HeadAndTail
<1>3. /\ d \in [plan.nodes -> Nat]
      /\ \A m \in plan.nodes : d[m] = Cardinality(Waiting(m, s)) /\ d[m] <= degree[m]
      /\ f \in Seq(plan.nodes) /\ IsInjective(f)
      /\ ToSet(f) = {m \in plan.nodes : degree[m] > 0 /\ d[m] = 0}
  <2> HIDE DEF n
  <2>1. QED
    BY <1>2, FreedFacts
<1> HIDE DEF n, freed, f, d, s, t
<1>4. /\ s \in Seq(plan.nodes) /\ IsInjective(s) /\ ToSet(s) = ToSet(sorted) \cup {n}
      /\ s = sorted \o <<n>>
  <2> DEFINE one == <<n>>
  <2>1. one \in Seq(plan.nodes) /\ IsInjective(one) /\ ToSet(one) = {n}
    <3>1. one \in Seq(plan.nodes) /\ DOMAIN one = {1} /\ one[1] = n
      <4>1. one \in Seq(plan.nodes)
        <5>1. \A S : \A x \in S : <<x>> \in Seq(S)
          OBVIOUS
        <5>2. QED
          BY <1>2, <5>1
      <4>2. Len(one) = 1 /\ one[1] = n
        OBVIOUS
      <4>3. DOMAIN one = 1..1 /\ 1..1 = {1}
        <5> HIDE DEF one
        <5>1. QED
          BY <4>1, <4>2, LenProperties
      <4>4. QED
        BY <4>1, <4>2, <4>3
    <3> HIDE DEF one
    <3>2. IsInjective(one)
      BY <3>1 DEF IsInjective
    <3>3. ToSet(one) = {n}
      BY <3>1 DEF ToSet
    <3>4. QED
      BY <3>1, <3>2, <3>3
  <2>2. s = sorted \o one
    BY <1>1, <1>2, AppendIsConcat DEF s
  <2> HIDE DEF one
  <2>3. ToSet(sorted) \cap ToSet(one) = {}
    BY <1>2, <2>1
  <2>4. /\ sorted \o one \in Seq(plan.nodes) /\ IsInjective(sorted \o one)
        /\ ToSet(sorted \o one) = ToSet(sorted) \cup ToSet(one)
    BY <1>1, <2>1, <2>3, JoinedInjective
  <2>5. QED
    BY <2>1, <2>2, <2>4 DEF one
<1>5. \A m \in plan.nodes : m \in ToSet(queue) => degree[m] = 0
  BY <1>1
<1>6. q \in Seq(plan.nodes) /\ IsInjective(q) /\ ToSet(q) = ToSet(t) \cup ToSet(f)
  <2>1. ToSet(t) \cap ToSet(f) = {}
    <3>1. ASSUME NEW m \in ToSet(t), m \in ToSet(f)
          PROVE  FALSE
      BY <1>2, <1>3, <1>5, <3>1
    <3>2. QED
      BY <3>1
  <2>2. QED
    BY <1>2, <1>3, <2>1, JoinedInjective
<1> HIDE DEF q
<1>7. ToSet(s) \cap ToSet(q) = {}
  <2>1. ASSUME NEW m \in ToSet(s), m \in ToSet(q)
        PROVE  FALSE
    <3>1. CASE m \in ToSet(t)
      BY <1>1, <1>2, <1>4, <2>1, <3>1
    <3>2. CASE m \in ToSet(f)
      <4>1. m \in plan.nodes /\ degree[m] # 0
        BY <1>3, <3>2
      <4>2. m \in ToSet(sorted) \/ m \in ToSet(queue)
        BY <1>2, <1>4, <2>1
      <4>3. QED
        BY <1>1, <4>1, <4>2
    <3>3. QED
      BY <1>6, <2>1, <3>1, <3>2
  <2>2. QED
    BY <2>1
<1>8. ASSUME NEW m \in plan.nodes
      PROVE  d[m] = 0 <=> m \in ToSet(s) \cup ToSet(q)
  <2>1. CASE degree[m] = 0
    <3>1. d[m] = 0
      BY <1>1, <1>3, <2>1
    <3>2. m \in ToSet(s) \cup ToSet(q)
      BY <1>1, <1>2, <1>4, <1>6, <2>1
    <3>3. QED
      BY <3>1, <3>2
  <2>2. CASE degree[m] # 0
    <3>1. m \notin ToSet(s) /\ m \notin ToSet(t)
      BY <1>1, <1>2, <1>4, <2>2
    <3>2. degree[m] > 0
      BY <1>1, <2>2
    <3>3. QED
      BY <1>3, <1>6, <3>1, <3>2
  <2>3. QED
    BY <2>1, <2>2
<1>9. ASSUME NEW k \in DOMAIN s, NEW i \in Into(s[k])
      PROVE  \E j \in DOMAIN s : j < k /\ s[j] = Source(i)
  <2> DEFINE l == Len(sorted)
  <2>1. /\ l \in Nat /\ DOMAIN sorted = 1..l /\ DOMAIN s = 1..l + 1
        /\ \A j \in 1..l : s[j] = sorted[j]
        /\ s[l + 1] = n
    <3>1. /\ s \in Seq(plan.nodes) /\ Len(s) = Len(sorted) + 1
          /\ \A j \in 1..Len(sorted) : s[j] = sorted[j]
          /\ s[Len(sorted) + 1] = n
      BY <1>1, <1>2, AppendProperties DEF s
    <3>2. QED
      BY <1>1, <3>1, LenProperties
  <2> HIDE DEF l
  <2>2. CASE k \in 1..l
    <3>1. i \in Into(sorted[k])
      BY <1>9, <2>1, <2>2
    <3>2. PICK j \in DOMAIN sorted : j < k /\ sorted[j] = Source(i)
      BY <1>1, <2>1, <2>2, <3>1
    <3>3. j \in DOMAIN s /\ s[j] = sorted[j]
      BY <2>1
    <3>4. QED
      BY <3>2, <3>3
  <2>3. CASE k = l + 1
    <3>1. Waiting(n, sorted) = {}
      <4>1. degree[n] = 0 /\ Cardinality(Waiting(n, sorted)) = 0
        BY <1>1, <1>2
      <4>2. IsFiniteSet(Waiting(n, sorted))
        <5>1. Len(plan.edges) \in Int /\ 1 \in Int /\ DOMAIN plan.edges = 1..Len(plan.edges)
          BY EdgeFacts
        <5>2. IsFiniteSet(DOMAIN plan.edges)
          BY <5>1, FS_Interval
        <5>3. Waiting(n, sorted) \in SUBSET DOMAIN plan.edges
          BY DEF Waiting, Into
        <5>4. QED
          BY <5>2, <5>3, FS_Subset
      <4>3. QED
        BY <4>1, <4>2, FS_EmptySet
    <3>2. Source(i) \in ToSet(sorted)
      BY <1>9, <2>1, <2>3, <3>1 DEF Waiting
    <3>3. PICK j \in DOMAIN sorted : sorted[j] = Source(i)
      BY <3>2 DEF ToSet
    <3>4. j \in DOMAIN s /\ j < k /\ s[j] = sorted[j]
      BY <2>1, <2>3
    <3>5. QED
      BY <3>3, <3>4
  <2>4. QED
    BY <2>1, <2>2, <2>3
<1>10. Ordered(s, q, d)
  BY <1>3, <1>4, <1>6, <1>7, <1>8, <1>9 DEF Ordered
<1>11. QED
  BY <1>10 DEF s, q, d, t, f, freed, n

(* Sequences put one after the other are one.                              *)
LEMMA AllJoined ==
  ASSUME NEW E, NEW s \in Seq(Seq(E))
  PROVE  Along(s, <<>>, \o)[Len(s)] \in Seq(E)
<1> DEFINE T == Seq(E)
           with(p, e) == p \o e
           turn == [p \in T |-> [e \in T |-> with(p, e)]]
           o == Along(s, <<>>, \o)
           Sums(m) == m = [i \in 0..Len(s) |-> IF i = 0 THEN <<>> ELSE with(m[i - 1], s[i])]
<1>1. Len(s) \in Nat /\ \A i \in 1..Len(s) : s[i] \in T
  OBVIOUS
<1>2. <<>> \in T /\ \A p, e \in T : with(p, e) \in T
  BY ConcatProperties
<1>3. turn \in [T -> [T -> T]] /\ \A p, e \in T : turn[p][e] = with(p, e)
  BY <1>2
<1> HIDE DEF turn, with
<1>4. PICK m \in [0..Len(s) -> T] : Turns(m, s, <<>>, turn)
  <2>1. <<>> \in T /\ s \in Seq(T) /\ turn \in [T -> [T -> T]]
    BY <1>2, <1>3
  <2> HIDE DEF T
  <2>2. QED
    BY <2>1, AlongExists
<1>5. \A i \in 1..Len(s) : m[i] = with(m[i - 1], s[i])
  <2>1. \A i \in 1..Len(s) : i - 1 \in 0..Len(s)
    BY <1>1
  <2> HIDE DEF T
  <2>2. \A i \in 1..Len(s) : m[i - 1] \in T /\ s[i] \in T
    BY <1>1, <2>1
  <2>3. QED
    BY <1>3, <1>4, <2>2 DEF Turns
<1>6. Sums(m)
  <2> HIDE DEF T
  <2>1. QED
    BY <1>1, <1>4, <1>5 DEF Turns
<1>7. o = CHOOSE n : Sums(n)
  BY DEF Along, with
<1>8. Sums(o)
  <2> HIDE DEF Sums, o
  <2>1. QED
    BY <1>6, <1>7
<1>9. /\ o[0] = <<>>
      /\ \A i \in 1..Len(s) : o[i] = with(o[i - 1], s[i])
  <2> HIDE DEF o
  <2>1. o = [i \in 0..Len(s) |-> IF i = 0 THEN <<>> ELSE with(o[i - 1], s[i])]
    BY <1>8 DEF o
  <2>2. QED
    BY <1>1, <2>1
<1> HIDE DEF o
<1> DEFINE Good == {i \in Nat : i <= Len(s) => o[i] \in T}
<1>10. 0 \in Good
  BY <1>2, <1>9
<1>11. ASSUME NEW i \in Nat, i \in Good
       PROVE  i + 1 \in Good
  <2> SUFFICES ASSUME i + 1 <= Len(s)
               PROVE  o[i + 1] \in T
    OBVIOUS
  <2>1. i + 1 \in 1..Len(s) /\ (i + 1) - 1 = i /\ i <= Len(s)
    <3>1. \A n \in Nat : i + 1 <= n => i + 1 \in 1..n /\ (i + 1) - 1 = i /\ i <= n
      OBVIOUS
    <3>2. QED
      BY <1>1, <3>1
  <2>2. o[i + 1] = with(o[i], s[i + 1])
    BY <1>9, <2>1
  <2>3. o[i] \in T /\ s[i + 1] \in T
    BY <1>1, <1>11, <2>1
  <2> HIDE DEF T
  <2>4. QED
    BY <1>2, <2>2, <2>3
<1> HIDE DEF Good
<1>12. Nat \subseteq Good
  BY <1>10, <1>11, SetInduction
<1>13. o[Len(s)] \in T
  BY <1>1, <1>12 DEF Good
<1>14. QED
  BY <1>13 DEF o

LEMMA ParsedFits ==
  ASSUME NEW tasks \in Seq([id : STRING, needs : SUBSET STRING])
  PROVE  /\ Parsed(tasks).nodes \subseteq Nat /\ IsFiniteSet(Parsed(tasks).nodes)
         /\ Parsed(tasks).edges \in Seq(Parsed(tasks).nodes \X Parsed(tasks).nodes)
<1> DEFINE N == DOMAIN tasks
           P == N \X N
           s == [i \in N |-> EdgesOf(tasks, i)]
<1>1. /\ Len(tasks) \in Nat /\ N = 1..Len(tasks)
      /\ IsFiniteSet(N) /\ IsFiniteSet(P)
  <2>1. Len(tasks) \in Nat /\ N = 1..Len(tasks)
    OBVIOUS
  <2>2. IsFiniteSet(1..Len(tasks))
    BY <2>1, FS_Interval
  <2>3. QED
    BY <2>1, <2>2, FS_Product
<1>2. ASSUME NEW id
      PROVE  NodeOf(tasks, id) \subseteq N
  <2> DEFINE with == {i \in DOMAIN tasks : tasks[i].id = id}
  <2>1. CASE with # {}
    <3>1. with \in SUBSET (1..Len(tasks))
      BY <1>1
    <3>2. \E i \in with : \A j \in with : j <= i
      <4> HIDE DEF with
      <4>1. QED
        BY <1>1, <2>1, <3>1, Greatest
    <3>3. (CHOOSE i \in with : \A j \in with : j <= i) \in with
      BY <3>2
    <3>4. QED
      BY <3>3 DEF NodeOf
  <2>2. CASE with = {}
    BY <2>2 DEF NodeOf
  <2>3. QED
    BY <2>1, <2>2
<1>3. ASSUME NEW i \in N
      PROVE  EdgesOf(tasks, i) \in Seq(P)
  <2> DEFINE S == {<<f, t>> : f \in UNION {NodeOf(tasks, d) : d \in tasks[i].needs},
                              t \in NodeOf(tasks, tasks[i].id)}
  <2>1. S \in SUBSET P
    <3>1. UNION {NodeOf(tasks, d) : d \in tasks[i].needs} \subseteq N
      BY <1>2
    <3>2. NodeOf(tasks, tasks[i].id) \subseteq N
      BY <1>2
    <3>3. QED
      BY <3>1, <3>2
  <2>2. EdgesOf(tasks, i) = SetToSeq(S)
    BY DEF EdgesOf
  <2> HIDE DEF S, P
  <2>3. IsFiniteSet(S)
    BY <1>1, <2>1, FS_Subset
  <2>4. SetToSeq(S) \in Seq(S)
    BY <2>3, SequenceOf
  <2>5. Seq(S) \subseteq Seq(P)
    <3>1. \A q \in Seq(S) : q \in [1..Len(q) -> S] /\ Len(q) \in Nat
      BY LenProperties
    <3>2. \A q \in Seq(S) : q \in [1..Len(q) -> P] /\ Len(q) \in Nat
      BY <2>1, <3>1
    <3>3. QED
      BY <3>2
  <2>6. QED
    BY <2>2, <2>4, <2>5
<1>4. s \in Seq(Seq(P)) /\ Len(s) = Len(tasks)
  <2> HIDE DEF P
  <2>1. s \in [1..Len(tasks) -> Seq(P)]
    BY <1>1, <1>3
  <2> HIDE DEF s
  <2>2. s \in Seq(Seq(P))
    BY <1>1, <2>1
  <2>3. QED
    BY <1>1, <2>1, <2>2, LenProperties
<1>5. Along(s, <<>>, \o)[Len(tasks)] \in Seq(P)
  <2> HIDE DEF s, P
  <2>1. Along(s, <<>>, \o)[Len(s)] \in Seq(P)
    BY <1>4, AllJoined
  <2>2. QED
    BY <1>4, <2>1
<1>6. Parsed(tasks).nodes = N /\ Parsed(tasks).edges = Along(s, <<>>, \o)[Len(tasks)]
  BY DEF Parsed
<1>7. N \subseteq Nat
  BY <1>1
<1>8. QED
  BY <1>1, <1>5, <1>6, <1>7

LEMMA HeuristicFits ==
  ASSUME NEW k \in Nat
  PROVE  /\ Heuristic(k).nodes \subseteq Nat /\ IsFiniteSet(Heuristic(k).nodes)
         /\ Heuristic(k).edges \in Seq(Heuristic(k).nodes \X Heuristic(k).nodes)
<1> DEFINE n == IF k = 0 THEN 1 ELSE k
<1>1. n \in Nat
  OBVIOUS
<1>2. Heuristic(k).nodes = 1..n /\ Heuristic(k).edges = <<>>
  BY DEF Heuristic
<1> HIDE DEF n
<1>3. IsFiniteSet(1..n) /\ 1..n \subseteq Nat
  BY <1>1, FS_Interval
<1>4. \A S : <<>> \in Seq(S)
  OBVIOUS
<1>5. QED
  BY <1>2, <1>3, <1>4

LEMMA PlanInitial == PlannerAssumption /\ PlanInit => PlanFits
<1> SUFFICES ASSUME PlannerAssumption, PlanInit PROVE PlanFits
  OBVIOUS
<1>1. GraphFits
  <2>1. ASSUME NEW p \in Plans, plan = Parsed(p)
        PROVE  GraphFits
    <3>1. p \in Seq([id : STRING, needs : SUBSET STRING])
      BY DEF PlannerAssumption
    <3>2. QED
      BY <2>1, <3>1, ParsedFits DEF GraphFits
  <2>2. ASSUME NEW k \in 0..MaxParts, plan = Heuristic(k)
        PROVE  GraphFits
    <3>1. k \in Nat
      BY DEF PlannerAssumption
    <3>2. QED
      BY <2>2, <3>1, HeuristicFits DEF GraphFits
  <2>3. QED
    BY <2>1, <2>2 DEF PlanInit
<1>2. status \in Statuses
  <2>1. CASE reading = "order"
    <3>1. status = [n \in plan.nodes |-> "pending"]
      BY <2>1 DEF PlanInit
    <3>2. QED
      BY <3>1 DEF Statuses
  <2>2. CASE reading # "order"
    BY <2>2 DEF PlanInit
  <2>3. QED
    BY <2>1, <2>2
<1>3. OrderFits
  <2> DEFINE Z == {n \in plan.nodes : degree[n] = 0}
  <2>1. /\ degree = [n \in plan.nodes |-> Cardinality(Into(n))] /\ sorted = <<>>
        /\ queue \in SetToSeqs(Z)
    BY DEF PlanInit
  <2>2. IsFiniteSet(Z) /\ Z \in SUBSET plan.nodes
    BY <1>1, FS_Subset DEF GraphFits
  <2>3. queue \in Seq(Z) /\ IsInjective(queue) /\ ToSet(queue) = Z
    <3> HIDE DEF Z
    <3>1. QED
      BY <2>1, <2>2, SequenceOf
  <2>4. queue \in Seq(plan.nodes)
    <3> HIDE DEF Z
    <3>1. queue \in [1..Len(queue) -> Z] /\ Len(queue) \in Nat
      BY <2>3, LenProperties
    <3>2. queue \in [1..Len(queue) -> plan.nodes]
      BY <2>2, <3>1
    <3>3. QED
      BY <3>1, <3>2
  <2>5. <<>> \in Seq(plan.nodes) /\ IsInjective(<<>>) /\ ToSet(<<>>) = {} /\ DOMAIN <<>> = {}
    BY DEF IsInjective, ToSet
  <2>6. \A n : Into(n) = Waiting(n, <<>>)
    BY <2>5 DEF Waiting, Into
  <2>7. \A n : Cardinality(Into(n)) \in Nat
    <3>1. Len(plan.edges) \in Int /\ 1 \in Int /\ DOMAIN plan.edges = 1..Len(plan.edges)
      BY <1>1, EdgeFacts
    <3>2. IsFiniteSet(DOMAIN plan.edges)
      BY <3>1, FS_Interval
    <3>3. \A n : Into(n) \in SUBSET DOMAIN plan.edges
      BY DEF Into
    <3>4. QED
      BY <3>2, <3>3, FS_Subset, FS_CardinalityType
  <2>8. QED
    BY <2>1, <2>3, <2>4, <2>5, <2>6, <2>7 DEF OrderFits, Ordered
<1>4. GroupsFit
  <2>1. /\ groups = <<>> /\ DOMAIN <<>> = {} /\ <<>> \in Seq(SUBSET plan.nodes)
        /\ remaining = {n \in plan.nodes : status[n] = "pending"}
        /\ finished = {n \in plan.nodes : status[n] = "done"}
    BY DEF PlanInit
  <2>2. \A n : ~GroupedIn(n, <<>>)
    BY <2>1 DEF GroupedIn
  <2>3. Staged(<<>>)
    BY <2>1 DEF Staged
  <2>4. QED
    BY <2>1, <2>2, <2>3 DEF GroupsFit, Parted
<1>5. OutcomeFits
  BY DEF PlanInit, OutcomeFits
<1>6. QED
  BY <1>1, <1>2, <1>3, <1>4, <1>5 DEF PlanFits

LEMMA PlanInductive == PlanFits /\ [PlanNext]_planvars => PlanFits'
<1> SUFFICES ASSUME PlanFits, [PlanNext]_planvars PROVE PlanFits'
  OBVIOUS
<1>1. GraphFits /\ status \in Statuses /\ OrderFits /\ GroupsFit /\ OutcomeFits
  BY DEF PlanFits
<1>2. plan' = plan /\ status' = status
  BY DEF PlanNext, NextGroup, NextSorted, EndSort, planvars
<1>3. GraphFits' /\ (status \in Statuses)'
  BY <1>1, <1>2 DEF GraphFits, Statuses, OnCycle, Upstreams, Behind
<1>4. ASSUME NEW s, NEW q, NEW d, Ordered(s, q, d), s = sorted', q = queue', d = degree'
      PROVE  OrderFits'
  BY <1>2, <1>4 DEF OrderFits, Ordered, Waiting, Into, Source
<1>5. ASSUME NEW g, NEW todo, NEW over, Parted(g, todo, over),
             g = groups', todo = remaining', over = finished'
      PROVE  GroupsFit'
  BY <1>2, <1>5 DEF GroupsFit, Parted, Staged, GroupedIn, Into, Source
<1>6. CASE NextGroup
  <2>1. OrderFits'
    BY <1>1, <1>4, <1>6 DEF NextGroup, OrderFits
  <2>2. CASE Group = {}
    <3>1. GroupsFit'
      BY <1>1, <1>5, <1>6, <2>2 DEF NextGroup, GroupsFit
    <3>2. OutcomeFits'
      BY <1>2, <1>6, <2>2 DEF NextGroup, OutcomeFits, Group, Into
    <3>3. QED
      BY <1>3, <2>1, <3>1, <3>2 DEF PlanFits
  <2>3. CASE Group # {}
    <3>1. GroupsFit'
      BY <1>1, <1>5, <1>6, <2>3, NextParted DEF NextGroup
    <3>2. OutcomeFits'
      BY <1>6, <2>3 DEF NextGroup, OutcomeFits
    <3>3. QED
      BY <1>3, <2>1, <3>1, <3>2 DEF PlanFits
  <2>4. QED
    BY <2>2, <2>3
<1>7. CASE NextSorted
  <2>1. OrderFits'
    BY <1>1, <1>4, <1>7, NextOrdered DEF NextSorted
  <2>2. GroupsFit'
    BY <1>1, <1>5, <1>7 DEF NextSorted, GroupsFit
  <2>3. OutcomeFits'
    BY <1>7 DEF NextSorted, OutcomeFits
  <2>4. QED
    BY <1>3, <2>1, <2>2, <2>3 DEF PlanFits
<1>8. CASE EndSort
  <2>1. OrderFits'
    BY <1>1, <1>4, <1>8 DEF EndSort, OrderFits
  <2>2. GroupsFit'
    BY <1>1, <1>5, <1>8 DEF EndSort, GroupsFit
  <2>3. OutcomeFits'
    BY <1>2, <1>8 DEF EndSort, OutcomeFits
  <2>4. QED
    BY <1>3, <2>1, <2>2, <2>3 DEF PlanFits
<1>9. CASE UNCHANGED planvars
  <2>1. OrderFits' /\ GroupsFit'
    BY <1>1, <1>4, <1>5, <1>9 DEF planvars, OrderFits, GroupsFit
  <2>2. OutcomeFits'
    BY <1>1, <1>9 DEF planvars, OutcomeFits, Group, Into
  <2>3. QED
    BY <1>3, <2>1, <2>2 DEF PlanFits
<1>10. QED
  BY <1>6, <1>7, <1>8, <1>9 DEF PlanNext

-----------------------------------------------------------------------------
(* What the agents of a program share, in one program.                     *)

ToolsFit ==
  /\ ToolFits /\ McpFits /\ HopsFit
  /\ SchemaFits
  /\ AuditFits /\ RecentFit /\ QueryFit
  /\ RelFits
  /\ BoxFits /\ InputFits /\ MemFits /\ PlanFits

LEMMA ToolsInitial == MCInit => ToolsFit
<1> SUFFICES ASSUME MCInit PROVE ToolsFit
  OBVIOUS
<1>1. /\ ToolInit /\ EInit /\ McpInit /\ RelInit /\ AuditInit /\ SchemaInit
      /\ BoxInit /\ InputInit /\ MemInit /\ PlanInit
  BY DEF MCInit
<1>2. AuditFits /\ RecentFit /\ QueryFit
  BY <1>1, AuditInitial, QueryInitial, AuditAssumption DEF AuditFits
<1>3. HopsFit
  BY <1>1, EInitial, EgressAssumption
<1>4. ToolFits /\ McpFits /\ SchemaFits /\ RelFits
  BY <1>1, ToolInitial, McpInitial, SchemaInitial, SchemaAssumption, RelInitial,
     ReliabilityAssumption
<1>5. BoxFits /\ InputFits /\ MemFits /\ PlanFits
  BY <1>1, BoxInitial, InputInitial, InputAssumption, MemInitial, MemoryAssumption,
     PlanInitial, PlannerAssumption
<1>6. QED
  BY <1>2, <1>3, <1>4, <1>5 DEF ToolsFit

LEMMA ToolsInductive == ToolsFit /\ [MCNext]_mvars => ToolsFit'
<1> SUFFICES ASSUME ToolsFit, [MCNext]_mvars PROVE ToolsFit'
  OBVIOUS
<1>1. /\ [ToolNext]_toolvars /\ [ENext]_evars /\ [McpNext]_mcpvars
      /\ [RelNext]_relvars /\ [AuditNext]_avars /\ [SchemaNext]_schemavars
  BY DEF MCNext, mvars, Other
<1>2. /\ [BoxNext]_boxvars /\ [MemNext]_memvars /\ [PlanNext]_planvars
      /\ [InputNext]_inputvars
  BY DEF MCNext, mvars, Other, inputvars
<1>3. AuditFits' /\ RecentFit' /\ QueryFit'
  BY <1>1, AuditInductive, QueryInductive, AuditAssumption DEF ToolsFit
<1>4. HopsFit' /\ RelFits'
  BY <1>1, EInductive, EgressAssumption, RelInductive, ReliabilityAssumption DEF ToolsFit
<1>5. ToolFits' /\ McpFits' /\ SchemaFits'
  BY <1>1, ToolInductive, McpInductive, SchemaInductive, SchemaAssumption DEF ToolsFit
<1>6. BoxFits' /\ InputFits'
  BY <1>2, BoxInductive, InputInductive, InputAssumption DEF ToolsFit
<1>7. MemFits' /\ PlanFits'
  BY <1>2, MemInductive, MemoryAssumption, PlanInductive DEF ToolsFit
<1>8. QED
  BY <1>3, <1>4, <1>5, <1>6, <1>7 DEF ToolsFit

(* The inductive invariant of what the agents of a program share: calls of *)
(* tools, the MCP client, HTTP calls, the upgrade of the database, the     *)
(* audit log, the scores, the registry, the memory, the reading of a plan  *)
(* and the input line, for any number of callers, programs, loggers,       *)
(* origins, addresses and calls, for plans of any size and texts of any    *)
(* length, and for sinks whose writes and rollbacks fail any number of     *)
(* times.                                                                  *)
THEOREM ToolsInvariance == MCSpec => []ToolsFit
<1>1. MCInit /\ [][MCNext]_mvars => []ToolsFit
  BY ToolsInitial, ToolsInductive, PTL
<1>2. QED
  BY <1>1, PTL DEF MCSpec

(* Of a command that was given up nothing in its process group survives,   *)
(* what a call changes is what its tool declares, and every hop of an HTTP *)
(* call goes to an address that the rules allow, with the secret only to   *)
(* the origin it is for (http_client.rs, exec.rs).                         *)
THEOREM Contained == MCSpec => []CallsAreContained
<1>1. ToolsFit => CallsAreContained
  BY ToolSound DEF ToolsFit, HopsFit, CallsAreContained
<1>2. QED
  BY <1>1, ToolsInvariance, PTL

(* A caller of an MCP tool gets the answer of its own request or an error, *)
(* whoever gives up, and whenever (stdio.rs, client.rs).                   *)
THEOREM OwnAnswers == MCSpec => []AnswersOwn
<1>1. ToolsFit => AnswersOwn
  BY McpSound DEF ToolsFit
<1>2. QED
  BY <1>1, ToolsInvariance, PTL

(* An entry past its push is in the buffer, in the batch or on the disk,   *)
(* where each rollback that fails costs at most one more copy, a torn and  *)
(* a spoiled line, and one entry; a query that is not full misses nothing  *)
(* that was there when it began (logger.rs); a program that alone records  *)
(* would score its tools the same after a restart (reliability.rs); and    *)
(* programs that open an old database together, and are killed anywhere,   *)
(* lose none of its rows.                                                  *)
THEOREM Recorded == MCSpec => []RecordsAreKept
<1>1. ToolsFit => RecordsAreKept
  BY AuditSound, RelSound, AuditAssumption, ReliabilityAssumption
     DEF ToolsFit, QueryFit, SchemaFits, RecordsAreKept
<1>2. QED
  BY <1>1, ToolsInvariance, PTL

(* A plan of any size: the order of its tasks is one, and there is none    *)
(* only if there is a cycle; the groups have just the tasks that can still *)
(* run, each in the first group it can be in (topological_sort and         *)
(* independent_groups in task_graph.rs).                                   *)
THEOREM Read == MCSpec => []ReadingsAreRight
<1>1. ToolsFit => ReadingsAreRight
  BY PlanSound DEF ToolsFit
<1>2. QED
  BY <1>1, ToolsInvariance, PTL

(* The brief of an orchestrated agent fits its budget whatever lengths the *)
(* entries have, and no attempt is briefed with what an earlier one of the *)
(* same agent left (context.rs, the retry loop of run_orchestrated).       *)
THEOREM Briefed == MCSpec => []BriefsAreSound
<1>1. ToolsFit => BriefsAreSound
  BY MemSound DEF ToolsFit
<1>2. QED
  BY <1>1, ToolsInvariance, PTL

(* A doctor who grades every tool a pass leaves the validator nothing but  *)
(* the call without arguments, no name the user disabled is registered,    *)
(* and an agent that may be repeated has no built-in tool that changes     *)
(* anything, for any configuration and any tools of a server               *)
(* (validator.rs, config.rs, orchestration.rs).                            *)
THEOREM Registered == MCSpec => []ToolboxSound
<1>1. ToolsFit => ToolboxSound
  BY BoxSound DEF ToolsFit, ToolboxSound
<1>2. QED
  BY <1>1, ToolsInvariance, PTL

(* Through any keys the cursor stands between two characters, and the text *)
(* is over its limit by less than a character (App::dispatch in app.rs).   *)
THEOREM Typed == MCSpec => []CursorOnBoundary
<1>1. ToolsFit => CursorOnBoundary
  BY DEF ToolsFit, InputFits
<1>2. QED
  BY <1>1, ToolsInvariance, PTL
=============================================================================
