---------------------------- MODULE CliRunProofs ----------------------------
(***************************************************************************)
(* The CLI's loop keeps to the composer's protocol and its books to the    *)
(* composer's, for every set of agents and files, every dependency graph,  *)
(* whatever tools are missing, whatever the clients do, and wherever the   *)
(* store fails.                                                            *)
(*                                                                         *)
(* What is proved of the composer is cited through P, and what is proved   *)
(* of the control commands, which both loops share, through T.             *)
(***************************************************************************)
EXTENDS CliRun, TLAPS

P == INSTANCE ComposerProofs
T == INSTANCE TuiRunProofs
       WITH MaxCommands <- 0, dirty <- FALSE, inbox <- <<>>, typed <- 0

Looping == {"claim", "apply", "start", "idle", "stuck", "select"}

(* Only cancel_all is a loop, and nothing comes between its steps.         *)
CallsFit == pc # "cancel" => batch.todo = {}

(* The books at every place of the loop.                                   *)
BooksFit ==
  pc \in Looping =>
    /\ \A a \in Agent : phase[a] \in {"Queued", "Running", "Done", "Failed"}
    /\ tasks = P!Running
    /\ terminal = {a \in Agent : phase[a] \in {"Done", "Failed"}}
    /\ P!Running \subseteq spawned
    /\ spawned \subseteq P!Running \cup terminal
    /\ pc = "start" => todo \cap (spawned \cup terminal) = {}
    /\ pc = "stuck" => tasks = {} /\ todo = Agent \ terminal

(* Every way out of the loop passes by a place where all has ended.        *)
EndFits ==
  /\ pc = "cancel" =>
       tasks = {} /\ \A a \in Agent \ batch.todo : phase[a] = "Cancelled"
  /\ pc \in {"report", "finished", "failed"} =>
       tasks = {} /\ \A a \in Agent : phase[a] \in {"Done", "Failed", "Cancelled"}

(* An agent whose tools are missing never asks for a lock.                 *)
UnscopedFits ==
  pc \in Looping =>
    \A a \in unscoped, f \in File : ~P!HoldsAny(locks[f], a) /\ ~P!Queued(locks[f], a)

(* A pass that starts nobody leaves every agent it has handled barred.     *)
PassFits ==
  tasks = {} /\ ~paused =>
    /\ pc = "start" => \A a \in Agent \ (terminal \cup todo) : P!Barred(a)
    /\ pc = "idle" => \A a \in Agent \ terminal : P!Barred(a)

(* The flags are what the applied commands have made of them, as long as   *)
(* every command that was obeyed is marked as applied.                     *)
FlagsFit ==
  /\ pc = "start" => ~cancelled /\ (paused => todo = {})
  /\ \A i \in DOMAIN controls :
       pc \notin {"recover", "failed"} /\ controls[i].status = "applied" =>
         /\ controls[i].kind = "Cancel" => cancelled
         /\ controls[i].kind = "Pause" =>
              \/ paused
              \/ \E j \in DOMAIN controls :
                   controls[j].status = "applied" /\ controls[j].kind = "Resume"

Inv ==
  /\ RunTypeOK
  /\ P!IInv /\ P!ModesFit /\ P!AskedFits
  /\ CallsFit
  /\ BooksFit
  /\ EndFits
  /\ UnscopedFits
  /\ PassFits
  /\ T!ClientsFit
  /\ FlagsFit

-----------------------------------------------------------------------------
(* The assumptions of the composer's module.                               *)
LEMMA Assumptions ==
  /\ P!IsFiniteSet(Agent)
  /\ Writes \in [Agent -> Seq(File)]
  /\ Reads \in [Agent -> Seq(File)]
  /\ Edges \subseteq Agent \X Agent
  /\ MaxParallel \in Nat \ {0}
BY RunAssumption DEF IsFiniteSet, P!IsFiniteSet

(* The composer the loop calls is the one the facts are about.             *)
LEMMA SameComposer ==
  /\ C!Init <=> P!Init
  /\ C!Next <=> P!Next
  /\ C!vars = P!vars
  /\ C!Idle <=> P!Idle
  /\ C!Doomed = P!Doomed
  /\ C!Terminal = P!Terminal
  /\ C!NoLocks = P!NoLocks
  /\ C!CancelAll <=> P!CancelAll
  /\ C!FailBlockedDependents <=> P!FailBlockedDependents
  /\ \A s : C!SetGraphStatus(s) <=> P!SetGraphStatus(s)
  /\ \A a : /\ C!MayStart(a) <=> P!MayStart(a)
            /\ C!CanStart(a) <=> P!CanStart(a)
            /\ C!Start(a) <=> P!Start(a)
            /\ C!CancelOne(a) <=> P!CancelOne(a)
            /\ C!FailOne(a) <=> P!FailOne(a)
  /\ \A a, s : C!Finish(a, s) <=> P!Finish(a, s)
<1>1. C!Terminal = P!Terminal /\ C!NoLocks = P!NoLocks /\ C!vars = P!vars
  BY DEF
     C!Terminal, P!Terminal, C!NoLocks, P!NoLocks, C!vars, P!vars
<1>2. /\ C!Init <=> P!Init
      /\ C!Idle <=> P!Idle
      /\ C!Doomed = P!Doomed
      /\ C!CancelAll <=> P!CancelAll
      /\ C!FailBlockedDependents <=> P!FailBlockedDependents
      /\ \A s : C!SetGraphStatus(s) <=> P!SetGraphStatus(s)
  BY DEF
     C!NoLocks, P!NoLocks, C!Init, P!Init, C!NoBatch, P!NoBatch, C!Idle,
     P!Idle, C!Upstream, P!Upstream, C!Doomed, P!Doomed, C!Begin, P!Begin,
     C!CancelAll, P!CancelAll, C!FailBlockedDependents,
     P!FailBlockedDependents, C!SetGraphStatus, P!SetGraphStatus
<1>3. ASSUME NEW a
      PROVE  C!MayStart(a) <=> P!MayStart(a)
  BY DEF
     C!Cardinality, P!Cardinality, C!Upstream, P!Upstream, C!Running,
     P!Running, C!MayStart, P!MayStart
<1>4. ASSUME NEW a
      PROVE  C!CanStart(a) <=> P!CanStart(a)
  BY Zenon DEF
     C!Lock, P!Lock, C!HoldsAny, P!HoldsAny, C!HoldsWrite, P!HoldsWrite,
     C!WriteLocked, P!WriteLocked, C!ReadGranted, P!ReadGranted,
     C!WriteGranted, P!WriteGranted, C!WriteSet, P!WriteSet, C!ReadSet,
     P!ReadSet, C!Cardinality, P!Cardinality, C!Upstream, P!Upstream,
     C!Running, P!Running, C!MayStart, P!MayStart, C!LocksGranted,
     P!LocksGranted, C!CanStart, P!CanStart
<1>5. ASSUME NEW a
      PROVE  C!Start(a) <=> P!Start(a)
  BY Zenon DEF
     C!Lock, P!Lock, C!HoldsAny, P!HoldsAny, C!HoldsWrite, P!HoldsWrite,
     C!WriteLocked, P!WriteLocked, C!Queued, P!Queued, C!ReadGranted,
     P!ReadGranted, C!AcquireRead, P!AcquireRead, C!WriteGranted,
     P!WriteGranted, C!AcquireWrite, P!AcquireWrite, C!Handoff, P!Handoff,
     C!Release, P!Release, C!Cardinality, P!Cardinality, C!WriteSet,
     P!WriteSet, C!ReadSet, P!ReadSet, C!Upstream, P!Upstream, C!Running,
     P!Running, C!Idle, P!Idle, C!Terminal, P!Terminal, C!GraphAfter,
     P!GraphAfter, C!SetNode, P!SetNode, C!MayStart, P!MayStart,
     C!LocksGranted, P!LocksGranted, C!CanStart, P!CanStart, C!Acquired,
     P!Acquired, C!StartGranted, P!StartGranted, C!RefusedAt, P!RefusedAt,
     C!RolledBack, P!RolledBack, C!StartRefused, P!StartRefused, C!Start,
     P!Start, C!NoBatch, P!NoBatch
<1>6. ASSUME NEW a
      PROVE  (C!CancelOne(a) <=> P!CancelOne(a)) /\ (C!FailOne(a) <=> P!FailOne(a))
  BY Zenon DEF
     C!Lock, P!Lock, C!HoldsAny, P!HoldsAny, C!Handoff, P!Handoff, C!Release,
     P!Release, C!Unqueue, P!Unqueue, C!Queued, P!Queued, C!ReleaseAll,
     P!ReleaseAll, C!Terminal, P!Terminal, C!GraphAfter, P!GraphAfter,
     C!SetNode, P!SetNode, C!NoBatch, P!NoBatch, C!TakeNext, P!TakeNext,
     C!CancelOne, P!CancelOne, C!FailOne, P!FailOne, C!Finish, P!Finish
<1>7. ASSUME NEW a, NEW s
      PROVE  C!Finish(a, s) <=> P!Finish(a, s)
  BY Zenon DEF
     C!Lock, P!Lock, C!HoldsAny, P!HoldsAny, C!Handoff, P!Handoff, C!Release,
     P!Release, C!Unqueue, P!Unqueue, C!Queued, P!Queued, C!ReleaseAll,
     P!ReleaseAll, C!Terminal, P!Terminal, C!GraphAfter, P!GraphAfter,
     C!SetNode, P!SetNode, C!Finish, P!Finish
<1>8. C!Next <=> P!Next
  BY Zenon DEF
     C!Lock, P!Lock, C!HoldsAny, P!HoldsAny, C!HoldsWrite, P!HoldsWrite,
     C!WriteLocked, P!WriteLocked, C!Queued, P!Queued, C!ReadGranted,
     P!ReadGranted, C!AcquireRead, P!AcquireRead, C!WriteGranted,
     P!WriteGranted, C!AcquireWrite, P!AcquireWrite, C!Handoff, P!Handoff,
     C!Release, P!Release, C!Unqueue, P!Unqueue, C!ReleaseAll, P!ReleaseAll,
     C!Cardinality, P!Cardinality, C!WriteSet, P!WriteSet, C!ReadSet,
     P!ReadSet, C!Upstream, P!Upstream, C!Running, P!Running, C!Idle, P!Idle,
     C!Terminal, P!Terminal, C!GraphAfter, P!GraphAfter, C!SetNode, P!SetNode,
     C!MayStart, P!MayStart, C!LocksGranted, P!LocksGranted, C!CanStart,
     P!CanStart, C!Acquired, P!Acquired, C!StartGranted, P!StartGranted,
     C!RefusedAt, P!RefusedAt, C!RolledBack, P!RolledBack, C!StartRefused,
     P!StartRefused, C!Start, P!Start, C!NoBatch, P!NoBatch, C!Finish,
     P!Finish, C!Complete, P!Complete, C!Fail, P!Fail, C!SetGraphStatus,
     P!SetGraphStatus, C!Begin, P!Begin, C!TakeNext, P!TakeNext, C!PauseAll,
     P!PauseAll, C!PauseOne, P!PauseOne, C!ResumeAll, P!ResumeAll, C!ResumeOne,
     P!ResumeOne, C!CancelAll, P!CancelAll, C!CancelOne, P!CancelOne, C!Doomed,
     P!Doomed, C!FailBlockedDependents, P!FailBlockedDependents, C!FailOne,
     P!FailOne, C!BatchStep, P!BatchStep, C!Next, P!Next
<1>9. QED
  BY <1>1, <1>2, <1>3, <1>4, <1>5, <1>6, <1>7, <1>8

(* And the commands and the clients are those the TUI's loop meets.        *)
LEMMA SameControls ==
  /\ T!IsFiniteSet(Agent) /\ 0 \in Nat /\ Surfaces \subseteq T!Surface
  /\ T!ControlsTypeOK <=> ControlsTypeOK
  /\ T!ClientStep <=> ClientStep
  /\ T!ClaimPending <=> ClaimPending
  /\ T!Claimed = Claimed
  /\ T!StoredStatus = StoredStatus
  /\ T!NoRequest = NoRequest
  /\ \A i : T!MarkApplied(i) <=> MarkApplied(i)
  /\ \A i : T!Obeyed(i) <=> controls[i].status \in {"claimed", "applied"}
BY RunAssumption, SurfacesAssumption
DEF IsFiniteSet, T!IsFiniteSet, Surface, T!Surface, Kind, T!Kind, StoredStatus, T!StoredStatus,
    Final, T!Final, ControlStatus, T!ControlStatus, Control, T!Control, StatusFor, T!StatusFor,
    Calls, T!Calls, NoRequest, T!NoRequest, Request, T!Request, ControlsTypeOK,
    T!ControlsTypeOK, MayAsk, T!MayAsk, Ask, T!Ask, NextCall, T!NextCall, UpdateStatus,
    T!UpdateStatus, CreateControl, T!CreateControl, InsertControl, T!InsertControl, GiveUp,
    T!GiveUp, IgnoreFailedUpdate, T!IgnoreFailedUpdate, ClientStep, T!ClientStep, ClaimPending,
    T!ClaimPending, Claimed, T!Claimed, MarkApplied, T!MarkApplied, T!Obeyed

LEMMA ClientKeeps ==
  ASSUME ControlsTypeOK, T!ClientsFit, ClientStep
  PROVE  ControlsTypeOK' /\ T!ClientsFit' /\ T!ClaimedKept
<1>1. T!ControlsTypeOK' <=> ControlsTypeOK'
  BY DEF ControlsTypeOK, T!ControlsTypeOK, StoredStatus, T!StoredStatus, Control, T!Control,
     Kind, T!Kind, ControlStatus, T!ControlStatus, Request, T!Request, Surface, T!Surface,
     NoRequest, T!NoRequest
<1>2. QED
  BY <1>1, T!ClientKeeps, Assumptions, SameControls

LEMMA OwnerKeeps ==
  ASSUME ControlsTypeOK, T!ClientsFit, stored' \in StoredStatus, client' = client,
         \/ controls' = controls
         \/ ClaimPending
         \/ \E i \in Claimed : MarkApplied(i)
  PROVE  ControlsTypeOK' /\ T!ClientsFit'
<1>1. T!ControlsTypeOK' <=> ControlsTypeOK'
  BY DEF ControlsTypeOK, T!ControlsTypeOK, StoredStatus, T!StoredStatus, Control, T!Control,
     Kind, T!Kind, ControlStatus, T!ControlStatus, Request, T!Request, Surface, T!Surface,
     NoRequest, T!NoRequest
<1>2. QED
  BY <1>1, T!OwnerKeeps, Assumptions, SameControls

(* The effect of each call on the phases and on the loop of the composer.  *)
LEMMA FinishEffect ==
  ASSUME P!TypeOK, NEW a \in Agent, NEW s, P!Finish(a, s)
  PROVE  phase'[a] = s /\ \A b \in Agent \ {a} : phase'[b] = phase[b]
BY DEF P!TypeOK, P!Finish

LEMMA TakeNextEffect ==
  ASSUME P!TypeOK, NEW a, NEW op, P!TakeNext(op, a)
  PROVE  a \in Agent /\ a \in batch.todo /\ batch'.todo = batch.todo \ {a}
BY DEF P!TypeOK, P!Batch, P!TakeNext, P!NoBatch

LEMMA StartEffect ==
  ASSUME P!TypeOK, NEW a \in Agent, P!Start(a), NEW b \in Agent
  PROVE  /\ batch' = batch
         /\ b # a \/ ~P!CanStart(a) => phase'[b] = phase[b]
         /\ P!CanStart(a) => phase'[a] = "Running"
         /\ ~P!CanStart(a) => P!StartRefused(a) /\ P!MayStart(a)
<1>1. CASE P!StartGranted(a)
  BY <1>1, RunAssumption DEF P!TypeOK, P!Start, P!StartGranted
<1>2. CASE P!StartRefused(a)
  <2>1. ~P!LocksGranted(a)
    BY <1>2 DEF P!StartRefused, P!RefusedAt, P!LocksGranted, P!WriteSet, P!ReadSet
  <2>2. QED
    BY <1>2, <2>1 DEF P!TypeOK, P!Start, P!StartRefused, P!CanStart
<1>3. QED
  BY <1>1, <1>2 DEF P!Start

-----------------------------------------------------------------------------
(* The composer sees one of its operations, or nothing.                    *)
LEMMA ProtocolStep ==
  ASSUME Inv, [Next]_vars
  PROVE  [P!Next]_(P!vars)
<1>1. P!TypeOK /\ ControlsTypeOK
  BY DEF Inv, P!IInv, RunTypeOK
<1>2. ASSUME UNCHANGED composer
      PROVE  UNCHANGED P!vars
  BY <1>2 DEF composer, P!vars
<1>3. CASE ApplyControl
  <2>1. PICK i \in DOMAIN controls : C!SetGraphStatus(StatusFor[controls[i].kind])
    BY <1>3 DEF ApplyControl
  <2>2. controls[i] \in Control
    BY <1>1 DEF ControlsTypeOK
  <2>3. StatusFor[controls[i].kind] \in {"Running", "Paused", "Cancelled"}
    BY <2>2 DEF Control, Kind, StatusFor
  <2>4. QED
    BY <2>1, <2>3, SameComposer DEF P!Next
<1>4. CASE ControlsApplied
  BY <1>2, <1>4, SameComposer DEF ControlsApplied, P!Next
<1>5. CASE CancelRun
  BY <1>2, <1>5, SameComposer DEF CancelRun, P!Next, P!BatchStep
<1>6. ASSUME NEW a \in Agent, StartReady(a) \/ StartRefused(a)
      PROVE  [P!Next]_(P!vars)
  BY <1>2, <1>6, SameComposer DEF StartReady, StartRefused, P!Next
<1>7. ASSUME NEW a \in Agent, FinishAgent(a, "Failed"), P!Idle, phase[a] \notin P!Terminal
      PROVE  P!Next
  <2>1. P!Fail(a)
    BY <1>7, SameComposer DEF FinishAgent, P!Fail
  <2>2. QED
    BY <2>1 DEF P!Next
<1>8. ASSUME NEW a \in Agent, FailScope(a)
      PROVE  P!Next
  <2>1. P!Idle /\ phase[a] \notin P!Terminal
    BY <1>8 DEF Inv, FailScope, TakeTodo, CallsFit, BooksFit, Looping, P!Idle, P!Terminal
  <2>2. QED
    BY <1>7, <1>8, <2>1 DEF FailScope, EndAgent
<1>9. CASE FailStuck
  <2>1. P!Idle /\ \A a \in todo : phase[a] \notin P!Terminal
    BY <1>9 DEF Inv, FailStuck, CallsFit, BooksFit, Looping, P!Idle, P!Terminal
  <2>2. QED
    BY <1>2, <1>7, <1>9, <2>1 DEF FailStuck, TakeTodo, EndAgent
<1>10. ASSUME NEW a \in Agent, Join(a)
       PROVE  P!Next
  <2>1. P!Idle /\ phase[a] = "Running"
    BY <1>10 DEF Inv, Join, CallsFit, BooksFit, Looping, P!Idle, P!Running
  <2>2. PICK status \in {"Done", "Failed"} : FinishAgent(a, status)
    BY <1>10 DEF Join, EndAgent
  <2>3. P!Complete(a, status = "Done")
    BY <2>1, <2>2, SameComposer DEF FinishAgent, P!Complete
  <2>4. QED
    BY <2>3 DEF P!Next
<1>11. CASE Recover
  <2>1. P!Idle /\ \A a \in Unfinished : a \in Agent /\ phase[a] \notin P!Terminal
    <3>1. P!Idle
      BY <1>11 DEF Inv, Recover, CallsFit, P!Idle
    <3>2. ASSUME NEW a \in Unfinished
          PROVE  a \in Agent /\ phase[a] \notin P!Terminal
      BY SameComposer DEF Unfinished, Inv, P!IInv, P!PhasesAgree, P!Terminal
    <3>3. QED
      BY <3>1, <3>2
  <2>2. QED
    BY <1>2, <1>7, <1>11, <2>1 DEF Recover
<1>12. CASE \/ Claim \/ PassEnds \/ Idles \/ SelectTimeout \/ AllTerminal \/ Report
            \/ ClientActs
  BY <1>2, <1>12 DEF Claim, PassEnds, Idles, SelectTimeout, AllTerminal, Report, ClientActs
<1>13. CASE UNCHANGED vars
  BY <1>2, <1>13 DEF vars
<1>14. QED
  BY <1>3, <1>4, <1>5, <1>6, <1>8, <1>9, <1>10, <1>11, <1>12, <1>13 DEF Next, Loop, JoinAny

-----------------------------------------------------------------------------
(* The books, action by action.                                            *)
Places == CallsFit /\ BooksFit /\ EndFits

LEMMA PlacesKept ==
  ASSUME Inv, [Next]_vars
  PROVE  Places'
<1>1. P!TypeOK /\ RunTypeOK /\ P!PhasesAgree /\ CallsFit /\ BooksFit /\ EndFits
  BY DEF Inv, P!IInv
<1>2. ASSUME UNCHANGED <<phase, batch, tasks, todo, terminal, spawned>>, pc' = pc
      PROVE  Places'
  BY <1>1, <1>2 DEF Places, CallsFit, BooksFit, EndFits, P!Running
<1>3. ASSUME UNCHANGED <<phase, batch, tasks, terminal, spawned>>,
             pc \in Looping, pc' \in Looping \cup {"recover"}, pc' \notin {"start", "stuck"}
      PROVE  Places'
  BY <1>1, <1>3 DEF Places, CallsFit, BooksFit, EndFits, P!Running, Looping
<1>4. ASSUME pc' = "recover", UNCHANGED batch, pc \in Looping
      PROVE  Places'
  BY <1>1, <1>4 DEF Places, CallsFit, BooksFit, EndFits, Looping
<1>5. ASSUME NEW label, SaveAndGoto(label)
      PROVE  pc' \in {label, "recover"}
  BY <1>5 DEF SaveAndGoto, Goto
<1>6. ASSUME NEW a \in Agent, NEW s \in {"Done", "Failed"}, EndAgent(a, s),
             phase[a] \in {"Queued", "Running"}
      PROVE  /\ batch' = batch /\ terminal' = terminal \cup {a}
             /\ phase'[a] = s /\ \A b \in Agent \ {a} : phase'[b] = phase[b]
             /\ P!Running' = P!Running \ {a}
             /\ {b \in Agent : phase'[b] \in {"Done", "Failed"}} =
                  {b \in Agent : phase[b] \in {"Done", "Failed"}} \cup {a}
  <2>1. batch' = batch /\ terminal' = terminal \cup {a}
    BY <1>6 DEF EndAgent, FinishAgent
  <2>2. phase'[a] = s /\ \A b \in Agent \ {a} : phase'[b] = phase[b]
    BY <1>1, <1>6, SameComposer, FinishEffect DEF EndAgent, FinishAgent
  <2>3. QED
    BY <2>1, <2>2 DEF P!Running
<1>7. CASE Claim \/ PassEnds \/ SelectTimeout
  BY <1>3, <1>7 DEF Claim, PassEnds, SelectTimeout, Looping, books, composer, Goto
<1>8. CASE ApplyControl
  <2>1. UNCHANGED <<phase, batch, tasks, terminal, spawned>> /\ pc = "apply"
    BY <1>8, SameComposer DEF ApplyControl, P!SetGraphStatus
  <2>2. pc' \in {"apply", "recover"}
    BY <1>5, <1>8 DEF ApplyControl
  <2>3. QED
    BY <1>3, <2>1, <2>2 DEF Looping
<1>9. CASE ControlsApplied
  <2>1. CASE tasks' = {} /\ C!CancelAll /\ pc' = "cancel"
    <3>1. batch' = [op |-> "cancel", todo |-> Agent]
      BY <2>1, SameComposer DEF P!CancelAll, P!Begin
    <3>2. QED
      BY <2>1, <3>1 DEF Places, CallsFit, BooksFit, EndFits, Looping
  <2>2. CASE todo' = Pass /\ pc' = "start" /\ UNCHANGED <<composer, tasks>>
    BY <1>1, <1>9, <2>2 DEF ControlsApplied, Pass, Unstarted, Places, CallsFit, BooksFit,
       EndFits, Looping, P!Running, composer, books
  <2>3. QED
    BY <1>9, <2>1, <2>2 DEF ControlsApplied, Goto
<1>10. CASE CancelRun
  <2>1. ASSUME NEW a \in Agent, C!CancelOne(a), pc' = "cancel", pc = "cancel", tasks' = tasks
        PROVE  Places'
    <3>1. a \in batch.todo /\ batch'.todo = batch.todo \ {a}
      BY <1>1, <2>1, SameComposer, TakeNextEffect DEF P!CancelOne
    <3>2. phase'[a] = "Cancelled" /\ \A b \in Agent \ {a} : phase'[b] = phase[b]
      BY <1>1, <2>1, SameComposer, FinishEffect DEF P!CancelOne
    <3>3. QED
      BY <1>1, <2>1, <3>1, <3>2 DEF Places, CallsFit, BooksFit, EndFits, Looping
  <2>2. CASE C!Idle /\ pc = "cancel" /\ pc' = "report" /\ UNCHANGED <<composer, tasks>>
    BY <1>1, <2>2, SameComposer DEF Places, CallsFit, BooksFit, EndFits, Looping, P!Idle,
       composer
  <2>3. QED
    BY <1>10, <2>1, <2>2 DEF CancelRun, Goto
<1>11. ASSUME NEW a \in Agent, FailScope(a)
       PROVE  Places'
  <2>1. /\ pc = "start" /\ a \in todo /\ todo' = todo \ {a} /\ EndAgent(a, "Failed")
        /\ UNCHANGED <<spawned, tasks>> /\ pc' \in {"start", "recover"}
    BY <1>5, <1>11 DEF FailScope, TakeTodo
  <2>2. phase[a] = "Queued"
    BY <1>1, <2>1 DEF BooksFit, P!Running, Looping
  <2>3. QED
    BY <1>1, <1>4, <1>6, <2>1, <2>2 DEF Places, CallsFit, BooksFit, EndFits, P!Running, Looping
<1>12. ASSUME NEW a \in Agent, StartReady(a)
       PROVE  Places'
  <2>1. /\ pc = "start" /\ a \in todo /\ todo' = todo \ {a} /\ P!Start(a) /\ P!CanStart(a)
        /\ spawned' = spawned \cup {a} /\ terminal' = terminal
        /\ tasks' = (IF pc' = "start" THEN tasks \cup {a} ELSE tasks)
        /\ pc' \in {"start", "recover"}
    BY <1>5, <1>12, SameComposer DEF StartReady, TakeTodo
  <2>2. /\ batch' = batch /\ phase'[a] = "Running"
        /\ \A b \in Agent \ {a} : phase'[b] = phase[b]
    BY <1>1, <2>1, StartEffect
  <2>3. phase[a] = "Queued"
    BY <1>1, <2>1 DEF BooksFit, P!Running, Looping
  <2>4. P!Running' = P!Running \cup {a}
    BY <2>2 DEF P!Running
  <2>5. {b \in Agent : phase'[b] \in {"Done", "Failed"}} =
          {b \in Agent : phase[b] \in {"Done", "Failed"}}
    BY <2>2, <2>3
  <2>6. QED
    BY <1>1, <1>4, <2>1, <2>2, <2>4, <2>5 DEF Places, CallsFit, BooksFit, EndFits, Looping
<1>13. ASSUME NEW a \in Agent, StartRefused(a)
       PROVE  Places'
  <2>1. /\ pc = "start" /\ a \in todo /\ todo' = todo \ {a}
        /\ UNCHANGED <<spawned, terminal, tasks>> /\ pc' \in {"start", "recover"}
    BY <1>5, <1>13 DEF StartRefused, TakeTodo, books
  <2>2. batch' = batch /\ \A b \in Agent : phase'[b] = phase[b]
    BY <1>1, <1>13, SameComposer, StartEffect DEF StartRefused, composer
  <2>3. P!Running' = P!Running
    BY <2>2 DEF P!Running
  <2>4. QED
    BY <1>1, <1>4, <2>1, <2>2, <2>3 DEF Places, CallsFit, BooksFit, EndFits, Looping
<1>14. CASE Idles
  BY <1>1, <1>14 DEF Idles, Unstarted, Places, CallsFit, BooksFit, EndFits, Looping, P!Running,
     composer, books, Goto
<1>15. CASE FailStuck
  <2>1. pc = "stuck" /\ UNCHANGED <<spawned, tasks>>
    BY <1>15 DEF FailStuck
  <2>2. ASSUME NEW a \in Agent, TakeTodo(a), EndAgent(a, "Failed"), pc' \in {"stuck", "recover"}
        PROVE  Places'
    <3>1. a \in todo /\ todo' = todo \ {a}
      BY <2>2 DEF TakeTodo
    <3>2. phase[a] \in {"Queued", "Running"}
      BY <1>1, <2>1, <3>1 DEF BooksFit, Looping
    <3>3. QED
      BY <1>1, <1>4, <1>6, <2>1, <2>2, <3>1, <3>2
      DEF Places, CallsFit, BooksFit, EndFits, Looping
  <2>3. CASE todo = {} /\ pc' = "report" /\ UNCHANGED <<composer, todo, terminal>>
    BY <1>1, <2>1, <2>3 DEF Places, CallsFit, BooksFit, EndFits, Looping, composer
  <2>4. QED
    BY <1>5, <1>15, <2>2, <2>3 DEF FailStuck, Goto
<1>16. ASSUME NEW a \in Agent, Join(a)
       PROVE  Places'
  <2>1. /\ pc = "select" /\ a \in tasks /\ tasks' = tasks \ {a}
        /\ UNCHANGED <<todo, spawned>> /\ pc' \in {"claim", "recover"}
    BY <1>5, <1>16 DEF Join
  <2>2. PICK s \in {"Done", "Failed"} : EndAgent(a, s)
    BY <1>16 DEF Join
  <2>3. phase[a] \in {"Queued", "Running"}
    BY <1>1, <2>1 DEF BooksFit, P!Running, Looping
  <2>4. QED
    BY <1>1, <1>4, <1>6, <2>1, <2>2, <2>3 DEF Places, CallsFit, BooksFit, EndFits, Looping
<1>17. CASE AllTerminal
  BY <1>1, <1>17 DEF AllTerminal, Places, CallsFit, BooksFit, EndFits, Looping, P!Running,
     composer, Goto
<1>18. CASE Report
  BY <1>1, <1>18 DEF Report, Places, CallsFit, BooksFit, EndFits, Looping, composer, Goto
<1>19. CASE Recover
  <2>1. CASE pc' = pc /\ pc = "recover" /\ batch' = batch
    BY <1>1, <2>1 DEF Places, CallsFit, BooksFit, EndFits, Looping
  <2>2. CASE Unfinished = {} /\ pc' = "failed" /\ UNCHANGED composer
    <3>1. \A a \in Agent : phase[a] \in {"Done", "Failed", "Cancelled"}
      BY <1>1, <2>2, SameComposer DEF Unfinished, P!PhasesAgree, P!Terminal
    <3>2. QED
      BY <1>1, <1>19, <2>2, <3>1 DEF Recover, Places, CallsFit, BooksFit, EndFits, Looping,
                                    composer
  <2>3. QED
    BY <1>19, <2>1, <2>2 DEF Recover, FinishAgent, Goto
<1>20. CASE ClientActs \/ UNCHANGED vars
  BY <1>2, <1>20 DEF ClientActs, vars, composer, books
<1>21. QED
  BY <1>7, <1>8, <1>9, <1>10, <1>11, <1>12, <1>13, <1>14, <1>15, <1>16, <1>17, <1>18, <1>19,
     <1>20
  DEF Next, Loop, JoinAny

-----------------------------------------------------------------------------
(* Whatever is asked or given back for one agent, the others keep what     *)
(* they have and receive no place in a queue.                              *)
LEMMA UnscopedKept ==
  ASSUME Inv, [Next]_vars
  PROVE  UnscopedFits'
<1>1. /\ P!IInv /\ P!TypeOK /\ P!LocksSound /\ RunTypeOK /\ UnscopedFits /\ unscoped' = unscoped
  BY DEF Inv, P!IInv, Next, Loop, JoinAny, Claim, ApplyControl, ControlsApplied, CancelRun,
     FailScope, StartReady, StartRefused, PassEnds, Idles, FailStuck, SelectTimeout, Join,
     AllTerminal, Report, Recover, ClientActs, vars, outside
<1>2. unscoped \subseteq Agent
  BY <1>1 DEF RunTypeOK
<1>3. ASSUME UNCHANGED locks, pc' \in Looping => pc \in Looping
      PROVE  UnscopedFits'
  BY <1>1, <1>3 DEF UnscopedFits, P!HoldsAny, P!Queued
<1>4. ASSUME pc' \notin Looping
      PROVE  UnscopedFits'
  BY <1>4 DEF UnscopedFits
<1>5. ASSUME NEW a \in Agent, P!TableStep(a), pc \in Looping,
             a \in unscoped =>
               \A f \in File : ~P!HoldsAny(locks'[f], a) /\ ~P!Queued(locks'[f], a)
      PROVE  UnscopedFits'
  <2>1. \A b \in unscoped, f \in File : ~P!HoldsAny(locks'[f], b) /\ ~P!Queued(locks'[f], b)
    BY <1>1, <1>2, <1>5 DEF UnscopedFits, P!TableStep, P!Undisturbed
  <2>2. QED
    BY <1>1, <2>1 DEF UnscopedFits, P!HoldsAny, P!Queued
<1>6. ASSUME NEW a \in Agent, NEW s, EndAgent(a, s), pc \in Looping
      PROVE  UnscopedFits'
  <2>1. locks' = [f \in File |-> P!ReleaseAll(locks[f], a)]
    BY <1>6, SameComposer DEF EndAgent, FinishAgent, P!Finish
  <2>2. /\ P!TableStep(a)
        /\ \A f \in File : ~P!HoldsAny(locks'[f], a) /\ ~P!Queued(locks'[f], a)
    BY <1>1, <2>1, P!ReleasedTable, Assumptions
  <2>3. QED
    BY <1>5, <1>6, <2>2
<1>7. ASSUME NEW a \in Agent, a \notin unscoped, P!Start(a), pc \in Looping
      PROVE  UnscopedFits'
  <2>1. P!StartGranted(a) \/ P!StartRefused(a)
    BY <1>7 DEF P!Start
  <2>2. P!TableStep(a)
    BY <1>1, <2>1, P!GrantedTable, P!RefusedTable, Assumptions
  <2>3. QED
    BY <1>5, <1>7, <2>2
<1>8. ASSUME NEW a \in Agent, FailScope(a) \/ Join(a)
      PROVE  UnscopedFits'
  BY <1>6, <1>8 DEF FailScope, Join, Looping
<1>9. ASSUME NEW a \in Agent, StartReady(a) \/ StartRefused(a)
      PROVE  UnscopedFits'
  BY <1>3, <1>7, <1>9, SameComposer DEF StartReady, StartRefused, Looping, composer
<1>10. CASE FailStuck
  BY <1>4, <1>6, <1>10 DEF FailStuck, Looping, Goto
<1>11. CASE ApplyControl
  BY <1>3, <1>11, SameComposer DEF ApplyControl, P!SetGraphStatus, Looping
<1>12. CASE ControlsApplied \/ CancelRun \/ AllTerminal \/ Report \/ Recover
  <2>1. CASE ControlsApplied
    BY <1>3, <1>4, <2>1 DEF ControlsApplied, Looping, Goto, composer
  <2>2. CASE CancelRun \/ AllTerminal \/ Report \/ Recover
    BY <1>3, <1>4, <2>2 DEF CancelRun, AllTerminal, Report, Recover, Goto, Looping
  <2>3. QED
    BY <1>12, <2>1, <2>2
<1>13. CASE Claim \/ PassEnds \/ Idles \/ SelectTimeout \/ ClientActs \/ UNCHANGED vars
  BY <1>3, <1>13 DEF Claim, PassEnds, Idles, SelectTimeout, ClientActs, vars, composer, Looping
<1>14. QED
  BY <1>8, <1>9, <1>10, <1>11, <1>12, <1>13 DEF Next, Loop, JoinAny

LEMMA BarredSame ==
  ASSUME UNCHANGED <<locks, node>>, NEW a
  PROVE  P!Barred(a)' <=> P!Barred(a)
BY DEF P!Barred, P!Upstream, P!WriteSet, P!ReadSet, P!HoldsAny, P!HoldsWrite, P!Lock


LEMMA PassKept ==
  ASSUME Inv, [Next]_vars
  PROVE  PassFits'
<1>1. /\ P!IInv /\ P!ModesFit /\ P!AskedFits /\ P!TypeOK
      /\ RunTypeOK /\ CallsFit /\ BooksFit /\ UnscopedFits /\ PassFits
  BY DEF Inv, P!IInv
<1>2. ASSUME UNCHANGED <<locks, node, tasks, todo, terminal, paused>>, pc' = pc
      PROVE  PassFits'
  BY <1>1, <1>2, BarredSame DEF PassFits
<1>3. ASSUME pc' \notin {"start", "idle"}
      PROVE  PassFits'
  BY <1>3 DEF PassFits
<1>4. ASSUME NEW label, SaveAndGoto(label)
      PROVE  pc' \in {label, "recover"}
  BY <1>4 DEF SaveAndGoto, Goto
<1>5. CASE ControlsApplied
  <2>1. CASE todo' = Pass /\ pc' = "start" /\ UNCHANGED <<composer, tasks>>
    <3>1. /\ terminal' = terminal /\ paused' = paused /\ pc = "apply"
          /\ tasks' = tasks /\ UNCHANGED <<locks, node>>
      BY <1>5, <2>1 DEF ControlsApplied, books, composer
    <3>2. ~paused /\ tasks = {} => Agent \ (terminal' \cup todo') = {}
      BY <1>1, <2>1, <3>1 DEF Pass, Unstarted, BooksFit, Looping
    <3>3. QED
      BY <2>1, <3>1, <3>2 DEF PassFits
  <2>2. QED
    BY <1>3, <1>5, <2>1 DEF ControlsApplied, Goto
<1>6. ASSUME NEW a \in Agent, StartReady(a)
      PROVE  PassFits'
  <2>1. tasks' = (IF pc' = "start" THEN tasks \cup {a} ELSE tasks) /\ pc' \in {"start", "recover"}
    BY <1>4, <1>6 DEF StartReady
  <2>2. QED
    BY <2>1 DEF PassFits
<1>7. ASSUME NEW a \in Agent, pc = "start", todo' = todo \ {a}, tasks' = tasks, paused' = paused,
             a \in terminal' \/ (tasks = {} /\ a \notin terminal => P!Barred(a)'),
             terminal \subseteq terminal',
             \A c \in Agent : P!Barred(c) => P!Barred(c)',
             pc' \in {"start", "recover"}
      PROVE  PassFits'
  <2> SUFFICES ASSUME tasks = {}, ~paused, pc' = "start",
                      NEW c \in Agent \ (terminal' \cup todo')
               PROVE  P!Barred(c)'
    BY <1>7 DEF PassFits
  <2>1. CASE c = a
    BY <1>7, <2>1
  <2>2. CASE c # a
    BY <1>1, <1>7, <2>2 DEF PassFits
  <2>3. QED
    BY <2>1, <2>2
<1>8. ASSUME NEW a \in Agent, StartRefused(a)
      PROVE  PassFits'
  <2>1. /\ pc = "start" /\ todo' = todo \ {a} /\ tasks' = tasks /\ paused' = paused
        /\ terminal' = terminal /\ pc' \in {"start", "recover"}
    BY <1>4, <1>8 DEF StartRefused, TakeTodo, books
  <2>2. CASE ~C!CanStart(a) /\ C!Start(a)
    <3>1. P!StartRefused(a) /\ P!MayStart(a) /\ ~P!CanStart(a)
      BY <1>1, <2>2, SameComposer, StartEffect
    <3>2. P!Barred(a)
      BY <1>1, <3>1, P!RefusedIsBarred, Assumptions
    <3>3. \A c \in Agent : P!Barred(c) => P!Barred(c)'
      BY <1>1, <3>1, P!BarredWhileRefused, Assumptions
    <3>4. QED
      BY <1>7, <2>1, <3>2, <3>3
  <2>3. CASE ~C!MayStart(a) /\ UNCHANGED composer
    <3>1. UNCHANGED <<locks, node>> /\ ~P!MayStart(a)
      BY <2>3, SameComposer DEF composer
    <3>2. ASSUME tasks = {}
          PROVE  P!Barred(a)
      <4>1. P!Running = {}
        BY <1>1, <2>1, <3>2 DEF BooksFit, Looping
      <4>2. QED
        BY <3>1, <4>1, P!HeldBackIsBarred, Assumptions
    <3>3. QED
      BY <1>7, <2>1, <3>1, <3>2, BarredSame
  <2>4. QED
    BY <1>8, <2>2, <2>3 DEF StartRefused
<1>9. ASSUME NEW a \in Agent, FailScope(a)
      PROVE  PassFits'
  <2>1. /\ pc = "start" /\ todo' = todo \ {a} /\ tasks' = tasks /\ paused' = paused
        /\ a \in unscoped /\ terminal' = terminal \cup {a} /\ P!Finish(a, "Failed")
        /\ pc' \in {"start", "recover"}
    BY <1>4, <1>9, SameComposer DEF FailScope, TakeTodo, EndAgent, FinishAgent
  <2>2. \A f \in File : ~P!HoldsAny(locks[f], a)
    BY <1>1, <2>1 DEF UnscopedFits, Looping
  <2>3. \A c \in Agent : P!Barred(c) => P!Barred(c)'
    BY <1>1, <2>1, <2>2, P!BarredWhileFailed, Assumptions
  <2>4. QED
    BY <1>7, <2>1, <2>3
<1>10. CASE PassEnds
  BY <1>1, <1>10, BarredSame DEF PassEnds, PassFits, Goto, composer, books
<1>11. CASE ClientActs \/ UNCHANGED vars
  BY <1>2, <1>11 DEF ClientActs, vars, composer, books
<1>12. CASE \/ Claim \/ CancelRun \/ Idles \/ SelectTimeout \/ AllTerminal \/ Report
  BY <1>3, <1>12 DEF Claim, CancelRun, Idles, SelectTimeout, AllTerminal, Report, Goto
<1>13. CASE ApplyControl \/ FailStuck \/ JoinAny \/ Recover
  <2>1. CASE ApplyControl
    BY <1>3, <1>4, <2>1 DEF ApplyControl
  <2>2. CASE FailStuck
    BY <1>3, <1>4, <2>2 DEF FailStuck, Goto
  <2>3. CASE JoinAny
    BY <1>3, <1>4, <2>3 DEF JoinAny, Join
  <2>4. CASE Recover
    BY <1>3, <2>4 DEF Recover, Goto
  <2>5. QED
    BY <1>13, <2>1, <2>2, <2>3, <2>4
<1>14. QED
  BY <1>5, <1>6, <1>8, <1>9, <1>10, <1>11, <1>12, <1>13 DEF Next, Loop

-----------------------------------------------------------------------------
(* The records, and what the clients leave the loop.                       *)
LEMMA TypesKept ==
  ASSUME Inv, [Next]_vars, P!TypeOK'
  PROVE  RunTypeOK' /\ T!ClientsFit'
<1>1. /\ RunTypeOK /\ ControlsTypeOK /\ T!ClientsFit /\ P!TypeOK
      /\ stored \in StoredStatus /\ graph \in StoredStatus /\ graph' \in StoredStatus
  BY DEF Inv, RunTypeOK, ControlsTypeOK, P!IInv, P!TypeOK, P!GraphStatus, StoredStatus
<1>2. ASSUME UNCHANGED <<controls, client>>, stored' \in StoredStatus
      PROVE  ControlsTypeOK' /\ T!ClientsFit'
  BY <1>1, <1>2, OwnerKeeps
<1>3. ASSUME NEW label \in Pc, SaveAndGoto(label)
      PROVE  stored' \in StoredStatus /\ pc' \in Pc
  BY <1>1, <1>3 DEF SaveAndGoto, Goto, Pc
<1>4. CASE Claim
  <2>1. ControlsTypeOK' /\ T!ClientsFit'
    BY <1>1, <1>4, OwnerKeeps DEF Claim
  <2>2. QED
    BY <1>1, <1>4, <2>1 DEF Claim, RunTypeOK, Goto, Pc, books
<1>5. CASE ApplyControl
  <2>1. stored' \in StoredStatus /\ pc' \in Pc
    BY <1>3, <1>5 DEF ApplyControl, Pc
  <2>2. ControlsTypeOK' /\ T!ClientsFit'
    BY <1>1, <1>5, <2>1, OwnerKeeps DEF ApplyControl, NextClaimed
  <2>3. QED
    BY <1>1, <1>5, <2>1, <2>2 DEF ApplyControl, RunTypeOK
<1>6. ASSUME UNCHANGED <<controls, client, unscoped, paused, cancelled>>,
             stored' \in StoredStatus, pc' \in Pc, todo' \in SUBSET Agent,
             spawned' \in SUBSET Agent, terminal' \in SUBSET Agent, tasks' \in SUBSET Agent
      PROVE  RunTypeOK' /\ T!ClientsFit'
  BY <1>1, <1>2, <1>6 DEF RunTypeOK
<1>7. CASE ControlsApplied \/ PassEnds \/ Idles \/ SelectTimeout \/ AllTerminal \/ Report
  <2>1. UNCHANGED <<outside, books>> /\ pc' \in Pc
    BY <1>7 DEF ControlsApplied, PassEnds, Idles, SelectTimeout, AllTerminal, Report, Goto, Pc,
       Ended
  <2>2. todo' \in SUBSET Agent /\ tasks' \in SUBSET Agent
    BY <1>1, <1>7 DEF ControlsApplied, PassEnds, Idles, SelectTimeout, AllTerminal, Report,
       Pass, Unstarted, RunTypeOK
  <2>3. QED
    BY <1>1, <1>6, <2>1, <2>2 DEF RunTypeOK, outside, books
<1>8. CASE CancelRun \/ Recover
  <2>1. /\ UNCHANGED <<controls, client, unscoped, todo, books>> /\ stored' \in StoredStatus
        /\ pc' \in Pc /\ tasks' \in SUBSET Agent
    BY <1>1, <1>8 DEF CancelRun, Recover, Goto, Pc, Ended, RunTypeOK
  <2>2. QED
    BY <1>1, <1>6, <2>1 DEF RunTypeOK, books
<1>9. ASSUME NEW a \in Agent, FailScope(a) \/ StartReady(a) \/ StartRefused(a)
      PROVE  RunTypeOK' /\ T!ClientsFit'
  <2>1. stored' \in StoredStatus /\ pc' \in Pc
    BY <1>3, <1>9 DEF FailScope, StartReady, StartRefused, Pc
  <2>2. QED
    BY <1>1, <1>6, <1>9, <2>1 DEF FailScope, StartReady, StartRefused, TakeTodo, EndAgent,
       RunTypeOK, books
<1>10. CASE FailStuck
  <2>1. stored' \in StoredStatus /\ pc' \in Pc
    BY <1>1, <1>3, <1>10 DEF FailStuck, Goto, Pc
  <2>2. QED
    BY <1>1, <1>6, <1>10, <2>1 DEF FailStuck, TakeTodo, EndAgent, RunTypeOK
<1>11. ASSUME NEW a \in Agent, Join(a)
       PROVE  RunTypeOK' /\ T!ClientsFit'
  <2>1. stored' \in StoredStatus /\ pc' \in Pc
    BY <1>3, <1>11 DEF Join, Pc
  <2>2. QED
    BY <1>1, <1>6, <1>11, <2>1 DEF Join, EndAgent, RunTypeOK
<1>12. CASE ClientActs
  <2>1. ControlsTypeOK' /\ T!ClientsFit'
    BY <1>1, <1>12, ClientKeeps DEF ClientActs
  <2>2. QED
    BY <1>1, <1>12, <2>1 DEF ClientActs, RunTypeOK, books
<1>13. CASE UNCHANGED vars
  BY <1>1, <1>6, <1>13 DEF vars, outside, books, RunTypeOK
<1>14. QED
  BY <1>4, <1>5, <1>7, <1>8, <1>9, <1>10, <1>11, <1>12, <1>13 DEF Next, Loop, JoinAny

LEMMA FlagsKept ==
  ASSUME Inv, [Next]_vars
  PROVE  FlagsFit'
<1>1. /\ FlagsFit /\ RunTypeOK /\ ControlsTypeOK /\ T!ClientsFit
      /\ \A i \in DOMAIN controls : controls[i] \in Control
  BY DEF Inv, RunTypeOK, ControlsTypeOK
<1>2. ASSUME UNCHANGED <<controls, paused, cancelled>>,
             pc \in {"recover", "failed"} => pc' \in {"recover", "failed"},
             pc' = "start" => ~cancelled /\ (paused => todo' = {})
      PROVE  FlagsFit'
  BY <1>1, <1>2 DEF FlagsFit
<1>3. CASE Claim
  <2>1. UNCHANGED <<paused, cancelled>> /\ pc = "claim" /\ pc' \in {"apply", "recover"}
    BY <1>3 DEF Claim, Goto, books
  <2>2. /\ DOMAIN controls' = DOMAIN controls
        /\ \A i \in DOMAIN controls :
             /\ controls'[i].kind = controls[i].kind
             /\ controls'[i].status = "applied" <=> controls[i].status = "applied"
    BY <1>1, <1>3 DEF Claim, ClaimPending, Control
  <2>3. QED
    BY <1>1, <2>1, <2>2 DEF FlagsFit
<1>4. CASE ApplyControl
  <2>1. PICK i \in Claimed :
          /\ paused' = CASE controls[i].kind = "Pause" -> TRUE
                         [] controls[i].kind = "Resume" -> FALSE
                         [] OTHER -> paused
          /\ cancelled' = (cancelled \/ controls[i].kind = "Cancel")
          /\ SaveAndGoto("apply")
          /\ MarkApplied(i) \/ pc' = "recover"
    BY <1>4 DEF ApplyControl, NextClaimed
  <2>2. CASE pc' = "recover"
    BY <2>2 DEF FlagsFit
  <2>3. CASE pc' = "apply" /\ MarkApplied(i)
    <3>1. pc = "apply" /\ i \in DOMAIN controls
      BY <1>4, <2>1 DEF ApplyControl, Claimed
    <3>2. /\ DOMAIN controls' = DOMAIN controls
          /\ \A j \in DOMAIN controls : controls'[j].kind = controls[j].kind
          /\ \A j \in DOMAIN controls \ {i} : controls'[j] = controls[j]
          /\ controls'[i].status = "applied"
      BY <1>1, <2>3, <3>1 DEF MarkApplied, Control
    <3>3. ASSUME NEW j \in DOMAIN controls, controls'[j].status = "applied"
          PROVE  /\ controls[j].kind = "Cancel" => cancelled'
                 /\ controls[j].kind = "Pause" =>
                      \/ paused'
                      \/ \E k \in DOMAIN controls :
                           controls'[k].status = "applied" /\ controls[k].kind = "Resume"
      <4>1. CASE j = i
        BY <2>1, <4>1
      <4>2. CASE j # i
        <5>1. controls[j].status = "applied"
          BY <3>2, <3>3, <4>2
        <5>2. /\ controls[j].kind = "Cancel" => cancelled
              /\ controls[j].kind = "Pause" =>
                   \/ paused
                   \/ \E k \in DOMAIN controls :
                        controls[k].status = "applied" /\ controls[k].kind = "Resume"
          BY <1>1, <3>1, <5>1 DEF FlagsFit
        <5>3. \A k \in DOMAIN controls :
                controls[k].status = "applied" => controls'[k].status = "applied"
          BY <3>2
        <5>4. paused => paused' \/ controls[i].kind = "Resume"
          BY <2>1
        <5>5. QED
          BY <2>1, <3>1, <3>2, <5>2, <5>3, <5>4
      <4>3. QED
        BY <4>1, <4>2
    <3>4. QED
      BY <2>3, <3>2, <3>3 DEF FlagsFit
  <2>4. QED
    BY <2>1, <2>2, <2>3 DEF SaveAndGoto, Goto
<1>5. CASE ClientActs
  <2>1. T!ClaimedKept /\ UNCHANGED <<paused, cancelled, pc, todo>>
    BY <1>1, <1>5, ClientKeeps DEF ClientActs, books
  <2>2. \A j \in DOMAIN controls :
          controls[j].status = "applied" => j \in DOMAIN controls' /\ controls'[j] = controls[j]
    BY <2>1, SameControls DEF T!ClaimedKept
  <2>3. \A j \in DOMAIN controls' :
          controls'[j].status = "applied" => j \in DOMAIN controls /\ controls'[j] = controls[j]
    BY <2>1 DEF T!ClaimedKept
  <2>4. QED
    BY <1>1, <2>1, <2>2, <2>3 DEF FlagsFit
<1>6. CASE ControlsApplied
  BY <1>2, <1>6 DEF ControlsApplied, Cancels, Pass, outside, books, Goto
<1>7. ASSUME NEW a \in Agent,
             FailScope(a) \/ StartReady(a) \/ StartRefused(a) \/ Join(a)
      PROVE  FlagsFit'
  <2>1. UNCHANGED <<controls, paused, cancelled>>
    BY <1>7 DEF FailScope, StartReady, StartRefused, Join, books
  <2>2. pc \in {"start", "select"}
    BY <1>7 DEF FailScope, StartReady, StartRefused, Join
  <2>3. pc' = "start" => pc = "start" /\ a \in todo
    BY <1>7 DEF FailScope, StartReady, StartRefused, Join, TakeTodo, SaveAndGoto, Goto
  <2>4. QED
    BY <1>1, <1>2, <2>1, <2>2, <2>3 DEF FlagsFit
<1>8. CASE CancelRun \/ PassEnds \/ Idles \/ SelectTimeout \/ AllTerminal \/ Report
  <2>1. UNCHANGED <<controls, paused, cancelled>> /\ pc \notin {"recover", "failed"}
    BY <1>8 DEF CancelRun, PassEnds, Idles, SelectTimeout, AllTerminal, Report, outside, books
  <2>2. pc' # "start"
    BY <1>8 DEF CancelRun, PassEnds, Idles, SelectTimeout, AllTerminal, Report, Goto
  <2>3. QED
    BY <1>2, <2>1, <2>2
<1>9. CASE FailStuck
  BY <1>2, <1>9 DEF FailStuck, SaveAndGoto, Goto
<1>10. CASE Recover
  BY <1>2, <1>10 DEF Recover, Goto, books
<1>11. CASE UNCHANGED vars
  BY <1>1, <1>2, <1>11 DEF vars, outside, books, FlagsFit
<1>12. QED
  BY <1>3, <1>4, <1>5, <1>6, <1>7, <1>8, <1>9, <1>10, <1>11 DEF Next, Loop, JoinAny

-----------------------------------------------------------------------------
LEMMA RunInitial == Init => Inv
<1> SUFFICES ASSUME Init
             PROVE  Inv
  OBVIOUS
<1>1. P!Init /\ locks = [f \in File |-> P!NoLocks]
  BY SameComposer DEF Init, P!Init
<1>2. P!IInv /\ P!ModesFit /\ P!AskedFits
  BY <1>1, P!Initial, P!LocksInitially, Assumptions
<1>3. /\ stored = "Running" /\ controls = <<>> /\ client = [c \in Client |-> NoRequest]
      /\ DOMAIN controls = {}
  BY DEF Init, ControlsInit
<1>4. ControlsTypeOK
  BY <1>3 DEF ControlsTypeOK, StoredStatus, Request
<1>5. T!ClientsFit
  BY <1>3 DEF T!ClientsFit, NoRequest, T!NoRequest, T!Kind
<1>6. RunTypeOK
  BY <1>4, RunAssumption DEF Init, RunTypeOK, Pc
<1>7. FlagsFit
  BY <1>3 DEF Init, FlagsFit
<1>8. CallsFit /\ BooksFit /\ EndFits /\ PassFits
  BY <1>1 DEF Init, P!Init, P!NoBatch, CallsFit, BooksFit, EndFits, PassFits, P!Running
<1>9. UnscopedFits
  BY <1>1 DEF UnscopedFits, P!HoldsAny, P!Queued, P!NoLocks
<1>10. QED
  BY <1>2, <1>5, <1>6, <1>7, <1>8, <1>9 DEF Inv

LEMMA RunInductive == Inv /\ [Next]_vars => Inv'
<1> SUFFICES ASSUME Inv, [Next]_vars
             PROVE  Inv'
  OBVIOUS
<1>1. [P!Next]_(P!vars) /\ P!IInv /\ P!ModesFit /\ P!AskedFits
  BY ProtocolStep DEF Inv
<1>2. P!IInv'
  BY <1>1, P!Inductive, Assumptions
<1>3. P!ModesFit' /\ P!AskedFits'
  BY <1>1, P!ModesKept, P!AskedKept, Assumptions
<1>4. RunTypeOK' /\ T!ClientsFit'
  BY <1>2, TypesKept DEF P!IInv
<1>5. Places' /\ UnscopedFits' /\ PassFits' /\ FlagsFit'
  BY PlacesKept, UnscopedKept, PassKept, FlagsKept
<1>6. QED
  BY <1>2, <1>3, <1>4, <1>5 DEF Inv, Places

LEMMA RunInvariance == Spec => []Inv
BY RunInitial, RunInductive, PTL DEF Spec

(* The loop uses the composer as the composer expects: the refinement, and *)
(* with it everything that is proved of Composer holds of the run.         *)
LEMMA KeepsProtocol == Spec => ComposerProtocol
<1>1. Init => C!Init
  BY DEF Init
<1>2. Inv /\ [Next]_vars => [C!Next]_(C!vars)
  BY ProtocolStep, SameComposer DEF C!vars, P!vars
<1>3. QED
  BY <1>1, <1>2, RunInvariance, PTL DEF Spec, ComposerProtocol, C!Spec

(* No agent is started against a command that was applied.                 *)
LEMMA KeepsPause == Spec => PauseStopsStarts
<1>1. Inv /\ [Next]_vars =>
        [spawned' # spawned =>
           \A i \in DOMAIN controls : controls[i].status = "applied" =>
             \/ controls[i].kind = "Resume"
             \/ /\ controls[i].kind = "Pause"
                /\ \E j \in DOMAIN controls :
                     controls[j].status = "applied" /\ controls[j].kind = "Resume"]_vars
  <2> SUFFICES ASSUME Inv, [Next]_vars, spawned' # spawned,
                      NEW i \in DOMAIN controls, controls[i].status = "applied"
               PROVE  \/ controls[i].kind = "Resume"
                      \/ /\ controls[i].kind = "Pause"
                         /\ \E j \in DOMAIN controls :
                              controls[j].status = "applied" /\ controls[j].kind = "Resume"
    OBVIOUS
  <2>1. pc = "start" /\ todo # {}
    <3>1. PICK a \in Agent : StartReady(a)
      BY DEF Next, Loop, JoinAny, Claim, ApplyControl, ControlsApplied, CancelRun, FailScope,
         StartRefused, PassEnds, Idles, FailStuck, SelectTimeout, Join, AllTerminal, Report,
         Recover, ClientActs, vars, books
    <3>2. QED
      BY <3>1 DEF StartReady, TakeTodo
  <2>2. FlagsFit /\ controls \in Seq(Control)
    BY DEF Inv, RunTypeOK, ControlsTypeOK
  <2>3. ~paused /\ ~cancelled
    BY <2>1, <2>2 DEF FlagsFit
  <2>4. controls[i].kind \in Kind
    <3>1. controls[i] \in Control
      BY <2>2
    <3>2. QED
      BY <3>1 DEF Control
  <2>5. QED
    BY <2>1, <2>2, <2>3, <2>4 DEF FlagsFit, Kind
<1>2. QED
  BY <1>1, RunInvariance, PTL DEF Spec, PauseStopsStarts

(* The graph of a paused run does not run: a pause sets its status, and of *)
(* the rest only a resume and the last node to end change it.              *)
GraphFits == paused => graph # "Running"

(* What the owner writes to the row of the run is the status of its graph. *)
WritesGraph == stored' = stored \/ stored' = graph'

LEMMA StatusKept ==
  ASSUME [Next]_vars
  PROVE  ClientActs \/ WritesGraph
<1>1. ASSUME NEW label, SaveAndGoto(label)
      PROVE  WritesGraph
  BY <1>1 DEF SaveAndGoto, WritesGraph
<1>2. CASE ClientActs
  BY <1>2
<1>3. CASE CancelRun \/ Recover
  BY <1>3 DEF CancelRun, Recover, WritesGraph, composer
<1>4. CASE ApplyControl \/ FailStuck \/ JoinAny
  BY <1>1, <1>4 DEF ApplyControl, FailStuck, JoinAny, Join, WritesGraph
<1>5. CASE \E a \in Agent : FailScope(a) \/ StartReady(a) \/ StartRefused(a)
  BY <1>1, <1>5 DEF FailScope, StartReady, StartRefused
<1>6. CASE \/ Claim \/ ControlsApplied \/ PassEnds \/ Idles \/ SelectTimeout \/ AllTerminal
           \/ Report \/ UNCHANGED vars
  BY <1>6 DEF Claim, ControlsApplied, PassEnds, Idles, SelectTimeout, AllTerminal, Report,
     outside, vars, WritesGraph
<1>7. QED
  BY <1>2, <1>3, <1>4, <1>5, <1>6 DEF Next, Loop

LEMMA GraphKept ==
  ASSUME Inv, GraphFits, [Next]_vars
  PROVE  GraphFits'
<1>1. ASSUME paused' = paused, graph' = graph \/ graph' \in Final
      PROVE  GraphFits'
  BY <1>1 DEF GraphFits, Final
<1>2. ASSUME NEW a, NEW s, FinishAgent(a, s) \/ C!Start(a) \/ C!CancelOne(a)
      PROVE  graph' = graph \/ graph' \in Final
  BY <1>2 DEF FinishAgent, C!Start, C!StartGranted, C!StartRefused, C!CancelOne, C!Finish,
     C!SetNode, C!GraphAfter, Final
<1>3. CASE ApplyControl
  <2>1. PICK i \in DOMAIN controls :
          /\ paused' = CASE controls[i].kind = "Pause" -> TRUE
                         [] controls[i].kind = "Resume" -> FALSE
                         [] OTHER -> paused
          /\ C!SetGraphStatus(StatusFor[controls[i].kind])
    BY <1>3 DEF ApplyControl
  <2>2. controls[i].kind \in Kind
    <3>1. controls[i] \in Control
      BY <2>1 DEF Inv, RunTypeOK, ControlsTypeOK
    <3>2. QED
      BY <3>1 DEF Control
  <2>3. graph' = StatusFor[controls[i].kind]
    BY <2>1 DEF C!SetGraphStatus
  <2>4. StatusFor.Pause = "Paused" /\ StatusFor.Cancel = "Cancelled"
    BY DEF StatusFor
  <2>5. CASE controls[i].kind = "Resume"
    BY <2>1, <2>5 DEF GraphFits
  <2>6. CASE controls[i].kind \in {"Pause", "Cancel"}
    BY <2>3, <2>4, <2>6 DEF GraphFits
  <2>7. QED
    BY <2>2, <2>5, <2>6 DEF Kind
<1>4. CASE ControlsApplied
  BY <1>1, <1>4 DEF ControlsApplied, C!CancelAll, composer, books
<1>5. CASE CancelRun \/ Recover
  BY <1>1, <1>2, <1>5 DEF CancelRun, Recover, composer, books
<1>6. ASSUME NEW a \in Agent, FailScope(a) \/ StartReady(a) \/ StartRefused(a) \/ Join(a)
      PROVE  GraphFits'
  BY <1>1, <1>2, <1>6 DEF FailScope, StartReady, StartRefused, Join, EndAgent, composer, books
<1>7. CASE FailStuck
  BY <1>1, <1>2, <1>7 DEF FailStuck, EndAgent, composer
<1>8. CASE \/ Claim \/ PassEnds \/ Idles \/ SelectTimeout \/ AllTerminal \/ Report
           \/ ClientActs \/ UNCHANGED vars
  BY <1>1, <1>8 DEF Claim, PassEnds, Idles, SelectTimeout, AllTerminal, Report, ClientActs,
     composer, books, vars
<1>9. QED
  BY <1>3, <1>4, <1>5, <1>6, <1>7, <1>8 DEF Next, Loop, JoinAny

(* A call of a client is taken from what the client has still to do.       *)
LEMMA ClientMoves ==
  ASSUME Inv, ClientStep, stored' # stored
  PROVE  client' # client
<1>1. PICK c \in Client : UpdateStatus(c)
  BY DEF ClientStep, Ask, CreateControl, InsertControl, GiveUp, IgnoreFailedUpdate
<1>2. client[c] \in Request /\ client[c].todo # <<>>
  BY <1>1 DEF UpdateStatus, NextCall, Inv, RunTypeOK, ControlsTypeOK
<1>3. client[c].todo \in Seq({"update", "create", "insert"})
  BY <1>2 DEF Request, NoRequest
<1>4. Len(Tail(client[c].todo)) # Len(client[c].todo)
  BY <1>2, <1>3
<1>5. client'[c].todo = Tail(client[c].todo)
  BY <1>1, <1>2 DEF UpdateStatus, NextCall, Inv, RunTypeOK, ControlsTypeOK, Request, NoRequest
<1>6. QED
  BY <1>4, <1>5

(* A save of the owner never takes a pause back: the row of a paused run   *)
(* may be written by whatever ends meanwhile, but as the graph has it.     *)
THEOREM PauseStays == Spec => PauseStaysStored
<1>1. Init => GraphFits
  BY DEF Init, GraphFits
<1>2. Inv /\ GraphFits /\ [Next]_vars => GraphFits'
  BY GraphKept
<1>3. Inv /\ GraphFits /\ GraphFits' /\ [Next]_vars =>
        [paused /\ paused' /\ stored = "Paused" /\ client' = client => stored' # "Running"]_vars
  <2> SUFFICES ASSUME Inv, GraphFits', [Next]_vars, paused', stored = "Paused",
                      client' = client
               PROVE  stored' # "Running"
    OBVIOUS
  <2>1. CASE ClientActs
    BY <2>1, ClientMoves DEF ClientActs
  <2>2. CASE WritesGraph
    BY <2>2 DEF WritesGraph, GraphFits
  <2>3. QED
    BY <2>1, <2>2, StatusKept
<1>4. QED
  BY <1>1, <1>2, <1>3, RunInvariance, PTL DEF Spec, PauseStaysStored

(* The loop asks of the composer only what the composer offers, where it   *)
(* offers it, and a pause or cancel that was applied holds for every start *)
(* after it.                                                               *)
THEOREM Obedient == Spec => LoopObeys
BY KeepsProtocol, KeepsPause, PTL DEF LoopObeys

(* The books of the loop are those of the composer, an agent is failed for *)
(* a stall only if it could not run, and a run that ends, with an error of *)
(* the store too, leaves nothing.                                          *)
THEOREM Sound == Spec => []LoopIsSound
<1>1. Inv => LoopIsSound
  <2> SUFFICES ASSUME Inv
               PROVE  LoopIsSound
    OBVIOUS
  <2>1. BooksAgree
    BY SameComposer DEF Inv, BooksAgree, BooksFit, Looping, P!Running, P!Terminal
  <2>2. StallIsReal
    <3> SUFFICES ASSUME pc = "idle", tasks = {}, ~paused, NEW a \in Agent \ terminal
                 PROVE  ~C!CanStart(a)
      BY DEF StallIsReal
    <3>1. P!IInv /\ P!Barred(a)
      BY DEF Inv, PassFits
    <3>2. QED
      BY <3>1, SameComposer, P!BarredCannotStart, Assumptions
  <2>3. NothingLeftBehind
    <3> SUFFICES ASSUME pc \in {"finished", "failed"}
                 PROVE  /\ tasks = {}
                        /\ \A a \in Agent : phase[a] \in C!Terminal
                        /\ \A f \in File : locks[f] = C!NoLocks
      BY DEF NothingLeftBehind
    <3>1. tasks = {} /\ \A a \in Agent : phase[a] \in P!Terminal
      BY DEF Inv, EndFits, P!Terminal
    <3>2. P!IInv
      BY DEF Inv
    <3>3. \A f \in File : locks[f] = P!NoLocks
      BY <3>1, <3>2, P!NothingLocked, Assumptions
    <3>4. QED
      BY <3>1, <3>3, SameComposer
  <2>4. QED
    BY <2>1, <2>2, <2>3 DEF Inv, LoopIsSound
<1>2. QED
  BY <1>1, RunInvariance, PTL

=============================================================================
