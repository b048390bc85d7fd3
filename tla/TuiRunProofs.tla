---------------------------- MODULE TuiRunProofs ----------------------------
(***************************************************************************)
(* The TUI's loop keeps to the composer's protocol and its books to the    *)
(* composer's, for every set of agents and files, every dependency graph,  *)
(* and whatever the user and the clients do.                               *)
(*                                                                         *)
(* What is proved of the composer is cited through P; its operations are   *)
(* those that the loop calls through C.                                    *)
(***************************************************************************)
EXTENDS TuiRun, TLAPS

P == INSTANCE ComposerProofs

(* Only cancel_all and fail_blocked_dependents are loops, and both run to  *)
(* their end before the loop does anything else.                           *)
CallsFit ==
  pc \notin {"cancel", "failing", "cancelled", "dead"} => batch.todo = {}

(* The books at every place of the loop: an execution belongs to an agent  *)
(* that runs, and what is counted as terminal is terminal or about to be.  *)
BooksFit ==
  pc \notin {"cancel", "cancelled", "dead"} =>
    /\ \A a \in Agent : phase[a] \in {"Queued", "Running", "Done", "Failed"}
    /\ tasks = IF pc = "abort" THEN {} ELSE P!Running
    /\ pc = "abort" => todo = P!Running
    /\ terminal = {a \in Agent : phase[a] \in {"Done", "Failed"}}
                    \cup (IF pc = "failing" THEN batch.todo ELSE {})
    /\ P!Running \subseteq spawned
    /\ spawned \subseteq P!Running \cup terminal
    /\ pc = "failstalled" => tasks = {} /\ todo = Agent \ terminal
    /\ pc = "finished" => terminal = Agent

CancelFits ==
  pc \in {"cancel", "cancelled"} =>
    /\ \A a \in Agent \ batch.todo : phase[a] = "Cancelled"
    /\ pc = "cancelled" => batch.todo = {}

(* A pass that starts nobody leaves every agent it has handled barred.     *)
PassFits ==
  /\ pc = "start" /\ tasks = {} => \A a \in Agent \ (terminal \cup todo) : P!Barred(a)
  /\ pc \in {"failing", "stall"} /\ tasks = {} => \A a \in Agent \ terminal : P!Barred(a)
  /\ pc = "failing" =>
       \A a \in batch.todo, f \in File :
         ~P!HoldsAny(locks[f], a) /\ ~P!Queued(locks[f], a)

(* A client inserts the command it has created, and no other.              *)
ClientsFit ==
  /\ \A c \in Client :
       /\ client[c].kind \notin Kind => client[c].todo = <<>>
       /\ client[c].todo \in {<<>>, <<"update">>, <<"insert">>, <<"insert", "update">>,
                              <<"create", "insert">>, <<"update", "create", "insert">>,
                              <<"create", "insert", "update">>}
  /\ \A i \in DOMAIN controls :
       LET c == client[controls[i].by] IN
       /\ c # NoRequest
       /\ c.todo \in {<<>>, <<"update">>, <<"insert">>, <<"insert", "update">>}
       /\ controls[i].status # "created" => c.todo \in {<<>>, <<"update">>}

(* What was claimed is applied before the loop goes on, and the flags are  *)
(* what the applied commands, and the user's, have made of them.           *)
FlagsFit ==
  /\ pc \notin {"apply", "dead"} => Claimed = {}
  /\ pc = "start" => ~paused /\ ~cancelled
  /\ typed = 0 => inbox = <<>>
  /\ \A i \in DOMAIN controls :
       controls[i].status = "applied" =>
         /\ controls[i].kind = "Cancel" => cancelled
         /\ controls[i].kind = "Pause" =>
              \/ paused
              \/ typed # 0
              \/ \E j \in DOMAIN controls : Obeyed(j) /\ controls[j].kind = "Resume"

Inv ==
  /\ RunTypeOK
  /\ P!IInv /\ P!ModesFit /\ P!AskedFits
  /\ CallsFit
  /\ BooksFit
  /\ CancelFits
  /\ PassFits
  /\ ClientsFit
  /\ FlagsFit

-----------------------------------------------------------------------------
(* The assumptions of the composer's module.                               *)
LEMMA Assumptions ==
  /\ P!IsFiniteSet(Agent)
  /\ Writes \in [Agent -> Seq(File)]
  /\ Reads \in [Agent -> Seq(File)]
  /\ Edges \subseteq Agent \X Agent
  /\ MaxParallel \in Nat \ {0}
BY RunAssumption DEF IsFiniteSet, P!IsFiniteSet

(* The composer the loop calls is the one the facts are about.             *)
LEMMA SameComposer ==
  /\ C!Init <=> P!Init
  /\ C!Next <=> P!Next
  /\ C!vars = P!vars
  /\ C!Idle <=> P!Idle
  /\ C!Doomed = P!Doomed
  /\ C!Terminal = P!Terminal
  /\ C!NoLocks = P!NoLocks
  /\ C!CancelAll <=> P!CancelAll
  /\ C!FailBlockedDependents <=> P!FailBlockedDependents
  /\ \A s : C!SetGraphStatus(s) <=> P!SetGraphStatus(s)
  /\ \A a : /\ C!MayStart(a) <=> P!MayStart(a)
            /\ C!CanStart(a) <=> P!CanStart(a)
            /\ C!Start(a) <=> P!Start(a)
            /\ C!CancelOne(a) <=> P!CancelOne(a)
            /\ C!FailOne(a) <=> P!FailOne(a)
  /\ \A a, s : C!Finish(a, s) <=> P!Finish(a, s)
<1>1. C!Terminal = P!Terminal /\ C!NoLocks = P!NoLocks /\ C!vars = P!vars
  BY DEF
     C!Terminal, P!Terminal, C!NoLocks, P!NoLocks, C!vars, P!vars
<1>2. /\ C!Init <=> P!Init
      /\ C!Idle <=> P!Idle
      /\ C!Doomed = P!Doomed
      /\ C!CancelAll <=> P!CancelAll
      /\ C!FailBlockedDependents <=> P!FailBlockedDependents
      /\ \A s : C!SetGraphStatus(s) <=> P!SetGraphStatus(s)
  BY DEF
     C!NoLocks, P!NoLocks, C!Init, P!Init, C!NoBatch, P!NoBatch, C!Idle,
     P!Idle, C!Upstream, P!Upstream, C!Doomed, P!Doomed, C!Begin, P!Begin,
     C!CancelAll, P!CancelAll, C!FailBlockedDependents,
     P!FailBlockedDependents, C!SetGraphStatus, P!SetGraphStatus
<1>3. ASSUME NEW a
      PROVE  C!MayStart(a) <=> P!MayStart(a)
  BY DEF
     C!Cardinality, P!Cardinality, C!Upstream, P!Upstream, C!Running,
     P!Running, C!MayStart, P!MayStart
<1>4. ASSUME NEW a
      PROVE  C!CanStart(a) <=> P!CanStart(a)
  BY Zenon DEF
     C!Lock, P!Lock, C!HoldsAny, P!HoldsAny, C!HoldsWrite, P!HoldsWrite,
     C!WriteLocked, P!WriteLocked, C!ReadGranted, P!ReadGranted,
     C!WriteGranted, P!WriteGranted, C!WriteSet, P!WriteSet, C!ReadSet,
     P!ReadSet, C!Cardinality, P!Cardinality, C!Upstream, P!Upstream,
     C!Running, P!Running, C!MayStart, P!MayStart, C!LocksGranted,
     P!LocksGranted, C!CanStart, P!CanStart
<1>5. ASSUME NEW a
      PROVE  C!Start(a) <=> P!Start(a)
  BY Zenon DEF
     C!Lock, P!Lock, C!HoldsAny, P!HoldsAny, C!HoldsWrite, P!HoldsWrite,
     C!WriteLocked, P!WriteLocked, C!Queued, P!Queued, C!ReadGranted,
     P!ReadGranted, C!AcquireRead, P!AcquireRead, C!WriteGranted,
     P!WriteGranted, C!AcquireWrite, P!AcquireWrite, C!Handoff, P!Handoff,
     C!Release, P!Release, C!Cardinality, P!Cardinality, C!WriteSet,
     P!WriteSet, C!ReadSet, P!ReadSet, C!Upstream, P!Upstream, C!Running,
     P!Running, C!Idle, P!Idle, C!Terminal, P!Terminal, C!GraphAfter,
     P!GraphAfter, C!SetNode, P!SetNode, C!MayStart, P!MayStart,
     C!LocksGranted, P!LocksGranted, C!CanStart, P!CanStart, C!Acquired,
     P!Acquired, C!StartGranted, P!StartGranted, C!RefusedAt, P!RefusedAt,
     C!RolledBack, P!RolledBack, C!StartRefused, P!StartRefused, C!Start,
     P!Start, C!NoBatch, P!NoBatch
<1>6. ASSUME NEW a
      PROVE  (C!CancelOne(a) <=> P!CancelOne(a)) /\ (C!FailOne(a) <=> P!FailOne(a))
  BY Zenon DEF
     C!Lock, P!Lock, C!HoldsAny, P!HoldsAny, C!Handoff, P!Handoff, C!Release,
     P!Release, C!Unqueue, P!Unqueue, C!Queued, P!Queued, C!ReleaseAll,
     P!ReleaseAll, C!Terminal, P!Terminal, C!GraphAfter, P!GraphAfter,
     C!SetNode, P!SetNode, C!NoBatch, P!NoBatch, C!TakeNext, P!TakeNext,
     C!CancelOne, P!CancelOne, C!FailOne, P!FailOne, C!Finish, P!Finish
<1>7. ASSUME NEW a, NEW s
      PROVE  C!Finish(a, s) <=> P!Finish(a, s)
  BY Zenon DEF
     C!Lock, P!Lock, C!HoldsAny, P!HoldsAny, C!Handoff, P!Handoff, C!Release,
     P!Release, C!Unqueue, P!Unqueue, C!Queued, P!Queued, C!ReleaseAll,
     P!ReleaseAll, C!Terminal, P!Terminal, C!GraphAfter, P!GraphAfter,
     C!SetNode, P!SetNode, C!Finish, P!Finish
<1>8. C!Next <=> P!Next
  BY Zenon DEF
     C!Lock, P!Lock, C!HoldsAny, P!HoldsAny, C!HoldsWrite, P!HoldsWrite,
     C!WriteLocked, P!WriteLocked, C!Queued, P!Queued, C!ReadGranted,
     P!ReadGranted, C!AcquireRead, P!AcquireRead, C!WriteGranted,
     P!WriteGranted, C!AcquireWrite, P!AcquireWrite, C!Handoff, P!Handoff,
     C!Release, P!Release, C!Unqueue, P!Unqueue, C!ReleaseAll, P!ReleaseAll,
     C!Cardinality, P!Cardinality, C!WriteSet, P!WriteSet, C!ReadSet,
     P!ReadSet, C!Upstream, P!Upstream, C!Running, P!Running, C!Idle, P!Idle,
     C!Terminal, P!Terminal, C!GraphAfter, P!GraphAfter, C!SetNode, P!SetNode,
     C!MayStart, P!MayStart, C!LocksGranted, P!LocksGranted, C!CanStart,
     P!CanStart, C!Acquired, P!Acquired, C!StartGranted, P!StartGranted,
     C!RefusedAt, P!RefusedAt, C!RolledBack, P!RolledBack, C!StartRefused,
     P!StartRefused, C!Start, P!Start, C!NoBatch, P!NoBatch, C!Finish,
     P!Finish, C!Complete, P!Complete, C!Fail, P!Fail, C!SetGraphStatus,
     P!SetGraphStatus, C!Begin, P!Begin, C!TakeNext, P!TakeNext, C!PauseAll,
     P!PauseAll, C!PauseOne, P!PauseOne, C!ResumeAll, P!ResumeAll, C!ResumeOne,
     P!ResumeOne, C!CancelAll, P!CancelAll, C!CancelOne, P!CancelOne, C!Doomed,
     P!Doomed, C!FailBlockedDependents, P!FailBlockedDependents, C!FailOne,
     P!FailOne, C!BatchStep, P!BatchStep, C!Next, P!Next
<1>9. QED
  BY <1>1, <1>2, <1>3, <1>4, <1>5, <1>6, <1>7, <1>8

(* The effect of each call on the phases and on the loop of the composer.  *)
LEMMA FinishEffect ==
  ASSUME P!TypeOK, NEW a \in Agent, NEW s, P!Finish(a, s)
  PROVE  phase'[a] = s /\ \A b \in Agent \ {a} : phase'[b] = phase[b]
BY DEF P!TypeOK, P!Finish

LEMMA TakeNextEffect ==
  ASSUME P!TypeOK, NEW a, NEW op, P!TakeNext(op, a)
  PROVE  a \in Agent /\ a \in batch.todo /\ batch'.todo = batch.todo \ {a}
BY DEF P!TypeOK, P!Batch, P!TakeNext, P!NoBatch

LEMMA StartEffect ==
  ASSUME P!TypeOK, NEW a \in Agent, P!Start(a), NEW b \in Agent
  PROVE  /\ batch' = batch
         /\ b # a \/ ~P!CanStart(a) => phase'[b] = phase[b]
         /\ P!CanStart(a) => phase'[a] = "Running"
         /\ ~P!CanStart(a) => P!StartRefused(a) /\ P!MayStart(a)
<1>1. CASE P!StartGranted(a)
  BY <1>1, RunAssumption DEF P!TypeOK, P!Start, P!StartGranted
<1>2. CASE P!StartRefused(a)
  <2>1. ~P!LocksGranted(a)
    BY <1>2 DEF P!StartRefused, P!RefusedAt, P!LocksGranted, P!WriteSet, P!ReadSet
  <2>2. QED
    BY <1>2, <2>1 DEF P!TypeOK, P!Start, P!StartRefused, P!CanStart
<1>3. QED
  BY <1>1, <1>2 DEF P!Start

-----------------------------------------------------------------------------
(* The calls a client has left, when it is about to make one.              *)
LEMMA TuplesDiffer ==
  /\ Head(<<"update">>) = "update" /\ Tail(<<"update">>) = <<>>
  /\ Head(<<"insert">>) = "insert" /\ Tail(<<"insert">>) = <<>>
  /\ Head(<<"insert", "update">>) = "insert" /\ Tail(<<"insert", "update">>) = <<"update">>
  /\ Head(<<"create", "insert">>) = "create" /\ Tail(<<"create", "insert">>) = <<"insert">>
  /\ Head(<<"update", "create", "insert">>) = "update"
  /\ Tail(<<"update", "create", "insert">>) = <<"create", "insert">>
  /\ Head(<<"create", "insert", "update">>) = "create"
  /\ Tail(<<"create", "insert", "update">>) = <<"insert", "update">>
OBVIOUS

LEMMA CallFacts ==
  ASSUME ControlsTypeOK, ClientsFit, NEW c \in Client, NEW call, NextCall(c, call)
  PROVE  /\ client[c].kind \in Kind
         /\ client' \in [Client -> Request]
         /\ \A d \in Client : client'[d].kind = client[d].kind
         /\ \A d \in Client \ {c} : client'[d] = client[d]
         /\ client'[c] # NoRequest
         /\ call = "update" =>
              /\ client[c].todo \in {<<"update">>, <<"update", "create", "insert">>}
              /\ client'[c].todo \in {<<>>, <<"create", "insert">>}
         /\ call = "create" =>
              /\ client[c].todo \in {<<"create", "insert">>, <<"create", "insert", "update">>}
              /\ client'[c].todo \in {<<"insert">>, <<"insert", "update">>}
         /\ call = "insert" =>
              /\ client[c].todo \in {<<"insert">>, <<"insert", "update">>}
              /\ client'[c].todo \in {<<>>, <<"update">>}
<1>1. client \in [Client -> Request] /\ client[c].kind \in Kind
  BY DEF ControlsTypeOK, ClientsFit, NextCall
<1>2. client[c] \in [surface : Surface, kind : Kind,
                      todo : Seq({"update", "create", "insert"})]
  BY <1>1 DEF Request, NoRequest, Kind
<1>3. client'[c] = [client[c] EXCEPT !.todo = Tail(@)]
  BY <1>1 DEF NextCall
<1>4. /\ client'[c].todo = Tail(client[c].todo)
      /\ client'[c].kind = client[c].kind
      /\ client'[c] \in [surface : Surface, kind : Kind,
                          todo : Seq({"update", "create", "insert"})]
  <2>1. client[c].todo \in Seq({"update", "create", "insert"}) /\ client[c].todo # <<>>
    BY <1>2 DEF NextCall
  <2>2. Tail(client[c].todo) \in Seq({"update", "create", "insert"})
    BY <2>1
  <2>3. QED
    BY <1>2, <1>3, <2>2
<1>5. \A d \in Client \ {c} : client'[d] = client[d]
  BY <1>1 DEF NextCall
<1>6. client' \in [Client -> Request]
  BY <1>1, <1>4 DEF NextCall, Request
<1>7. client'[c] # NoRequest
  BY <1>1, <1>4 DEF NoRequest, Kind
<1>8. client[c].todo \in {<<"update">>, <<"insert">>, <<"insert", "update">>,
                           <<"create", "insert">>, <<"update", "create", "insert">>,
                           <<"create", "insert", "update">>}
  BY DEF ClientsFit, NextCall
<1>9. Head(client[c].todo) = call
  BY DEF NextCall
<1>10. QED
  BY <1>1, <1>4, <1>5, <1>6, <1>7, <1>8, <1>9, TuplesDiffer

(* No client touches a command the owner has claimed.                      *)
ClaimedKept ==
  /\ \A i \in DOMAIN controls :
       Obeyed(i) => i \in DOMAIN controls' /\ controls'[i] = controls[i]
  /\ \A i \in DOMAIN controls' :
       controls'[i].status \in {"claimed", "applied"} =>
         i \in DOMAIN controls /\ controls'[i] = controls[i]

LEMMA ClientKeeps ==
  ASSUME ControlsTypeOK, ClientsFit, ClientStep
  PROVE  ControlsTypeOK' /\ ClientsFit' /\ ClaimedKept
<1>1. /\ stored \in StoredStatus /\ controls \in Seq(Control)
      /\ client \in [Client -> Request]
  BY DEF ControlsTypeOK
<1>2. \A i \in DOMAIN controls : controls[i] \in Control /\ controls[i].by \in Client
  <2>1. \A i \in DOMAIN controls : controls[i] \in Control
    BY <1>1
  <2>2. QED
    BY <2>1 DEF Control
<1>3. ASSUME controls' = controls
      PROVE  ClaimedKept
  BY <1>3 DEF ClaimedKept
<1>4. ASSUME NEW c \in Client, NEW surface \in Surfaces, NEW kind \in Kind,
             Ask(c, surface, kind)
      PROVE  ControlsTypeOK' /\ ClientsFit' /\ ClaimedKept
  <2>1. surface \in Surface
    BY SurfacesAssumption
  <2> DEFINE request == [surface |-> surface, kind |-> kind, todo |-> Calls(surface)]
  <2>2. Calls(surface) \in {<<"update">>, <<"update", "create", "insert">>,
                            <<"create", "insert", "update">>}
    BY <2>1 DEF Calls, Surface
  <2>3. request \in Request /\ request # NoRequest /\ request.kind \in Kind
    <3>1. Calls(surface) \in Seq({"update", "create", "insert"})
      <4>1. /\ <<"update">> \in Seq({"update", "create", "insert"})
            /\ <<"update", "create", "insert">> \in Seq({"update", "create", "insert"})
            /\ <<"create", "insert", "update">> \in Seq({"update", "create", "insert"})
        OBVIOUS
      <4>2. QED
        BY <2>2, <4>1
    <3>2. request \in [surface : Surface, kind : Kind,
                      todo : Seq({"update", "create", "insert"})]
      BY <2>1, <3>1
    <3>3. request # NoRequest
      BY DEF NoRequest, Kind
    <3>4. QED
      BY <3>2, <3>3 DEF Request
  <2>4. /\ client[c] = NoRequest /\ client' = [client EXCEPT ![c] = request]
        /\ UNCHANGED <<stored, controls>>
    BY <1>4 DEF Ask
  <2>5. ControlsTypeOK'
    BY <1>1, <2>3, <2>4 DEF ControlsTypeOK
  <2>6. \A i \in DOMAIN controls : controls[i].by # c
    BY <2>4 DEF ClientsFit
  <2>7. ClientsFit'
    <3>1. \A d \in Client : client'[d] = IF d = c THEN request ELSE client[d]
      BY <1>1, <2>4
    <3>2. request.todo = Calls(surface)
      OBVIOUS
    <3>3. \A i \in DOMAIN controls : client'[controls[i].by] = client[controls[i].by]
      BY <1>2, <2>6, <3>1
    <3>4. QED
      BY <2>2, <2>3, <2>4, <3>1, <3>2, <3>3 DEF ClientsFit
  <2>8. QED
    BY <1>3, <2>4, <2>5, <2>7
<1>5. ASSUME NEW c \in Client, NEW call, NextCall(c, call),
             controls' = controls, stored' \in StoredStatus, call = "update"
      PROVE  ControlsTypeOK' /\ ClientsFit' /\ ClaimedKept
  <2>1. ControlsTypeOK'
    BY <1>1, <1>5, CallFacts DEF ControlsTypeOK
  <2>2. ClientsFit'
    <3>1. /\ client'[c] # NoRequest /\ client'[c].kind \in Kind
          /\ client[c].todo \in {<<"update">>, <<"update", "create", "insert">>}
          /\ client'[c].todo \in {<<>>, <<"create", "insert">>}
          /\ \A d \in Client \ {c} : client'[d] = client[d]
          /\ client[c].todo = <<"update">> => client'[c].todo = <<>>
      <4>1. client'[c].todo = Tail(client[c].todo)
        BY <1>1, <1>5 DEF NextCall, Request
      <4>2. /\ client'[c] # NoRequest /\ client'[c].kind \in Kind
            /\ client[c].todo \in {<<"update">>, <<"update", "create", "insert">>}
            /\ client'[c].todo \in {<<>>, <<"create", "insert">>}
            /\ \A d \in Client \ {c} : client'[d] = client[d]
        BY <1>5, CallFacts
      <4>3. QED
        BY <4>1, <4>2, TuplesDiffer
    <3>2. \A i \in DOMAIN controls : controls[i].by = c => client'[c].todo = <<>>
      BY <3>1 DEF ClientsFit
    <3>3. QED
      BY <1>2, <1>5, <3>1, <3>2 DEF ClientsFit
  <2>3. QED
    BY <1>3, <1>5, <2>1, <2>2
<1>6. ASSUME NEW c \in Client, UpdateStatus(c) \/ IgnoreFailedUpdate(c)
      PROVE  ControlsTypeOK' /\ ClientsFit' /\ ClaimedKept
  <2>1. NextCall(c, "update") /\ controls' = controls
    BY <1>6 DEF UpdateStatus, IgnoreFailedUpdate
  <2>2. stored' \in StoredStatus
    BY <1>1, <1>6, <2>1, CallFacts DEF UpdateStatus, IgnoreFailedUpdate, StatusFor, StoredStatus, Kind
  <2>3. QED
    BY <1>5, <2>1, <2>2
<1>7. ASSUME NEW c \in Client, CreateControl(c)
      PROVE  ControlsTypeOK' /\ ClientsFit' /\ ClaimedKept
  <2> DEFINE new == [by |-> c, kind |-> client[c].kind, status |-> "created"]
  <2>1. /\ NextCall(c, "create") /\ controls' = Append(controls, new) /\ stored' = stored
    BY <1>7 DEF CreateControl
  <2>2. /\ client[c].kind \in Kind
        /\ client' \in [Client -> Request]
        /\ client'[c].kind = client[c].kind
        /\ \A d \in Client \ {c} : client'[d] = client[d]
        /\ client'[c] # NoRequest
        /\ client[c].todo \in {<<"create", "insert">>, <<"create", "insert", "update">>}
        /\ client'[c].todo \in {<<"insert">>, <<"insert", "update">>}
    BY <2>1, CallFacts
  <2>3. new \in Control
    BY <2>2 DEF Control, ControlStatus
  <2>4. controls' \in Seq(Control)
    BY <1>1, <2>1, <2>3
  <2>5. /\ DOMAIN controls' = 1..(Len(controls) + 1) /\ DOMAIN controls = 1..Len(controls)
        /\ Len(controls) \in Nat
        /\ \A i \in 1..Len(controls) : controls'[i] = controls[i]
        /\ controls'[Len(controls) + 1] = new
    BY <1>1, <2>1, <2>3
  <2>6. ClaimedKept
    BY <2>5 DEF ClaimedKept
  <2>7. \A i \in DOMAIN controls : controls[i].by # c
    BY <2>2 DEF ClientsFit
  <2>8. ClientsFit'
    <3>1. \A d \in Client :
            /\ client'[d].kind \notin Kind => client'[d].todo = <<>>
            /\ client'[d].todo \in {<<>>, <<"update">>, <<"insert">>, <<"insert", "update">>,
                                    <<"create", "insert">>, <<"update", "create", "insert">>,
                                    <<"create", "insert", "update">>}
      BY <2>2 DEF ClientsFit
    <3>2. ASSUME NEW i \in DOMAIN controls'
          PROVE  /\ client'[controls'[i].by] # NoRequest
                 /\ client'[controls'[i].by].todo \in
                      {<<>>, <<"update">>, <<"insert">>, <<"insert", "update">>}
                 /\ controls'[i].status # "created" =>
                      client'[controls'[i].by].todo \in {<<>>, <<"update">>}
      <4>1. CASE i \in DOMAIN controls
        <5>1. controls'[i] = controls[i] /\ controls[i].by \in Client \ {c}
          BY <1>2, <2>5, <2>7, <4>1
        <5>2. client'[controls'[i].by] = client[controls[i].by]
          BY <2>2, <5>1
        <5>3. QED
          BY <4>1, <5>1, <5>2 DEF ClientsFit
      <4>2. CASE i \notin DOMAIN controls
        <5>1. controls'[i] = new
          BY <2>5, <4>2
        <5>2. QED
          BY <2>2, <5>1
      <4>3. QED
        BY <4>1, <4>2
    <3>3. QED
      BY <3>1, <3>2 DEF ClientsFit
  <2>9. QED
    BY <1>1, <2>1, <2>2, <2>4, <2>6, <2>8 DEF ControlsTypeOK
<1>8. ASSUME NEW c \in Client, InsertControl(c)
      PROVE  ControlsTypeOK' /\ ClientsFit' /\ ClaimedKept
  <2>1. /\ NextCall(c, "insert") /\ stored' = stored
        /\ controls' = [i \in DOMAIN controls |->
                          IF controls[i].by = c THEN [controls[i] EXCEPT !.status = "pending"]
                          ELSE controls[i]]
    BY <1>8 DEF InsertControl
  <2>2. /\ client' \in [Client -> Request]
        /\ client'[c].kind = client[c].kind /\ client[c].kind \in Kind
        /\ \A d \in Client \ {c} : client'[d] = client[d]
        /\ client'[c] # NoRequest
        /\ client[c].todo \in {<<"insert">>, <<"insert", "update">>}
        /\ client'[c].todo \in {<<>>, <<"update">>}
    BY <2>1, CallFacts
  <2>3. \A i \in DOMAIN controls : controls[i].by = c => controls[i].status = "created"
    <3>1. client[c].todo \notin {<<>>, <<"update">>}
      BY <2>1, TuplesDiffer DEF NextCall
    <3>2. QED
      BY <3>1 DEF ClientsFit
  <2>4. /\ DOMAIN controls' = DOMAIN controls
        /\ \A i \in DOMAIN controls :
             /\ controls'[i] \in Control /\ controls'[i].by = controls[i].by
             /\ controls[i].by # c => controls'[i] = controls[i]
             /\ controls[i].by = c => controls'[i].status = "pending"
    BY <1>2, <2>1 DEF Control, ControlStatus
  <2>5. controls' \in Seq(Control)
    BY <1>1, <2>1, <2>4
  <2>6. ClaimedKept
    BY <2>3, <2>4 DEF ClaimedKept, Obeyed
  <2>7. ClientsFit'
    <3>1. ASSUME NEW d \in Client
          PROVE  /\ client'[d].kind \notin Kind => client'[d].todo = <<>>
                 /\ client'[d].todo \in
                      {<<>>, <<"update">>, <<"insert">>, <<"insert", "update">>,
                       <<"create", "insert">>, <<"update", "create", "insert">>,
                       <<"create", "insert", "update">>}
      <4>1. CASE d = c
        BY <2>2, <4>1
      <4>2. CASE d # c
        BY <2>2, <4>2 DEF ClientsFit
      <4>3. QED
        BY <4>1, <4>2
    <3>2. ASSUME NEW i \in DOMAIN controls
          PROVE  /\ client'[controls'[i].by] # NoRequest
                 /\ client'[controls'[i].by].todo \in
                      {<<>>, <<"update">>, <<"insert">>, <<"insert", "update">>}
                 /\ controls'[i].status # "created" =>
                      client'[controls'[i].by].todo \in {<<>>, <<"update">>}
      BY <1>2, <2>2, <2>4 DEF ClientsFit
    <3>3. QED
      BY <2>4, <3>1, <3>2 DEF ClientsFit
  <2>8. QED
    BY <1>1, <2>1, <2>2, <2>5, <2>6, <2>7 DEF ControlsTypeOK
<1>9. ASSUME NEW c \in Client, GiveUp(c)
      PROVE  ControlsTypeOK' /\ ClientsFit' /\ ClaimedKept
  <2>1. /\ client[c].todo # <<>> /\ client' = [client EXCEPT ![c].todo = <<>>]
        /\ UNCHANGED <<stored, controls>>
    BY <1>9 DEF GiveUp
  <2>2. client[c].kind \in Kind
    BY <2>1 DEF ClientsFit
  <2>3. client[c] \in [surface : Surface, kind : Kind,
                        todo : Seq({"update", "create", "insert"})]
    BY <1>1, <2>2 DEF Request, NoRequest, Kind
  <2>4. client'[c] = [client[c] EXCEPT !.todo = <<>>]
    BY <1>1, <2>1
  <2>5. /\ client'[c] \in Request /\ client'[c].kind \in Kind
        /\ client'[c].todo = <<>> /\ client'[c] # NoRequest
    <3>1. <<>> \in Seq({"update", "create", "insert"})
      OBVIOUS
    <3>2. /\ client'[c] \in [surface : Surface, kind : Kind,
                             todo : Seq({"update", "create", "insert"})]
          /\ client'[c].todo = <<>>
      BY <2>3, <2>4, <3>1
    <3>3. client'[c].kind # "none"
      BY <3>2 DEF Kind
    <3>4. QED
      BY <3>2, <3>3 DEF Request, NoRequest
  <2>6. \A d \in Client \ {c} : client'[d] = client[d]
    BY <1>1, <2>1
  <2>7. ControlsTypeOK'
    BY <1>1, <2>1, <2>5 DEF ControlsTypeOK
  <2>8. ClientsFit'
    BY <1>2, <2>1, <2>5, <2>6 DEF ClientsFit
  <2>9. QED
    BY <1>3, <2>1, <2>7, <2>8
<1>10. QED
  BY <1>4, <1>6, <1>7, <1>8, <1>9 DEF ClientStep

(* What the owner does to the commands.                                    *)
LEMMA OwnerKeeps ==
  ASSUME ControlsTypeOK, ClientsFit, stored' \in StoredStatus, client' = client,
         \/ controls' = controls
         \/ ClaimPending
         \/ \E i \in Claimed : MarkApplied(i)
  PROVE  ControlsTypeOK' /\ ClientsFit'
<1>1. controls \in Seq(Control) /\ client \in [Client -> Request]
  BY DEF ControlsTypeOK
<1>2. \A i \in DOMAIN controls : controls[i] \in Control
  BY <1>1
<1>3. /\ controls' \in Seq(Control)
      /\ DOMAIN controls' = DOMAIN controls
      /\ \A i \in DOMAIN controls :
           /\ controls'[i].by = controls[i].by
           /\ controls'[i].status # "created" => controls[i].status # "created"
  <2>1. CASE controls' = controls
    BY <1>1, <2>1
  <2>2. CASE ClaimPending
    <3>1. /\ DOMAIN controls' = DOMAIN controls
          /\ \A i \in DOMAIN controls :
               /\ controls'[i] \in Control /\ controls'[i].by = controls[i].by
               /\ controls'[i].status # "created" => controls[i].status # "created"
      BY <1>2, <2>2 DEF ClaimPending, Control, ControlStatus
    <3>2. controls' \in Seq(Control)
      BY <1>1, <2>2, <3>1 DEF ClaimPending
    <3>3. QED
      BY <3>1, <3>2
  <2>3. ASSUME NEW j \in Claimed, MarkApplied(j)
        PROVE  /\ controls' \in Seq(Control)
               /\ DOMAIN controls' = DOMAIN controls
               /\ \A i \in DOMAIN controls :
                    /\ controls'[i].by = controls[i].by
                    /\ controls'[i].status # "created" => controls[i].status # "created"
    <3>1. j \in DOMAIN controls /\ controls[j].status = "claimed"
      BY DEF Claimed
    <3>2. controls' = [controls EXCEPT ![j] = [controls[j] EXCEPT !.status = "applied"]]
      BY <2>3 DEF MarkApplied
    <3>3. /\ [controls[j] EXCEPT !.status = "applied"] \in Control
          /\ [controls[j] EXCEPT !.status = "applied"].by = controls[j].by
      BY <1>2, <3>1 DEF Control, ControlStatus
    <3>4. controls' \in Seq(Control)
      BY <1>1, <3>1, <3>2, <3>3
    <3>5. QED
      BY <1>1, <3>1, <3>2, <3>3, <3>4
  <2>4. QED
    BY <2>1, <2>2, <2>3
<1>4. ControlsTypeOK'
  BY <1>1, <1>3 DEF ControlsTypeOK
<1>5. ClientsFit'
  BY <1>3 DEF ClientsFit
<1>6. QED
  BY <1>4, <1>5

-----------------------------------------------------------------------------
(* The composer sees one of its operations, or nothing.                    *)
LEMMA ProtocolStep ==
  ASSUME Inv, [Next]_vars
  PROVE  [P!Next]_(P!vars)
<1>1. P!TypeOK /\ ControlsTypeOK
  BY DEF Inv, P!IInv, RunTypeOK
<1>2. ASSUME UNCHANGED composer
      PROVE  UNCHANGED P!vars
  BY <1>2 DEF composer, P!vars
<1>3. ASSUME NEW s \in {"Running", "Paused", "Cancelled"}, C!SetGraphStatus(s)
      PROVE  P!Next
  BY <1>3, SameComposer DEF P!Next
<1>4. CASE ApplyControl
  <2>1. PICK i \in DOMAIN controls : C!SetGraphStatus(StatusFor[controls[i].kind])
    BY <1>4 DEF ApplyControl
  <2>2. controls[i] \in Control
    BY <1>1 DEF ControlsTypeOK
  <2>3. StatusFor[controls[i].kind] \in {"Running", "Paused", "Cancelled"}
    BY <2>2 DEF Control, Kind, StatusFor
  <2>4. QED
    BY <1>3, <2>1, <2>3
<1>5. CASE HandleCommand
  BY <1>2, <1>3, <1>5 DEF HandleCommand
<1>6. CASE Check
  BY <1>2, <1>6, SameComposer DEF Check, P!Next
<1>7. CASE CancelRun
  BY <1>2, <1>7, SameComposer DEF CancelRun, P!Next, P!BatchStep
<1>8. ASSUME NEW a \in Agent, StartReady(a) \/ StartRefused(a) \/ StartHeldBack(a)
      PROVE  [P!Next]_(P!vars)
  BY <1>2, <1>8, SameComposer DEF StartReady, StartRefused, StartHeldBack, P!Next
<1>9. CASE FailBlocked
  BY <1>2, <1>9, SameComposer DEF FailBlocked, P!Next
<1>10. CASE FailBlockedAgent
  BY <1>2, <1>10, SameComposer DEF FailBlockedAgent, P!Next, P!BatchStep
<1>11. ASSUME NEW a \in Agent, FinishAgent(a, "Failed"), P!Idle, phase[a] \notin P!Terminal
       PROVE  P!Next
  <2>1. P!Fail(a)
    BY <1>11, SameComposer DEF FinishAgent, P!Fail
  <2>2. QED
    BY <2>1 DEF P!Next
<1>12. CASE FailStalled
  <2>1. P!Idle /\ \A a \in todo : phase[a] \notin P!Terminal
    BY <1>12 DEF Inv, FailStalled, CallsFit, BooksFit, P!Idle, P!Terminal
  <2>2. QED
    BY <1>2, <1>11, <1>12, <2>1 DEF FailStalled, TakeTodo
<1>13. ASSUME NEW a \in Agent, Join(a)
       PROVE  P!Next
  <2>1. P!Idle /\ phase[a] = "Running"
    BY <1>13 DEF Inv, Join, CallsFit, BooksFit, P!Idle, P!Running
  <2>2. PICK success \in BOOLEAN : FinishAgent(a, IF success THEN "Done" ELSE "Failed")
    BY <1>13 DEF Join, FinishExecution
  <2>3. P!Complete(a, success)
    BY <2>1, <2>2, SameComposer DEF FinishAgent, P!Complete
  <2>4. QED
    BY <2>3 DEF P!Next
<1>14. CASE FailAborted
  <2>1. P!Idle /\ \A a \in todo : phase[a] \notin P!Terminal
    BY <1>14 DEF Inv, FailAborted, CallsFit, BooksFit, P!Idle, P!Running, P!Terminal
  <2>2. QED
    BY <1>2, <1>11, <1>14, <2>1 DEF FailAborted, TakeTodo, FinishExecution
<1>15. CASE \/ Claim \/ ClaimFails \/ ControlsApplied \/ CheckStall \/ PersistFailures
            \/ Exit \/ SelectTimeout \/ JoinError \/ Die \/ ClientActs
            \/ \E command \in Command : Type(command)
  BY <1>2, <1>15 DEF Claim, ClaimFails, ControlsApplied, CheckStall, PersistFailures, Exit,
     SelectTimeout, JoinError, Die, ClientActs, Type
<1>16. CASE UNCHANGED vars
  BY <1>2, <1>16 DEF vars
<1>17. QED
  BY <1>4, <1>5, <1>6, <1>7, <1>8, <1>9, <1>10, <1>12, <1>13, <1>14, <1>15, <1>16
  DEF Next, Loop, JoinAny, Drain, SelectCommand

-----------------------------------------------------------------------------
(* The books, action by action.                                            *)
Places == CallsFit /\ BooksFit /\ CancelFits

LEMMA PlacesKept ==
  ASSUME Inv, [Next]_vars
  PROVE  Places'
<1>1. P!TypeOK /\ RunTypeOK /\ P!Running \subseteq Agent
  BY DEF Inv, P!IInv, P!Running
<1>2. CallsFit /\ BooksFit /\ CancelFits
  BY DEF Inv
<1>3. ASSUME pc' = pc, UNCHANGED <<phase, batch, tasks, todo, terminal, spawned>>
      PROVE  Places'
  BY <1>2, <1>3 DEF Places, CallsFit, BooksFit, CancelFits, P!Running
<1>4. ASSUME UNCHANGED <<phase, batch, tasks, terminal, spawned>>,
             pc \in {"claim", "apply", "drain", "start", "stall", "persist", "exit", "select"},
             pc' \in {"claim", "apply", "drain", "start", "stall", "persist", "exit", "select"}
      PROVE  Places'
  BY <1>2, <1>4 DEF Places, CallsFit, BooksFit, CancelFits, P!Running
<1>5. CASE ApplyControl \/ (HandleCommand /\ pc' = pc)
  BY <1>3, <1>5, SameComposer DEF ApplyControl, HandleCommand, P!SetGraphStatus, composer
<1>6. CASE \/ Claim \/ ClaimFails \/ ControlsApplied \/ SelectCommand
           \/ SelectTimeout \/ PersistFailures
  BY <1>4, <1>6, SameComposer DEF Claim, ClaimFails, ControlsApplied, SelectCommand,
     SelectTimeout, PersistFailures, HandleCommand, P!SetGraphStatus, composer, Goto
<1>7. CASE Check
  <2>1. CASE C!CancelAll /\ pc' = "cancel"
    <3>1. batch' = [op |-> "cancel", todo |-> Agent]
      BY <2>1, SameComposer DEF P!CancelAll, P!Begin
    <3>2. QED
      BY <2>1, <3>1 DEF Places, CallsFit, BooksFit, CancelFits
  <2>2. CASE UNCHANGED composer /\ pc' \in {"start", "exit"}
    BY <1>4, <1>7, <2>2 DEF Check, composer
  <2>3. QED
    BY <1>7, <2>1, <2>2 DEF Check, Goto
<1>8. CASE CancelRun
  <2>1. ASSUME NEW a \in Agent, C!CancelOne(a), pc' = "cancel", pc = "cancel"
        PROVE  Places'
    <3>1. a \in batch.todo /\ batch'.todo = batch.todo \ {a}
      BY <1>1, <2>1, SameComposer, TakeNextEffect DEF P!CancelOne
    <3>2. phase'[a] = "Cancelled" /\ \A b \in Agent \ {a} : phase'[b] = phase[b]
      BY <1>1, <2>1, SameComposer, FinishEffect DEF P!CancelOne
    <3>3. QED
      BY <1>2, <2>1, <3>1, <3>2 DEF Places, CallsFit, BooksFit, CancelFits
  <2>2. CASE C!Idle /\ pc = "cancel" /\ pc' = "cancelled" /\ UNCHANGED composer
    BY <1>2, <2>2, SameComposer DEF Places, CallsFit, BooksFit, CancelFits, P!Idle, composer
  <2>3. QED
    BY <1>8, <2>1, <2>2 DEF CancelRun, Goto
<1>9. ASSUME NEW a \in Agent, StartReady(a)
      PROVE  Places'
  <2>1. /\ batch' = batch /\ phase'[a] = "Running"
        /\ \A b \in Agent \ {a} : phase'[b] = phase[b]
    BY <1>1, <1>9, SameComposer, StartEffect DEF StartReady
  <2>2. phase[a] = "Queued"
    <3>1. life[a] \in {"Queued", "WaitingForLock"}
      BY <1>9, SameComposer DEF StartReady, P!Start
    <3>2. pc = "start"
      BY <1>9 DEF StartReady
    <3>3. QED
      BY <1>2, <3>1, <3>2 DEF Inv, P!IInv, P!PhasesAgree, BooksFit
  <2>3. P!Running' = P!Running \cup {a}
    BY <2>1 DEF P!Running
  <2>4. {b \in Agent : phase'[b] \in {"Done", "Failed"}} =
          {b \in Agent : phase[b] \in {"Done", "Failed"}}
    BY <2>1, <2>2
  <2>5. QED
    BY <1>2, <1>9, <2>1, <2>3, <2>4 DEF StartReady, Places, CallsFit, BooksFit, CancelFits
<1>10. ASSUME NEW a \in Agent, StartRefused(a)
       PROVE  Places'
  <2>1. batch' = batch /\ \A b \in Agent : phase'[b] = phase[b]
    BY <1>1, <1>10, SameComposer, StartEffect DEF StartRefused
  <2>2. P!Running' = P!Running
    BY <2>1 DEF P!Running
  <2>3. QED
    BY <1>2, <1>10, <2>1, <2>2 DEF StartRefused, Places, CallsFit, BooksFit, CancelFits
<1>11. ASSUME NEW a \in Agent, StartHeldBack(a)
       PROVE  Places'
  BY <1>4, <1>11 DEF StartHeldBack, composer
<1>12. CASE FailBlocked
  <2>1. CASE C!FailBlockedDependents /\ terminal' = CountedTerminal /\ pc' = "failing"
    <3>1. batch'.todo = P!Doomed /\ phase' = phase
      BY <2>1, SameComposer DEF P!FailBlockedDependents, P!Begin
    <3>2. QED
      BY <1>2, <1>12, <2>1, <3>1, SameComposer
      DEF FailBlocked, CountedTerminal, Places, CallsFit, BooksFit, CancelFits, P!Running
  <2>2. CASE UNCHANGED <<composer, terminal>> /\ pc' = "stall"
    BY <1>4, <1>12, <2>2 DEF FailBlocked, composer
  <2>3. QED
    BY <1>12, <2>1, <2>2 DEF FailBlocked, Goto
<1>13. CASE FailBlockedAgent
  <2>1. ASSUME NEW a \in Agent, C!FailOne(a), pc' = "failing"
        PROVE  Places'
    <3>1. a \in batch.todo /\ batch'.todo = batch.todo \ {a} /\ phase[a] = "Queued"
      BY <1>1, <2>1, SameComposer, TakeNextEffect
      DEF P!FailOne, P!TakeNext, Inv, P!IInv, P!BatchFits
    <3>2. phase'[a] = "Failed" /\ \A b \in Agent \ {a} : phase'[b] = phase[b]
      BY <1>1, <2>1, SameComposer, FinishEffect DEF P!FailOne
    <3>3. P!Running' = P!Running
      BY <3>1, <3>2 DEF P!Running
    <3>4. {b \in Agent : phase'[b] \in {"Done", "Failed"}} =
            {b \in Agent : phase[b] \in {"Done", "Failed"}} \cup {a}
      BY <3>1, <3>2
    <3>5. QED
      BY <1>2, <1>13, <2>1, <3>1, <3>2, <3>3, <3>4
      DEF FailBlockedAgent, Places, CallsFit, BooksFit, CancelFits
  <2>2. CASE C!Idle /\ pc' = "stall" /\ UNCHANGED composer
    BY <1>2, <1>13, <2>2, SameComposer
    DEF FailBlockedAgent, Places, CallsFit, BooksFit, CancelFits, P!Idle, P!Running, composer
  <2>3. QED
    BY <1>13, <2>1, <2>2 DEF FailBlockedAgent, Goto
<1>14. CASE CheckStall
  BY <1>2, <1>14 DEF CheckStall, Stalled, Places, CallsFit, BooksFit, CancelFits, P!Running,
                     composer, Goto
<1>15. CASE Exit
  BY <1>2, <1>15 DEF Exit, Places, CallsFit, BooksFit, CancelFits, P!Running, composer, Goto
<1>16. ASSUME NEW a \in Agent, NEW s \in {"Done", "Failed"}, FinishAgent(a, s),
              phase[a] \in {"Queued", "Running"}
       PROVE  /\ batch' = batch /\ terminal' = terminal \cup {a}
              /\ phase'[a] = s /\ \A b \in Agent \ {a} : phase'[b] = phase[b]
              /\ P!Running' = P!Running \ {a}
              /\ {b \in Agent : phase'[b] \in {"Done", "Failed"}} =
                   {b \in Agent : phase[b] \in {"Done", "Failed"}} \cup {a}
  <2>1. batch' = batch /\ terminal' = terminal \cup {a}
    BY <1>16 DEF FinishAgent
  <2>2. phase'[a] = s /\ \A b \in Agent \ {a} : phase'[b] = phase[b]
    BY <1>1, <1>16, SameComposer, FinishEffect DEF FinishAgent
  <2>3. QED
    BY <2>1, <2>2 DEF P!Running
<1>17. CASE FailStalled
  <2>1. ASSUME NEW a \in Agent, TakeTodo(a), FinishAgent(a, "Failed"), pc' = pc
        PROVE  Places'
    <3>1. pc = "failstalled" /\ UNCHANGED <<spawned, tasks>>
      BY <1>17 DEF FailStalled
    <3>2. a \in todo /\ todo' = todo \ {a} /\ phase[a] \in {"Queued", "Running"}
      BY <1>2, <2>1, <3>1 DEF TakeTodo, BooksFit
    <3>3. QED
      BY <1>2, <1>16, <2>1, <3>1, <3>2 DEF Places, CallsFit, BooksFit, CancelFits
  <2>2. CASE UNCHANGED <<composer, todo, terminal>> /\ pc' = "persist"
    BY <1>2, <1>17, <2>2 DEF FailStalled, Places, CallsFit, BooksFit, CancelFits, P!Running,
                             composer
  <2>3. QED
    BY <1>17, <2>1, <2>2 DEF FailStalled, Goto
<1>18. ASSUME NEW a \in Agent, Join(a)
       PROVE  Places'
  <2>1. PICK s \in {"Done", "Failed"} : FinishAgent(a, s)
    BY <1>18 DEF Join, FinishExecution
  <2>2. /\ pc = "select" /\ pc' = "claim" /\ a \in tasks /\ tasks' = tasks \ {a}
        /\ UNCHANGED <<todo, spawned>>
    BY <1>18 DEF Join, Goto
  <2>3. phase[a] \in {"Queued", "Running"}
    BY <1>2, <2>2 DEF BooksFit, P!Running
  <2>4. QED
    BY <1>2, <1>16, <2>1, <2>2, <2>3 DEF Places, CallsFit, BooksFit, CancelFits
<1>19. CASE JoinError
  <2>1. todo' = P!Running
    BY <1>1, <1>2, <1>19 DEF JoinError, InFlight, BooksFit, P!Running
  <2>2. QED
    BY <1>2, <1>19, <2>1
    DEF JoinError, Places, CallsFit, BooksFit, CancelFits, P!Running, composer, Goto
<1>20. CASE FailAborted
  <2>1. ASSUME NEW a \in Agent, TakeTodo(a), FinishExecution(a, FALSE), pc' = pc
        PROVE  Places'
    <3>1. pc = "abort" /\ UNCHANGED <<spawned, tasks>>
      BY <1>20 DEF FailAborted
    <3>2. a \in todo /\ todo' = todo \ {a} /\ phase[a] \in {"Queued", "Running"}
      BY <1>2, <2>1, <3>1 DEF TakeTodo, BooksFit, P!Running
    <3>3. FinishAgent(a, "Failed")
      BY <2>1 DEF FinishExecution
    <3>4. QED
      BY <1>2, <1>16, <2>1, <3>1, <3>2, <3>3 DEF Places, CallsFit, BooksFit, CancelFits
  <2>2. CASE todo = {} /\ UNCHANGED <<composer, todo, terminal>> /\ pc' = "claim"
    BY <1>2, <1>20, <2>2 DEF FailAborted, Places, CallsFit, BooksFit, CancelFits, P!Running,
                             composer
  <2>3. QED
    BY <1>20, <2>1, <2>2 DEF FailAborted, Goto
<1>21. CASE Die
  BY <1>21 DEF Die, Places, CallsFit, BooksFit, CancelFits, Goto
<1>22. CASE ClientActs \/ (\E command \in Command : Type(command)) \/ UNCHANGED vars
  BY <1>3, <1>22 DEF ClientActs, Type, vars, composer
<1>23. CASE Drain
  BY <1>5, <1>23 DEF Drain
<1>24. CASE Loop
  BY <1>5, <1>6, <1>7, <1>8, <1>9, <1>10, <1>11, <1>12, <1>13, <1>14, <1>15, <1>17, <1>20,
     <1>23, <1>24
  DEF Loop
<1>25. QED
  BY <1>6, <1>18, <1>19, <1>21, <1>22, <1>24 DEF Next, JoinAny

-----------------------------------------------------------------------------
(* The agents of a pass that starts nobody.                                *)
LEMMA BarredSame ==
  ASSUME UNCHANGED <<locks, node>>, NEW a
  PROVE  P!Barred(a)' <=> P!Barred(a)
BY DEF P!Barred, P!Upstream, P!WriteSet, P!ReadSet, P!HoldsAny, P!HoldsWrite, P!Lock

LEMMA PassKept ==
  ASSUME Inv, [Next]_vars
  PROVE  PassFits'
<1>1. /\ P!IInv /\ P!ModesFit /\ P!AskedFits /\ P!TypeOK
      /\ RunTypeOK /\ CallsFit /\ BooksFit /\ PassFits
  BY DEF Inv, P!IInv
<1>2. ASSUME UNCHANGED <<locks, node, batch, tasks, todo, terminal>>, pc' = pc
      PROVE  PassFits'
  BY <1>1, <1>2, BarredSame DEF PassFits, P!HoldsAny, P!Queued
<1>3. ASSUME pc' \notin {"start", "failing", "stall"}
      PROVE  PassFits'
  BY <1>3 DEF PassFits
<1>4. CASE Check
  <2>1. ASSUME UNCHANGED composer, todo' = Unstarted, pc' = "start", ~Cancels
        PROVE  PassFits'
    <3>1. terminal' = terminal /\ tasks' = tasks /\ spawned' = spawned /\ pc = "drain"
      BY <1>4 DEF Check
    <3>2. Agent \ (terminal' \cup todo') \subseteq tasks
      BY <1>1, <2>1, <3>1 DEF Unstarted, BooksFit
    <3>3. QED
      BY <2>1, <3>1, <3>2 DEF PassFits
  <2>2. QED
    BY <1>3, <1>4, <2>1 DEF Check, Goto
<1>5. ASSUME NEW a \in Agent, StartReady(a)
      PROVE  PassFits'
  BY <1>5 DEF StartReady, PassFits
<1>6. ASSUME NEW a \in Agent, StartRefused(a)
      PROVE  PassFits'
  <2>1. /\ pc = "start" /\ pc' = pc /\ todo' = todo \ {a} /\ tasks' = tasks
        /\ terminal' = terminal
    BY <1>6 DEF StartRefused, TakeTodo
  <2>2. P!StartRefused(a) /\ P!MayStart(a) /\ ~P!CanStart(a)
    BY <1>1, <1>6, SameComposer, StartEffect DEF StartRefused
  <2>3. P!Barred(a)
    BY <1>1, <2>2, P!RefusedIsBarred, Assumptions
  <2>4. \A c \in Agent : P!Barred(c) => P!Barred(c)'
    BY <1>1, <2>2, P!BarredWhileRefused, Assumptions
  <2>5. QED
    BY <1>1, <2>1, <2>3, <2>4 DEF PassFits
<1>7. ASSUME NEW a \in Agent, StartHeldBack(a)
      PROVE  PassFits'
  <2>1. /\ pc = "start" /\ pc' = pc /\ todo' = todo \ {a} /\ tasks' = tasks
        /\ terminal' = terminal /\ UNCHANGED <<locks, node>>
        /\ life[a] \notin {"Queued", "WaitingForLock"} \/ ~P!MayStart(a)
    BY <1>7, SameComposer DEF StartHeldBack, TakeTodo, composer
  <2>2. ASSUME tasks = {}, a \notin terminal
        PROVE  P!Barred(a)
    <3>1. P!Running = {} /\ phase[a] = "Queued"
      BY <1>1, <2>1, <2>2 DEF BooksFit, P!Running
    <3>2. life[a] \in {"Queued", "WaitingForLock"}
      BY <1>1, <3>1 DEF P!IInv, P!PhasesAgree
    <3>3. QED
      BY <2>1, <3>1, <3>2, P!HeldBackIsBarred, Assumptions
  <2>3. QED
    BY <1>1, <2>1, <2>2, BarredSame DEF PassFits
<1>8. CASE FailBlocked
  <2>1. pc = "start" /\ todo = {} /\ tasks' = tasks
    BY <1>8 DEF FailBlocked
  <2>2. CASE C!FailBlockedDependents /\ terminal' = CountedTerminal /\ pc' = "failing"
    <3>1. /\ batch'.todo = P!Doomed /\ locks' = locks
          /\ node' = [b \in Agent |-> IF b \in P!Doomed THEN "Failed" ELSE node[b]]
          /\ terminal' = terminal \cup P!Doomed
      BY <2>2, SameComposer DEF P!FailBlockedDependents, P!Begin, CountedTerminal
    <3>2. P!Doomed \subseteq Agent
      BY DEF P!Doomed
    <3>3. \A c \in Agent : P!Barred(c) => P!Barred(c)'
      BY <3>1 DEF P!Barred, P!Upstream, P!WriteSet, P!ReadSet, P!HoldsAny, P!HoldsWrite, P!Lock
    <3>4. ASSUME NEW a \in P!Doomed, NEW f \in File
          PROVE  ~P!HoldsAny(locks[f], a) /\ ~P!Queued(locks[f], a)
      <4>1. PICK u \in P!Upstream(a) : node[u] \in {"Pending", "Failed", "Cancelled"}
        BY P!DoomedIsBarred, Assumptions
      <4>2. u \in Agent
        BY DEF P!Upstream
      <4>3. phase[u] # "Cancelled" /\ batch.todo = {}
        BY <1>1, <2>1, <4>2 DEF BooksFit, CallsFit
      <4>4. node[u] = P!NodeFor(phase[u]) /\ phase[u] \in P!AgentPhase
        BY <1>1, <4>2, <4>3 DEF P!IInv, P!NodesAgree, P!TypeOK
      <4>5. node[u] \notin {"Done", "Cancelled"}
        BY <4>1, <4>3, <4>4 DEF P!NodeFor, P!AgentPhase
      <4>6. QED
        BY <1>1, <3>2, <4>1, <4>5 DEF P!AskedFits
    <3>5. \A a \in batch'.todo, f \in File :
            ~P!HoldsAny(locks'[f], a) /\ ~P!Queued(locks'[f], a)
      BY <3>1, <3>4
    <3>6. tasks' = {} => \A a \in Agent \ terminal' : P!Barred(a)'
      BY <1>1, <2>1, <3>1, <3>3 DEF PassFits
    <3>7. QED
      BY <2>2, <3>5, <3>6 DEF PassFits, P!HoldsAny, P!Queued
  <2>3. CASE UNCHANGED <<composer, terminal>> /\ pc' = "stall"
    BY <1>1, <2>1, <2>3, BarredSame DEF PassFits, composer
  <2>4. QED
    BY <1>8, <2>2, <2>3 DEF FailBlocked, Goto
<1>9. CASE FailBlockedAgent
  <2>1. pc = "failing" /\ tasks' = tasks /\ terminal' = terminal
    BY <1>9 DEF FailBlockedAgent
  <2>2. ASSUME NEW a \in Agent, C!FailOne(a), pc' = "failing"
        PROVE  PassFits'
    <3>1. P!Finish(a, "Failed") /\ a \in batch.todo /\ batch'.todo = batch.todo \ {a}
      BY <1>1, <2>2, SameComposer, TakeNextEffect DEF P!FailOne
    <3>2. \A f \in File : ~P!HoldsAny(locks[f], a)
      BY <1>1, <2>1, <3>1 DEF PassFits
    <3>3. \A c \in Agent : P!Barred(c) => P!Barred(c)'
      BY <1>1, <3>1, <3>2, P!BarredWhileFailed, Assumptions
    <3>4. P!TableStep(a)
      BY <1>1, <3>1, P!ReleasedTable, Assumptions DEF P!IInv, P!Finish
    <3>5. batch.todo \subseteq Agent
      BY <1>1 DEF P!TypeOK, P!Batch
    <3>6. \A b \in batch'.todo, f \in File :
            ~P!HoldsAny(locks'[f], b) /\ ~P!Queued(locks'[f], b)
      BY <1>1, <2>1, <3>1, <3>4, <3>5 DEF PassFits, P!TableStep, P!Undisturbed
    <3>7. tasks' = {} => \A c \in Agent \ terminal' : P!Barred(c)'
      BY <1>1, <2>1, <3>3 DEF PassFits
    <3>8. QED
      BY <2>2, <3>6, <3>7 DEF PassFits, P!HoldsAny, P!Queued
  <2>3. CASE pc' = "stall" /\ UNCHANGED composer
    BY <1>1, <2>1, <2>3, BarredSame DEF PassFits, composer
  <2>4. QED
    BY <1>9, <2>2, <2>3 DEF FailBlockedAgent, Goto
<1>10. CASE ClientActs \/ (\E command \in Command : Type(command)) \/ UNCHANGED vars
  BY <1>2, <1>10 DEF ClientActs, Type, vars, composer
<1>11. CASE \/ Claim \/ ClaimFails \/ ApplyControl \/ ControlsApplied \/ Drain \/ CancelRun
            \/ CheckStall \/ FailStalled \/ PersistFailures \/ Exit \/ SelectCommand
            \/ SelectTimeout \/ JoinAny \/ JoinError \/ FailAborted \/ Die
  BY <1>3, <1>11 DEF Claim, ClaimFails, ApplyControl, ControlsApplied, Drain, CancelRun,
     CheckStall, FailStalled, PersistFailures, Exit, SelectCommand, SelectTimeout, JoinAny,
     Join, JoinError, FailAborted, Die, Goto
<1>12. QED
  BY <1>4, <1>5, <1>6, <1>7, <1>8, <1>9, <1>10, <1>11 DEF Next, Loop

-----------------------------------------------------------------------------
(* The records, and what the clients and the user leave the loop.          *)
LEMMA TypesKept ==
  ASSUME Inv, [Next]_vars, P!TypeOK'
  PROVE  RunTypeOK' /\ ClientsFit'
<1>1. /\ RunTypeOK /\ ControlsTypeOK /\ ClientsFit /\ P!TypeOK
      /\ MaxCommands \in Nat /\ stored \in StoredStatus
  BY RunAssumption DEF Inv, RunTypeOK, ControlsTypeOK, P!IInv
<1>2. ASSUME NEW status \in StoredStatus, Persist(status)
      PROVE  stored' \in StoredStatus
  BY <1>2 DEF Persist
<1>3. ASSUME PersistOwn
      PROVE  stored' \in StoredStatus
  BY <1>3 DEF PersistOwn, StoredStatus, Final
<1>4. "Running" \in StoredStatus /\ "Paused" \in StoredStatus /\ "Cancelled" \in StoredStatus
      /\ Merged \in StoredStatus
  BY DEF StoredStatus, Merged
<1>5. ASSUME UNCHANGED <<controls, client>>, stored' \in StoredStatus
      PROVE  ControlsTypeOK' /\ ClientsFit'
  BY <1>1, <1>5, OwnerKeeps
<1>6. CASE Claim \/ ClaimFails
  <2>1. ControlsTypeOK' /\ ClientsFit'
    BY <1>1, <1>5, <1>6, OwnerKeeps DEF Claim, ClaimFails, outside
  <2>2. QED
    BY <1>1, <1>6, <2>1 DEF Claim, ClaimFails, RunTypeOK, Goto, Pc, user
<1>7. CASE ApplyControl
  <2>1. ControlsTypeOK' /\ ClientsFit'
    BY <1>1, <1>7, OwnerKeeps DEF ApplyControl, NextClaimed
  <2>2. QED
    BY <1>1, <1>7, <2>1 DEF ApplyControl, RunTypeOK, user
<1>8. CASE HandleCommand /\ pc' \in Pc
  <2>1. stored' \in StoredStatus /\ paused' \in BOOLEAN /\ cancelled' \in BOOLEAN
    BY <1>1, <1>4, <1>8 DEF HandleCommand, Persist, RunTypeOK
  <2>2. ControlsTypeOK' /\ ClientsFit'
    BY <1>5, <1>8, <2>1 DEF HandleCommand
  <2>3. inbox' \in Seq(Command)
    BY <1>1, <1>8 DEF HandleCommand, RunTypeOK
  <2>4. QED
    BY <1>1, <1>8, <2>1, <2>2, <2>3 DEF HandleCommand, RunTypeOK
<1>9. CASE Drain \/ SelectCommand
  BY <1>1, <1>8, <1>9 DEF Drain, SelectCommand, RunTypeOK, Goto, Pc
<1>10. ASSUME UNCHANGED <<controls, client, user, paused, cancelled>>, stored' \in StoredStatus,
              pc' \in Pc, todo' \in SUBSET Agent, dirty' \in BOOLEAN,
              spawned' \in SUBSET Agent, terminal' \in SUBSET Agent, tasks' \in SUBSET Agent
       PROVE  RunTypeOK' /\ ClientsFit'
  BY <1>1, <1>5, <1>10 DEF RunTypeOK, user
<1>11. CASE \/ ControlsApplied \/ Check \/ CheckStall \/ Exit \/ SelectTimeout
            \/ JoinError \/ Die
  <2>1. pc' \in Pc
    BY <1>11 DEF ControlsApplied, Check, CheckStall, Exit, SelectTimeout, JoinError, Die, Goto,
       Pc, Ended
  <2>2. stored' \in StoredStatus
    BY <1>1, <1>4, <1>11 DEF ControlsApplied, Check, CheckStall, Exit, SelectTimeout, JoinError,
       Die, Persist, outside
  <2>3. UNCHANGED <<controls, client, user, paused, cancelled, spawned, terminal>>
    BY <1>11 DEF ControlsApplied, Check, CheckStall, Exit, SelectTimeout, JoinError, Die, outside
  <2>4. todo' \in SUBSET Agent /\ tasks' \in SUBSET Agent
    BY <1>1, <1>11 DEF ControlsApplied, Check, CheckStall, Exit, SelectTimeout, JoinError, Die,
       RunTypeOK, Unstarted, InFlight
  <2>5. dirty' \in BOOLEAN
    BY <1>1, <1>11 DEF ControlsApplied, Check, CheckStall, Exit, SelectTimeout, JoinError, Die,
       RunTypeOK
  <2>6. QED
    BY <1>1, <1>10, <2>1, <2>2, <2>3, <2>4, <2>5 DEF RunTypeOK
<1>12. CASE CancelRun \/ PersistFailures
  <2>1. pc' \in Pc
    BY <1>1, <1>12 DEF CancelRun, PersistFailures, Goto, Pc, Ended, RunTypeOK
  <2>2. stored' \in StoredStatus
    BY <1>1, <1>3, <1>4, <1>12 DEF CancelRun, PersistFailures, Persist
  <2>3. QED
    BY <1>1, <1>10, <1>12, <2>1, <2>2 DEF CancelRun, PersistFailures, RunTypeOK
<1>13. ASSUME NEW a \in Agent, StartReady(a) \/ StartRefused(a) \/ StartHeldBack(a)
       PROVE  RunTypeOK' /\ ClientsFit'
  BY <1>1, <1>4, <1>10, <1>13 DEF StartReady, StartRefused, StartHeldBack, TakeTodo, RunTypeOK,
     Persist
<1>14. CASE FailBlocked \/ FailBlockedAgent
  <2>1. C!Doomed \subseteq Agent
    BY SameComposer DEF P!Doomed
  <2>2. QED
    BY <1>1, <1>10, <1>14, <2>1 DEF FailBlocked, FailBlockedAgent, CountedTerminal, Goto, Pc,
       RunTypeOK, outside
<1>15. CASE FailStalled
  BY <1>1, <1>10, <1>15 DEF FailStalled, TakeTodo, FinishAgent, Goto, Pc, RunTypeOK, outside
<1>16. ASSUME NEW a \in Agent, Join(a)
       PROVE  RunTypeOK' /\ ClientsFit'
  BY <1>1, <1>3, <1>10, <1>16 DEF Join, FinishExecution, FinishAgent, Goto, Pc, RunTypeOK
<1>17. CASE FailAborted
  BY <1>1, <1>3, <1>10, <1>17 DEF FailAborted, TakeTodo, FinishExecution, FinishAgent, Goto, Pc,
     RunTypeOK
<1>18. ASSUME NEW command \in Command, Type(command)
       PROVE  RunTypeOK' /\ ClientsFit'
  <2>1. ControlsTypeOK' /\ ClientsFit'
    BY <1>1, <1>5, <1>18 DEF Type, outside
  <2>2. inbox' \in Seq(Command) /\ typed' \in 0..MaxCommands
    BY <1>1, <1>18 DEF Type, RunTypeOK
  <2>3. QED
    BY <1>1, <1>18, <2>1, <2>2 DEF Type, RunTypeOK
<1>19. CASE ClientActs
  <2>1. ControlsTypeOK' /\ ClientsFit'
    BY <1>1, <1>19, ClientKeeps DEF ClientActs
  <2>2. QED
    BY <1>1, <1>19, <2>1 DEF ClientActs, RunTypeOK, user
<1>20. CASE UNCHANGED vars
  BY <1>1, <1>10, <1>20 DEF vars, outside, RunTypeOK
<1>21. QED
  BY <1>6, <1>7, <1>9, <1>11, <1>12, <1>13, <1>14, <1>15, <1>16, <1>17, <1>18, <1>19, <1>20
  DEF Next, Loop, JoinAny

LEMMA FlagsKept ==
  ASSUME Inv, [Next]_vars
  PROVE  FlagsFit'
<1>1. FlagsFit /\ RunTypeOK /\ ControlsTypeOK /\ ClientsFit /\ typed \in Nat
  BY RunAssumption DEF Inv, RunTypeOK
<1>2. ASSUME UNCHANGED <<controls, paused, cancelled, typed, inbox>>,
             pc' \notin {"apply", "dead"} => pc \notin {"apply", "dead"} \/ Claimed = {},
             pc' = "start" => ~paused /\ ~cancelled
      PROVE  FlagsFit'
  BY <1>1, <1>2 DEF FlagsFit, Claimed, Obeyed
<1>3. CASE Claim
  <2>1. /\ pc' = "apply" /\ ClaimPending
        /\ UNCHANGED <<paused, cancelled, typed, inbox>>
    BY <1>3 DEF Claim, Goto, user
  <2>2. /\ DOMAIN controls' = DOMAIN controls
        /\ \A i \in DOMAIN controls :
             /\ Obeyed(i) \/ controls'[i].status = "applied" => controls'[i] = controls[i]
    <3>1. \A i \in DOMAIN controls : controls[i] \in Control
      BY <1>1 DEF ControlsTypeOK
    <3>2. QED
      BY <2>1, <3>1 DEF ClaimPending, Obeyed, Control
  <2>3. QED
    BY <1>1, <2>1, <2>2 DEF FlagsFit, Obeyed
<1>4. CASE ApplyControl
  <2>1. PICK i \in Claimed :
          /\ paused' = CASE controls[i].kind = "Pause" -> TRUE
                         [] controls[i].kind = "Resume" -> FALSE
                         [] OTHER -> paused
          /\ cancelled' = (cancelled \/ controls[i].kind = "Cancel")
          /\ MarkApplied(i)
    BY <1>4 DEF ApplyControl, NextClaimed
  <2>2. pc = "apply" /\ pc' = pc /\ UNCHANGED <<typed, inbox>>
    BY <1>4 DEF ApplyControl, user
  <2>3. i \in DOMAIN controls /\ \A j \in DOMAIN controls : controls[j] \in Control
    BY <1>1 DEF ControlsTypeOK, Claimed
  <2>4. /\ DOMAIN controls' = DOMAIN controls
        /\ \A j \in DOMAIN controls : controls'[j].kind = controls[j].kind
        /\ \A j \in DOMAIN controls \ {i} : controls'[j] = controls[j]
        /\ controls'[i].status = "applied"
    BY <2>1, <2>3 DEF MarkApplied, Control
  <2>5. \A j \in DOMAIN controls : Obeyed(j) => Obeyed(j)'
    BY <2>4 DEF Obeyed
  <2>6. Obeyed(i)'
    BY <2>4 DEF Obeyed
  <2>7. ASSUME NEW j \in DOMAIN controls, controls'[j].status = "applied"
        PROVE  /\ controls[j].kind = "Cancel" => cancelled'
               /\ controls[j].kind = "Pause" =>
                    \/ paused'
                    \/ typed # 0
                    \/ \E k \in DOMAIN controls : Obeyed(k)' /\ controls[k].kind = "Resume"
    <3>1. CASE j = i
      BY <2>1, <3>1
    <3>2. CASE j # i
      <4>1. controls[j].status = "applied"
        BY <2>4, <2>7, <3>2
      <4>2. /\ controls[j].kind = "Cancel" => cancelled
            /\ controls[j].kind = "Pause" =>
                 \/ paused
                 \/ typed # 0
                 \/ \E k \in DOMAIN controls : Obeyed(k) /\ controls[k].kind = "Resume"
        BY <1>1, <4>1 DEF FlagsFit
      <4>3. paused => paused' \/ controls[i].kind = "Resume"
        BY <2>1
      <4>4. QED
        BY <2>1, <2>3, <2>5, <2>6, <4>2, <4>3
    <3>3. QED
      BY <3>1, <3>2
  <2>8. QED
    BY <1>1, <2>2, <2>4, <2>7 DEF FlagsFit, Obeyed
<1>5. CASE HandleCommand /\ pc' \in {"drain", "claim"} /\ pc \in {"drain", "select"}
  <2>1. typed # 0 /\ typed' = typed /\ controls' = controls /\ (cancelled => cancelled')
    BY <1>1, <1>5 DEF HandleCommand, FlagsFit
  <2>2. QED
    BY <1>1, <1>5, <2>1 DEF FlagsFit, Claimed
<1>6. CASE Drain \/ SelectCommand
  BY <1>5, <1>6 DEF Drain, SelectCommand, Goto
<1>7. ASSUME NEW command \in Command, Type(command)
      PROVE  FlagsFit'
  <2>1. typed' # 0 /\ UNCHANGED <<controls, paused, cancelled, pc>>
    BY <1>1, <1>7 DEF Type, outside
  <2>2. QED
    BY <1>1, <2>1 DEF FlagsFit, Claimed
<1>8. CASE ClientActs
  <2>1. ClaimedKept /\ UNCHANGED <<paused, cancelled, typed, inbox, pc>>
    BY <1>1, <1>8, ClientKeeps DEF ClientActs, user
  <2>2. pc \notin {"apply", "dead"} => Claimed' = {}
    BY <1>1, <2>1 DEF FlagsFit, Claimed, ClaimedKept
  <2>3. \A j \in DOMAIN controls :
          Obeyed(j) => j \in DOMAIN controls' /\ Obeyed(j)' /\ controls'[j] = controls[j]
    BY <2>1 DEF ClaimedKept, Obeyed
  <2>4. \A j \in DOMAIN controls' :
          controls'[j].status = "applied" => j \in DOMAIN controls /\ controls'[j] = controls[j]
    BY <2>1 DEF ClaimedKept
  <2>5. QED
    BY <1>1, <2>1, <2>2, <2>3, <2>4 DEF FlagsFit, Obeyed
<1>9. CASE Check
  BY <1>2, <1>9 DEF Check, Cancels, Starts, outside, user, Goto
<1>10. CASE Die
  BY <1>2, <1>10 DEF Die, outside, user, Goto
<1>11. CASE ControlsApplied
  BY <1>2, <1>11 DEF ControlsApplied, outside, user, Goto
<1>12. ASSUME NEW a \in Agent,
              StartReady(a) \/ StartRefused(a) \/ StartHeldBack(a) \/ Join(a)
       PROVE  FlagsFit'
  BY <1>1, <1>2, <1>12 DEF StartReady, StartRefused, StartHeldBack, Join, user, FlagsFit, Goto
<1>13. CASE \/ ClaimFails \/ CancelRun \/ FailBlocked \/ FailBlockedAgent \/ CheckStall
            \/ FailStalled \/ PersistFailures \/ Exit \/ SelectTimeout \/ JoinError
            \/ FailAborted
  BY <1>2, <1>13 DEF ClaimFails, CancelRun, FailBlocked, FailBlockedAgent, CheckStall,
     FailStalled, PersistFailures, Exit, SelectTimeout, JoinError, FailAborted, outside, user,
     Goto
<1>14. CASE UNCHANGED vars
  BY <1>1, <1>2, <1>14 DEF vars, outside, user, FlagsFit
<1>15. QED
  BY <1>3, <1>4, <1>6, <1>7, <1>8, <1>9, <1>10, <1>11, <1>12, <1>13, <1>14
  DEF Next, Loop, JoinAny

-----------------------------------------------------------------------------
LEMMA RunInitial == Init => Inv
<1> SUFFICES ASSUME Init
             PROVE  Inv
  OBVIOUS
<1>1. P!Init
  BY SameComposer DEF Init
<1>2. P!IInv /\ P!ModesFit /\ P!AskedFits
  BY <1>1, P!Initial, P!LocksInitially, Assumptions
<1>3. /\ stored = "Running" /\ controls = <<>> /\ client = [c \in Client |-> NoRequest]
      /\ DOMAIN controls = {}
  BY DEF Init, ControlsInit
<1>4. ControlsTypeOK /\ ClientsFit
  BY <1>3 DEF ControlsTypeOK, ClientsFit, StoredStatus, Request, NoRequest
<1>5. RunTypeOK
  <2>1. inbox \in Seq(Command) /\ typed \in 0..MaxCommands
    BY RunAssumption DEF Init
  <2>2. QED
    BY <1>4, <2>1 DEF Init, RunTypeOK, Pc
<1>6. FlagsFit
  BY <1>3 DEF Init, FlagsFit, Claimed
<1>7. CallsFit /\ BooksFit /\ CancelFits /\ PassFits
  BY <1>1 DEF Init, P!Init, P!NoBatch, CallsFit, BooksFit, CancelFits, PassFits, P!Running
<1>8. QED
  BY <1>2, <1>4, <1>5, <1>6, <1>7 DEF Inv

LEMMA RunInductive == Inv /\ [Next]_vars => Inv'
<1> SUFFICES ASSUME Inv, [Next]_vars
             PROVE  Inv'
  OBVIOUS
<1>1. [P!Next]_(P!vars) /\ P!IInv /\ P!ModesFit /\ P!AskedFits
  BY ProtocolStep DEF Inv
<1>2. P!IInv'
  BY <1>1, P!Inductive, Assumptions
<1>3. P!ModesFit' /\ P!AskedFits'
  BY <1>1, P!ModesKept, P!AskedKept, Assumptions
<1>4. RunTypeOK' /\ ClientsFit'
  BY <1>2, TypesKept DEF P!IInv
<1>5. Places' /\ PassFits' /\ FlagsFit'
  BY PlacesKept, PassKept, FlagsKept
<1>6. QED
  BY <1>2, <1>3, <1>4, <1>5 DEF Inv, Places

LEMMA RunInvariance == Spec => []Inv
BY RunInitial, RunInductive, PTL DEF Spec

(* The loop uses the composer as the composer expects: the refinement, and *)
(* with it everything that is proved of Composer holds of the run.         *)
LEMMA KeepsProtocol == Spec => ComposerProtocol
<1>1. Init => C!Init
  BY DEF Init
<1>2. Inv /\ [Next]_vars => [C!Next]_(C!vars)
  BY ProtocolStep, SameComposer DEF C!vars, P!vars
<1>3. QED
  BY <1>1, <1>2, RunInvariance, PTL DEF Spec, ComposerProtocol, C!Spec

(* No agent is started against a command that was claimed.                 *)
LEMMA KeepsPause == Spec => PauseStopsStarts
<1>1. Inv /\ [Next]_vars =>
        [spawned' # spawned =>
           \A i \in DOMAIN controls : Obeyed(i) =>
             \/ controls[i].kind = "Resume"
             \/ /\ controls[i].kind = "Pause"
                /\ \/ typed # 0
                   \/ \E j \in DOMAIN controls :
                        Obeyed(j) /\ controls[j].kind = "Resume"]_vars
  <2> SUFFICES ASSUME Inv, [Next]_vars, spawned' # spawned,
                      NEW i \in DOMAIN controls, Obeyed(i)
               PROVE  \/ controls[i].kind = "Resume"
                      \/ /\ controls[i].kind = "Pause"
                         /\ \/ typed # 0
                            \/ \E j \in DOMAIN controls :
                                 Obeyed(j) /\ controls[j].kind = "Resume"
    OBVIOUS
  <2>1. pc = "start"
    BY DEF Next, Loop, JoinAny, Claim, ClaimFails, ApplyControl, ControlsApplied, Drain, Check,
       CancelRun, StartReady, StartRefused, StartHeldBack, FailBlocked, FailBlockedAgent,
       CheckStall, FailStalled, PersistFailures, Exit, SelectCommand, SelectTimeout,
       FailAborted, Join, JoinError, Die, Type, ClientActs, HandleCommand, vars
  <2>2. FlagsFit /\ controls \in Seq(Control)
    BY DEF Inv, RunTypeOK, ControlsTypeOK
  <2>3. ~paused /\ ~cancelled /\ controls[i].status = "applied"
    BY <2>1, <2>2 DEF FlagsFit, Obeyed, Claimed
  <2>4. controls[i].kind \in Kind
    <3>1. controls[i] \in Control
      BY <2>2
    <3>2. QED
      BY <3>1 DEF Control
  <2>5. QED
    BY <2>2, <2>3, <2>4 DEF FlagsFit, Kind
<1>2. QED
  BY <1>1, RunInvariance, PTL DEF Spec, PauseStopsStarts

(* Whatever the TUI's loop calls is an operation the composer offers at    *)
(* that moment, and no agent starts between a pause and the resume after   *)
(* it (run_loop in runner.rs).                                             *)
THEOREM Obedient == Spec => LoopObeys
BY KeepsProtocol, KeepsPause, PTL DEF LoopObeys

(* The books of the loop are those of the composer, an agent is failed for *)
(* a stall only if it could not run, and a run that ends leaves nothing.   *)
THEOREM Sound == Spec => []LoopIsSound
<1>1. Inv => LoopIsSound
  <2> SUFFICES ASSUME Inv
               PROVE  LoopIsSound
    OBVIOUS
  <2>1. BooksAgree
    BY SameComposer DEF Inv, BooksAgree, BooksFit, P!Running, P!Terminal
  <2>2. StallIsReal
    <3> SUFFICES ASSUME pc = "stall", Stalled, NEW a \in Agent \ terminal
                 PROVE  ~C!CanStart(a)
      BY DEF StallIsReal
    <3>1. P!IInv /\ P!Barred(a)
      BY DEF Inv, PassFits, Stalled
    <3>2. QED
      BY <3>1, SameComposer, P!BarredCannotStart, Assumptions
  <2>3. NothingLeftBehind
    <3> SUFFICES ASSUME pc \in {"finished", "cancelled"}
                 PROVE  /\ \A a \in Agent : phase[a] \in C!Terminal
                        /\ \A f \in File : locks[f] = C!NoLocks
      BY DEF NothingLeftBehind
    <3>1. \A a \in Agent : phase[a] \in P!Terminal
      BY DEF Inv, BooksFit, CancelFits, P!Terminal
    <3>2. P!IInv
      BY DEF Inv
    <3>3. \A f \in File : locks[f] = P!NoLocks
      BY <3>1, <3>2, P!NothingLocked, Assumptions
    <3>4. QED
      BY <3>1, <3>3, SameComposer
  <2>4. QED
    BY <2>1, <2>2, <2>3 DEF Inv, LoopIsSound
<1>2. QED
  BY <1>1, RunInvariance, PTL

=============================================================================
