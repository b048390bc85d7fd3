------------------------------- MODULE TuiApp -------------------------------
(***************************************************************************)
(* The terminal application (odin-tui/src/app.rs) and the runs it starts,  *)
(* each a task of its own (odin-tui/src/runner.rs), joined by two          *)
(* unbounded channels: commands go to the run, events come back.  The      *)
(* application holds the ends of one run's channels at a time; it also     *)
(* reads the orchestration store, which the run and other programs write.  *)
(*                                                                         *)
(* One agent stands for all agents of a run and has the run's name.  What  *)
(* happens inside a run is TuiRun's subject; here a run handles commands,  *)
(* reports, and ends in one of the ways it can.  Events that are shown and *)
(* change nothing else are left out.                                       *)
(***************************************************************************)
EXTENDS Naturals, Sequences, FiniteSets, SequencesExt

CONSTANTS
  RunId,
  None,
  MaxInputs,   \* bound: what the user submits or answers
  MaxOutside,  \* bound: controls of other programs that a run applies
  AppFaults    \* bound: failures of the store, and panics

ASSUME AppAssumption ==
  /\ None \notin RunId /\ IsFiniteSet(RunId)
  /\ {MaxInputs, MaxOutside, AppFaults} \subseteq Nat

VARIABLES
  app,      \* the fields of App that this is about
  todo,     \* what run_ui still does before it waits for the next event
  runner,   \* run -> [at, paused, by, cancelled, agent]
  inbox,    \* run -> commands sent and not handled
  events,   \* run -> events sent and not received, while there is a receiver
  stored,   \* run -> the stored phase of its agent, "none" if nothing is
  inputs, outside, faults

appvars == <<app, todo, runner, inbox, events, stored, inputs, outside, faults>>
bounds == <<inputs, outside, faults>>

Idler(at) == [at |-> at, paused |-> FALSE, by |-> "nobody", cancelled |-> FALSE,
              agent |-> "queued"]
AppInit ==
  /\ app = [mode |-> "Idle", tx |-> None, rx |-> None, active |-> None, running |-> {},
            pending |-> None,       \* the run named by the approval asked for
            live |-> [r \in RunId |-> "none"], agents |-> <<>>,
            quiet |-> FALSE,        \* no event for 15 seconds
            warned |-> FALSE]
  /\ todo = <<>>
  /\ runner = [r \in RunId |-> Idler("none")]
  /\ inbox = [r \in RunId |-> <<>>]
  /\ events = [r \in RunId |-> <<>>]
  /\ stored = [r \in RunId |-> "none"]
  /\ inputs = 0 /\ outside = 0 /\ faults = 0

-----------------------------------------------------------------------------
(* The pieces of App.                                                      *)

(* apply_live_agent_overlays: an agent that has reported shows what it     *)
(* reported; one that the store does not know yet is added.                *)
Overlaid(a) ==
  LET seen == {a.agents[i][1] : i \in DOMAIN a.agents}
      unseen == {r \in RunId \ seen : a.live[r] # "none"}
  IN [a EXCEPT !.agents = [i \in DOMAIN @ |-> IF a.live[@[i][1]] = "none" THEN @[i]
                                              ELSE <<@[i][1], a.live[@[i][1]]>>]
                          \o SetToSeq({<<r, a.live[r]>> : r \in unseen})]

OnRunFailed(a, run) ==
  LET left == a.running \ {run}
  IN [a EXCEPT !.running = left, !.tx = None, !.mode = IF left = {} THEN "Idle" ELSE @]

Detached(a, run) ==
  [a EXCEPT !.mode = "Idle", !.running = @ \ {run},
            !.tx = None, !.rx = None, !.active = None]

Terminal(event) == event.kind \in {"RunFinished", "RunCancelled", "FatalError"}

Applied(a, event) ==
  CASE event.kind = "RunStarted" ->
         [a EXCEPT !.active = event.run, !.running = {event.run}, !.mode = "Running"]
    [] event.kind = "AgentStage" -> [a EXCEPT !.live[event.run] = event.stage]
    [] event.kind = "RunPaused" -> [a EXCEPT !.mode = "Paused"]
    [] event.kind = "RunResumed" -> [a EXCEPT !.mode = "Running"]
    [] event.kind \in {"RunFinished", "RunCancelled"} -> Detached(a, event.run)
    [] event.kind = "FatalError" ->
         [OnRunFailed(a, a.active) EXCEPT !.rx = None, !.active = None]
    [] OTHER -> a

ApplyRunnerEvent(event) ==
  app' = Overlaid([Applied(app, event) EXCEPT !.quiet = FALSE, !.warned = FALSE])

(* refresh_orchestration, once the runs are listed: the mode is what the   *)
(* channels say, except that only an event ends a pause.  The agents are   *)
(* those of the active run, or of the run stored last.                     *)
Refreshed(a, run) ==
  LET attached == a.tx # None
  IN Overlaid([a EXCEPT
       !.running = IF attached THEN {a.active} \ {None} ELSE {},
       !.active = IF attached THEN @ ELSE None,
       !.mode = IF ~attached THEN "Idle" ELSE IF @ = "Paused" THEN @ ELSE "Running",
       !.agents = IF run = None THEN <<>> ELSE <<<<run, stored[run]>>>>])

Shows(run) ==
  IF app.active # None THEN run = app.active
  ELSE IF \A r \in RunId : stored[r] = "none" THEN run = None
  ELSE run # None /\ stored[run] # "none"

-----------------------------------------------------------------------------
(* run_ui: one event, then the drains and the refresh that follow it.      *)

HasActiveRun == app.tx # None /\ app.mode \in {"Running", "Paused"}
Gone(r) == runner[r].at \in {"ended", "panicked"}

Input ==
  /\ todo = <<>> /\ inputs < MaxInputs
  /\ inputs' = inputs + 1
  /\ UNCHANGED <<outside, runner, events>>

(* send_runner_command: no sender is no error; a receiver that is gone is, *)
(* and run_ui then calls on_run_failed without naming a run.               *)
Send(command, a, then) ==
  IF app.tx # None /\ Gone(app.tx)
  THEN app' = OnRunFailed(app, None) /\ todo' = <<"drain">> /\ UNCHANGED inbox
  ELSE /\ app' = a /\ todo' = then
       /\ inbox' = IF app.tx = None THEN inbox ELSE [inbox EXCEPT ![app.tx] = Append(@, command)]

Prepared(r) ==   \* spawn_run
  /\ stored' = [stored EXCEPT ![r] = "queued"]
  /\ runner' = [runner EXCEPT ![r].at = "preparing"]
  /\ events' = [s \in RunId |-> <<>>]

(* A run gets a fresh name: which of the unused ones tells nothing.        *)
Unused == CHOOSE r \in RunId : runner[r].at = "none"

SubmitGoal(r) ==
  /\ todo = <<>> /\ inputs < MaxInputs /\ inputs' = inputs + 1
  /\ ~HasActiveRun
  /\ runner[r].at = "none" /\ r = Unused
  /\ LET creating == [app EXCEPT !.mode = "Running", !.live = [s \in RunId |-> "none"],
                                 !.quiet = FALSE, !.warned = FALSE]
     IN \/ /\ Prepared(r)
           /\ app' = [creating EXCEPT !.active = r, !.running = {r}, !.tx = r, !.rx = r]
           /\ todo' = <<"drain", "strict", "drain">>
           /\ UNCHANGED faults
        \/ /\ faults < AppFaults /\ faults' = faults + 1
           /\ app' = OnRunFailed(creating, None)
           /\ todo' = <<"drain">>
           /\ UNCHANGED <<runner, events, stored>>
  /\ UNCHANGED <<inbox, outside>>

Steer ==
  /\ Input /\ HasActiveRun
  /\ Send("Redirect", app, <<"drain">>)
  /\ UNCHANGED <<stored, faults>>

Pause ==
  /\ Input
  /\ Send("Pause", [app EXCEPT !.mode = "Paused"], <<"refresh", "drain">>)
  /\ UNCHANGED <<stored, faults>>

Resume ==
  /\ Input
  /\ Send("Resume", [app EXCEPT !.mode = "Running"], <<"refresh", "drain">>)
  /\ UNCHANGED <<stored, faults>>

Cancel ==   \* asks for approval, naming the run
  /\ Input
  /\ app' = [app EXCEPT !.pending = app.active] /\ todo' = <<"refresh", "drain">>
  /\ UNCHANGED <<inbox, stored, faults>>

ApprovePending ==
  /\ Input /\ app.pending # None
  /\ Send("Cancel", [app EXCEPT !.pending = None], <<"drain">>)
  /\ UNCHANGED <<stored, faults>>

DenyPending ==
  /\ Input /\ app.pending # None
  /\ app' = [app EXCEPT !.pending = None] /\ todo' = <<"drain">>
  /\ UNCHANGED <<inbox, stored, faults>>

NeverStale(a) == a   \* mutant: the tick only redraws
CheckStale(a) == IF a.mode \in {"Running", "Paused"} /\ a.quiet THEN [a EXCEPT !.warned = TRUE] ELSE a

Tick ==
  /\ todo = <<>>
  /\ app' = Overlaid(CheckStale(app))
  /\ todo' = <<"drain", "refresh", "drain">>
  /\ UNCHANGED <<runner, inbox, events, stored, bounds>>

FifteenSeconds ==
  /\ todo = <<>> /\ app.mode # "Idle" /\ ~app.quiet
  /\ app.rx # None => events[app.rx] = <<>>
  /\ app' = [app EXCEPT !.quiet = TRUE]
  /\ UNCHANGED <<todo, runner, inbox, events, stored, bounds>>

(* drain_runner_events: until the channel is empty, or a terminal event.   *)
DrainRunnerEvents ==
  /\ todo # <<>> /\ Head(todo) = "drain"
  /\ IF app.rx = None \/ events[app.rx] = <<>>
     THEN todo' = Tail(todo) /\ UNCHANGED <<app, events>>
     ELSE LET event == Head(events[app.rx])
          IN /\ ApplyRunnerEvent(event)
             /\ events' = [events EXCEPT ![app.rx] = Tail(@)]
             /\ todo' = IF Terminal(event) THEN Tail(todo) ELSE todo
  /\ UNCHANGED <<runner, inbox, stored, bounds>>

(* A store that cannot be opened or listed leaves the rest as it was; one  *)
(* that cannot be initialized is an error, which only submit_goal passes   *)
(* on to run_ui.                                                           *)
RefreshOrchestration ==
  /\ todo # <<>> /\ Head(todo) \in {"refresh", "strict"}
  /\ todo' = Tail(todo)
  /\ \/ /\ \E run \in RunId \cup {None} : Shows(run) /\ app' = Refreshed(app, run)
        /\ UNCHANGED faults
     \/ /\ faults < AppFaults /\ faults' = faults + 1
        /\ \/ app' = app
           \/ app' = Overlaid([app EXCEPT !.agents = <<>>])
           \/ Head(todo) = "strict" /\ app' = OnRunFailed(app, None)
  /\ UNCHANGED <<runner, inbox, events, stored, inputs, outside>>

-----------------------------------------------------------------------------
(* The run's task.                                                         *)

Emit(r, es) == events' = IF app.rx = r THEN [events EXCEPT ![r] = @ \o es] ELSE events
Event(r, kind) == [kind |-> kind, run |-> r]
Stage(r, stage) == [kind |-> "AgentStage", run |-> r, stage |-> stage]
RunEnds(r, how) == runner' = [runner EXCEPT ![r] = Idler(how)] /\ inbox' = [inbox EXCEPT ![r] = <<>>]
Working(r) == runner[r].at = "working"
Free(r) == Working(r) /\ ~runner[r].cancelled

StartLoop(r) ==
  /\ runner[r].at = "preparing"
  /\ runner' = [runner EXCEPT ![r].at = "working"]
  /\ Emit(r, <<Event(r, "RunStarted")>>)
  /\ UNCHANGED <<app, todo, inbox, stored, bounds>>

PauseQuietly(r, paused) ==   \* mutant: the run does not report
  /\ runner' = [runner EXCEPT ![r].paused = paused, ![r].by = "user"]
  /\ events' = events
PausesOrResumes(r, paused) ==
  /\ runner' = [runner EXCEPT ![r].paused = paused, ![r].by = "user"]
  /\ Emit(r, <<Event(r, IF paused THEN "RunPaused" ELSE "RunResumed"),
               Stage(r, IF paused THEN "paused" ELSE "retrying")>>)

HandleCommand(r) ==
  /\ Free(r) /\ inbox[r] # <<>>
  /\ inbox' = [inbox EXCEPT ![r] = Tail(@)]
  /\ CASE Head(inbox[r]) = "Pause" -> PausesOrResumes(r, TRUE)
       [] Head(inbox[r]) = "Resume" -> PausesOrResumes(r, FALSE)
       [] Head(inbox[r]) = "Cancel" ->
            /\ runner' = [runner EXCEPT ![r].cancelled = TRUE]
            /\ Emit(r, <<Stage(r, "cancelled")>>)
       [] OTHER -> UNCHANGED <<runner, events>>
  /\ UNCHANGED <<app, todo, stored, bounds>>

(* A control claimed from the store is shown as a stage of the run, not as *)
(* an event that pauses or resumes it.                                     *)
OutsideControl(r) ==
  /\ Free(r) /\ outside < MaxOutside /\ outside' = outside + 1
  /\ \/ \E paused \in BOOLEAN :
          runner' = [runner EXCEPT ![r].paused = paused, ![r].by = "outside"]
     \/ runner' = [runner EXCEPT ![r].cancelled = TRUE]
  /\ UNCHANGED <<app, todo, inbox, events, stored, inputs, faults>>

AgentWorks(r) ==
  /\ Free(r)
  /\ \/ runner[r].agent = "queued" /\ ~runner[r].paused
        /\ runner' = [runner EXCEPT ![r].agent = "running"]
        /\ stored' = [stored EXCEPT ![r] = "running"]
        /\ Emit(r, <<Stage(r, "planning")>>)
     \/ runner[r].agent = "running"
        /\ runner' = [runner EXCEPT ![r].agent = "done"]
        /\ stored' = [stored EXCEPT ![r] = "done"]
        /\ Emit(r, <<Stage(r, "done")>>)
  /\ UNCHANGED <<app, todo, inbox, bounds>>

Finish(r) ==
  /\ \/ /\ Free(r) /\ runner[r].agent = "done" /\ ~runner[r].paused
        /\ Emit(r, <<Event(r, "RunFinished")>>)
        /\ UNCHANGED stored
     \/ /\ Working(r) /\ runner[r].cancelled
        /\ stored' = [stored EXCEPT ![r] = "cancelled"]
        /\ Emit(r, <<Event(r, "RunCancelled")>>)
  /\ RunEnds(r, "ended")
  /\ UNCHANGED <<app, todo, bounds>>

(* The resources or the store fail, or the task panics and nobody is told. *)
Fail(r) ==
  /\ runner[r].at \in {"preparing", "working"}
  /\ faults < AppFaults /\ faults' = faults + 1
  /\ \/ RunEnds(r, "ended") /\ Emit(r, <<Event(r, "FatalError")>>)
     \/ RunEnds(r, "panicked") /\ UNCHANGED events
  /\ UNCHANGED <<app, todo, stored, inputs, outside>>

RunStep(r) == StartLoop(r) \/ HandleCommand(r) \/ AgentWorks(r) \/ Finish(r)
UiStep == DrainRunnerEvents \/ RefreshOrchestration
UserStep ==
  \/ \E r \in RunId : SubmitGoal(r)
  \/ Steer \/ Pause \/ Resume \/ Cancel \/ ApprovePending \/ DenyPending

AppNext ==
  \/ UserStep \/ Tick \/ FifteenSeconds \/ UiStep
  \/ \E r \in RunId : RunStep(r) \/ OutsideControl(r) \/ Fail(r)

(* The user stops typing (MaxInputs): next() starts its half second anew   *)
(* with every key, so no tick comes while keys keep coming.                *)
AppFairness == WF_appvars(UiStep) /\ WF_appvars(Tick) /\ SF_appvars(FifteenSeconds)
AppSpec == AppInit /\ [][AppNext]_appvars /\ AppFairness

-----------------------------------------------------------------------------
Attached(r) == app.tx = r /\ app.rx = r
Quiescent(r) == todo = <<>> /\ inbox[r] = <<>> /\ events[r] = <<>>

(* Commands and events cross on their way, and the application changes its *)
(* mode before the run has heard: once nothing is under way, the mode is   *)
(* the run's, unless another program paused or resumed it.  A run that     *)
(* ended is attached to nothing.                                           *)
ModeAgrees ==
  \A r \in RunId : Quiescent(r) /\ Attached(r) =>
    /\ runner[r].at = "working" /\ runner[r].by # "outside" =>
         app.mode = IF runner[r].paused THEN "Paused" ELSE "Running"
    /\ runner[r].at # "ended"
    /\ app.running = {r} /\ app.active = r

(* Whatever mixture of events, refreshes and ticks, no agent is listed     *)
(* twice, and one that has reported shows what it reported last.           *)
AgentsListedOnce ==
  /\ \A i, j \in DOMAIN app.agents : app.agents[i][1] = app.agents[j][1] => i = j
  /\ todo = <<>> => \A i \in DOMAIN app.agents :
       app.live[app.agents[i][1]] \in {"none", app.agents[i][2]}

(* A run whose task has died without a word is noticed, once the user      *)
(* leaves the keyboard alone.                                              *)
SilenceIsNoticed ==
  <>[](\A r \in RunId : runner[r].at = "panicked" /\ app.tx = r => app.warned)

(* "If a run is active, the message is sent as steering input to that run  *)
(* instead of creating a disconnected plan" (app.rs:591-592): no message   *)
(* starts a second run.  It does when the refresh that ends submit_goal    *)
(* fails: run_ui then drops the sender of the run that has just begun.     *)
Active(r) == runner[r].at \in {"preparing", "working"}
MessagesSteer == Cardinality({r \in RunId : Active(r)}) <= 1

(* "Approve cancelling run {run}" (app.rs:700): the cancel that is         *)
(* approved goes to the run that was named.                                *)
ApprovalIsForTheRun == [][ApprovePending => app.tx \in {None, app.pending}]_appvars
=============================================================================
