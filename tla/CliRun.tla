------------------------------- MODULE CliRun -------------------------------
(***************************************************************************)
(* A run owned by the CLI: run_orchestrated (odin-cli/src/app.rs) drives   *)
(* the Composer, spawns the executions into an AgentTaskSet, claims the    *)
(* control commands of other processes, and persists the run.  Unlike the  *)
(* TUI's loop it stores the composer's own status of the graph, does not   *)
(* fail the dependents of a failed agent, and answers an error of the      *)
(* store with a recovery.                                                  *)
(*                                                                         *)
(* The steps are cut at the awaits of the store.  An execution, with its   *)
(* retries, ends in success or not; that is seen when it is joined.  There *)
(* is no step for a kill of the process: nothing but the store survives    *)
(* it, and every prefix of a behaviour stands for one.                     *)
(***************************************************************************)
EXTENDS RunControls, FiniteSets

CONSTANTS
  Agent, File, Writes, Reads, Edges, MaxParallel,   \* those of Composer
  MaybeUnscoped     \* agents with a tool that may not be registered

ASSUME RunAssumption ==
  /\ IsFiniteSet(Agent)
  /\ Writes \in [Agent -> Seq(File)]
  /\ Reads \in [Agent -> Seq(File)]
  /\ Edges \subseteq Agent \X Agent
  /\ MaxParallel \in Nat \ {0}
  /\ MaybeUnscoped \subseteq Agent

VARIABLES
  locks, phase, life, held, node, graph, batch,     \* those of Composer
  pc,          \* where run_orchestrated is
  todo,        \* the agents a loop over agents has still to handle
  paused, cancelled, spawned, terminal,             \* as in the code
  tasks,       \* agent_handles: the agents whose execution was not joined
  unscoped     \* the agents whose tools tool_registry.scoped refuses

C == INSTANCE Composer

composer == <<locks, phase, life, held, node, graph, batch>>
outside == <<stored, controls, client, unscoped>>
books == <<paused, cancelled, spawned, terminal>>
vars == <<composer, outside, pc, todo, books, tasks>>

Ended == {"finished", "failed"}
Pc == {"claim", "apply", "cancel", "start", "idle", "stuck", "select",
       "recover", "report"} \cup Ended

RunTypeOK ==
  /\ ControlsTypeOK
  /\ pc \in Pc
  /\ {todo, spawned, terminal, tasks, unscoped} \subseteq SUBSET Agent
  /\ {paused, cancelled} \subseteq BOOLEAN

Init ==
  /\ C!Init
  /\ ControlsInit
  /\ pc = "claim"
  /\ todo = {}
  /\ paused = FALSE
  /\ cancelled = FALSE
  /\ spawned = {}
  /\ terminal = {}
  /\ tasks = {}
  /\ unscoped \in SUBSET MaybeUnscoped

-----------------------------------------------------------------------------
Goto(label) == pc' = label

(* save_task_graph between two other writes, in persist_orchestration_state *)
(* and where the loop saves by itself: the status stored is the graph's.   *)
(* An error of any of the writes leaves the loop by `?`.                   *)
SaveAndGotoRunning(label) ==   \* mutant: the status of a graph that runs
  \/ stored' = (IF graph' \in Final THEN graph' ELSE "Running") /\ Goto(label)
  \/ stored' \in {stored, graph'} /\ Goto("recover")

SaveAndGoto(label) ==
  \/ stored' = graph' /\ Goto(label)
  \/ stored' \in {stored, graph'} /\ Goto("recover")

Claim ==
  /\ pc = "claim"
  /\ terminal # Agent
  /\ \/ ClaimPending /\ Goto("apply")
     \/ UNCHANGED controls /\ Goto("recover")
  /\ UNCHANGED <<composer, stored, client, unscoped, todo, books, tasks>>

ApplyControl ==
  /\ pc = "apply"
  /\ \E i \in DOMAIN controls :
       /\ NextClaimed(i)
       /\ paused' = CASE controls[i].kind = "Pause" -> TRUE
                      [] controls[i].kind = "Resume" -> FALSE
                      [] OTHER -> paused
       /\ cancelled' = (cancelled \/ controls[i].kind = "Cancel")
       /\ C!SetGraphStatus(StatusFor[controls[i].kind])
       /\ SaveAndGoto("apply")
       /\ MarkApplied(i) \/ (pc' = "recover" /\ UNCHANGED controls)
  /\ UNCHANGED <<client, unscoped, todo, spawned, terminal, tasks>>

(* A cancel is looked at first; a pause keeps the pass over the agents     *)
(* from starting any.                                                      *)
Unstarted == Agent \ (spawned \cup terminal)

PassOfAll == Unstarted   \* mutant
Pass == IF paused THEN {} ELSE Unstarted

CancelsUnlessPaused == cancelled /\ ~paused   \* mutant
Cancels == cancelled

ControlsApplied ==
  /\ pc = "apply"
  /\ Claimed = {}
  /\ \/ /\ Cancels
        /\ tasks' = {}
        /\ C!CancelAll
        /\ Goto("cancel")
        /\ UNCHANGED todo
     \/ /\ ~Cancels
        /\ todo' = Pass
        /\ Goto("start")
        /\ UNCHANGED <<composer, tasks>>
  /\ UNCHANGED <<outside, books>>

(* cancel_all, then every agent is persisted, errors or not.               *)
CancelRun ==
  /\ pc = "cancel"
  /\ \/ /\ \E a \in Agent : C!CancelOne(a)
        /\ UNCHANGED <<pc, stored>>
     \/ /\ C!Idle
        /\ stored' \in {stored, graph}
        /\ Goto("report")
        /\ UNCHANGED composer
  /\ UNCHANGED <<controls, client, unscoped, todo, books, tasks>>

-----------------------------------------------------------------------------
TakeTodo(a) == a \in todo /\ todo' = todo \ {a}

(* complete_agent and fail_agent ask nothing of the agent's phase.         *)
FinishAgent(a, status) ==
  /\ C!Finish(a, status)
  /\ UNCHANGED batch

EndAgentUncounted(a, status) ==   \* mutant
  /\ FinishAgent(a, status)
  /\ UNCHANGED terminal

EndAgent(a, status) ==
  /\ FinishAgent(a, status)
  /\ terminal' = terminal \cup {a}

FailScope(a) ==
  /\ pc = "start"
  /\ TakeTodo(a)
  /\ a \in unscoped
  /\ EndAgent(a, "Failed")
  /\ SaveAndGoto("start")
  /\ UNCHANGED <<controls, client, unscoped, paused, cancelled, spawned, tasks>>

(* The agent is started before its state is saved, its execution spawned   *)
(* afterwards.                                                             *)
StartReady(a) ==
  /\ pc = "start"
  /\ TakeTodo(a)
  /\ a \notin unscoped
  /\ C!CanStart(a)
  /\ C!Start(a)
  /\ spawned' = spawned \cup {a}
  /\ SaveAndGoto("start")
  /\ tasks' = IF pc' = "start" THEN tasks \cup {a} ELSE tasks
  /\ UNCHANGED <<controls, client, unscoped, paused, cancelled, terminal>>

(* A refusal is saved whether it changed anything or not.                  *)
StartRefused(a) ==
  /\ pc = "start"
  /\ TakeTodo(a)
  /\ a \notin unscoped
  /\ \/ ~C!CanStart(a) /\ C!Start(a)
     \/ ~C!MayStart(a) /\ UNCHANGED composer
  /\ SaveAndGoto("start")
  /\ UNCHANGED <<controls, client, unscoped, books, tasks>>

PassEnds ==
  /\ pc = "start"
  /\ todo = {}
  /\ Goto("idle")
  /\ UNCHANGED <<composer, outside, todo, books, tasks>>

(* With no execution left a paused loop sleeps; another one fails what it  *)
(* could not start, and leaves.                                            *)
Waits == paused

Idles ==
  /\ pc = "idle"
  /\ IF tasks # {} THEN Goto("select") /\ UNCHANGED todo
     ELSE IF Waits THEN Goto("claim") /\ UNCHANGED todo
     ELSE Goto("stuck") /\ todo' = Unstarted
  /\ UNCHANGED <<composer, outside, books, tasks>>

FailStuck ==
  /\ pc = "stuck"
  /\ \/ \E a \in Agent :
          /\ TakeTodo(a)
          /\ EndAgent(a, "Failed")
          /\ SaveAndGoto("stuck")
     \/ /\ todo = {}
        /\ Goto("report")
        /\ UNCHANGED <<composer, stored, todo, terminal>>
  /\ UNCHANGED <<controls, client, unscoped, paused, cancelled, spawned, tasks>>

SelectTimeout ==
  /\ pc = "select"
  /\ Goto("claim")
  /\ UNCHANGED <<composer, outside, todo, books, tasks>>

(* An execution that has no result, or whose task failed, fails its agent. *)
Join(a) ==
  /\ pc = "select"
  /\ a \in tasks
  /\ tasks' = tasks \ {a}
  /\ \E status \in {"Done", "Failed"} : EndAgent(a, status)
  /\ SaveAndGoto("claim")
  /\ UNCHANGED <<controls, client, unscoped, todo, paused, cancelled, spawned>>

-----------------------------------------------------------------------------
AllTerminal ==
  /\ pc = "claim"
  /\ terminal = Agent
  /\ Goto("report")
  /\ UNCHANGED <<composer, outside, todo, books, tasks>>

(* The result is merged and printed; of what is saved here only the lock   *)
(* snapshot is new.                                                        *)
Report ==
  /\ pc = "report"
  /\ Goto("finished")
  /\ UNCHANGED <<composer, outside, todo, books, tasks>>

(* recover_failed_orchestration: the executions are aborted, then what has *)
(* not ended is failed, then everything is saved, as far as it can be.     *)
Unfinished == {a \in Agent : life[a] \notin C!Terminal}

Recover ==
  /\ pc = "recover"
  /\ tasks' = {}
  /\ \/ /\ \E a \in Unfinished : FinishAgent(a, "Failed")
        /\ UNCHANGED <<stored, pc>>
     \/ /\ Unfinished = {}
        /\ stored' \in {stored, graph}
        /\ Goto("failed")
        /\ UNCHANGED composer
  /\ UNCHANGED <<controls, client, unscoped, todo, books>>

ClientActs ==
  /\ ClientStep
  /\ UNCHANGED <<composer, unscoped, pc, todo, books, tasks>>

-----------------------------------------------------------------------------
Loop ==
  \/ Claim \/ ApplyControl \/ ControlsApplied \/ CancelRun
  \/ \E a \in Agent : FailScope(a) \/ StartReady(a) \/ StartRefused(a)
  \/ PassEnds \/ Idles \/ FailStuck \/ SelectTimeout
  \/ AllTerminal \/ Report \/ Recover

JoinAny == \E a \in Agent : Join(a)

Next == Loop \/ JoinAny \/ ClientActs

Spec == Init /\ [][Next]_vars

(* The task of the loop is scheduled, and an execution that is polled      *)
(* again and again ends some day.  The clients owe nothing.                *)
FairSpec == Spec /\ WF_vars(Loop) /\ SF_vars(JoinAny)

-----------------------------------------------------------------------------
(* The calls the loop makes, in their order, are a behaviour of Composer.  *)
ComposerProtocol == C!Spec

(* At the top of the loop the executions are those of the agents that run, *)
(* and the agents counted as terminal are those that are.                  *)
BooksAgree ==
  pc \in {"claim", "select"} =>
    /\ tasks = {a \in Agent : phase[a] = "Running"}
    /\ terminal = {a \in Agent : phase[a] \in C!Terminal}
    /\ tasks \subseteq spawned

(* Agents are given up only if none of them could run, although the loop   *)
(* looked at each only once and earlier refusals moved locks.              *)
StallIsReal ==
  pc = "idle" /\ tasks = {} /\ ~paused => \A a \in Agent \ terminal : ~C!CanStart(a)

(* However the run ends, by its agents, a cancel, a stall or an error of   *)
(* the store: no agent is left unfinished, no execution alive, no file     *)
(* locked.                                                                 *)
NothingLeftBehind ==
  pc \in {"finished", "failed"} =>
    /\ tasks = {}
    /\ \A a \in Agent : phase[a] \in C!Terminal
    /\ \A f \in File : locks[f] = C!NoLocks

(* A cancel or a pause that was applied holds for every later start, until *)
(* a resume is applied.                                                    *)
PauseStopsStarts ==
  [][spawned' # spawned =>
       \A i \in DOMAIN controls : controls[i].status = "applied" =>
         \/ controls[i].kind = "Resume"
         \/ /\ controls[i].kind = "Pause"
            /\ \E j \in DOMAIN controls :
                 controls[j].status = "applied" /\ controls[j].kind = "Resume"]_vars

(* While a run stays paused its owner does not mark it as running again,   *)
(* whatever executions end meanwhile.                                      *)
PauseStaysStored ==
  [][paused /\ paused' /\ stored = "Paused" /\ client' = client => stored' # "Running"]_vars

(* A run that is not left paused ends.                                     *)
RunEnds == <>(pc \in Ended) \/ <>[]paused

(* An inserted cancel ends the run, whether paused, starting or executing. *)
CancelEnds ==
  (\E i \in DOMAIN controls :
     controls[i].kind = "Cancel" /\ controls[i].status # "created") ~> pc \in Ended

(* The loop's books agree with the composer's, a stall it reports is one,  *)
(* and when it ends nobody runs, waits or holds a file.                    *)
LoopIsSound == RunTypeOK /\ BooksAgree /\ StallIsReal /\ NothingLeftBehind

(* What the loop does to the composer is what the composer offers, and a   *)
(* paused run starts no agent.                                             *)
LoopObeys == ComposerProtocol /\ PauseStopsStarts

(* A run ends, and when it is cancelled it ends although it is paused.     *)
RunsEnd == RunEnds /\ CancelEnds

=============================================================================
