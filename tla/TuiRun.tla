------------------------------- MODULE TuiRun -------------------------------
(***************************************************************************)
(* A run owned by the TUI: run_loop (odin-tui/src/runner.rs) drives the    *)
(* Composer, spawns the executions of the agents into a JoinSet, obeys the *)
(* user's commands and the control commands of other processes, and        *)
(* persists the run.                                                       *)
(*                                                                         *)
(* The loop is one task, so its steps are cut at the awaits of the store,  *)
(* where other processes write to it.  Of what the loop persists, the      *)
(* status of the run is modelled.  What an execution does is not: it ends, *)
(* in success or not, and that is seen when the JoinSet is polled.         *)
(***************************************************************************)
EXTENDS RunControls, FiniteSets

CONSTANTS
  Agent, File, Writes, Reads, Edges, MaxParallel,   \* those of Composer
  MaxCommands       \* how many commands the user types

ASSUME RunAssumption ==
  /\ IsFiniteSet(Agent)
  /\ Writes \in [Agent -> Seq(File)]
  /\ Reads \in [Agent -> Seq(File)]
  /\ Edges \subseteq Agent \X Agent
  /\ MaxParallel \in Nat \ {0}
  /\ MaxCommands \in Nat

VARIABLES
  locks, phase, life, held, node, graph, batch,     \* those of Composer
  pc,          \* where the loop is
  todo,        \* the agents a pass of the loop has still to handle
  dirty,       \* terminalized_stalled_work
  paused, cancelled, spawned, terminal,             \* as in the code
  tasks,       \* join_set: the agents whose execution has not been joined
  inbox,       \* command_rx
  typed        \* how many commands the user has typed

C == INSTANCE Composer

composer == <<locks, phase, life, held, node, graph, batch>>
outside == <<stored, controls, client>>
user == <<inbox, typed>>
vars == <<composer, outside, user, pc, todo, dirty, paused, cancelled, spawned,
          terminal, tasks>>

Command == {"Pause", "Resume", "Cancel", "Redirect"}
Ended == {"finished", "cancelled", "dead"}
Pc == {"claim", "apply", "drain", "cancel", "start", "failing",
       "stall", "failstalled", "persist", "exit", "select", "abort"} \cup Ended

RunTypeOK ==
  /\ ControlsTypeOK
  /\ pc \in Pc
  /\ todo \in SUBSET Agent
  /\ spawned \in SUBSET Agent
  /\ terminal \in SUBSET Agent
  /\ tasks \in SUBSET Agent
  /\ inbox \in Seq(Command)
  /\ typed \in 0..MaxCommands
  /\ {dirty, paused, cancelled} \subseteq BOOLEAN

Init ==
  /\ C!Init
  /\ ControlsInit
  /\ pc = "claim"
  /\ todo = {}
  /\ dirty = FALSE
  /\ paused = FALSE
  /\ cancelled = FALSE
  /\ spawned = {}
  /\ terminal = {}
  /\ tasks = {}
  /\ inbox = <<>>
  /\ typed = 0

-----------------------------------------------------------------------------
(* persist_graph with and without a status of its own.                     *)
Persist(status) == stored' = status

PersistOwn ==
  stored' = IF graph' \in Final THEN graph' ELSE "Running"

Goto(label) == pc' = label

(* if let Ok(commands) = claim_pending_controls(..): an error is skipped.  *)
Claim ==
  /\ pc = "claim"
  /\ ClaimPending
  /\ Goto("apply")
  /\ UNCHANGED <<composer, stored, client, user, todo, dirty, paused, cancelled, spawned,
                 terminal, tasks>>

ClaimFails ==
  /\ pc = "claim"
  /\ Goto("drain")
  /\ UNCHANGED <<composer, outside, user, todo, dirty, paused, cancelled, spawned,
                 terminal, tasks>>

(* A control command changes the flags and the composer, not the store.    *)
ApplyControl ==
  /\ pc = "apply"
  /\ \E i \in DOMAIN controls :
       /\ NextClaimed(i)
       /\ paused' = CASE controls[i].kind = "Pause" -> TRUE
                      [] controls[i].kind = "Resume" -> FALSE
                      [] OTHER -> paused
       /\ cancelled' = (cancelled \/ controls[i].kind = "Cancel")
       /\ C!SetGraphStatus(StatusFor[controls[i].kind])
       /\ MarkApplied(i)
  /\ UNCHANGED <<stored, client, user, pc, todo, dirty, spawned, terminal, tasks>>

ControlsApplied ==
  /\ pc = "apply"
  /\ Claimed = {}
  /\ Goto("drain")
  /\ UNCHANGED <<composer, outside, user, todo, dirty, paused, cancelled, spawned,
                 terminal, tasks>>

(* handle_command, called while the inbox is drained and from the select.  *)
(* Redirect stands for Reprioritise too: what they change besides the      *)
(* store is the text of goals and the order of a start pass.               *)
HandleCommand ==
  LET command == Head(inbox) IN
  /\ inbox # <<>>
  /\ inbox' = Tail(inbox)
  /\ \/ /\ command = "Pause"
        /\ paused' = TRUE
        /\ C!SetGraphStatus("Paused")
        /\ Persist("Paused")
        /\ UNCHANGED cancelled
     \/ /\ command = "Resume"
        /\ paused' = FALSE
        /\ C!SetGraphStatus("Running")
        /\ Persist("Running")
        /\ UNCHANGED cancelled
     \/ /\ command = "Cancel"
        /\ cancelled' = TRUE
        /\ UNCHANGED <<composer, stored, paused>>
     \/ /\ command = "Redirect"
        /\ Persist("Running")
        /\ UNCHANGED <<composer, paused, cancelled>>
  /\ UNCHANGED <<controls, client, typed, todo, dirty, spawned, terminal, tasks>>

Drain ==
  /\ pc = "drain"
  /\ HandleCommand
  /\ UNCHANGED pc

(* A cancel is looked at first; a pause keeps the loop from starting       *)
(* agents and from failing any.                                            *)
Cancels == cancelled

Starts == ~paused

Unstarted == Agent \ spawned

Check ==
  /\ pc = "drain"
  /\ inbox = <<>>
  /\ \/ /\ Cancels
        /\ C!CancelAll
        /\ todo' = {}
        /\ Goto("cancel")
     \/ /\ ~Cancels
        /\ Starts
        /\ todo' = Unstarted
        /\ Goto("start")
        /\ UNCHANGED composer
     \/ /\ ~Cancels
        /\ ~Starts
        /\ todo' = {}
        /\ Goto("exit")
        /\ UNCHANGED composer
  /\ UNCHANGED <<outside, user, dirty, paused, cancelled, spawned, terminal, tasks>>

(* cancel_all, then persist_all and the return, which drops the JoinSet    *)
(* and with it the executions.                                             *)
CancelRun ==
  /\ pc = "cancel"
  /\ \/ /\ \E a \in Agent : C!CancelOne(a)
        /\ UNCHANGED <<pc, stored, tasks>>
     \/ /\ C!Idle
        /\ Persist("Cancelled")
        /\ tasks' = {}
        /\ Goto("cancelled")
        /\ UNCHANGED composer
  /\ UNCHANGED <<controls, client, user, todo, dirty, paused, cancelled, spawned, terminal>>

-----------------------------------------------------------------------------
(* start_ready_agents: one attempt for each agent that has not been        *)
(* started, in the order of the priorities, which is any order.            *)
TakeTodo(a) == a \in todo /\ todo' = todo \ {a}

StartReady(a) ==
  /\ pc = "start"
  /\ TakeTodo(a)
  /\ C!CanStart(a)
  /\ C!Start(a)
  /\ spawned' = spawned \cup {a}
  /\ tasks' = tasks \cup {a}
  /\ Persist("Running")
  /\ UNCHANGED <<controls, client, user, pc, dirty, paused, cancelled, terminal>>

(* Of an agent that waits already, the refusal is persisted only when it   *)
(* changed the lifecycle: held_locks, or the file in the reason.           *)
StartRefused(a) ==
  /\ pc = "start"
  /\ TakeTodo(a)
  /\ ~C!CanStart(a)
  /\ C!Start(a)
  /\ \/ Persist("Running")
     \/ life[a] = "WaitingForLock" /\ held' = held /\ UNCHANGED stored
  /\ UNCHANGED <<controls, client, user, pc, dirty, paused, cancelled, spawned,
                 terminal, tasks>>

StartHeldBack(a) ==
  /\ pc = "start"
  /\ TakeTodo(a)
  /\ life[a] \notin {"Queued", "WaitingForLock"} \/ ~C!MayStart(a)
  /\ IF life[a] = "Queued" THEN Persist("Running") ELSE UNCHANGED stored
  /\ UNCHANGED <<composer, controls, client, user, pc, dirty, paused, cancelled, spawned,
                 terminal, tasks>>

(* fail_blocked_dependents after the pass.                                 *)
CountedTerminalLate == terminal   \* mutant
CountedTerminal == terminal \cup C!Doomed

FailBlocked ==
  /\ pc = "start"
  /\ todo = {}
  /\ \/ /\ C!FailBlockedDependents
        /\ terminal' = CountedTerminal
        /\ dirty' = TRUE
        /\ Goto("failing")
     \/ /\ C!Doomed = {}
        /\ dirty' = FALSE
        /\ Goto("stall")
        /\ UNCHANGED <<composer, terminal>>
  /\ UNCHANGED <<outside, user, todo, paused, cancelled, spawned, tasks>>

FailBlockedAgent ==
  /\ pc = "failing"
  /\ \/ /\ \E a \in Agent : C!FailOne(a)
        /\ UNCHANGED pc
     \/ /\ C!Idle
        /\ Goto("stall")
        /\ UNCHANGED composer
  /\ UNCHANGED <<outside, user, todo, dirty, paused, cancelled, spawned, terminal, tasks>>

(* complete_agent and fail_agent ask nothing of the agent's phase.         *)
FinishAgent(a, status) ==
  /\ C!Finish(a, status)
  /\ terminal' = terminal \cup {a}
  /\ UNCHANGED batch

(* Nothing executes and something is left: whatever is left is failed.     *)
StalledBeforeAnyStart == tasks = {} /\ spawned = {}   \* mutant

Stalled == tasks = {} /\ terminal # Agent

CheckStall ==
  /\ pc = "stall"
  /\ IF Stalled
     THEN todo' = Agent \ terminal /\ dirty' = TRUE /\ Goto("failstalled")
     ELSE UNCHANGED <<todo, dirty>> /\ Goto(IF dirty THEN "persist" ELSE "exit")
  /\ UNCHANGED <<composer, outside, user, paused, cancelled, spawned, terminal, tasks>>

FailStalled ==
  /\ pc = "failstalled"
  /\ \/ \E a \in Agent :
          /\ TakeTodo(a)
          /\ FinishAgent(a, "Failed")
          /\ UNCHANGED pc
     \/ /\ todo = {}
        /\ Goto("persist")
        /\ UNCHANGED <<composer, todo, terminal>>
  /\ UNCHANGED <<outside, user, dirty, paused, cancelled, spawned, tasks>>

PersistFailures ==
  /\ pc = "persist"
  /\ UNCHANGED composer
  /\ PersistOwn
  /\ Goto("exit")
  /\ UNCHANGED <<controls, client, user, todo, dirty, paused, cancelled, spawned,
                 terminal, tasks>>

-----------------------------------------------------------------------------
(* The verdict of the run is that of merge_results over the agents that    *)
(* are Done or Failed.                                                     *)
Merged == IF \E a \in Agent : phase[a] = "Failed" THEN "Failed" ELSE "Complete"

Exit ==
  /\ pc = "exit"
  /\ IF terminal = Agent /\ tasks = {}
     THEN Persist(Merged) /\ Goto("finished")
     ELSE UNCHANGED stored /\ Goto("select")
  /\ UNCHANGED <<composer, controls, client, user, todo, dirty, paused, cancelled,
                 spawned, terminal, tasks>>

SelectCommand ==
  /\ pc = "select"
  /\ HandleCommand
  /\ Goto("claim")

SelectTimeout ==
  /\ pc = "select"
  /\ Goto("claim")
  /\ UNCHANGED <<composer, outside, user, todo, dirty, paused, cancelled, spawned,
                 terminal, tasks>>

(* finish_agent_execution, through complete_agent when the execution has a *)
(* result and fail_agent when it has an error.                             *)
FinishExecution(a, success) ==
  /\ FinishAgent(a, IF success THEN "Done" ELSE "Failed")
  /\ PersistOwn

Join(a) ==
  /\ pc = "select"
  /\ a \in tasks
  /\ tasks' = tasks \ {a}
  /\ \E success \in BOOLEAN : FinishExecution(a, success)
  /\ Goto("claim")
  /\ UNCHANGED <<controls, client, user, todo, dirty, paused, cancelled, spawned>>

(* The agents that were started and have not been seen to end.             *)
InFlightAll == spawned   \* mutant
InFlight == spawned \ terminal

(* A JoinError aborts every execution and fails every started agent.       *)
JoinError ==
  /\ pc = "select"
  /\ tasks # {}
  /\ tasks' = {}
  /\ todo' = InFlight
  /\ Goto("abort")
  /\ UNCHANGED <<composer, outside, user, dirty, paused, cancelled, spawned, terminal>>

FailAborted ==
  /\ pc = "abort"
  /\ \/ \E a \in Agent :
          /\ TakeTodo(a)
          /\ FinishExecution(a, FALSE)
          /\ UNCHANGED pc
     \/ /\ todo = {}
        /\ Goto("claim")
        /\ UNCHANGED <<composer, stored, todo, terminal>>
  /\ UNCHANGED <<controls, client, user, dirty, paused, cancelled, spawned, tasks>>

(* A store error returns from run_loop at any of its awaits, and the       *)
(* process may end at any step; either drops the JoinSet.                  *)
Die ==
  /\ pc \notin Ended
  /\ tasks' = {}
  /\ Goto("dead")
  /\ UNCHANGED <<composer, outside, user, todo, dirty, paused, cancelled, spawned, terminal>>

-----------------------------------------------------------------------------
Type(command) ==
  /\ typed < MaxCommands
  /\ typed' = typed + 1
  /\ inbox' = Append(inbox, command)
  /\ UNCHANGED <<composer, outside, pc, todo, dirty, paused, cancelled, spawned,
                 terminal, tasks>>

ClientActs ==
  /\ ClientStep
  /\ UNCHANGED <<composer, user, pc, todo, dirty, paused, cancelled, spawned, terminal,
                 tasks>>

(* The steps the loop takes whatever the JoinSet and the store do.         *)
Loop ==
  \/ ApplyControl \/ ControlsApplied
  \/ Drain \/ Check \/ CancelRun
  \/ \E a \in Agent : StartReady(a) \/ StartRefused(a) \/ StartHeldBack(a)
  \/ FailBlocked \/ FailBlockedAgent
  \/ CheckStall \/ FailStalled \/ PersistFailures
  \/ Exit \/ SelectCommand \/ SelectTimeout \/ FailAborted

JoinAny == \E a \in Agent : Join(a)

Next ==
  \/ Claim \/ ClaimFails
  \/ Loop
  \/ JoinAny \/ JoinError
  \/ Die
  \/ \E command \in Command : Type(command)
  \/ ClientActs

Spec == Init /\ [][Next]_vars

(* The task of the loop is scheduled, a claim that is tried again and      *)
(* again succeeds some day, and so does the wait for an execution that is  *)
(* polled again and again: executions end (a bounded number of iterations, *)
(* with timeouts on the calls).  The user and the clients owe nothing.     *)
Fairness == WF_vars(Loop) /\ SF_vars(Claim) /\ SF_vars(JoinAny)

FairSpec == Spec /\ Fairness

-----------------------------------------------------------------------------
(* The loop uses the composer as the composer expects to be used: the      *)
(* calls it makes, in the order it makes them, are a behaviour of Composer. *)
ComposerProtocol == C!Spec

(* The loop's own books agree with the composer's: at the top of the loop  *)
(* the executions of the JoinSet are those of the agents that run, and the *)
(* agents counted as terminal are those that are.                          *)
BooksAgree ==
  pc \in {"claim", "select"} =>
    /\ tasks = {a \in Agent : phase[a] = "Running"}
    /\ terminal = {a \in Agent : phase[a] \in C!Terminal}
    /\ tasks \subseteq spawned

(* Agents are failed for a stall only if none of them could run, whatever  *)
(* the order of the pass and whatever it handed from one to the other.     *)
StallIsReal ==
  pc = "stall" /\ Stalled => \A a \in Agent \ terminal : ~C!CanStart(a)

(* A run that ends leaves no agent unfinished and no file locked.          *)
NothingLeftBehind ==
  pc \in {"finished", "cancelled"} =>
    /\ \A a \in Agent : phase[a] \in C!Terminal
    /\ \A f \in File : locks[f] = C!NoLocks

(* A pause or a cancel holds for every start after its claim: no agent is  *)
(* started once a cancel was claimed, nor after a pause that neither       *)
(* another process nor the user has taken back.                            *)
Obeyed(i) == controls[i].status \in {"claimed", "applied"}

PauseStopsStarts ==
  [][spawned' # spawned =>
       \A i \in DOMAIN controls : Obeyed(i) =>
         \/ controls[i].kind = "Resume"
         \/ /\ controls[i].kind = "Pause"
            /\ \/ typed # 0
               \/ \E j \in DOMAIN controls : Obeyed(j) /\ controls[j].kind = "Resume"]_vars

(* A run that is not left paused ends: every agent is executed or failed.  *)
RunEnds == <>(pc \in Ended) \/ <>[]paused

(* Cancelling works on a paused run and against whatever arrives with it.  *)
CancelEnds ==
  (\/ cancelled
   \/ \E i \in DOMAIN controls :
        controls[i].kind = "Cancel" /\ controls[i].status # "created") ~> pc \in Ended

(* control.rs: "Persisted graph status stays consistent with claimed       *)
(* commands."  While a run stays paused, its owner does not mark it as     *)
(* running again.                                                          *)
PauseStaysStored ==
  [][paused /\ paused' /\ stored = "Paused" /\ client' = client => stored' # "Running"]_vars

(* ARCHITECTURE.md: "HTTP, WebSocket, and Discord management surfaces use  *)
(* the same persisted control path."  Whoever has marked the run and makes *)
(* no other call has signalled its owner.                                  *)
ManagementSignalsOwner ==
  [][\A c \in Client :
       UpdateStatus(c) /\ client'[c].todo = <<>> =>
         \E i \in DOMAIN controls : controls[i].by = c]_vars

(* The loop's books agree with the composer's, a stall it reports is one,  *)
(* and when it ends nobody runs, waits or holds a file.                    *)
LoopIsSound == RunTypeOK /\ BooksAgree /\ StallIsReal /\ NothingLeftBehind

(* What the loop does to the composer is what the composer offers, and a   *)
(* paused run starts no agent.                                             *)
LoopObeys == ComposerProtocol /\ PauseStopsStarts

(* A run ends, and when it is cancelled it ends although it is paused.     *)
RunsEnd == RunEnds /\ CancelEnds

=============================================================================
