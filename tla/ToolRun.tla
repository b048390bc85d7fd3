------------------------------- MODULE ToolRun -------------------------------
(***************************************************************************)
(* Calls of the built-in tools that touch the machine: process.rs, which   *)
(* runs one program in a process group of its own under a time limit, and  *)
(* the file tools, whose writes happen on a blocking thread. The agent     *)
(* loop puts a limit of its own around every call: when it passes, or when *)
(* the run is cancelled, the future of the call is dropped wherever it is. *)
(*                                                                         *)
(* The program (the leader of the group) may start a descendant, which may *)
(* keep or close the output pipes, outlive the leader, or leave the group. *)
(***************************************************************************)
EXTENDS Builtins, FiniteSets

CONSTANTS MaxCalls,   \* bound: calls one after the other
          Budget,     \* max_tool_timeout_secs
          Asked       \* the timeouts a caller may ask for

ASSUME ToolRunAssumption ==
  MaxCalls \in Nat /\ Budget \in Nat /\ Asked \subseteq Nat

VARIABLES call,       \* the call being made, with its wrapper and content
          calls,      \* calls begun
          stage,      \* where the future of the call stands
          leader,     \* the program: none, alive, zombie or reaped
          child,      \* its descendant
          pipes,      \* who holds the output pipes open
          torn,       \* reading a pipe failed
          shot,       \* the state of the leader at each signal to its group
          exits,      \* how the programs of the call ended
          answer,     \* what the call returned
          disk,       \* whose content the file holds: a call, nobody or torn
          late,       \* writes still running for calls given up
          abandoned,  \* the contents of the calls given up
          effects     \* what the call changed

process == <<leader, child, pipes, torn, shot, exits>>
files   == <<disk, late, abandoned>>
toolvars == <<call, calls, stage, leader, child, pipes, torn, shot, exits,
          answer, disk, late, abandoned, effects>>

Absent == 0             \* no file
Torn   == MaxCalls + 1  \* a file half written

NoChild == [state |-> "none", inGroup |-> FALSE]
NoCall  == [tool |-> TimeNow, dry |-> FALSE, asked |-> 1]

ToolInit ==
  /\ call = NoCall /\ calls = 0
  /\ stage = "idle"
  /\ leader = "none" /\ child = NoChild /\ pipes = {} /\ torn = FALSE
  /\ shot = {} /\ exits = <<>>
  /\ answer = "none"
  /\ disk = Absent /\ late = {} /\ abandoned = {}
  /\ effects = {}

Answers(a) == answer' = a /\ stage' = "ended"

Begins(tool, dry, asked) ==
  /\ stage = "idle"
  /\ calls < MaxCalls
  /\ calls' = calls + 1
  /\ call' = [tool |-> tool, dry |-> dry, asked |-> asked]

(***************************************************************************)
(* Calls that end before they touch anything.                              *)
(***************************************************************************)

\* DryRunTool checks the arguments and answers from its configuration.
DryRun(tool) ==
  /\ Begins(tool, TRUE, 1)
  /\ \E a \in {"ok", "failed", "refused"} : Answers(a)
  /\ UNCHANGED <<process, files, effects>>

\* Arguments that do not parse, a path outside the boundary, too many pings.
Refuse(tool) ==
  /\ tool \notin {SystemInfo, ProcessList, TimeNow}  \* they ignore their arguments
  /\ Begins(tool, FALSE, 1)
  /\ Answers("refused")
  /\ UNCHANGED <<process, files, effects>>

\* A command on the shell's list of patterns, or one it is only to rehearse.
ShellStops ==
  /\ Begins(Shell, FALSE, 1)
  /\ \E a \in {"failed", "ok"} : Answers(a)
  /\ UNCHANGED <<process, files, effects>>

Compute(tool) ==
  /\ tool.via = "compute"
  /\ Begins(tool, FALSE, 1)
  /\ \E a \in tool.answers : Answers(a)
  /\ UNCHANGED <<process, files, effects>>

(***************************************************************************)
(* run_command.                                                            *)
(***************************************************************************)

Program == call.tool.programs[Len(exits) + 1]

StartCommand(tool) ==
  /\ tool.via = "command"
  /\ \E asked \in Asked : Begins(tool, FALSE, asked)
  /\ stage' = "spawn"
  /\ UNCHANGED <<process, files, answer, effects>>

Spawn ==
  /\ stage = "spawn"
  /\ leader' = "alive" /\ child' = NoChild /\ pipes' = {"leader"} /\ torn' = FALSE
  /\ stage' = "reading"
  /\ effects' = effects \cup ({Program} \cap Changing)
  /\ UNCHANGED <<call, calls, shot, exits, answer, files>>

SpawnFails ==
  /\ stage = "spawn"
  /\ Answers("refused")
  /\ UNCHANGED <<call, calls, process, files, effects>>

\* Both pipes are drained to their end before the exit is waited for: whoever
\* still holds one keeps the call waiting. A failed read ends the draining.
PipesEnd ==
  /\ stage = "reading"
  /\ pipes = {}
  /\ stage' = "reaping"
  /\ UNCHANGED <<call, calls, process, files, answer, effects>>

ReadFails ==
  /\ stage = "reading"
  /\ torn' = TRUE /\ pipes' = {}
  /\ stage' = "reaping"
  /\ UNCHANGED <<call, calls, leader, child, shot, exits, files, answer, effects>>

\* What the tool makes of the exits of all its programs.
Verdict(ends) == IF \A i \in DOMAIN ends : ends[i] = "ok" THEN "ok" ELSE "failed"

Reap(end) ==
  /\ stage = "reaping"
  /\ leader = "zombie"
  /\ leader' = "reaped"
  /\ ~torn
  /\ exits' = Append(exits, end)
  /\ IF Len(exits') < Len(call.tool.programs)
     THEN stage' = "spawn" /\ UNCHANGED answer
     ELSE Answers(Verdict(exits'))
  /\ UNCHANGED <<call, calls, child, pipes, torn, shot, files, effects>>

\* A failed read is reported once the leader is reaped: terminate finds no
\* process id any more and sends no signal.
ReportReadError ==
  /\ stage = "reaping"
  /\ leader = "zombie"
  /\ leader' = "reaped"
  /\ torn
  /\ Answers("refused")
  /\ UNCHANGED <<call, calls, child, pipes, torn, shot, exits, files, effects>>

\* A signal to the group ends its members, and frees the pipes they held.
GroupDies ==
  /\ shot' = shot \cup {leader}
  /\ leader' = IF leader = "alive" THEN "zombie" ELSE leader
  /\ child' = IF child.inGroup THEN [child EXCEPT !.state = "dead"] ELSE child
  /\ pipes' = {p \in pipes : p = "child" /\ ~child.inGroup}

\* The tool's own limit: only when it is not longer than the loop's can it
\* pass first. The leader has not been reaped at either stage.
TimesOut ==
  /\ stage \in {"reading", "reaping"}
  /\ GroupDies
  /\ stage' = "killing"
  /\ UNCHANGED <<call, calls, torn, exits, files, answer, effects>>

Killed ==
  /\ stage = "killing"
  /\ leader' = "reaped"
  /\ Answers("timeout")
  /\ UNCHANGED <<call, calls, child, pipes, torn, shot, exits, files, effects>>

(***************************************************************************)
(* The file tools. A write creates the directories, then truncates and     *)
(* fills the file on a blocking thread, which goes on when the call is     *)
(* dropped.                                                                *)
(***************************************************************************)

StartFile(tool) ==
  /\ tool.via \in {"read", "write"}
  /\ Begins(tool, FALSE, 1)
  /\ stage' = IF tool.via = "read" THEN "fetching" ELSE "mkdir"
  /\ UNCHANGED <<process, files, answer, effects>>

Fetched ==
  /\ stage = "fetching"
  /\ Answers(IF disk = Absent THEN "refused" ELSE "ok")
  /\ UNCHANGED <<call, calls, process, files, effects>>

\* mutant: the answer does not wait for the write
AnswerBeforeWriting ==
  /\ stage = "mkdir"
  /\ Answers("ok")
  /\ late' = late \cup {calls}
  /\ UNCHANGED <<call, calls, process, disk, abandoned, effects>>

MakeDirectories ==
  /\ stage = "mkdir"
  /\ \/ stage' = "writing" /\ UNCHANGED answer
     \/ Answers("refused")
  /\ UNCHANGED <<call, calls, process, files, effects>>

WriteLands ==
  /\ stage = "writing"
  /\ disk' = calls
  /\ stage' = "written"
  /\ effects' = effects \cup {"disk"}
  /\ UNCHANGED <<call, calls, process, late, abandoned, answer>>

WriteFails ==
  /\ stage = "writing"
  /\ disk' \in {disk, Torn}
  /\ effects' = effects \cup {"disk"}
  /\ Answers("refused")
  /\ UNCHANGED <<call, calls, process, late, abandoned>>

WriteReturns ==
  /\ stage = "written"
  /\ Answers("ok")
  /\ UNCHANGED <<call, calls, process, files, effects>>

Delete ==
  /\ Begins(FileDelete, FALSE, 1)
  /\ \/ disk # Absent /\ disk' = Absent /\ effects' = effects \cup {"disk"} /\ Answers("ok")
     \/ disk' = disk /\ effects' = effects /\ Answers("failed")
  /\ UNCHANGED <<process, late, abandoned>>

Exists ==
  /\ Begins(FileExists, FALSE, 1)
  /\ Answers("ok")
  /\ UNCHANGED <<process, files, effects>>

\* A write of a call given up reaches the disk.
LateWrite ==
  \E content \in late :
    /\ late' = late \ {content}
    /\ disk' = content
    /\ UNCHANGED <<call, calls, stage, process, abandoned, answer, effects>>

(***************************************************************************)
(* The limit around the call, and cancellation. Dropping the future of     *)
(* run_command drops its guard, which signals the group; a file write      *)
(* whose thread has started goes on alone.                                 *)
(***************************************************************************)
Running == stage \in {"reading", "reaping", "killing"}

DropGuard == IF Running THEN GroupDies ELSE UNCHANGED <<leader, child, pipes, shot>>

Dropped ==
  /\ stage \notin {"idle", "spawn", "ended"}
  /\ DropGuard
  /\ late' = IF stage = "writing" THEN late \cup {calls} ELSE late
  /\ abandoned' = abandoned \cup {calls}
  /\ UNCHANGED <<call, calls, torn, exits, disk, effects>>

\* mutant: only programs run under the loop's limit
TimerForCommands == call.tool.via = "command"

\* A program with a shorter limit of its own is stopped by that one first.
LoopTimerPasses ==
  \/ stage \notin {"reading", "reaping"}
  \/ Len(call.tool.programs) > 1
  \/ Limit(call.tool, call.asked, Budget) >= AtLeastOne(Budget)

Overdue == LoopTimerPasses /\ Dropped /\ Answers("overdue")

Cancelled == Dropped /\ Answers("cancelled")

\* The loop takes the result and may make its next call.
NextCall ==
  /\ stage = "ended"
  /\ stage' = "idle"
  /\ call' = NoCall /\ answer' = "none" /\ effects' = {}
  /\ leader' = "none" /\ child' = NoChild /\ pipes' = {} /\ torn' = FALSE
  /\ shot' = {} /\ exits' = <<>>
  /\ UNCHANGED <<calls, files>>

(***************************************************************************)
(* What the program and its descendant may do.                             *)
(***************************************************************************)
Forks ==
  /\ leader = "alive" /\ child.state = "none"
  /\ child' = [state |-> "alive", inGroup |-> TRUE]
  /\ pipes' = pipes \cup (IF "leader" \in pipes THEN {"child"} ELSE {})
  /\ UNCHANGED <<call, calls, stage, leader, torn, shot, exits, answer, files, effects>>

Detaches ==
  /\ child.state = "alive" /\ child.inGroup
  /\ child' = [child EXCEPT !.inGroup = FALSE]
  /\ UNCHANGED <<call, calls, stage, leader, pipes, torn, shot, exits, answer, files, effects>>

ClosesPipes ==
  /\ \E p \in pipes : pipes' = pipes \ {p}
  /\ UNCHANGED <<call, calls, stage, leader, child, torn, shot, exits, answer, files, effects>>

Exits ==
  \/ /\ leader = "alive"
     /\ leader' = "zombie" /\ pipes' = pipes \ {"leader"}
     /\ UNCHANGED <<call, calls, stage, child, torn, shot, exits, answer, files, effects>>
  \/ /\ child.state = "alive"
     /\ child' = [child EXCEPT !.state = "dead"] /\ pipes' = pipes \ {"child"}
     /\ UNCHANGED <<call, calls, stage, leader, torn, shot, exits, answer, files, effects>>

Calling ==
  \/ \E tool \in Catalog :
       DryRun(tool) \/ Refuse(tool) \/ Compute(tool) \/ StartCommand(tool) \/ StartFile(tool)
  \/ ShellStops \/ Delete \/ Exists

Working ==
  \/ Spawn \/ SpawnFails \/ PipesEnd \/ ReadFails
  \/ \E end \in {"ok", "failed"} : Reap(end)
  \/ ReportReadError \/ TimesOut \/ Killed
  \/ Fetched \/ MakeDirectories \/ WriteLands \/ WriteFails \/ WriteReturns
  \/ Overdue \/ Cancelled \/ NextCall

ToolNext == Calling \/ Working \/ LateWrite \/ Forks \/ Detaches \/ ClosesPipes \/ Exits

ToolSpec == ToolInit /\ [][ToolNext]_toolvars

\* The runtime polls the call and fires its timers. Nothing is asked of the
\* program, its descendant or the disk.
ToolFairness ==
  /\ WF_toolvars(Spawn \/ SpawnFails) /\ WF_toolvars(PipesEnd) /\ WF_toolvars(TimesOut)
  /\ WF_toolvars(Killed) /\ WF_toolvars(Overdue) /\ WF_toolvars(NextCall)

-----------------------------------------------------------------------------

\* The states a signal may find the leader in: never reaped, for the process
\* id then belongs to nobody, or to somebody else (terminate, the guard).
SignalsAreOurs == shot \subseteq {"alive", "zombie"}

\* A call that timed out or was given up leaves no member of its process
\* group alive (process.rs: terminate and ProcessGroupGuard), and a call that
\* answered has read all the output and reaped its program.
CommandsContained ==
  /\ SignalsAreOurs
  /\ answer \in {"timeout", "overdue", "cancelled"} =>
       leader # "alive" /\ ~(child.state = "alive" /\ child.inGroup)
  /\ call.tool.via = "command" /\ answer \in {"ok", "failed"} /\ exits # <<>> =>
       /\ leader = "reaped" /\ pipes = {}
       /\ Len(exits) = Len(call.tool.programs)

\* A tool the catalog calls safe, and every dry run, changes nothing; a write
\* that answered "ok" is on the disk, unless the write of a call given up
\* earlier has come after it.
EffectsDeclared ==
  /\ effects # {} => ~call.tool.safe /\ call.tool.approval /\ ~call.dry
  /\ stage = "ended" /\ call.tool = FileWrite /\ ~call.dry /\ answer = "ok" =>
       disk \in {calls} \cup abandoned

\* Whatever the program and the disk do, a call ends.
CallEnds == (stage # "idle") ~> (stage = "ended")
=============================================================================
