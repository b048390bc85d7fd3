------------------------------ MODULE Scheduler ------------------------------
(***************************************************************************)
(* The scheduler of `raven schedule` (odin-scheduler): one host process    *)
(* that dispatches due jobs, the SQLite store it shares with the processes *)
(* of `raven schedule add | remove | enable | disable`, shutdown with a    *)
(* grace period, and restarts.                                             *)
(*                                                                         *)
(* The host is several tasks, so its steps are cut where another task or   *)
(* process can act: at the awaits of the store, the clock and the lock of  *)
(* the job map.  A write of the store that was started lands even if its   *)
(* task is aborted (spawn_blocking); a panic ends the process, as the      *)
(* release profile says, and is Crash.                                     *)
(***************************************************************************)
EXTENDS Naturals, Sequences, FiniteSets

CONSTANTS
  Job,              \* the ids of jobs
  Initial,          \* those in the store at first
  Resolvable,       \* those whose agent selector resolves in the host
  Occurs,           \* the cron schedule of a job, as the set of its minutes
  MaxConcurrent,    \* scheduler.max_concurrent, at least 1
  StoreOutcomes,    \* whether a write of the store may fail: subset of BOOLEAN
  Crashes,          \* whether the host may be killed
  MaxTime,          \* bound: minutes that are modelled
  MaxLives,         \* bound: times the host is started
  MaxCommands,      \* bound: commands typed by the user
  Toggles           \* whether enable and disable are among them

ASSUME SchedulerAssumption ==
  /\ Job # {}
  /\ Initial \subseteq Job
  /\ Resolvable \subseteq Job
  /\ MaxTime \in Nat
  /\ Occurs \in [Job -> SUBSET (1..MaxTime)]
  /\ MaxConcurrent \in Nat \ {0}
  /\ StoreOutcomes \in {{TRUE}, BOOLEAN}
  /\ {Crashes, Toggles} \subseteq BOOLEAN
  /\ {MaxLives, MaxCommands} \subseteq Nat

VARIABLES
  now,
  table,      \* scheduler_jobs: a function on the ids it holds
  added,      \* ids that were ever in it
  pending,    \* enable and disable commands that have loaded and not written
  commands,   \* how many commands the user has typed
  host,       \* where the main task of the host is
  overdue,    \* the grace period of stop() is over
  lives,      \* how often the host was started
  mem,        \* the map of jobs in the host
  permits,    \* free permits of the semaphore
  pc,         \* where the loop is
  due,        \* due_ids the loop has still to visit
  cur,        \* the job the loop is dispatching
  runs,       \* the runs in order of reservation, rows of scheduler_runs included
  handles     \* execution_handles, which are in the order of reservation

store == <<table, added, pending, commands>>
loop == <<pc, due, cur>>
vars == <<now, store, host, overdue, lives, mem, permits, loop, runs, handles>>

Never == MaxTime + 1

(* Schedule::next_occurrence, to the minute.                               *)
NextOccurrence(j, t) ==
  LET later == {o \in Occurs[j] : o > t}
  IN IF later = {} THEN Never
     ELSE CHOOSE o \in later : \A p \in later : o <= p

(* exec: what became of the task of a run.  "dropped": it was reserved and *)
(* never spawned.  write: an outcome on its way to the store.              *)
Run == [job : Job, due : 0..Never, at : 0..MaxTime, life : Nat, late : BOOLEAN,
        row : {"none", "running", "succeeded", "failed"},
        exec : {"reserved", "executing", "writing", "recorded", "ended",
                "aborted", "killed", "dropped"},
        write : {"none", "succeeded", "failed"}]

TypeOK ==
  /\ now \in 0..MaxTime
  /\ added \in SUBSET Job
  /\ DOMAIN table \subseteq added
  /\ table \in [DOMAIN table -> [enabled : BOOLEAN, next : 0..Never]]
  /\ pending \subseteq [job : added, enabled : BOOLEAN, next : 0..Never]
  /\ host \in {"off", "running", "joining", "draining", "stopped"}
  /\ overdue \in BOOLEAN
  /\ commands \in 0..MaxCommands
  /\ lives \in 0..MaxLives
  /\ DOMAIN mem \subseteq added
  /\ mem \in [DOMAIN mem -> [enabled : BOOLEAN, next : 0..Never, running : 0..1]]
  /\ permits \in 0..MaxConcurrent
  /\ pc \in {"ended", "tick", "next", "reserve", "persist", "record", "spawn"}
  /\ due \subseteq DOMAIN mem
  /\ cur \in Job
  /\ runs \in Seq(Run)
  /\ handles \subseteq 1..Len(runs)

Up == host \in {"running", "joining", "draining"}
InProgress == {"reserved", "executing", "writing", "recorded"}
Live(r) == runs[r].exec \in InProgress
IsDue(j) == mem[j].enabled /\ mem[j].next <= now
Fresh(j) == [enabled |-> TRUE, next |-> NextOccurrence(j, now)]
NoJobs == [j \in {} |-> 0]

(* The tables are there, with the jobs of earlier days.                    *)
InitTables == table = [j \in Initial |-> Fresh(j)]

Init ==
  /\ now = 0
  /\ InitTables
  /\ added = Initial
  /\ pending = {}
  /\ commands = 0
  /\ host = "off"
  /\ overdue = FALSE
  /\ lives = 0
  /\ mem = NoJobs
  /\ permits = MaxConcurrent
  /\ pc = "ended"
  /\ due = {}
  /\ cur = CHOOSE j \in Job : TRUE
  /\ runs = <<>>
  /\ handles = {}

ClockTick ==
  /\ now < MaxTime
  /\ now' = now + 1
  /\ UNCHANGED <<store, host, overdue, lives, mem, permits, loop, runs, handles>>

-----------------------------------------------------------------------------
(* The commands of the user, each a process with a map of jobs of its own. *)
Command ==
  /\ commands < MaxCommands
  /\ commands' = commands + 1

inHost == <<host, overdue, lives, mem, permits, loop, runs, handles>>

(* INSERT .. ON CONFLICT(id) DO UPDATE, and DELETE .. WHERE id = ..        *)
SaveJob(j) ==
  table' = [i \in DOMAIN table \cup {j} |-> IF i = j THEN Fresh(j) ELSE table[i]]

DeleteJob(j) == table' = [i \in DOMAIN table \ {j} |-> table[i]]

Add(j) ==
  /\ Command
  /\ j \notin added
  /\ SaveJob(j)
  /\ added' = added \cup {j}
  /\ UNCHANGED <<now, pending, inHost>>

RemoveJob(j) ==
  /\ Command
  /\ j \in DOMAIN table
  /\ DeleteJob(j)
  /\ UNCHANGED <<now, added, pending, inHost>>

(* set_job_enabled in a process that has just loaded the store ...         *)
LoadToSetEnabled(j, enabled) ==
  /\ Toggles
  /\ Command
  /\ j \in DOMAIN table
  /\ pending' = pending \cup
       {[job |-> j, enabled |-> enabled, next |-> table[j].next]}
  /\ UNCHANGED <<now, table, added, inHost>>

(* mutant: next_run left out *)

UpdateJobStateEnabled(j, enabled, next) ==
  table' = [i \in DOMAIN table |->
              IF i = j THEN [table[i] EXCEPT !.enabled = enabled] ELSE table[i]]

(* UPDATE scheduler_jobs SET .. WHERE id = ..                              *)
UpdateJobState(j, enabled, next) ==
  table' = [i \in DOMAIN table |->
              IF i = j THEN [enabled |-> enabled, next |-> next] ELSE table[i]]

(* ... and writes back the state it loaded.                                *)
SetEnabled(c) ==
  /\ c \in pending
  /\ UpdateJobState(c.job, c.enabled, c.next)
  /\ pending' = pending \ {c}
  /\ UNCHANGED <<now, added, commands, inHost>>

-----------------------------------------------------------------------------
(* The host.  A missing next_run would be recalculated on loading, to the  *)
(* same value: no occurrence was left.                                     *)
IntoJob(row) == [enabled |-> row.enabled, next |-> row.next, running |-> 0]

LoadAllJobs == [j \in DOMAIN table |-> IntoJob(table[j])]

Start ==
  /\ ~Up
  /\ lives < MaxLives
  /\ lives' = lives + 1
  /\ host' = "running"
  /\ overdue' = FALSE
  /\ mem' = LoadAllJobs
  /\ permits' = MaxConcurrent
  /\ pc' = "tick"
  /\ UNCHANGED <<now, store, due, cur, runs, handles>>

(* The loop: a tick, then each due job in the order of a hash map.         *)
DueIds == {j \in DOMAIN mem : IsDue(j)}

FireTick ==
  /\ pc = "tick"
  /\ host = "running"
  /\ due' = DueIds
  /\ pc' = "next"
  /\ UNCHANGED <<now, store, host, overdue, lives, mem, permits, cur, runs, handles>>

LoopReturns ==
  /\ pc = "tick"
  /\ host # "running"
  /\ pc' = "ended"
  /\ UNCHANGED <<now, store, host, overdue, lives, mem, permits, due, cur, runs,
                 handles>>

(* The flag is read again before each job.                                 *)
Continues == host = "running"

PassEnds ==
  /\ pc = "next"
  /\ due = {} \/ ~Continues
  /\ due' = {}
  /\ pc' = "tick"
  /\ UNCHANGED <<now, store, host, overdue, lives, mem, permits, cur, runs, handles>>

(* A job is passed over when there is no permit or no agent for it.        *)
Dispatchable(j) == permits > 0 /\ j \in Resolvable

Visit(j) ==
  /\ pc = "next"
  /\ Continues
  /\ j \in due
  /\ due' = due \ {j}
  /\ IF Dispatchable(j)
       THEN permits' = permits - 1 /\ cur' = j /\ pc' = "reserve"
       ELSE UNCHANGED <<permits, cur, pc>>
  /\ UNCHANGED <<now, store, host, overdue, lives, mem, runs, handles>>

(* mark_run and the count, under the write lock.                           *)
Marked(j) ==
  [mem[j] EXCEPT !.next = NextOccurrence(j, now), !.running = @ + 1]

MayReserveOverlapping(j) == IsDue(j)   \* mutant
MayReserve(j) == IsDue(j) /\ mem[j].running = 0

(* reserve_due_job                                                         *)
Reserve ==
  /\ pc = "reserve"
  /\ IF MayReserve(cur)
       THEN /\ mem' = [mem EXCEPT ![cur] = Marked(cur)]
            /\ runs' = Append(runs,
                 [job |-> cur, due |-> mem[cur].next, at |-> now, life |-> lives,
                  late |-> host # "running", row |-> "none",
                  exec |-> "reserved", write |-> "none"])
            /\ pc' = "persist"
            /\ UNCHANGED permits
       ELSE /\ permits' = permits + 1
            /\ pc' = "next"
            /\ UNCHANGED <<mem, runs>>
  /\ UNCHANGED <<now, store, host, overdue, lives, due, cur, handles>>

(* The reserved copy is saved; only the loop changes these fields in the   *)
(* host, so the copy is what the map still holds.  Errors are warnings.    *)
Persist ==
  /\ pc = "persist"
  /\ \/ UpdateJobState(cur, mem[cur].enabled, mem[cur].next)
     \/ FALSE \in StoreOutcomes /\ UNCHANGED table
  /\ pc' = "record"
  /\ UNCHANGED <<now, added, pending, commands, host, overdue, lives, mem, permits,
                 due, cur, runs, handles>>

(* record_run_started                                                      *)
Record ==
  /\ pc = "record"
  /\ \E ok \in StoreOutcomes :
       runs' = IF ok THEN [runs EXCEPT ![Len(runs)].row = "running"] ELSE runs
  /\ pc' = "spawn"
  /\ UNCHANGED <<now, store, host, overdue, lives, mem, permits, due, cur, handles>>

(* After the audit record: the task is spawned and its handle kept, those  *)
(* of finished tasks dropped.                                              *)
Finished(r) == runs[r].exec \in {"ended", "aborted"}
KeptFinished == {r \in handles : Finished(r)}   \* mutant
Kept == {r \in handles : ~Finished(r)}

Spawn ==
  /\ pc = "spawn"
  /\ runs' = [runs EXCEPT ![Len(runs)].exec = "executing"]
  /\ handles' = Kept \cup {Len(runs)}
  /\ pc' = "next"
  /\ UNCHANGED <<now, store, host, overdue, lives, mem, permits, due, cur>>

-----------------------------------------------------------------------------
(* An execution: submit_task returns, finish() writes the outcome, audits  *)
(* it, releases the count, and the permit goes with the task.              *)
FinishExecution(r, outcome) ==
  /\ Up
  /\ runs[r].exec = "executing"
  /\ runs' = [runs EXCEPT ![r].exec = "writing", ![r].write = outcome]
  /\ UNCHANGED <<now, store, host, overdue, lives, mem, permits, loop, handles>>

(* record_run_finished: an UPDATE, which finds no row if none was inserted. *)
WithOutcome(run, outcome) ==
  IF run.row = "none" THEN run ELSE [run EXCEPT !.row = outcome]

OutcomeLands(r) ==
  /\ Up
  /\ runs[r].write # "none"
  /\ \E ok \in StoreOutcomes :
       LET run == IF ok THEN WithOutcome(runs[r], runs[r].write) ELSE runs[r]
       IN runs' = [runs EXCEPT ![r] =
            [run EXCEPT !.write = "none",
                        !.exec = IF @ = "writing" THEN "recorded" ELSE @]]
  /\ UNCHANGED <<now, store, host, overdue, lives, mem, permits, loop, handles>>

Uncounted(j) == [mem EXCEPT ![j].running = IF @ = 0 THEN 0 ELSE @ - 1]

ReleasePermit(r) ==
  /\ Up
  /\ runs[r].exec = "recorded"
  /\ runs' = [runs EXCEPT ![r].exec = "ended"]
  /\ mem' = Uncounted(runs[r].job)
  /\ permits' = permits + 1
  /\ UNCHANGED <<now, store, host, overdue, lives, loop, handles>>

-----------------------------------------------------------------------------
(* stop(): the loop first, then the executions in turn, one deadline.      *)
Stop ==
  /\ host = "running"
  /\ host' = "joining"
  /\ UNCHANGED <<now, store, overdue, lives, mem, permits, loop, runs, handles>>

GraceEndsForLoop ==   \* mutant: a deadline for the loop only
  /\ host = "joining"
  /\ ~overdue
  /\ overdue' = TRUE
  /\ UNCHANGED <<now, store, host, lives, mem, permits, loop, runs, handles>>

GraceEnds ==
  /\ host \in {"joining", "draining"}
  /\ ~overdue
  /\ overdue' = TRUE
  /\ UNCHANGED <<now, store, host, lives, mem, permits, loop, runs, handles>>

(* The loop can be aborted at any of its awaits.  A permit it held is      *)
(* dropped with it; a reservation it held is not undone: the guard that    *)
(* would is made when the execution is spawned.                            *)
Dropped(run) == IF run.exec = "reserved" THEN [run EXCEPT !.exec = "dropped"] ELSE run

AbortLoop ==
  /\ host = "joining"
  /\ overdue
  /\ pc # "ended"
  /\ pc' = "ended"
  /\ due' = {}
  /\ permits' = IF pc \in {"tick", "next"} THEN permits ELSE permits + 1
  /\ runs' = [r \in DOMAIN runs |-> Dropped(runs[r])]
  /\ UNCHANGED <<now, store, host, overdue, lives, mem, cur, handles>>

FirstHandle == CHOOSE r \in handles : \A s \in handles : r <= s

LoopJoined ==
  /\ host = "joining"
  /\ pc = "ended"
  /\ host' = "draining"
  /\ UNCHANGED <<now, store, overdue, lives, mem, permits, loop, runs, handles>>

ExecutionJoined ==
  /\ host = "draining"
  /\ handles # {}
  /\ runs[FirstHandle].exec = "ended"
  /\ handles' = handles \ {FirstHandle}
  /\ UNCHANGED <<now, store, host, overdue, lives, mem, permits, loop, runs>>

AbortExecution ==
  /\ host = "draining"
  /\ overdue
  /\ handles # {}
  /\ LET r == FirstHandle
     IN /\ ~Finished(r)
        /\ runs' = [runs EXCEPT ![r].exec = "aborted"]
        /\ mem' = Uncounted(runs[r].job)
  /\ permits' = permits + 1
  /\ UNCHANGED <<now, store, host, overdue, lives, loop, handles>>

(* record_interrupted_execution                                            *)
RecordInterrupted ==
  /\ host = "draining"
  /\ handles # {}
  /\ LET r == FirstHandle
     IN /\ runs[r].exec = "aborted"
        /\ \E ok \in StoreOutcomes :
             runs' = IF ok THEN [runs EXCEPT ![r] = WithOutcome(@, "failed")]
                     ELSE runs
  /\ handles' = handles \ {FirstHandle}
  /\ UNCHANGED <<now, store, host, overdue, lives, mem, permits, loop>>

(* The end of the process, orderly or not: its memory is gone, writes that *)
(* have not landed are lost.                                               *)
Killed(run) ==
  [Dropped(run) EXCEPT
     !.write = "none",
     !.exec = IF @ \in InProgress THEN "killed" ELSE @]

ProcessEnds ==
  /\ mem' = NoJobs
  /\ permits' = MaxConcurrent
  /\ pc' = "ended"
  /\ due' = {}
  /\ handles' = {}
  /\ runs' = [r \in DOMAIN runs |-> Killed(runs[r])]
  /\ UNCHANGED <<now, store, overdue, lives, cur>>

Exit ==
  /\ host = "draining"
  /\ handles = {}
  /\ host' = "stopped"
  /\ ProcessEnds

Crash ==
  /\ Crashes
  /\ Up
  /\ host' = "off"
  /\ ProcessEnds

-----------------------------------------------------------------------------
User ==
  \/ \E j \in Job : Add(j)
  \/ \E j \in Job : RemoveJob(j)
  \/ \E j \in Job, enabled \in BOOLEAN : LoadToSetEnabled(j, enabled)
  \/ \E c \in pending : SetEnabled(c)

Dispatch ==
  \/ FireTick
  \/ LoopReturns
  \/ PassEnds
  \/ \E j \in Job : Visit(j)
  \/ Reserve
  \/ Persist
  \/ Record
  \/ Spawn

Completion ==
  \E r \in DOMAIN runs : OutcomeLands(r) \/ ReleasePermit(r)

Execution ==
  \E r \in DOMAIN runs, outcome \in {"succeeded", "failed"} :
    FinishExecution(r, outcome)

Shutdown ==
  \/ LoopJoined
  \/ ExecutionJoined
  \/ AbortLoop
  \/ AbortExecution
  \/ RecordInterrupted
  \/ Exit

Next ==
  \/ ClockTick
  \/ User
  \/ Start
  \/ Dispatch
  \/ Completion
  \/ Execution
  \/ Stop
  \/ GraceEnds
  \/ Shutdown
  \/ Crash

Spec == Init /\ [][Next]_vars

(* The loop, the main task, the timer of the grace period and the writes   *)
(* of the store make progress.  Executions need not end.                   *)
FairSpec ==
  /\ Spec
  /\ WF_vars(Dispatch)
  /\ WF_vars(Completion)
  /\ WF_vars(GraceEnds)
  /\ WF_vars(Shutdown)

-----------------------------------------------------------------------------
LiveRuns == {r \in DOMAIN runs : Live(r)}
LiveOf(j) == {r \in LiveRuns : runs[r].job = j}
Spawned(r) == runs[r].exec \notin {"reserved", "dropped"}
ThisLife == {r \in DOMAIN runs : runs[r].life = lives}

(* A job never overlaps itself and the host never exceeds max_concurrent,  *)
(* whatever the order in which executions end and jobs are dispatched.     *)
NoOverlap ==
  /\ \A r, s \in LiveRuns : runs[r].job = runs[s].job => r = s
  /\ Cardinality(LiveRuns) <= MaxConcurrent

(* While the loop dispatches, every permit is free, held by the job it is  *)
(* dispatching or by one live run, and running_count counts the live runs: *)
(* no path loses or invents one (reserve_due_job, RunningCountGuard).      *)
NoLeak ==
  host \in {"running", "joining"} /\ pc # "ended" =>
    /\ permits + Cardinality(LiveRuns) + (IF pc = "reserve" THEN 1 ELSE 0)
         = MaxConcurrent
    /\ \A j \in DOMAIN mem : mem[j].running = Cardinality(LiveOf(j))

(* mark_run coalesces: all occurrences up to the moment of a reservation   *)
(* are spent by it, so within one life of the host the next run of the job *)
(* is for a later occurrence.                                              *)
Coalesces ==
  \A r, s \in DOMAIN runs :
    r < s /\ runs[r].job = runs[s].job /\ runs[r].life = runs[s].life
      => runs[s].due > runs[r].at

(* Across crashes too an occurrence is executed at most once: next_run is  *)
(* saved before the execution is spawned.  It takes writes that succeed    *)
(* and no enable or disable that writes an old next_run back.              *)
NeverTwice ==
  \A r, s \in DOMAIN runs :
    r < s /\ runs[r].job = runs[s].job /\ Spawned(r)
      => runs[s].due > runs[r].at

(* After stop() has cleared the flag the loop reserves at most the one job *)
(* it had already passed the flag with.                                    *)
AtMostOneLate == Cardinality({r \in ThisLife : runs[r].late}) <= 1

(* The host dispatches a job neither twice at a time nor twice for one     *)
(* occurrence within a life, loses no permit, and after stop() starts no   *)
(* more than the one job it had begun with.                                *)
DispatchIsSound == TypeOK /\ NoOverlap /\ NoLeak /\ Coalesces /\ AtMostOneLate

(* When stop() has returned no execution is left, joined or aborted, and   *)
(* each that was spawned has its outcome in scheduler_runs.                *)
StopSettles ==
  host = "stopped" =>
    \A r \in ThisLife :
      /\ runs[r].exec \in {"ended", "aborted", "dropped"}
      /\ StoreOutcomes = {TRUE} /\ Spawned(r)
           => runs[r].row \in {"succeeded", "failed"}

(* If executions end, a due job that can be dispatched is reserved, or the *)
(* host stops: no permit, count or place in a pass is lost on the way.  An *)
(* execution that never ends may hold the only permit for ever.            *)
DueJobRuns ==
  WF_vars(Execution) =>
    \A j \in Resolvable :
      host = "running" /\ j \in DOMAIN mem /\ mem[j].enabled /\ mem[j].next <= now
        ~> (host = "running" /\ j \in DOMAIN mem => mem[j].next > now)

(* stop() returns even if the loop and every execution hang.               *)
StopEnds == host = "joining" ~> ~Up

(* A job that was removed does not come back: the host, which still has it *)
(* in memory, saves its state with an UPDATE.                              *)
RemovedStaysRemoved ==
  [][DOMAIN table' \cap added \subseteq DOMAIN table]_vars

(* Violated: a disabled job stays disabled in the store until a command    *)
(* enables it.                                                             *)
DisabledStays ==
  [][\A j \in DOMAIN table \cap DOMAIN table' :
       ~table[j].enabled /\ table'[j].enabled
         => \E c \in pending \ pending' : c.job = j /\ c.enabled]_vars

(* Violated: the terminal outcome of a run is not changed afterwards.      *)
OutcomeIsFinal ==
  [][\A r \in DOMAIN runs :
       runs[r].row \in {"succeeded", "failed"} => runs'[r].row = runs[r].row]_vars

=============================================================================
