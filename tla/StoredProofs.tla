---------------------------- MODULE StoredProofs ----------------------------
(***************************************************************************)
(* What programs leave in their database and find there: the jobs of the   *)
(* scheduler, for every set of jobs and schedules, every number of permits *)
(* and any number of lives of the host; and the rows of runs with what the *)
(* terminal application shows of them, for any runs, agents and clients.   *)
(***************************************************************************)
EXTENDS Scheduler, MCSurfaces, SharedFacts

-----------------------------------------------------------------------------
(* A set of numbers that is not empty has a least element. *)
LEMMA LeastExists ==
  ASSUME NEW S \in SUBSET Nat, S # {}
  PROVE  \E m \in S : \A n \in S : m <= n
<1>1. PICK k \in S : TRUE
  OBVIOUS
<1> DEFINE Below(m) == {n \in S : n <= m}
           Family == {Below(m) : m \in S}
<1>2. Family # {} /\ Family \subseteq FiniteSubsetsOf(S)
  <2>1. \A m \in S : IsFiniteSet(Below(m))
    BY FS_BoundedSetOfNaturals
  <2>2. QED
    BY <1>1, <2>1 DEF FiniteSubsetsOf
<1>3. PICK T \in Family : \A U \in Family : <<U, T>> \notin StrictSubsetOrdering(S)
  BY <1>2, FS_StrictSubsetOrderingWellFounded, WFMin
<1>4. PICK m \in S : T = Below(m)
  OBVIOUS
<1>5. ASSUME NEW n \in S, n < m
      PROVE  FALSE
  <2>0. n \in Nat /\ m \in Nat /\ n < m /\ T = {i \in S : i <= m}
    BY <1>4, <1>5
  <2>1. m \in T /\ m \notin Below(n) /\ T \subseteq S
    BY <2>0
  <2>3. ASSUME NEW i \in Below(n)
        PROVE  i \in T
    <3>1. i \in Nat /\ i \in S /\ i <= n
      OBVIOUS
    <3>2. QED
      BY <2>0, <3>1
  <2>2. <<Below(n), T>> \in StrictSubsetOrdering(S)
    BY <2>1, <2>3 DEF StrictSubsetOrdering
  <2>4. QED
    BY <1>3, <2>2
<1>6. QED
  BY <1>5

(* The next occurrence is later than the moment it is asked for.           *)
LEMMA NextIsLater ==
  ASSUME NEW j \in Job, NEW t \in 0..MaxTime
  PROVE  NextOccurrence(j, t) \in 0..Never /\ NextOccurrence(j, t) > t
<1> DEFINE later == {o \in Occurs[j] : o > t}
<1>1. later \in SUBSET Nat /\ \A o \in later : o \in 0..Never /\ o > t
  BY SchedulerAssumption DEF Never
<1>2. CASE later = {}
  BY <1>2, SchedulerAssumption DEF NextOccurrence, Never
<1>3. CASE later # {}
  <2>1. \E o \in later : \A p \in later : o <= p
    BY <1>1, <1>3, LeastExists
  <2>2. NextOccurrence(j, t) \in later
    BY <1>3, <2>1 DEF NextOccurrence
  <2>3. QED
    BY <1>1, <2>2
<1>4. QED
  BY <1>2, <1>3

(* The fields that say what a run is; the others say what became of it.    *)
SameRun(x, y) ==
  /\ x.job = y.job /\ x.due = y.due /\ x.at = y.at
  /\ x.life = y.life /\ x.late = y.late

(* One run of the sequence replaced by another.                            *)
LEMMA ReplaceRun ==
  ASSUME NEW s \in Seq(Run), NEW r \in DOMAIN s, NEW x \in Run
  PROVE  /\ [s EXCEPT ![r] = x] \in Seq(Run)
         /\ Len([s EXCEPT ![r] = x]) = Len(s)
         /\ DOMAIN [s EXCEPT ![r] = x] = DOMAIN s
         /\ \A q \in DOMAIN s : [s EXCEPT ![r] = x][q] = IF q = r THEN x ELSE s[q]
BY ExceptSeq

(* Every run of the sequence replaced.                                     *)
LEMMA MapRuns ==
  ASSUME NEW s \in Seq(Run), NEW t, t = [r \in DOMAIN s |-> t[r]],
         \A r \in DOMAIN s : t[r] \in Run
  PROVE  t \in Seq(Run) /\ Len(t) = Len(s) /\ DOMAIN t = DOMAIN s
<1>1. t \in [1..Len(s) -> Run]
  OBVIOUS
<1>2. QED
  BY <1>1

-----------------------------------------------------------------------------
(* The inductive invariant.                                                *)
Row == [enabled : BOOLEAN, next : 0..Never]
MemRow == [enabled : BOOLEAN, next : 0..Never, running : 0..1]
LastRun == Len(runs)
Dispatching == pc \in {"persist", "record", "spawn"}

(* Where the loop is, what it holds there: the job it dispatches, and the  *)
(* one run that is reserved and not spawned.                               *)
LoopFits ==
  /\ host = "running" => pc # "ended"
  /\ pc # "ended" => host \in {"running", "joining"}
  /\ Dispatching \/ pc = "reserve" => cur \in DOMAIN mem
  /\ Dispatching => /\ LastRun \in DOMAIN runs
                    /\ runs[LastRun].exec = "reserved"
                    /\ runs[LastRun].job = cur
  /\ \A r \in DOMAIN runs : runs[r].exec = "reserved" => Dispatching /\ r = LastRun

(* Nothing lives on when the process has ended.                            *)
Over ==
  ~Up => /\ mem = NoJobs
         /\ handles = {}
         /\ \A r \in DOMAIN runs : ~Live(r) /\ runs[r].write = "none"

(* What is in progress belongs to this life of the host; an outcome on its *)
(* way is that of an execution which has just ended or was aborted.        *)
LivesFit ==
  \A r \in DOMAIN runs :
    /\ runs[r].life <= lives
    /\ Live(r) => runs[r].life = lives /\ runs[r].job \in DOMAIN mem
    /\ runs[r].write # "none" =>
         runs[r].exec \in {"writing", "aborted"} /\ runs[r].life = lives

(* The handles are those of runs of this life that were spawned, and every *)
(* execution in progress has one.                                          *)
HandlesFit ==
  /\ \A r \in handles :
       /\ runs[r].life = lives
       /\ runs[r].exec \in {"executing", "writing", "recorded", "ended", "aborted"}
  /\ \A r \in DOMAIN runs :
       Live(r) /\ runs[r].exec # "reserved" => r \in handles

OneAtATime == \A r, s \in LiveRuns : runs[r].job = runs[s].job => r = s

PermitsFit ==
  permits + Cardinality(LiveRuns) + (IF pc = "reserve" THEN 1 ELSE 0) = MaxConcurrent

CountsFit ==
  pc # "ended" =>
    \A j \in DOMAIN mem :
      mem[j].running = IF \E r \in LiveRuns : runs[r].job = j THEN 1 ELSE 0

(* What this life has reserved is spent.                                   *)
Spent ==
  \A r \in ThisLife :
    runs[r].job \in DOMAIN mem => mem[runs[r].job].next > runs[r].at

LateOnce ==
  /\ \A r, s \in ThisLife : runs[r].late /\ runs[s].late => r = s
  /\ host = "running" \/ pc = "reserve" => \A r \in ThisLife : ~runs[r].late

IInv ==
  /\ TypeOK
  /\ LoopFits /\ Over /\ LivesFit /\ HandlesFit
  /\ OneAtATime /\ PermitsFit /\ CountsFit
  /\ Spent /\ Coalesces /\ LateOnce

-----------------------------------------------------------------------------
(* What each step does to the runs.                                        *)
LEMMA RunsAreSequence ==
  ASSUME TypeOK
  PROVE  /\ LastRun \in Nat /\ DOMAIN runs = 1..LastRun
         /\ \A r \in DOMAIN runs : runs[r] \in Run
BY DEF TypeOK, LastRun

(* A step that changes one run, and not which run it is. *)
Changed(r, x) ==
  /\ r \in DOMAIN runs /\ x \in Run /\ SameRun(x, runs[r])
  /\ runs' \in Seq(Run) /\ LastRun' = LastRun /\ DOMAIN runs' = DOMAIN runs
  /\ \A q \in DOMAIN runs : runs'[q] = IF q = r THEN x ELSE runs[q]

(* An EXCEPT that keeps the identity of a run is such a step.              *)
LEMMA ChangeFacts ==
  ASSUME TypeOK, NEW r \in DOMAIN runs, NEW x \in Run, SameRun(x, runs[r]),
         runs' = [runs EXCEPT ![r] = x]
  PROVE  Changed(r, x)
BY ReplaceRun DEF TypeOK, Changed, LastRun

(* record_run_started writes the row of the reserved run, or fails.        *)
LEMMA RecordChanges ==
  ASSUME IInv, Record
  PROVE  \/ FALSE \in StoreOutcomes /\ UNCHANGED runs
         \/ Changed(LastRun, [runs[LastRun] EXCEPT !.row = "running"])
<1>1. LastRun \in DOMAIN runs /\ runs[LastRun] \in Run
  BY RunsAreSequence DEF IInv, LoopFits, Dispatching, Record
<1>2. CASE runs' = [runs EXCEPT ![Len(runs)].row = "running"]
  <2> DEFINE x == [runs[LastRun] EXCEPT !.row = "running"]
  <2>1. x \in Run /\ SameRun(x, runs[LastRun])
    BY <1>1 DEF Run, SameRun
  <2>2. runs' = [runs EXCEPT ![LastRun] = x]
    BY <1>2 DEF LastRun
  <2>3. QED
    BY <1>1, <2>1, <2>2, ChangeFacts DEF IInv
<1>3. PICK ok \in StoreOutcomes :
        runs' = IF ok THEN [runs EXCEPT ![Len(runs)].row = "running"] ELSE runs
  BY DEF Record
<1>4. ok \in BOOLEAN
  BY SchedulerAssumption
<1>5. QED
  BY <1>2, <1>3, <1>4

(* The reserved run begins to execute.                                     *)
LEMMA SpawnChanges ==
  ASSUME IInv, Spawn
  PROVE  Changed(LastRun, [runs[LastRun] EXCEPT !.exec = "executing"])
<1> DEFINE x == [runs[LastRun] EXCEPT !.exec = "executing"]
<1>1. LastRun \in DOMAIN runs /\ runs[LastRun] \in Run
  BY RunsAreSequence DEF IInv, LoopFits, Dispatching, Spawn
<1>2. x \in Run /\ SameRun(x, runs[LastRun])
  BY <1>1 DEF Run, SameRun
<1>3. runs' = [runs EXCEPT ![LastRun] = x]
  BY DEF LastRun, Spawn
<1>4. QED
  BY <1>1, <1>2, <1>3, ChangeFacts DEF IInv

(* submit_task has returned; the outcome is on its way.                    *)
LEMMA FinishChanges ==
  ASSUME IInv, NEW r \in DOMAIN runs, NEW outcome \in {"succeeded", "failed"},
         FinishExecution(r, outcome)
  PROVE  Changed(r, [runs[r] EXCEPT !.exec = "writing", !.write = outcome])
<1> DEFINE x == [runs[r] EXCEPT !.exec = "writing", !.write = outcome]
<1>1. x \in Run /\ SameRun(x, runs[r])
  BY RunsAreSequence DEF IInv, Run, SameRun
<1>2. runs' = [runs EXCEPT ![r] = x]
  BY DEF FinishExecution
<1>3. QED
  BY <1>1, <1>2, ChangeFacts DEF IInv

(* The outcome on its way lands or is refused. *)
Landed(run, ok) ==
  [(IF ok THEN WithOutcome(run, run.write) ELSE run) EXCEPT
     !.write = "none",
     !.exec = IF @ = "writing" THEN "recorded" ELSE @]

(* The UPDATE of a row touches the row only.                               *)
LEMMA WithOutcomeFacts ==
  ASSUME NEW run \in Run, NEW outcome \in {"succeeded", "failed"}
  PROVE  /\ WithOutcome(run, outcome) \in Run
         /\ SameRun(WithOutcome(run, outcome), run)
         /\ WithOutcome(run, outcome).exec = run.exec
         /\ WithOutcome(run, outcome).write = run.write
         /\ WithOutcome(run, outcome).row = IF run.row = "none" THEN "none" ELSE outcome
BY DEF Run, SameRun, WithOutcome

(* The fields of a run whose outcome has landed.                           *)
LEMMA LandedFacts ==
  ASSUME NEW run \in Run, NEW ok \in BOOLEAN, run.write # "none"
  PROVE  LET x == Landed(run, ok)
         IN /\ x \in Run /\ SameRun(x, run)
            /\ x.write = "none"
            /\ x.exec = IF run.exec = "writing" THEN "recorded" ELSE run.exec
            /\ x.row = IF ok /\ run.row # "none" THEN run.write ELSE run.row
<1>1. run.write \in {"succeeded", "failed"}
  BY DEF Run
<1> DEFINE y == IF ok THEN WithOutcome(run, run.write) ELSE run
<1>2. /\ y \in Run /\ SameRun(y, run) /\ y.exec = run.exec
      /\ y.row = IF ok /\ run.row # "none" THEN run.write ELSE run.row
  BY <1>1, WithOutcomeFacts DEF SameRun
<1>3. Landed(run, ok) = [y EXCEPT !.write = "none",
                                  !.exec = IF @ = "writing" THEN "recorded" ELSE @]
  BY DEF Landed
<1> HIDE DEF y
<1>4. QED
  BY <1>2, <1>3 DEF Run, SameRun

(* An outcome lands in the row of one run.                                 *)
LEMMA LandsChanges ==
  ASSUME IInv, NEW r \in DOMAIN runs, OutcomeLands(r)
  PROVE  /\ runs[r].write # "none"
         /\ \E ok \in StoreOutcomes : Changed(r, Landed(runs[r], ok))
<1>1. PICK ok \in StoreOutcomes : runs' = [runs EXCEPT ![r] = Landed(runs[r], ok)]
  BY DEF OutcomeLands, Landed
<1>2. ok \in BOOLEAN /\ runs[r] \in Run /\ runs[r].write # "none"
  BY RunsAreSequence, SchedulerAssumption DEF IInv, OutcomeLands
<1>3. Landed(runs[r], ok) \in Run /\ SameRun(Landed(runs[r], ok), runs[r])
  BY <1>2, LandedFacts
<1>4. QED
  BY <1>1, <1>2, <1>3, ChangeFacts DEF IInv

(* The guard of the count is dropped: the run has ended.                   *)
LEMMA ReleaseChanges ==
  ASSUME IInv, NEW r \in DOMAIN runs, ReleasePermit(r)
  PROVE  Changed(r, [runs[r] EXCEPT !.exec = "ended"])
<1> DEFINE x == [runs[r] EXCEPT !.exec = "ended"]
<1>1. x \in Run /\ SameRun(x, runs[r])
  BY RunsAreSequence DEF IInv, Run, SameRun
<1>2. runs' = [runs EXCEPT ![r] = x]
  BY DEF ReleasePermit
<1>3. QED
  BY <1>1, <1>2, ChangeFacts DEF IInv

(* The first of the handles is one of them. *)
LEMMA FirstHandleFacts ==
  ASSUME TypeOK, handles # {}
  PROVE  FirstHandle \in handles /\ FirstHandle \in DOMAIN runs
<1>1. handles \in SUBSET Nat /\ handles \subseteq DOMAIN runs
  BY RunsAreSequence DEF TypeOK, LastRun
<1>2. QED
  BY <1>1, LeastExists DEF FirstHandle

(* The first handle is aborted.                                            *)
LEMMA AbortChanges ==
  ASSUME IInv, AbortExecution
  PROVE  /\ FirstHandle \in handles
         /\ Changed(FirstHandle, [runs[FirstHandle] EXCEPT !.exec = "aborted"])
<1> DEFINE r == FirstHandle
           x == [runs[r] EXCEPT !.exec = "aborted"]
<1>1. r \in handles /\ r \in DOMAIN runs
  BY FirstHandleFacts DEF IInv, AbortExecution
<1>2. x \in Run /\ SameRun(x, runs[r])
  BY <1>1, RunsAreSequence DEF IInv, Run, SameRun
<1>3. runs' = [runs EXCEPT ![r] = x]
  BY DEF AbortExecution
<1>4. QED
  BY <1>1, <1>2, <1>3, ChangeFacts DEF IInv

(* record_interrupted_execution writes the row of that run, or fails.      *)
LEMMA InterruptedChanges ==
  ASSUME IInv, RecordInterrupted
  PROVE  /\ FirstHandle \in handles
         /\ FirstHandle \in DOMAIN runs
         /\ \/ FALSE \in StoreOutcomes /\ UNCHANGED runs
            \/ Changed(FirstHandle, WithOutcome(runs[FirstHandle], "failed"))
<1> DEFINE r == FirstHandle
           x == WithOutcome(runs[r], "failed")
<1>1. r \in handles /\ r \in DOMAIN runs
  BY FirstHandleFacts DEF IInv, RecordInterrupted
<1>2. x \in Run /\ SameRun(x, runs[r])
  BY <1>1, RunsAreSequence, WithOutcomeFacts DEF IInv
<1>3. PICK ok \in StoreOutcomes : runs' = IF ok THEN [runs EXCEPT ![r] = x] ELSE runs
  BY DEF RecordInterrupted
<1>4. ok \in BOOLEAN
  BY SchedulerAssumption
<1>5. QED
  BY <1>1, <1>2, <1>3, <1>4, ChangeFacts DEF IInv

(* A new run, reserved by the loop. *)
NewRun ==
  [job |-> cur, due |-> mem[cur].next, at |-> now, life |-> lives,
   late |-> host # "running", row |-> "none", exec |-> "reserved", write |-> "none"]

(* reserve_due_job adds one run and changes no other.                      *)
LEMMA ReserveAppends ==
  ASSUME IInv, Reserve, MayReserve(cur)
  PROVE  /\ NewRun \in Run
         /\ cur \in DOMAIN mem /\ mem[cur].running = 0
         /\ runs' \in Seq(Run) /\ LastRun' = LastRun + 1
         /\ DOMAIN runs' = DOMAIN runs \cup {LastRun + 1}
         /\ LastRun + 1 \notin DOMAIN runs
         /\ \A r \in DOMAIN runs : runs'[r] = runs[r]
         /\ runs'[LastRun + 1] = NewRun
<1>1. cur \in DOMAIN mem /\ cur \in Job /\ mem[cur] \in MemRow
  BY DEF IInv, TypeOK, LoopFits, Reserve, MemRow
<1>2. NewRun \in Run
  BY <1>1 DEF IInv, TypeOK, NewRun, Run, MemRow
<1>3. runs' = Append(runs, NewRun) /\ mem[cur].running = 0
  BY DEF Reserve, MayReserve, NewRun
<1>4. runs \in Seq(Run)
  BY DEF IInv, TypeOK
<1>5. QED
  BY <1>1, <1>2, <1>3, <1>4 DEF LastRun

(* A reservation dropped with the loop.                                    *)
LEMMA DroppedFacts ==
  ASSUME NEW run \in Run
  PROVE  /\ Dropped(run) \in Run /\ SameRun(Dropped(run), run)
         /\ Dropped(run).exec = IF run.exec = "reserved" THEN "dropped" ELSE run.exec
         /\ Dropped(run).row = run.row /\ Dropped(run).write = run.write
BY DEF Dropped, Run, SameRun

(* A run whose process has ended.                                          *)
LEMMA KilledFacts ==
  ASSUME NEW run \in Run
  PROVE  /\ Killed(run) \in Run /\ SameRun(Killed(run), run)
         /\ Killed(run).exec = IF run.exec = "reserved" THEN "dropped"
                               ELSE IF run.exec \in InProgress THEN "killed"
                               ELSE run.exec
         /\ Killed(run).row = run.row /\ Killed(run).write = "none"
<1> DEFINE x == Dropped(run)
<1>1. /\ x \in Run /\ SameRun(x, run)
      /\ x.exec = IF run.exec = "reserved" THEN "dropped" ELSE run.exec
      /\ x.row = run.row
  BY DroppedFacts
<1>2. Killed(run) = [x EXCEPT !.write = "none",
                              !.exec = IF @ \in InProgress THEN "killed" ELSE @]
  BY DEF Killed
<1> HIDE DEF x
<1>3. CASE x.exec \in InProgress
  <2>1. Killed(run) = [x EXCEPT !.write = "none", !.exec = "killed"]
    BY <1>2, <1>3
  <2>2. run.exec # "reserved" /\ run.exec = x.exec
    BY <1>1, <1>3 DEF InProgress
  <2>3. QED
    BY <1>1, <1>3, <2>1, <2>2 DEF Run, SameRun
<1>4. CASE x.exec \notin InProgress
  <2>1. Killed(run) = [x EXCEPT !.write = "none"]
    BY <1>1, <1>2, <1>4 DEF Run
  <2>2. run.exec = "reserved" \/ run.exec \notin InProgress
    BY <1>1, <1>4
  <2>3. QED
    BY <1>1, <1>4, <2>1, <2>2 DEF Run, SameRun
<1>5. QED
  BY <1>3, <1>4

(* A step that changes every run, and not which run it is. *)
AllChanged ==
  /\ runs' \in Seq(Run) /\ LastRun' = LastRun /\ DOMAIN runs' = DOMAIN runs
  /\ \A r \in DOMAIN runs : SameRun(runs'[r], runs[r])

(* The abort of the loop drops what it had reserved.                       *)
LEMMA AbortLoopChanges ==
  ASSUME IInv, AbortLoop
  PROVE  AllChanged /\ \A r \in DOMAIN runs : runs'[r] = Dropped(runs[r])
<1>1. runs' = [r \in DOMAIN runs |-> Dropped(runs[r])]
  BY DEF AbortLoop
<1>2. \A r \in DOMAIN runs : runs'[r] = Dropped(runs[r])
                              /\ runs'[r] \in Run /\ SameRun(runs'[r], runs[r])
  BY <1>1, RunsAreSequence, DroppedFacts DEF IInv
<1>3. runs \in Seq(Run) /\ runs' = [r \in DOMAIN runs |-> runs'[r]]
  BY <1>1 DEF IInv, TypeOK
<1>4. QED
  BY <1>2, <1>3, MapRuns DEF AllChanged, LastRun

(* The end of the process ends every run in progress.                      *)
LEMMA EndChanges ==
  ASSUME IInv, ProcessEnds
  PROVE  AllChanged /\ \A r \in DOMAIN runs : runs'[r] = Killed(runs[r])
<1>1. runs' = [r \in DOMAIN runs |-> Killed(runs[r])]
  BY DEF ProcessEnds
<1>2. \A r \in DOMAIN runs : runs'[r] = Killed(runs[r])
                              /\ runs'[r] \in Run /\ SameRun(runs'[r], runs[r])
  BY <1>1, RunsAreSequence, KilledFacts DEF IInv
<1>3. runs \in Seq(Run) /\ runs' = [r \in DOMAIN runs |-> runs'[r]]
  BY <1>1 DEF IInv, TypeOK
<1>4. QED
  BY <1>2, <1>3, MapRuns DEF AllChanged, LastRun

(* The fields a step that changes one run leaves it with. *)
Fields(r, exec, row, write) ==
  /\ r \in DOMAIN runs /\ LastRun' = LastRun /\ DOMAIN runs' = DOMAIN runs
  /\ \A q \in DOMAIN runs : SameRun(runs'[q], runs[q]) /\ (q # r => runs'[q] = runs[q])
  /\ runs'[r].exec = exec /\ runs'[r].row = row /\ runs'[r].write = write

(* A change of one run, by its fields.                                     *)
LEMMA ChangedFields ==
  ASSUME NEW r, NEW x, Changed(r, x)
  PROVE  Fields(r, x.exec, x.row, x.write)
BY DEF Changed, Fields, SameRun

(* The changes above once more, by their fields: Record ...                *)
LEMMA RecordFields ==
  ASSUME IInv, Record
  PROVE  \/ FALSE \in StoreOutcomes /\ UNCHANGED runs
         \/ Fields(LastRun, runs[LastRun].exec, "running", runs[LastRun].write)
<1> DEFINE x == [runs[LastRun] EXCEPT !.row = "running"]
<1>1. LastRun \in DOMAIN runs => runs[LastRun] \in Run
  BY RunsAreSequence DEF IInv
<1>2. LastRun \in DOMAIN runs => x.exec = runs[LastRun].exec /\ x.row = "running"
      /\ x.write = runs[LastRun].write
  BY <1>1 DEF Run
<1> HIDE DEF x
<1>3. Changed(LastRun, x) => Fields(LastRun, x.exec, x.row, x.write) /\ LastRun \in DOMAIN runs
  BY ChangedFields DEF Changed
<1>4. QED
  BY <1>2, <1>3, RecordChanges DEF x

(* ... Spawn ...                                                           *)
LEMMA SpawnFields ==
  ASSUME IInv, Spawn
  PROVE  Fields(LastRun, "executing", runs[LastRun].row, runs[LastRun].write)
<1> DEFINE x == [runs[LastRun] EXCEPT !.exec = "executing"]
<1>1. LastRun \in DOMAIN runs => runs[LastRun] \in Run
  BY RunsAreSequence DEF IInv
<1>2. LastRun \in DOMAIN runs => x.exec = "executing" /\ x.row = runs[LastRun].row
      /\ x.write = runs[LastRun].write
  BY <1>1 DEF Run
<1> HIDE DEF x
<1>3. Changed(LastRun, x) => Fields(LastRun, x.exec, x.row, x.write) /\ LastRun \in DOMAIN runs
  BY ChangedFields DEF Changed
<1>4. QED
  BY <1>2, <1>3, SpawnChanges DEF x

(* ... AbortExecution ...                                                  *)
LEMMA AbortFields ==
  ASSUME IInv, AbortExecution, NEW r, r = FirstHandle
  PROVE  r \in handles /\ Fields(r, "aborted", runs[r].row, runs[r].write)
<1> DEFINE x == [runs[r] EXCEPT !.exec = "aborted"]
<1>1. r \in DOMAIN runs => runs[r] \in Run
  BY RunsAreSequence DEF IInv
<1>2. r \in DOMAIN runs => x.exec = "aborted" /\ x.row = runs[r].row /\ x.write = runs[r].write
  BY <1>1 DEF Run
<1> HIDE DEF x
<1>3. Changed(r, x) => Fields(r, x.exec, x.row, x.write) /\ r \in DOMAIN runs
  BY ChangedFields DEF Changed
<1>4. QED
  BY <1>2, <1>3, AbortChanges DEF x

(* ... RecordInterrupted ...                                               *)
LEMMA InterruptedFields ==
  ASSUME IInv, RecordInterrupted, NEW r, r = FirstHandle
  PROVE  /\ r \in handles /\ r \in DOMAIN runs
         /\ \/ FALSE \in StoreOutcomes /\ UNCHANGED runs
            \/ Fields(r, runs[r].exec, IF runs[r].row = "none" THEN "none" ELSE "failed",
                      runs[r].write)
<1> DEFINE x == WithOutcome(runs[r], "failed")
<1>1. r \in DOMAIN runs => runs[r] \in Run
  BY RunsAreSequence DEF IInv
<1>2. r \in DOMAIN runs => /\ x.exec = runs[r].exec /\ x.write = runs[r].write
                          /\ x.row = IF runs[r].row = "none" THEN "none" ELSE "failed"
  BY <1>1, WithOutcomeFacts
<1> HIDE DEF x
<1>3. Changed(r, x) => Fields(r, x.exec, x.row, x.write) /\ r \in DOMAIN runs
  BY ChangedFields DEF Changed
<1>4. QED
  BY <1>2, <1>3, InterruptedChanges DEF x

(* ... and the steps of an execution.                                      *)
LEMMA ExecutionFields ==
  ASSUME IInv, NEW r \in DOMAIN runs
  PROVE  /\ \A o \in {"succeeded", "failed"} :
              FinishExecution(r, o) => Fields(r, "writing", runs[r].row, o)
         /\ ReleasePermit(r) => Fields(r, "ended", runs[r].row, runs[r].write)
         /\ OutcomeLands(r) =>
              /\ runs[r].write # "none"
              /\ \E ok \in StoreOutcomes :
                   Fields(r, IF runs[r].exec = "writing" THEN "recorded" ELSE runs[r].exec,
                             IF ok /\ runs[r].row # "none" THEN runs[r].write ELSE runs[r].row,
                             "none")
<1>1. runs[r] \in Run
  BY RunsAreSequence DEF IInv
<1>2. ASSUME NEW o \in {"succeeded", "failed"}, FinishExecution(r, o)
      PROVE  Fields(r, "writing", runs[r].row, o)
  <2> DEFINE x == [runs[r] EXCEPT !.exec = "writing", !.write = o]
  <2>1. x.exec = "writing" /\ x.row = runs[r].row /\ x.write = o
    BY <1>1 DEF Run
  <2>2. Changed(r, x)
    BY <1>2, FinishChanges
  <2> HIDE DEF x
  <2>3. QED
    BY <2>1, <2>2, ChangedFields
<1>3. ASSUME ReleasePermit(r)
      PROVE  Fields(r, "ended", runs[r].row, runs[r].write)
  <2> DEFINE x == [runs[r] EXCEPT !.exec = "ended"]
  <2>1. x.exec = "ended" /\ x.row = runs[r].row /\ x.write = runs[r].write
    BY <1>1 DEF Run
  <2>2. Changed(r, x)
    BY <1>3, ReleaseChanges
  <2> HIDE DEF x
  <2>3. QED
    BY <2>1, <2>2, ChangedFields
<1>4. ASSUME OutcomeLands(r)
      PROVE  /\ runs[r].write # "none"
             /\ \E ok \in StoreOutcomes :
                  Fields(r, IF runs[r].exec = "writing" THEN "recorded" ELSE runs[r].exec,
                            IF ok /\ runs[r].row # "none" THEN runs[r].write ELSE runs[r].row,
                            "none")
  <2>1. PICK ok \in StoreOutcomes : Changed(r, Landed(runs[r], ok))
    BY <1>4, LandsChanges
  <2>2. runs[r].write # "none" /\ ok \in BOOLEAN
    BY <1>4, LandsChanges, SchedulerAssumption
  <2> DEFINE x == Landed(runs[r], ok)
  <2>3. /\ x.exec = IF runs[r].exec = "writing" THEN "recorded" ELSE runs[r].exec
        /\ x.row = IF ok /\ runs[r].row # "none" THEN runs[r].write ELSE runs[r].row
        /\ x.write = "none"
    BY <1>1, <2>2, LandedFacts
  <2>4. Fields(r, x.exec, x.row, x.write)
    BY <2>1, ChangedFields
  <2> HIDE DEF x
  <2>5. QED
    BY <2>2, <2>3, <2>4
<1>5. QED
  BY <1>2, <1>3, <1>4

(* Which run a run is never changes, and none is forgotten; a step either  *)
(* reserves one or leaves their number alone.                              *)
LEMMA RunsAreKept ==
  ASSUME IInv, [Next]_vars
  PROVE  /\ runs' \in Seq(Run)
         /\ DOMAIN runs \subseteq DOMAIN runs'
         /\ \A r \in DOMAIN runs : SameRun(runs'[r], runs[r])
         /\ \/ LastRun' = LastRun /\ DOMAIN runs' = DOMAIN runs
            \/ Reserve /\ MayReserve(cur)
<1> DEFINE Jobwise == /\ runs' \in Seq(Run)
                      /\ DOMAIN runs \subseteq DOMAIN runs'
                      /\ \A r \in DOMAIN runs : SameRun(runs'[r], runs[r])
                      /\ \/ LastRun' = LastRun /\ DOMAIN runs' = DOMAIN runs
                         \/ Reserve /\ MayReserve(cur)
<1>1. UNCHANGED runs => Jobwise
  BY DEF IInv, TypeOK, SameRun, LastRun
<1>2. \A r, x : Changed(r, x) => Jobwise
  BY DEF Changed, SameRun
<1>3. AllChanged => Jobwise
  BY DEF AllChanged
<1>4. Reserve /\ MayReserve(cur) => Jobwise
  BY ReserveAppends DEF SameRun
<1>5. Reserve /\ ~MayReserve(cur) => UNCHANGED runs
  BY DEF Reserve
<1> HIDE DEF Jobwise
<1>6. Dispatch => Jobwise
  BY <1>1, <1>2, <1>4, <1>5, RecordChanges, SpawnChanges
  DEF Dispatch, FireTick, LoopReturns, PassEnds, Visit, Persist
<1>7. Completion \/ Execution => Jobwise
  BY <1>2, LandsChanges, ReleaseChanges, FinishChanges DEF Completion, Execution
<1>8. Shutdown \/ Crash => Jobwise
  BY <1>1, <1>2, <1>3, AbortLoopChanges, AbortChanges, InterruptedChanges, EndChanges
  DEF Shutdown, LoopJoined, ExecutionJoined, Exit, Crash
<1>9. ClockTick \/ User \/ Start \/ Stop \/ GraceEnds \/ UNCHANGED vars => Jobwise
  BY <1>1
  DEF ClockTick, User, Add, RemoveJob, LoadToSetEnabled, SetEnabled, Start, Stop,
      GraceEnds, vars, inHost
<1>10. QED
  BY <1>6, <1>7, <1>8, <1>9 DEF Jobwise, Next

-----------------------------------------------------------------------------
(* Steps that leave the host alone, or move only its main task. *)
LEMMA OutsideHost ==
  ASSUME ClockTick \/ User
  PROVE  UNCHANGED <<host, overdue, lives, mem, permits, pc, due, cur, runs, handles>>
BY DEF ClockTick, User, Add, RemoveJob, LoadToSetEnabled, SetEnabled, inHost, loop

(* Every step keeps the loop where its state says it is.                   *)
LEMMA LoopFitsStep ==
  ASSUME IInv, [Next]_vars
  PROVE  LoopFits'
<1> USE DEF IInv
<1> DEFINE Frame == UNCHANGED <<host, mem, pc, cur, runs>>
<1>1. CASE Frame
  BY <1>1 DEF LoopFits, Dispatching, LastRun
<1>2. ClockTick \/ User \/ UNCHANGED vars => Frame
  BY OutsideHost DEF vars, loop
<1>3. CASE Start
  <2>1. \A r \in DOMAIN runs : runs[r].exec # "reserved"
    BY <1>3 DEF Start, Over, Live, InProgress
  <2>2. QED
    BY <1>3, <2>1 DEF Start, LoopFits, Dispatching, LastRun
<1>4. CASE FireTick \/ LoopReturns \/ PassEnds
  BY <1>4 DEF FireTick, LoopReturns, PassEnds, LoopFits, Dispatching, LastRun
<1>5. CASE \E j \in Job : Visit(j)
  BY <1>5 DEF Visit, LoopFits, Dispatching, LastRun, TypeOK
<1>6. CASE Reserve /\ MayReserve(cur)
  <2>1. /\ pc' = "persist" /\ UNCHANGED <<host, cur>> /\ pc = "reserve"
        /\ DOMAIN mem' = DOMAIN mem
    BY <1>6 DEF Reserve
  <2>2. QED
    BY <1>6, <2>1, ReserveAppends DEF LoopFits, Dispatching, NewRun
<1>7. CASE Reserve /\ ~MayReserve(cur)
  BY <1>7 DEF Reserve, LoopFits, Dispatching, LastRun
<1>8. CASE Persist
  BY <1>8 DEF Persist, LoopFits, Dispatching, LastRun
<1>9. CASE Record
  <2>1. pc = "record" /\ pc' = "spawn" /\ UNCHANGED <<host, mem, cur>>
    BY <1>9 DEF Record
  <2>2. /\ DOMAIN runs' = DOMAIN runs /\ LastRun' = LastRun
        /\ \A r \in DOMAIN runs : /\ runs'[r].exec = runs[r].exec
                                  /\ runs'[r].job = runs[r].job
    BY <1>9, RecordFields DEF Fields, SameRun, LastRun
  <2>3. QED
    BY <2>1, <2>2 DEF LoopFits, Dispatching
<1>10. CASE Spawn
  <2>1. pc = "spawn" /\ pc' = "next" /\ UNCHANGED <<host, mem, cur>>
    BY <1>10 DEF Spawn
  <2>2. /\ DOMAIN runs' = DOMAIN runs /\ LastRun' = LastRun
        /\ \A r \in DOMAIN runs : runs'[r].exec = IF r = LastRun THEN "executing" ELSE runs[r].exec
    BY <1>10, SpawnFields DEF Fields
  <2>3. QED
    BY <2>1, <2>2 DEF LoopFits, Dispatching
<1>11. CASE Completion \/ Execution \/ AbortExecution \/ RecordInterrupted
  <2>1. UNCHANGED <<host, pc, cur>> /\ DOMAIN mem' = DOMAIN mem
    BY <1>11 DEF Completion, Execution, OutcomeLands, ReleasePermit, FinishExecution,
         AbortExecution, RecordInterrupted, Uncounted, loop
  <2>2. /\ DOMAIN runs' = DOMAIN runs /\ LastRun' = LastRun
        /\ \A r \in DOMAIN runs : runs'[r].exec = "reserved" <=> runs[r].exec = "reserved"
    <3>1. CASE \E r \in DOMAIN runs, o \in {"succeeded", "failed"} : FinishExecution(r, o)
      BY <3>1, ExecutionFields DEF Fields, FinishExecution
    <3>2. CASE \E r \in DOMAIN runs : OutcomeLands(r)
      BY <3>2, ExecutionFields DEF Fields, LivesFit
    <3>3. CASE \E r \in DOMAIN runs : ReleasePermit(r)
      BY <3>3, ExecutionFields DEF Fields, ReleasePermit
    <3>4. CASE AbortExecution
      <4>1. runs[FirstHandle].exec # "reserved"
        BY <3>4, AbortChanges DEF HandlesFit
      <4>2. QED
        BY <3>4, <4>1, AbortFields DEF Fields
    <3>5. CASE RecordInterrupted
      BY <3>5, InterruptedFields DEF Fields, LastRun
    <3>6. QED
      BY <1>11, <3>1, <3>2, <3>3, <3>4, <3>5 DEF Completion, Execution
  <2>3. \A r \in DOMAIN runs : runs'[r].job = runs[r].job
    BY RunsAreKept DEF SameRun
  <2>4. QED
    BY <2>1, <2>2, <2>3 DEF LoopFits, Dispatching
<1>12. CASE Stop \/ GraceEnds
  BY <1>12 DEF Stop, GraceEnds, LoopFits, Dispatching, LastRun, loop
<1>13. CASE AbortLoop
  <2>1. \A r \in DOMAIN runs : runs'[r].exec # "reserved"
    BY <1>13, AbortLoopChanges, DroppedFacts, RunsAreSequence
  <2>2. QED
    BY <1>13, <2>1, AbortLoopChanges DEF AbortLoop, AllChanged, LoopFits, Dispatching
<1>14. CASE LoopJoined \/ ExecutionJoined
  BY <1>14 DEF LoopJoined, ExecutionJoined, LoopFits, Dispatching, LastRun, loop
<1>15. CASE Exit \/ Crash
  <2>1. ProcessEnds /\ host' \in {"off", "stopped"}
    BY <1>15 DEF Exit, Crash
  <2>2. \A r \in DOMAIN runs : runs'[r].exec # "reserved"
    BY <2>1, EndChanges, KilledFacts, RunsAreSequence
  <2>3. QED
    BY <2>1, <2>2, EndChanges DEF ProcessEnds, AllChanged, LoopFits, Dispatching
<1>16. QED
  BY <1>1, <1>2, <1>3, <1>4, <1>5, <1>6, <1>7, <1>8, <1>9, <1>10, <1>11, <1>12,
     <1>13, <1>14, <1>15
  DEF Next, Dispatch, Shutdown

(* The steps of a live host leave it alive, unless they end the process.   *)
HostStep ==
  Dispatch \/ Completion \/ Execution \/ Stop \/ GraceEnds \/ LoopJoined
  \/ ExecutionJoined \/ AbortLoop \/ AbortExecution \/ RecordInterrupted

(* Such a step is one of a host that is up and stays up.                   *)
LEMMA HostStepFacts ==
  ASSUME IInv, HostStep
  PROVE  Up /\ Up' /\ UNCHANGED lives
<1>1. CASE Dispatch
  BY <1>1 DEF Dispatch, FireTick, LoopReturns, PassEnds, Visit, Reserve, Persist, Record,
     Spawn, IInv, LoopFits, Dispatching, Up
<1>2. CASE Completion \/ Execution
  BY <1>2 DEF Completion, Execution, OutcomeLands, ReleasePermit, FinishExecution, Up
<1>3. CASE Stop \/ GraceEnds \/ LoopJoined \/ ExecutionJoined
  BY <1>3 DEF Stop, GraceEnds, LoopJoined, ExecutionJoined, Up
<1>4. CASE AbortLoop \/ AbortExecution \/ RecordInterrupted
  BY <1>4 DEF AbortLoop, AbortExecution, RecordInterrupted, Up
<1>5. QED
  BY <1>1, <1>2, <1>3, <1>4 DEF HostStep

(* Every step is of the clock, a user, the host, or starts or ends it.     *)
LEMMA NextSteps ==
  ASSUME [Next]_vars
  PROVE  \/ ClockTick \/ User \/ UNCHANGED vars
         \/ Start \/ HostStep
         \/ ProcessEnds /\ Up /\ host' \in {"off", "stopped"}
BY DEF Next, Shutdown, HostStep, Exit, Crash, Up

(* Nothing comes to life in a process that is not there.                   *)
LEMMA OverStep ==
  ASSUME IInv, [Next]_vars
  PROVE  Over'
<1>1. CASE ClockTick \/ User \/ UNCHANGED vars
  BY <1>1, OutsideHost DEF IInv, Over, Up, Live, NoJobs, vars, loop
<1>2. CASE Start
  BY <1>2 DEF Start, Over, Up
<1>3. CASE HostStep
  BY <1>3, HostStepFacts DEF Over
<1>4. CASE ProcessEnds
  <2>1. \A r \in DOMAIN runs' : ~Live(r)' /\ runs'[r].write = "none"
    BY <1>4, EndChanges, KilledFacts, RunsAreSequence DEF IInv, AllChanged, Live, InProgress
  <2>2. QED
    BY <1>4, <2>1 DEF ProcessEnds, Over, NoJobs
<1>5. QED
  BY <1>1, <1>2, <1>3, <1>4, NextSteps

(* What is in progress stays of this life.                                 *)
LEMMA LivesFitStep ==
  ASSUME IInv, [Next]_vars
  PROVE  LivesFit'
<1> USE DEF IInv
<1>0. /\ lives \in Nat
      /\ \A r \in DOMAIN runs : runs[r].life \in Nat
  <2>1. \A r \in DOMAIN runs : runs[r] \in Run
    BY RunsAreSequence
  <2>2. lives \in 0..MaxLives /\ MaxLives \in Nat
    BY SchedulerAssumption DEF TypeOK
  <2>3. QED
    BY <2>1, <2>2 DEF Run
<1>1. CASE UNCHANGED <<lives, runs>> /\ DOMAIN mem' = DOMAIN mem
  BY <1>1 DEF LivesFit, Live
<1>2. ClockTick \/ User \/ UNCHANGED vars => UNCHANGED <<lives, runs, mem>>
  BY OutsideHost DEF vars
<1>3. CASE Start
  <2>1. /\ lives' = lives + 1 /\ UNCHANGED runs
        /\ \A r \in DOMAIN runs : ~Live(r) /\ runs[r].write = "none"
    BY <1>3 DEF Start, Over
  <2>2. QED
    BY <1>0, <2>1 DEF LivesFit, Live
<1>4. CASE Reserve /\ MayReserve(cur)
  <2>1. UNCHANGED lives /\ DOMAIN mem' = DOMAIN mem
    BY <1>4 DEF Reserve
  <2>2. QED
    BY <1>0, <1>4, <2>1, ReserveAppends DEF LivesFit, Live, NewRun
<1>5. CASE Record
  <2>1. UNCHANGED <<lives, mem>>
    BY <1>5 DEF Record
  <2>2. /\ DOMAIN runs' = DOMAIN runs
        /\ \A q \in DOMAIN runs : /\ SameRun(runs'[q], runs[q])
                                  /\ runs'[q].exec = runs[q].exec /\ runs'[q].write = runs[q].write
    BY <1>5, RecordFields DEF Fields, SameRun
  <2>3. QED
    BY <2>1, <2>2 DEF LivesFit, Live, SameRun
<1>5a. CASE Spawn
  <2>1. UNCHANGED <<lives, mem>> /\ runs[LastRun].exec = "reserved"
    BY <1>5a DEF Spawn, LoopFits, Dispatching
  <2>2. QED
    BY <1>5a, <2>1, SpawnFields DEF Fields, LivesFit, Live, SameRun, InProgress
<1>6. CASE AbortExecution
  <2>1. UNCHANGED lives /\ DOMAIN mem' = DOMAIN mem
    BY <1>6 DEF AbortExecution, Uncounted
  <2>2. QED
    BY <1>6, <2>1, AbortFields DEF Fields, LivesFit, HandlesFit, Live, SameRun, InProgress
<1>6a. CASE RecordInterrupted
  <2>1. UNCHANGED <<lives, mem>>
    BY <1>6a DEF RecordInterrupted
  <2>2. QED
    <3>1. /\ DOMAIN runs' = DOMAIN runs
          /\ \A q \in DOMAIN runs : /\ SameRun(runs'[q], runs[q])
                                    /\ runs'[q].exec = runs[q].exec
                                    /\ runs'[q].write = runs[q].write
      BY <1>6a, InterruptedFields DEF Fields, SameRun
    <3>2. QED
      BY <2>1, <3>1 DEF LivesFit, Live, SameRun
<1>7. ASSUME NEW r \in DOMAIN runs, OutcomeLands(r)
      PROVE  LivesFit'
  <2>1. UNCHANGED <<lives, mem>>
    BY <1>7 DEF OutcomeLands
  <2>2. QED
    BY <1>7, <2>1, ExecutionFields DEF Fields, LivesFit, Live, SameRun, InProgress
<1>8. ASSUME NEW r \in DOMAIN runs, ReleasePermit(r)
      PROVE  LivesFit'
  <2>1. UNCHANGED lives /\ DOMAIN mem' = DOMAIN mem /\ runs[r].exec = "recorded"
    BY <1>8 DEF ReleasePermit, Uncounted
  <2>2. QED
    BY <1>8, <2>1, ExecutionFields DEF Fields, LivesFit, Live, SameRun, InProgress
<1>9. ASSUME NEW r \in DOMAIN runs, NEW o \in {"succeeded", "failed"}, FinishExecution(r, o)
      PROVE  LivesFit'
  <2>1. UNCHANGED <<lives, mem>> /\ runs[r].exec = "executing"
    BY <1>9 DEF FinishExecution
  <2>2. QED
    BY <1>9, <2>1, ExecutionFields DEF Fields, LivesFit, Live, SameRun, InProgress
<1>10. CASE AbortLoop
  <2>1. UNCHANGED <<lives, mem>>
    BY <1>10 DEF AbortLoop
  <2>2. QED
    BY <1>10, <2>1, AbortLoopChanges, DroppedFacts, RunsAreSequence
    DEF AllChanged, LivesFit, Live, SameRun, InProgress
<1>11. CASE ProcessEnds
  <2>1. UNCHANGED lives
    BY <1>11 DEF ProcessEnds
  <2>2. QED
    BY <1>11, <2>1, EndChanges, KilledFacts, RunsAreSequence
    DEF AllChanged, LivesFit, Live, SameRun, InProgress
<1>12. CASE FireTick \/ LoopReturns \/ PassEnds \/ (\E j \in Job : Visit(j)) \/ Persist
            \/ (Reserve /\ ~MayReserve(cur)) \/ Stop \/ GraceEnds \/ LoopJoined \/ ExecutionJoined
  BY <1>1, <1>12 DEF FireTick, LoopReturns, PassEnds, Visit, Persist, Reserve, Stop, GraceEnds,
     LoopJoined, ExecutionJoined
<1>13. QED
  BY <1>1, <1>2, <1>3, <1>4, <1>5, <1>5a, <1>6, <1>6a, <1>7, <1>8, <1>9, <1>10, <1>11, <1>12,
     NextSteps
  DEF HostStep, Dispatch, Completion, Execution

(* No execution in progress loses its handle.                              *)
LEMMA HandlesFitStep ==
  ASSUME IInv, [Next]_vars
  PROVE  HandlesFit'
<1> USE DEF IInv
<1>0. handles \subseteq DOMAIN runs
  BY RunsAreSequence DEF TypeOK, LastRun
<1>1. CASE UNCHANGED <<lives, runs, handles>>
  BY <1>1 DEF HandlesFit, Live
<1>2. ClockTick \/ User \/ UNCHANGED vars => UNCHANGED <<lives, runs, handles>>
  BY OutsideHost DEF vars
<1>3. CASE Start
  BY <1>3 DEF Start, Over, HandlesFit, Live
<1>4. CASE Reserve /\ MayReserve(cur)
  <2>1. UNCHANGED <<lives, handles>>
    BY <1>4 DEF Reserve
  <2>2. QED
    BY <1>0, <1>4, <2>1, ReserveAppends DEF HandlesFit, Live, NewRun
<1>5. CASE Record
  <2>1. UNCHANGED <<lives, handles>>
    BY <1>5 DEF Record
  <2>2. QED
    BY <1>0, <1>5, <2>1, RecordFields DEF Fields, HandlesFit, Live, SameRun, InProgress
<1>6. CASE Spawn
  <2>1. UNCHANGED lives /\ handles' = Kept \cup {LastRun} /\ runs[LastRun].exec = "reserved"
        /\ LastRun \in DOMAIN runs
    BY <1>6 DEF Spawn, LoopFits, Dispatching, LastRun
  <2>2. runs[LastRun].life = lives
    BY <2>1 DEF LivesFit, Live, InProgress
  <2>3. QED
    BY <1>0, <1>6, <2>1, <2>2, SpawnFields
    DEF Fields, HandlesFit, Live, SameRun, InProgress, Kept, Finished
<1>7. CASE AbortExecution
  <2>1. UNCHANGED <<lives, handles>>
    BY <1>7 DEF AbortExecution
  <2>2. QED
    BY <1>0, <1>7, <2>1, AbortFields DEF Fields, HandlesFit, Live, SameRun, InProgress
<1>8. CASE RecordInterrupted
  <2>1. UNCHANGED lives /\ handles' = handles \ {FirstHandle}
        /\ runs[FirstHandle].exec = "aborted"
    BY <1>8 DEF RecordInterrupted
  <2>2. QED
    BY <1>0, <1>8, <2>1, InterruptedFields DEF Fields, HandlesFit, Live, SameRun, InProgress
<1>9. CASE ExecutionJoined
  BY <1>0, <1>9 DEF ExecutionJoined, HandlesFit, Live, InProgress
<1>10. ASSUME NEW r \in DOMAIN runs, OutcomeLands(r) \/ ReleasePermit(r)
       PROVE  HandlesFit'
  <2>1. UNCHANGED <<lives, handles>> /\ (ReleasePermit(r) => runs[r].exec = "recorded")
    BY <1>10 DEF OutcomeLands, ReleasePermit
  <2>2. QED
    BY <1>0, <1>10, <2>1, ExecutionFields DEF Fields, LivesFit, HandlesFit, Live, SameRun,
       InProgress
<1>11. ASSUME NEW r \in DOMAIN runs, NEW o \in {"succeeded", "failed"}, FinishExecution(r, o)
      PROVE  HandlesFit'
  <2>1. UNCHANGED <<lives, handles>> /\ runs[r].exec = "executing"
    BY <1>11 DEF FinishExecution
  <2>2. QED
    BY <1>0, <1>11, <2>1, ExecutionFields DEF Fields, HandlesFit, Live, SameRun, InProgress
<1>12. CASE AbortLoop
  <2>1. UNCHANGED <<lives, handles>>
    BY <1>12 DEF AbortLoop
  <2>2. QED
    BY <1>0, <1>12, <2>1, AbortLoopChanges, DroppedFacts, RunsAreSequence
    DEF AllChanged, HandlesFit, Live, SameRun, InProgress
<1>13. CASE ProcessEnds
  <2>1. handles' = {}
    BY <1>13 DEF ProcessEnds
  <2>2. QED
    BY <1>13, <2>1, EndChanges, KilledFacts, RunsAreSequence
    DEF AllChanged, HandlesFit, Live, InProgress
<1>14. CASE FireTick \/ LoopReturns \/ PassEnds \/ (\E j \in Job : Visit(j)) \/ Persist
            \/ (Reserve /\ ~MayReserve(cur)) \/ Stop \/ GraceEnds \/ LoopJoined
  BY <1>1, <1>14 DEF FireTick, LoopReturns, PassEnds, Visit, Persist, Reserve, Stop, GraceEnds,
     LoopJoined
<1>15. QED
  BY <1>1, <1>2, <1>3, <1>4, <1>5, <1>6, <1>7, <1>8, <1>9, <1>10, <1>11, <1>12, <1>13,
     <1>14, NextSteps
  DEF HostStep, Dispatch, Completion, Execution
-----------------------------------------------------------------------------
(* What a step does to the live runs, the permits and the counts together: *)
(* nothing, or a run is reserved with the permit of the loop, or a run     *)
(* ends and gives its permit back, or the host starts or ends.             *)
Held == IF pc = "reserve" THEN 1 ELSE 0

Steady ==
  /\ LiveRuns' = LiveRuns
  /\ \/ permits' = permits /\ Held' = Held
     \/ permits > 0 /\ permits' = permits - 1 /\ Held = 0 /\ Held' = 1
     \/ permits' = permits + 1 /\ Held = 1 /\ Held' = 0
  /\ pc' = "ended" \/ (pc # "ended" /\ UNCHANGED mem)

Reserves ==
  /\ Reserve /\ MayReserve(cur)
  /\ LiveRuns' = LiveRuns \cup {LastRun + 1}

Ends(r) ==
  /\ r \in LiveRuns
  /\ LiveRuns' = LiveRuns \ {r}
  /\ permits' = permits + 1
  /\ Held' = Held
  /\ pc' = "ended" \/ (UNCHANGED pc /\ mem' = Uncounted(runs[r].job))

Empty == LiveRuns' = {} /\ permits' = MaxConcurrent /\ Held' = 0

(* The live runs are finitely many, and the permits are numbers.           *)
LEMMA LiveFacts ==
  ASSUME IInv
  PROVE  /\ LiveRuns \subseteq DOMAIN runs
         /\ IsFiniteSet(LiveRuns) /\ Cardinality(LiveRuns) \in Nat
         /\ Held \in {0, 1} /\ permits \in Nat /\ MaxConcurrent \in Nat
<1>1. LiveRuns \subseteq 1..LastRun /\ LastRun \in Nat /\ LiveRuns \subseteq DOMAIN runs
  BY RunsAreSequence DEF IInv, LiveRuns
<1>2. IsFiniteSet(1..LastRun)
  BY <1>1, FS_Interval
<1>3. IsFiniteSet(LiveRuns)
  BY <1>1, <1>2, FS_Subset
<1>4. permits \in 0..MaxConcurrent /\ MaxConcurrent \in Nat
  BY SchedulerAssumption DEF IInv, TypeOK
<1>5. QED
  BY <1>1, <1>3, <1>4, FS_CardinalityType DEF Held

(* Every step is one of those.                                             *)
LEMMA LiveStep ==
  ASSUME IInv, [Next]_vars
  PROVE  Steady \/ Reserves \/ (\E r \in LiveRuns : Ends(r))
         \/ (Empty /\ (Start \/ ProcessEnds))
<1> USE DEF IInv
<1>0. permits \in Nat /\ MaxConcurrent \in Nat
  BY LiveFacts
<1>1. CASE ClockTick \/ User \/ UNCHANGED vars
  <2>1. UNCHANGED <<permits, mem, pc, runs>>
    BY <1>1, OutsideHost DEF vars, loop
  <2>2. QED
    BY <1>0, <2>1 DEF Steady, LiveRuns, Live, Held
<1>2. CASE Start
  BY <1>2 DEF Start, Over, Empty, LiveRuns, Live, Held
<1>3. CASE FireTick \/ LoopReturns \/ PassEnds \/ Persist \/ Stop \/ GraceEnds
           \/ LoopJoined \/ ExecutionJoined
  <2>1. /\ UNCHANGED <<permits, mem, runs>>
        /\ UNCHANGED pc \/ (pc # "ended" /\ pc # "reserve" /\ pc' # "reserve")
    BY <1>3 DEF FireTick, LoopReturns, PassEnds, Persist, Stop, GraceEnds, LoopJoined,
       ExecutionJoined, loop
  <2>2. QED
    BY <1>0, <2>1 DEF Steady, LiveRuns, Live, Held
<1>4. CASE \E j \in Job : Visit(j)
  BY <1>4, <1>0 DEF Visit, Dispatchable, Steady, LiveRuns, Live, Held
<1>5. CASE Reserve /\ ~MayReserve(cur)
  BY <1>5, <1>0 DEF Reserve, Steady, LiveRuns, Live, Held
<1>6. CASE Reserve /\ MayReserve(cur)
  BY <1>6, ReserveAppends DEF Reserves, LiveRuns, Live, NewRun, InProgress
<1>7. CASE Record
  <2>1. UNCHANGED <<permits, mem>> /\ pc = "record" /\ pc' = "spawn"
    BY <1>7 DEF Record
  <2>2. DOMAIN runs' = DOMAIN runs /\ \A q \in DOMAIN runs : runs'[q].exec = runs[q].exec
    BY <1>7, RecordFields DEF Fields
  <2>3. QED
    BY <2>1, <2>2, <1>0 DEF Steady, LiveRuns, Live, Held
<1>8. CASE Spawn
  <2>1. UNCHANGED <<permits, mem>> /\ pc = "spawn" /\ pc' = "next"
    BY <1>8 DEF Spawn
  <2>2. LastRun \in DOMAIN runs /\ runs[LastRun].exec = "reserved"
    BY <2>1 DEF LoopFits, Dispatching
  <2>3. LiveRuns' = LiveRuns
    BY <1>8, <2>2, SpawnFields DEF Fields, LiveRuns, Live, InProgress
  <2>4. QED
    BY <2>1, <2>3, <1>0 DEF Steady, Held
<1>9. ASSUME NEW r \in DOMAIN runs, NEW o \in {"succeeded", "failed"}, FinishExecution(r, o)
      PROVE  Steady
  <2>1. UNCHANGED <<permits, mem, pc>> /\ runs[r].exec = "executing" /\ Up
    BY <1>9 DEF FinishExecution, loop
  <2>2. LiveRuns' = LiveRuns
    BY <1>9, <2>1, ExecutionFields DEF Fields, LiveRuns, Live, InProgress
  <2>3. QED
    BY <2>1, <2>2, <1>0 DEF Steady, Held
<1>10. ASSUME NEW r \in DOMAIN runs, OutcomeLands(r)
       PROVE  Steady
  <2>1. UNCHANGED <<permits, mem, pc>>
    BY <1>10 DEF OutcomeLands, loop
  <2>2. LiveRuns' = LiveRuns
    BY <1>10, ExecutionFields DEF Fields, LiveRuns, Live, InProgress
  <2>3. QED
    BY <2>1, <2>2, <1>0 DEF Steady, Held
<1>11. ASSUME NEW r \in DOMAIN runs, ReleasePermit(r)
       PROVE  r \in LiveRuns /\ Ends(r)
  <2>1. /\ UNCHANGED pc /\ permits' = permits + 1 /\ mem' = Uncounted(runs[r].job)
        /\ runs[r].exec = "recorded"
    BY <1>11 DEF ReleasePermit, loop
  <2>2. r \in LiveRuns /\ LiveRuns' = LiveRuns \ {r}
    BY <1>11, <2>1, ExecutionFields DEF Fields, LiveRuns, Live, InProgress
  <2>3. QED
    BY <2>1, <2>2 DEF Ends, Held
<1>12. CASE AbortExecution
  <2> DEFINE r == FirstHandle
  <2>1. UNCHANGED pc /\ permits' = permits + 1 /\ mem' = Uncounted(runs[r].job)
        /\ ~Finished(r)
    BY <1>12 DEF AbortExecution, loop
  <2>2. r \in LiveRuns
    BY <1>12, <2>1, AbortChanges DEF HandlesFit, Finished, LiveRuns, Live, InProgress, Changed
  <2>3. LiveRuns' = LiveRuns \ {r}
    BY <1>12, AbortFields DEF Fields, LiveRuns, Live, InProgress
  <2>4. QED
    BY <2>1, <2>2, <2>3 DEF Ends, Held
<1>13. CASE RecordInterrupted
  <2>1. UNCHANGED <<permits, mem, pc>> /\ host = "draining"
    BY <1>13 DEF RecordInterrupted, loop
  <2>2. DOMAIN runs' = DOMAIN runs /\ \A q \in DOMAIN runs : runs'[q].exec = runs[q].exec
    BY <1>13, InterruptedFields DEF Fields
  <2>3. QED
    BY <2>1, <2>2, <1>0 DEF Steady, LiveRuns, Live, Held, LoopFits
<1>14. CASE AbortLoop /\ Dispatching
  <2>1. pc' = "ended" /\ permits' = permits + 1 /\ pc # "reserve"
    BY <1>14 DEF AbortLoop, Dispatching
  <2>2. \A q \in DOMAIN runs : runs'[q].exec = IF q = LastRun THEN "dropped" ELSE runs[q].exec
    BY <1>14, AbortLoopChanges, DroppedFacts, RunsAreSequence DEF LoopFits
  <2>3. LastRun \in LiveRuns /\ LiveRuns' = LiveRuns \ {LastRun}
    BY <1>14, <2>2, AbortLoopChanges DEF AllChanged, LoopFits, LiveRuns, Live, InProgress
  <2>4. QED
    BY <2>1, <2>3 DEF Ends, Held
<1>15. CASE AbortLoop /\ ~Dispatching
  <2>1. pc' = "ended" /\ permits' = permits + Held
    BY <1>15, <1>0 DEF AbortLoop, Dispatching, Held, TypeOK
  <2>2. \A q \in DOMAIN runs : runs'[q].exec = runs[q].exec
    BY <1>15, AbortLoopChanges, DroppedFacts, RunsAreSequence DEF LoopFits
  <2>3. LiveRuns' = LiveRuns
    BY <1>15, <2>2, AbortLoopChanges DEF AllChanged, LiveRuns, Live
  <2>4. QED
    BY <2>1, <2>3, <1>0 DEF Steady, Held
<1>16. CASE ProcessEnds
  <2>1. \A q \in DOMAIN runs : ~Live(q)'
    BY <1>16, EndChanges, KilledFacts, RunsAreSequence DEF Live, InProgress
  <2>2. QED
    BY <1>16, <2>1, EndChanges DEF AllChanged, ProcessEnds, Empty, LiveRuns, Held
<1>17. QED
  BY <1>1, <1>2, <1>3, <1>4, <1>5, <1>6, <1>7, <1>8, <1>9, <1>10, <1>11, <1>12, <1>13,
     <1>14, <1>15, <1>16, NextSteps
  DEF HostStep, Dispatch, Completion, Execution

(* No step loses or invents a permit.                                      *)
LEMMA PermitsFitStep ==
  ASSUME IInv, [Next]_vars
  PROVE  PermitsFit'
<1> DEFINE n == Cardinality(LiveRuns)
<1>1. n \in Nat /\ IsFiniteSet(LiveRuns) /\ permits \in Nat /\ Held \in {0, 1}
      /\ MaxConcurrent \in Nat /\ LiveRuns \subseteq DOMAIN runs
  BY LiveFacts
<1>2. permits + n + Held = MaxConcurrent
  BY DEF IInv, PermitsFit, Held
<1>3. SUFFICES permits' + Cardinality(LiveRuns') + Held' = MaxConcurrent
  BY DEF PermitsFit, Held
<1>4. CASE Steady
  <2>1. Cardinality(LiveRuns') = n
    BY <1>4 DEF Steady
  <2>2. \/ permits' = permits /\ Held' = Held
        \/ permits' = permits - 1 /\ Held = 0 /\ Held' = 1
        \/ permits' = permits + 1 /\ Held = 1 /\ Held' = 0
    BY <1>4 DEF Steady
  <2>3. QED
    BY <1>1, <1>2, <2>1, <2>2
<1>5. CASE Reserves
  <2>1. Held = 1 /\ Held' = 0 /\ permits' = permits
    BY <1>5 DEF Reserves, Reserve, Held
  <2>2. LastRun + 1 \notin LiveRuns
    BY <1>1, <1>5, ReserveAppends DEF Reserves
  <2>3. Cardinality(LiveRuns') = n + 1
    BY <1>1, <1>5, <2>2, FS_AddElement DEF Reserves
  <2>4. QED
    BY <1>1, <1>2, <2>1, <2>3
<1>6. ASSUME NEW r \in LiveRuns, Ends(r)
      PROVE  permits' + Cardinality(LiveRuns') + Held' = MaxConcurrent
  <2>1. Cardinality(LiveRuns') = n - 1
    BY <1>1, <1>6, FS_RemoveElement DEF Ends
  <2>2. permits' = permits + 1 /\ Held' = Held
    BY <1>6 DEF Ends
  <2>3. QED
    BY <1>1, <1>2, <2>1, <2>2
<1>7. CASE Empty
  BY <1>1, <1>7, FS_EmptySet DEF Empty
<1>8. QED
  BY <1>4, <1>5, <1>6, <1>7, LiveStep

(* What a step does to the map of jobs: an occurrence is spent by a        *)
(* reservation, a count is released, the map is loaded or is gone.         *)
LEMMA MemStep ==
  ASSUME IInv, [Next]_vars
  PROVE  \/ /\ DOMAIN mem' = DOMAIN mem
            /\ \A j \in DOMAIN mem : mem'[j].next = mem[j].next
            /\ UNCHANGED lives
         \/ Reserves /\ UNCHANGED lives
         \/ ProcessEnds
         \/ Start
<1> USE DEF IInv
<1>1. CASE UNCHANGED mem
  BY <1>1, NextSteps, OutsideHost, HostStepFacts DEF vars
<1>2. \A j \in DOMAIN mem : mem[j] \in MemRow
  BY DEF TypeOK, MemRow
<1>3. ASSUME NEW i \in Job, mem' = Uncounted(i)
      PROVE  /\ DOMAIN mem' = DOMAIN mem
             /\ \A j \in DOMAIN mem : mem'[j].next = mem[j].next
  BY <1>2, <1>3 DEF Uncounted, MemRow
<1>4. \A r \in DOMAIN runs : runs[r].job \in Job
  BY RunsAreSequence DEF Run
<1>5. CASE \E r \in DOMAIN runs : ReleasePermit(r)
  BY <1>3, <1>4, <1>5 DEF ReleasePermit
<1>6. CASE AbortExecution
  <2>1. FirstHandle \in DOMAIN runs
    BY <1>6, AbortChanges DEF Changed
  <2>2. mem' = Uncounted(runs[FirstHandle].job) /\ UNCHANGED lives
    BY <1>6 DEF AbortExecution
  <2>3. QED
    BY <1>3, <1>4, <2>1, <2>2
<1>7. CASE Reserve
  <2>1. CASE MayReserve(cur)
    <3>1. LiveRuns' = LiveRuns \cup {LastRun + 1}
      BY <1>7, <2>1, ReserveAppends DEF LiveRuns, Live, NewRun, InProgress
    <3>2. QED
      BY <1>7, <2>1, <3>1 DEF Reserves, Reserve
  <2>2. CASE ~MayReserve(cur)
    BY <1>1, <1>7, <2>2 DEF Reserve
  <2>3. QED
    BY <2>1, <2>2
<1>8. CASE ClockTick \/ User \/ UNCHANGED vars
  BY <1>1, <1>8, OutsideHost DEF vars
<1>9. CASE FireTick \/ LoopReturns \/ PassEnds \/ (\E j \in Job : Visit(j)) \/ Persist \/ Record
           \/ Spawn \/ Stop \/ GraceEnds \/ LoopJoined \/ ExecutionJoined
           \/ AbortLoop \/ RecordInterrupted
  BY <1>1, <1>9
  DEF FireTick, LoopReturns, PassEnds, Visit, Persist, Record, Spawn, Stop, GraceEnds,
      LoopJoined, ExecutionJoined, AbortLoop, RecordInterrupted
<1>10. CASE Execution \/ (\E r \in DOMAIN runs : OutcomeLands(r))
  BY <1>1, <1>10 DEF Execution, FinishExecution, OutcomeLands
<1>11. QED
  BY <1>5, <1>6, <1>7, <1>8, <1>9, <1>10, NextSteps
  DEF HostStep, Dispatch, Completion

(* The reservation itself. *)
LEMMA ReserveMarks ==
  ASSUME IInv, Reserves
  PROVE  /\ cur \in DOMAIN mem /\ cur \in Job /\ mem[cur].running = 0
         /\ pc = "reserve" /\ pc' = "persist" /\ UNCHANGED host
         /\ mem[cur].next <= now /\ now \in 0..MaxTime
         /\ DOMAIN mem' = DOMAIN mem
         /\ mem'[cur].next = NextOccurrence(cur, now)
         /\ mem'[cur].running = 1
         /\ mem'[cur].enabled = mem[cur].enabled
         /\ \A j \in DOMAIN mem : j # cur => mem'[j] = mem[j]
<1>1. cur \in DOMAIN mem /\ cur \in Job /\ mem[cur] \in MemRow
  BY DEF IInv, TypeOK, LoopFits, Reserves, Reserve, MemRow
<1>2. /\ mem' = [mem EXCEPT ![cur] = Marked(cur)] /\ mem[cur].running = 0
      /\ mem[cur].next <= now /\ pc = "reserve" /\ pc' = "persist" /\ UNCHANGED host
  BY DEF Reserves, Reserve, MayReserve, IsDue
<1>3. /\ Marked(cur).next = NextOccurrence(cur, now) /\ Marked(cur).running = 1
      /\ Marked(cur).enabled = mem[cur].enabled
  BY <1>1, <1>2 DEF Marked, MemRow
<1>4. now \in 0..MaxTime
  BY DEF IInv, TypeOK
<1>5. QED
  BY <1>1, <1>2, <1>3, <1>4

(* A reservation finds no live run of its job: the count says so.          *)
LEMMA OneAtATimeStep ==
  ASSUME IInv, [Next]_vars
  PROVE  OneAtATime'
<1>1. \A r \in LiveRuns : r \in DOMAIN runs /\ runs'[r].job = runs[r].job
  BY RunsAreKept DEF LiveRuns, SameRun
<1>2. OneAtATime
  BY DEF IInv
<1>3. CASE LiveRuns' \subseteq LiveRuns
  BY <1>1, <1>2, <1>3 DEF OneAtATime
<1>4. CASE Reserves
  <2>1. \A r \in LiveRuns : runs[r].job # cur
    BY <1>4, ReserveMarks DEF IInv, CountsFit
  <2>2. runs'[LastRun + 1].job = cur /\ LiveRuns' = LiveRuns \cup {LastRun + 1}
    BY <1>4, ReserveAppends DEF Reserves, NewRun
  <2>3. QED
    BY <1>1, <1>2, <2>1, <2>2 DEF OneAtATime
<1>5. QED
  BY <1>3, <1>4, LiveStep DEF Steady, Ends, Empty

(* The count of a job says whether it has a live run.                      *)
LEMMA CountsFitStep ==
  ASSUME IInv, [Next]_vars
  PROVE  CountsFit'
<1>1. \A r \in LiveRuns : r \in DOMAIN runs /\ runs'[r].job = runs[r].job
  BY RunsAreKept DEF LiveRuns, SameRun
<1>2. CASE pc' = "ended"
  BY <1>2 DEF CountsFit
<1>3. CASE Steady /\ pc' # "ended"
  BY <1>1, <1>3 DEF IInv, CountsFit, Steady
<1>4. CASE Reserves
  <2>1. runs'[LastRun + 1].job = cur /\ LiveRuns' = LiveRuns \cup {LastRun + 1}
    BY <1>4, ReserveAppends DEF Reserves, NewRun
  <2>2. \A j \in DOMAIN mem :
          mem[j].running = IF \E r \in LiveRuns : runs[r].job = j THEN 1 ELSE 0
    BY <1>4, ReserveMarks DEF IInv, CountsFit
  <2>3. QED
    BY <1>1, <1>4, <2>1, <2>2, ReserveMarks DEF CountsFit
<1>5. ASSUME NEW r \in LiveRuns, Ends(r), pc' # "ended"
      PROVE  CountsFit'
  <2> DEFINE i == runs[r].job
  <2>1. /\ LiveRuns' = LiveRuns \ {r} /\ pc # "ended" /\ mem' = Uncounted(i)
    BY <1>5 DEF Ends
  <2>2. i \in DOMAIN mem /\ \A j \in DOMAIN mem : mem[j] \in MemRow
    BY <1>5 DEF IInv, LivesFit, LiveRuns, TypeOK, MemRow
  <2>3. \A j \in DOMAIN mem :
          mem[j].running = IF \E s \in LiveRuns : runs[s].job = j THEN 1 ELSE 0
    BY <2>1 DEF IInv, CountsFit
  <2>4. DOMAIN mem' = DOMAIN mem /\ mem'[i].running = 0
        /\ \A j \in DOMAIN mem : j # i => mem'[j] = mem[j]
    BY <2>1, <2>2, <2>3 DEF Uncounted, MemRow
  <2>5. \A s \in LiveRuns : runs[s].job = i => s = r
    BY DEF IInv, OneAtATime
  <2>6. QED
    BY <1>1, <2>1, <2>3, <2>4, <2>5 DEF CountsFit
<1>6. CASE Empty /\ Start
  <2>1. mem' = LoadAllJobs
    BY <1>6 DEF Start
  <2>2. QED
    BY <1>6, <2>1 DEF Empty, CountsFit, LoadAllJobs, IntoJob
<1>7. CASE ProcessEnds
  BY <1>7 DEF ProcessEnds, CountsFit
<1>8. QED
  BY <1>2, <1>3, <1>4, <1>5, <1>6, <1>7, LiveStep

(* Which runs belong to this life: none of them when the host has just     *)
(* started, and those that did, with the one just reserved, otherwise.     *)
LEMMA ThisLifeStep ==
  ASSUME IInv, [Next]_vars
  PROVE  /\ Start => ThisLife' = {}
         /\ UNCHANGED lives /\ ~Reserves => ThisLife' = ThisLife
         /\ UNCHANGED lives /\ Reserves => ThisLife' = ThisLife \cup {LastRun + 1}
         /\ ThisLife \subseteq DOMAIN runs
<1>1. Start => ThisLife' = {}
  <2>1. Start => lives' = lives + 1 /\ UNCHANGED runs
    BY DEF Start
  <2>2. /\ lives \in Nat
        /\ \A r \in DOMAIN runs : runs[r].life \in Nat /\ runs[r].life <= lives
    <3>1. \A r \in DOMAIN runs : runs[r].life \in Nat
      BY RunsAreSequence DEF IInv, Run
    <3>2. lives \in 0..MaxLives /\ MaxLives \in Nat
      BY SchedulerAssumption DEF IInv, TypeOK
    <3>3. QED
      BY <3>1, <3>2 DEF IInv, LivesFit
  <2>3. QED
    BY <2>1, <2>2 DEF ThisLife
<1>2. \A r \in DOMAIN runs : runs'[r].life = runs[r].life
  BY RunsAreKept DEF SameRun
<1>3. Reserve /\ MayReserve(cur) => Reserves
  BY MemStep, ReserveAppends DEF Reserves, LiveRuns, Live, NewRun, InProgress
<1>4. ~Reserves => DOMAIN runs' = DOMAIN runs
  BY <1>3, RunsAreKept
<1>5. Reserves => DOMAIN runs' = DOMAIN runs \cup {LastRun + 1} /\ runs'[LastRun + 1].life = lives
  BY ReserveAppends DEF Reserves, NewRun
<1>6. QED
  BY <1>1, <1>2, <1>4, <1>5 DEF ThisLife

(* A reservation spends all occurrences up to now.                         *)
LEMMA SpentStep ==
  ASSUME IInv, [Next]_vars
  PROVE  Spent'
<1>1. \A r \in DOMAIN runs : runs'[r].job = runs[r].job /\ runs'[r].at = runs[r].at
  BY RunsAreKept DEF SameRun
<1>2. \A r \in ThisLife : runs[r].job \in DOMAIN mem => mem[runs[r].job].next > runs[r].at
  BY DEF IInv, Spent
<1>3. CASE Start
  BY <1>3, ThisLifeStep DEF Spent
<1>4. CASE ProcessEnds
  BY <1>4 DEF ProcessEnds, Spent, NoJobs
<1>5. CASE Reserves /\ UNCHANGED lives
  <2>1. /\ ThisLife' = ThisLife \cup {LastRun + 1} /\ ThisLife \subseteq DOMAIN runs
        /\ runs'[LastRun + 1].job = cur /\ runs'[LastRun + 1].at = now
    BY <1>5, ThisLifeStep, ReserveAppends DEF Reserves, NewRun
  <2>2. /\ cur \in DOMAIN mem /\ mem[cur].next <= now /\ mem'[cur].next > now
        /\ mem'[cur].next \in Nat /\ mem[cur].next \in Nat /\ now \in Nat
        /\ DOMAIN mem' = DOMAIN mem /\ \A j \in DOMAIN mem : j # cur => mem'[j] = mem[j]
    <3>1. mem[cur].next \in 0..Never
      BY <1>5, ReserveMarks DEF IInv, TypeOK
    <3>2. MaxTime \in Nat /\ Never \in Nat
      BY SchedulerAssumption DEF Never
    <3>3. QED
      BY <1>5, <3>1, <3>2, ReserveMarks, NextIsLater
  <2>3. \A r \in ThisLife : runs[r].at \in Nat
    BY <2>1, RunsAreSequence, SchedulerAssumption DEF IInv, Run
  <2>4. ASSUME NEW r \in ThisLife, runs[r].job \in DOMAIN mem
        PROVE  mem'[runs[r].job].next > runs[r].at
    <3>1. CASE runs[r].job = cur
      <4>1. mem[cur].next > runs[r].at
        BY <1>2, <2>4, <3>1
      <4>2. QED
        BY <2>2, <2>3, <3>1, <4>1
    <3>2. CASE runs[r].job # cur
      BY <1>2, <2>2, <2>4, <3>2
    <3>3. QED
      BY <3>1, <3>2
  <2>5. QED
    BY <1>1, <2>1, <2>2, <2>4 DEF Spent
<1>6. CASE UNCHANGED lives /\ ~Reserves /\ DOMAIN mem' = DOMAIN mem
           /\ \A j \in DOMAIN mem : mem'[j].next = mem[j].next
  BY <1>1, <1>2, <1>6, ThisLifeStep DEF Spent
<1>7. QED
  BY <1>3, <1>4, <1>5, <1>6, MemStep

(* The next reservation is for a later occurrence than the last was at.    *)
LEMMA CoalescesStep ==
  ASSUME IInv, [Next]_vars
  PROVE  Coalesces'
<1>1. \A r \in DOMAIN runs : SameRun(runs'[r], runs[r])
  BY RunsAreKept
<1>2. Coalesces
  BY DEF IInv
<1>3. CASE DOMAIN runs' = DOMAIN runs
  BY <1>1, <1>2, <1>3 DEF Coalesces, SameRun
<1>4. CASE Reserve /\ MayReserve(cur)
  <2>1. /\ DOMAIN runs' = DOMAIN runs \cup {LastRun + 1} /\ runs'[LastRun + 1] = NewRun
        /\ cur \in DOMAIN mem
    BY <1>4, ReserveAppends
  <2>2. NewRun.job = cur /\ NewRun.due = mem[cur].next /\ NewRun.life = lives
    BY DEF NewRun
  <2>3. \A r \in DOMAIN runs : r < LastRun + 1
    BY RunsAreSequence DEF IInv
  <2>4. \A r \in DOMAIN runs : runs[r].job = cur /\ runs[r].life = lives
                                 => mem[cur].next > runs[r].at
    BY <2>1 DEF IInv, Spent, ThisLife
  <2>5. ASSUME NEW r \in DOMAIN runs', NEW s \in DOMAIN runs', r < s,
               runs'[r].job = runs'[s].job, runs'[r].life = runs'[s].life
        PROVE  runs'[s].due > runs'[r].at
    <3>1. CASE s \in DOMAIN runs
      <4>1. r \in DOMAIN runs
        BY <2>1, <2>3, <2>5, <3>1, RunsAreSequence DEF IInv
      <4>2. QED
        BY <1>1, <1>2, <2>5, <3>1, <4>1 DEF Coalesces, SameRun
    <3>2. CASE s = LastRun + 1
      <4>1. r \in DOMAIN runs
        BY <2>1, <2>5, <3>2, RunsAreSequence DEF IInv
      <4>2. QED
        BY <1>1, <2>1, <2>2, <2>4, <2>5, <3>2, <4>1 DEF SameRun
    <3>3. QED
      BY <2>1, <3>1, <3>2
  <2>6. QED
    BY <2>5 DEF Coalesces
<1>5. QED
  BY <1>3, <1>4, RunsAreKept

(* Only a start makes the host run, and the loop takes a job only while the *)
(* host runs.                                                               *)
LEMMA NextHost ==
  ASSUME IInv, [Next]_vars, ~Start
  PROVE  /\ host' = "running" => host = "running"
         /\ pc' = "reserve" => pc = "reserve" \/ host = "running"
<1>1. CASE ClockTick \/ User \/ UNCHANGED vars
  BY <1>1, OutsideHost DEF vars, loop
<1>2. CASE Dispatch
  BY <1>2 DEF Dispatch, FireTick, LoopReturns, PassEnds, Visit, Continues, Reserve, Persist,
     Record, Spawn
<1>3. CASE Completion \/ Execution \/ Stop \/ GraceEnds
  BY <1>3 DEF Completion, OutcomeLands, ReleasePermit, Execution, FinishExecution, Stop, GraceEnds,
     loop
<1>4. CASE LoopJoined \/ ExecutionJoined \/ AbortLoop \/ AbortExecution \/ RecordInterrupted
  BY <1>4 DEF LoopJoined, ExecutionJoined, AbortLoop, AbortExecution, RecordInterrupted, loop
<1>5. CASE ProcessEnds /\ host' \in {"off", "stopped"}
  BY <1>5 DEF ProcessEnds
<1>6. QED
  BY <1>1, <1>2, <1>3, <1>4, <1>5, NextSteps DEF HostStep

(* After stop() the loop reserves at most once.                            *)
LEMMA LateOnceStep ==
  ASSUME IInv, [Next]_vars
  PROVE  LateOnce'
<1>1. \A r \in DOMAIN runs : runs'[r].late = runs[r].late
  BY RunsAreKept DEF SameRun
<1>2. /\ \A r, s \in ThisLife : runs[r].late /\ runs[s].late => r = s
      /\ host = "running" \/ pc = "reserve" => \A r \in ThisLife : ~runs[r].late
  BY DEF IInv, LateOnce
<1>3. CASE Start
  BY <1>3, ThisLifeStep DEF LateOnce
<1>4. CASE Reserves /\ UNCHANGED lives
  <2>1. /\ ThisLife' = ThisLife \cup {LastRun + 1} /\ ThisLife \subseteq DOMAIN runs
        /\ runs'[LastRun + 1].late = (host # "running")
    BY <1>4, ThisLifeStep, ReserveAppends DEF Reserves, NewRun
  <2>2. pc = "reserve" /\ pc' = "persist" /\ UNCHANGED host
    BY <1>4, ReserveMarks
  <2>3. QED
    BY <1>1, <1>2, <2>1, <2>2 DEF LateOnce
<1>5. CASE ~Reserves /\ ~Start
  <2>1. UNCHANGED lives
    BY <1>5, MemStep DEF ProcessEnds
  <2>2. host' = "running" => host = "running"
    BY <1>5, NextHost
  <2>3. pc' = "reserve" => pc = "reserve" \/ host = "running"
    BY <1>5, NextHost
  <2>4. QED
    BY <1>1, <1>2, <1>5, <2>1, <2>2, <2>3, ThisLifeStep DEF LateOnce
<1>6. QED
  BY <1>3, <1>4, <1>5, MemStep DEF ProcessEnds

-----------------------------------------------------------------------------
(* Types.  The tables first, which only the user and the loop write.       *)
TablesFit ==
  /\ now \in 0..MaxTime
  /\ added \in SUBSET Job
  /\ DOMAIN table \subseteq added
  /\ table \in [DOMAIN table -> Row]
  /\ pending \subseteq [job : added, enabled : BOOLEAN, next : 0..Never]
  /\ commands \in 0..MaxCommands

(* The tables stay well formed.                                            *)
LEMMA TablesFitStep ==
  ASSUME IInv, [Next]_vars
  PROVE  TablesFit'
<1>1. TablesFit
  BY DEF IInv, TypeOK, TablesFit, Row
<1>2. CASE UNCHANGED <<now, table, added, pending, commands>>
  BY <1>1, <1>2 DEF TablesFit
<1>3. CASE ClockTick
  BY <1>1, <1>3, SchedulerAssumption DEF ClockTick, TablesFit, store
<1>4. \A j \in Job : Fresh(j) \in Row
  BY <1>1, NextIsLater DEF Fresh, Row, TablesFit
<1>5. Command => commands' \in 0..MaxCommands
  BY <1>1, SchedulerAssumption DEF Command, TablesFit
<1>6. ASSUME NEW j \in Job, Add(j)
      PROVE  TablesFit'
  <2>1. /\ table' = [i \in DOMAIN table \cup {j} |-> IF i = j THEN Fresh(j) ELSE table[i]]
        /\ added' = added \cup {j} /\ UNCHANGED <<now, pending>> /\ Command
    BY <1>6 DEF Add, SaveJob
  <2>2. table' \in [DOMAIN table' -> Row] /\ DOMAIN table' \subseteq added'
    BY <1>1, <1>4, <2>1 DEF TablesFit
  <2>3. pending' \subseteq [job : added', enabled : BOOLEAN, next : 0..Never]
    BY <1>1, <2>1 DEF TablesFit
  <2>4. QED
    BY <1>1, <1>5, <2>1, <2>2, <2>3 DEF TablesFit
<1>7. ASSUME NEW j \in Job, RemoveJob(j)
      PROVE  TablesFit'
  BY <1>1, <1>5, <1>7 DEF RemoveJob, DeleteJob, TablesFit
<1>8. ASSUME NEW j \in Job, NEW enabled \in BOOLEAN, LoadToSetEnabled(j, enabled)
      PROVE  TablesFit'
  <2>1. /\ pending' = pending \cup {[job |-> j, enabled |-> enabled, next |-> table[j].next]}
        /\ j \in DOMAIN table /\ Command /\ UNCHANGED <<now, table, added>>
    BY <1>8 DEF LoadToSetEnabled
  <2>2. table[j].next \in 0..Never /\ j \in added
    BY <1>1, <2>1 DEF TablesFit, Row
  <2>3. QED
    BY <1>1, <1>5, <2>1, <2>2 DEF TablesFit
<1>9. ASSUME NEW j, NEW enabled \in BOOLEAN, NEW next \in 0..Never,
             UpdateJobState(j, enabled, next)
      PROVE  DOMAIN table' = DOMAIN table /\ table' \in [DOMAIN table' -> Row]
  BY <1>1, <1>9 DEF UpdateJobState, TablesFit, Row
<1>10. ASSUME NEW c \in pending, SetEnabled(c)
       PROVE  TablesFit'
  <2>1. c.enabled \in BOOLEAN /\ c.next \in 0..Never
    BY <1>1 DEF TablesFit
  <2>2. DOMAIN table' = DOMAIN table /\ table' \in [DOMAIN table' -> Row]
    BY <1>9, <1>10, <2>1 DEF SetEnabled
  <2>3. UNCHANGED <<now, added, commands>> /\ pending' \subseteq pending
    BY <1>10 DEF SetEnabled
  <2>4. QED
    BY <1>1, <2>2, <2>3 DEF TablesFit
<1>11. CASE Persist
  <2>1. cur \in DOMAIN mem /\ mem[cur] \in MemRow
    BY <1>11 DEF IInv, LoopFits, Dispatching, Persist, TypeOK, MemRow
  <2>2. mem[cur].enabled \in BOOLEAN /\ mem[cur].next \in 0..Never
    BY <2>1 DEF MemRow
  <2>3. DOMAIN table' = DOMAIN table /\ table' \in [DOMAIN table' -> Row]
    BY <1>1, <1>9, <1>11, <2>2 DEF Persist, TablesFit
  <2>4. QED
    BY <1>1, <1>11, <2>3 DEF Persist, TablesFit
<1>12. CASE Dispatch /\ ~Persist
  BY <1>2, <1>12
  DEF Dispatch, FireTick, LoopReturns, PassEnds, Visit, Reserve, Record, Spawn, store
<1>13. CASE Start \/ Completion \/ Execution \/ Stop \/ GraceEnds \/ LoopJoined
            \/ ExecutionJoined \/ AbortLoop \/ AbortExecution \/ RecordInterrupted
  BY <1>2, <1>13
  DEF Start, Completion, OutcomeLands, ReleasePermit, Execution, FinishExecution, Stop, GraceEnds,
      LoopJoined, ExecutionJoined, AbortLoop, AbortExecution, RecordInterrupted, store
<1>14. CASE ProcessEnds
  BY <1>2, <1>14 DEF ProcessEnds, store
<1>15. CASE UNCHANGED vars
  BY <1>2, <1>15 DEF vars, store
<1>16. QED
  BY <1>3, <1>6, <1>7, <1>8, <1>10, <1>11, <1>12, <1>13, <1>14, <1>15, NextSteps
  DEF User, HostStep

(* The map of jobs holds jobs that were added, and the loop visits them.   *)
MemFits ==
  /\ DOMAIN mem \subseteq added
  /\ mem \in [DOMAIN mem -> MemRow]
  /\ due \subseteq DOMAIN mem
  /\ cur \in Job

(* The map of the host stays well formed.                                  *)
LEMMA MemFitsStep ==
  ASSUME IInv, [Next]_vars
  PROVE  MemFits'
<1>1. MemFits
  BY DEF IInv, TypeOK, MemFits, MemRow
<1>2. added \subseteq added'
  BY DEF Next, vars, store, ClockTick, User, Add, RemoveJob, LoadToSetEnabled, SetEnabled, Start,
     Dispatch, FireTick, LoopReturns, PassEnds, Visit, Reserve, Persist, Record, Spawn,
     Completion, OutcomeLands, ReleasePermit, Execution, FinishExecution, Stop, GraceEnds, Shutdown,
     LoopJoined, ExecutionJoined, AbortLoop, AbortExecution, RecordInterrupted, Exit, Crash,
     ProcessEnds
<1>3. CASE UNCHANGED <<mem, due, cur>>
  BY <1>1, <1>2, <1>3 DEF MemFits
<1>4. CASE Start
  <2>1. mem' = LoadAllJobs /\ UNCHANGED <<due, cur, added>>
    BY <1>4 DEF Start, store
  <2>2. \A j \in DOMAIN table : IntoJob(table[j]) \in MemRow /\ j \in added
    BY DEF IInv, TypeOK, IntoJob, MemRow
  <2>3. due = {}
    BY <1>1, <1>4 DEF Start, IInv, Over, NoJobs, MemFits
  <2>4. QED
    BY <1>1, <2>1, <2>2, <2>3 DEF MemFits, LoadAllJobs
<1>5. CASE FireTick \/ PassEnds \/ (\E j \in Job : Visit(j)) \/ AbortLoop
  <2>1. UNCHANGED mem /\ due' \subseteq DOMAIN mem /\ cur' \in Job
    BY <1>1, <1>5 DEF FireTick, PassEnds, Visit, AbortLoop, DueIds, MemFits
  <2>2. QED
    BY <1>1, <1>2, <2>1 DEF MemFits
<1>6. CASE Reserves
  <2>1. /\ DOMAIN mem' = DOMAIN mem /\ UNCHANGED <<due, cur>>
        /\ mem' = [mem EXCEPT ![cur] = Marked(cur)]
    BY <1>6, ReserveMarks DEF Reserves, Reserve
  <2>2. Marked(cur) \in MemRow
    <3>1. mem[cur] \in MemRow /\ mem[cur].running = 0 /\ NextOccurrence(cur, now) \in 0..Never
      BY <1>1, <1>6, ReserveMarks, NextIsLater DEF MemFits
    <3>2. Marked(cur) = [mem[cur] EXCEPT !.next = NextOccurrence(cur, now), !.running = 1]
      BY <3>1 DEF Marked, MemRow
    <3> DEFINE n == NextOccurrence(cur, now)
               x == [mem[cur] EXCEPT !.next = n]
    <3>3. x \in MemRow
      <4>1. n \in 0..Never
        BY <3>1
      <4> HIDE DEF n
      <4>2. QED
        BY <3>1, <4>1 DEF MemRow
    <3>4. Marked(cur) = [x EXCEPT !.running = 1]
      BY <3>2
    <3> HIDE DEF x
    <3>5. QED
      BY <3>3, <3>4 DEF MemRow
  <2>3. QED
    BY <1>1, <1>2, <2>1, <2>2 DEF MemFits
<1>7. ASSUME NEW i, mem' = Uncounted(i), UNCHANGED <<due, cur>>
      PROVE  MemFits'
  <2>1. \A j \in DOMAIN mem : mem[j] \in MemRow
    BY <1>1 DEF MemFits
  <2>2. \A j \in DOMAIN mem :
          [mem[j] EXCEPT !.running = IF @ = 0 THEN 0 ELSE @ - 1] \in MemRow
    BY <2>1 DEF MemRow
  <2>3. mem' \in [DOMAIN mem -> MemRow]
    BY <1>1, <1>7, <2>2 DEF Uncounted, MemFits
  <2>4. QED
    BY <1>1, <1>2, <1>7, <2>3 DEF MemFits
<1>8. CASE ProcessEnds
  BY <1>1, <1>8 DEF ProcessEnds, MemFits, NoJobs
<1>9. CASE Completion \/ Execution \/ AbortExecution \/ RecordInterrupted
  BY <1>3, <1>7, <1>9
  DEF Completion, OutcomeLands, ReleasePermit, Execution, FinishExecution, AbortExecution,
      RecordInterrupted, loop
<1>10. CASE Reserve /\ ~MayReserve(cur)
  BY <1>3, <1>10 DEF Reserve
<1>11. CASE LoopReturns \/ Persist \/ Record \/ Spawn \/ Stop \/ GraceEnds \/ LoopJoined
            \/ ExecutionJoined
  BY <1>3, <1>11
  DEF LoopReturns, Persist, Record, Spawn, Stop, GraceEnds, LoopJoined, ExecutionJoined, loop
<1>12. CASE ClockTick \/ User \/ UNCHANGED vars
  BY <1>3, <1>12, OutsideHost DEF vars, loop
<1>13. Reserve /\ MayReserve(cur) => Reserves
  BY ReserveAppends DEF Reserves, LiveRuns, Live, NewRun, InProgress, IInv
<1>14. QED
  BY <1>4, <1>5, <1>6, <1>8, <1>9, <1>10, <1>11, <1>12, <1>13, NextSteps
  DEF HostStep, Dispatch

(* Where the tasks of the host are. *)
HostFits ==
  /\ host \in {"off", "running", "joining", "draining", "stopped"}
  /\ overdue \in BOOLEAN
  /\ lives \in 0..MaxLives
  /\ pc \in {"ended", "tick", "next", "reserve", "persist", "record", "spawn"}
  /\ handles \subseteq DOMAIN runs

(* The tasks of the host stay where tasks can be.                          *)
LEMMA HostFitsStep ==
  ASSUME IInv, [Next]_vars
  PROVE  HostFits'
<1>1. HostFits
  BY RunsAreSequence DEF IInv, TypeOK, HostFits, LastRun
<1>2. DOMAIN runs \subseteq DOMAIN runs'
  BY RunsAreKept
<1>3. handles' \subseteq handles \cup DOMAIN runs'
  <2>1. LastRun \in Nat
    BY RunsAreSequence DEF IInv
  <2>2. CASE Spawn
    BY <2>2, SpawnChanges DEF Spawn, Kept, Changed, LastRun
  <2>3. CASE UNCHANGED handles \/ handles' = handles \ {FirstHandle} \/ handles' = {}
    BY <2>3
  <2>4. CASE ClockTick \/ User \/ UNCHANGED vars
    BY <2>4, OutsideHost DEF vars
  <2>5. CASE Start \/ Completion \/ Execution \/ Stop \/ GraceEnds \/ (Dispatch /\ ~Spawn)
    BY <2>3, <2>5
    DEF Start, Completion, OutcomeLands, ReleasePermit, Execution, FinishExecution, Stop, GraceEnds,
        Dispatch, FireTick, LoopReturns, PassEnds, Visit, Reserve, Persist, Record
  <2>6. CASE LoopJoined \/ ExecutionJoined \/ AbortLoop \/ AbortExecution
             \/ RecordInterrupted \/ ProcessEnds
    BY <2>3, <2>6
    DEF LoopJoined, ExecutionJoined, AbortLoop, AbortExecution, RecordInterrupted, ProcessEnds
  <2>7. QED
    BY <2>2, <2>4, <2>5, <2>6, NextSteps DEF HostStep
<1>4. handles' \subseteq DOMAIN runs'
  BY <1>1, <1>2, <1>3 DEF HostFits
<1>5. CASE ClockTick \/ User \/ UNCHANGED vars
  BY <1>1, <1>4, <1>5, OutsideHost DEF HostFits, vars, loop
<1>6. CASE Start
  <2>1. lives \in Nat /\ MaxLives \in Nat
    BY <1>1, SchedulerAssumption DEF HostFits
  <2>2. lives' \in 0..MaxLives
    BY <1>6, <2>1 DEF Start
  <2>3. QED
    BY <1>1, <1>4, <1>6, <2>2 DEF Start, HostFits
<1>7. CASE Dispatch
  <2>1. UNCHANGED <<host, overdue, lives>>
    BY <1>7 DEF Dispatch, FireTick, LoopReturns, PassEnds, Visit, Reserve, Persist, Record, Spawn
  <2>2. pc' \in {"ended", "tick", "next", "reserve", "persist", "record", "spawn"}
    BY <1>7 DEF Dispatch, FireTick, LoopReturns, PassEnds, Visit, Reserve, Persist, Record, Spawn
  <2>3. QED
    BY <1>1, <1>4, <2>1, <2>2 DEF HostFits
<1>8. CASE Completion \/ Execution \/ Stop \/ GraceEnds
  BY <1>1, <1>4, <1>8
  DEF Completion, OutcomeLands, ReleasePermit, Execution, FinishExecution, Stop, GraceEnds, loop,
      HostFits
<1>9. CASE LoopJoined \/ ExecutionJoined \/ AbortLoop \/ AbortExecution \/ RecordInterrupted
  BY <1>1, <1>4, <1>9
  DEF LoopJoined, ExecutionJoined, AbortLoop, AbortExecution, RecordInterrupted, loop, HostFits
<1>10. CASE ProcessEnds /\ host' \in {"off", "stopped"}
  BY <1>1, <1>4, <1>10 DEF ProcessEnds, HostFits
<1>11. QED
  BY <1>5, <1>6, <1>7, <1>8, <1>9, <1>10, NextSteps DEF HostStep

(* The permits: never more are free than there are.                        *)
LEMMA PermitsStay ==
  ASSUME IInv, [Next]_vars
  PROVE  permits' \in 0..MaxConcurrent
<1>1. permits \in Nat /\ MaxConcurrent \in Nat /\ Held \in {0, 1}
  BY LiveFacts
<1>2. permits' \in Nat
  <2>1. CASE Reserves
    BY <1>1, <2>1 DEF Reserves, Reserve
  <2>2. QED
    BY <1>1, <2>1, LiveStep DEF Steady, Ends, Empty
<1>3. Cardinality(LiveRuns') \in Nat /\ Held' \in {0, 1}
  <2>1. LiveRuns' \subseteq 1..LastRun' /\ LastRun' \in Nat
    BY RunsAreKept DEF LiveRuns, LastRun
  <2>2. \A n \in Nat : \A T \in SUBSET (1..n) : Cardinality(T) \in Nat
    <3>1. TAKE n \in Nat
    <3>2. IsFiniteSet(1..n)
      BY FS_Interval
    <3>3. QED
      BY <3>2, FS_Subset, FS_CardinalityType
  <2>3. QED
    BY <2>1, <2>2 DEF Held
<1>4. permits' + Cardinality(LiveRuns') + Held' = MaxConcurrent
  BY PermitsFitStep DEF PermitsFit, Held
<1>5. QED
  BY <1>1, <1>2, <1>3, <1>4

(* The types together.                                                     *)
LEMMA TypeStep ==
  ASSUME IInv, [Next]_vars
  PROVE  TypeOK'
<1>1. runs' \in Seq(Run) /\ DOMAIN runs' = 1..Len(runs')
  BY RunsAreKept
<1>2. QED
  BY <1>1, TablesFitStep, MemFitsStep, HostFitsStep, PermitsStay
  DEF TypeOK, TablesFit, MemFits, HostFits, Row, MemRow

(* The invariant holds at first ...                                        *)
LEMMA Starts ==
  ASSUME Init
  PROVE  IInv
<1>1. /\ \A j \in Initial : Fresh(j) \in Row
      /\ Initial \subseteq Job
  BY NextIsLater, SchedulerAssumption DEF Init, Fresh, Row
<1>2. table \in [DOMAIN table -> Row] /\ DOMAIN table = Initial
  BY <1>1 DEF Init, InitTables
<1>3. cur \in Job /\ runs \in Seq(Run) /\ DOMAIN runs = {} /\ Len(runs) = 0
  BY SchedulerAssumption DEF Init
<1>4. mem = NoJobs /\ DOMAIN mem = {} /\ mem \in [DOMAIN mem -> MemRow]
  BY DEF Init, NoJobs
<1>5. TypeOK
  <2>1. /\ now = 0 /\ added = Initial /\ pending = {} /\ commands = 0 /\ host = "off"
        /\ overdue = FALSE /\ lives = 0 /\ permits = MaxConcurrent /\ pc = "ended"
        /\ due = {} /\ handles = {}
    BY DEF Init
  <2>2. now \in 0..MaxTime /\ commands \in 0..MaxCommands /\ lives \in 0..MaxLives
        /\ permits \in 0..MaxConcurrent
    BY <2>1, SchedulerAssumption
  <2>3. QED
    BY <1>1, <1>2, <1>3, <1>4, <2>1, <2>2 DEF TypeOK, Row, MemRow
<1>6. LiveRuns = {} /\ Cardinality(LiveRuns) = 0
  BY <1>3, FS_EmptySet DEF LiveRuns
<1>7. PermitsFit
  BY <1>6, SchedulerAssumption DEF Init, PermitsFit
<1>8. LoopFits /\ Over /\ LivesFit /\ HandlesFit
  BY <1>3 DEF Init, LoopFits, Dispatching, Over, LivesFit, HandlesFit
<1>9. OneAtATime /\ CountsFit /\ Spent /\ Coalesces /\ LateOnce
  BY <1>3, <1>4, <1>6 DEF OneAtATime, CountsFit, Spent, Coalesces, LateOnce, ThisLife
<1>10. QED
  BY <1>5, <1>7, <1>8, <1>9 DEF IInv

(* ... and every step keeps it.                                            *)
LEMMA Stays ==
  ASSUME IInv, [Next]_vars
  PROVE  IInv'
BY TypeStep, LoopFitsStep, OverStep, LivesFitStep, HandlesFitStep, OneAtATimeStep,
   PermitsFitStep, CountsFitStep, SpentStep, CoalescesStep, LateOnceStep DEF IInv

(* The invariant holds of every behaviour of the host, the store and the   *)
(* user, whatever writes fail and whenever the host is killed.             *)
THEOREM Invariant == Spec => []IInv
BY Starts, Stays, PTL DEF Spec

(* The invariant implies what the run checks. *)
LEMMA InvariantSuffices ==
  ASSUME IInv
  PROVE  DispatchIsSound
<1>1. NoOverlap
  <2>1. Cardinality(LiveRuns) \in Nat /\ permits \in Nat /\ Held \in {0, 1}
        /\ permits + Cardinality(LiveRuns) + Held = MaxConcurrent
    BY LiveFacts DEF IInv, PermitsFit, Held
  <2>2. Cardinality(LiveRuns) <= MaxConcurrent
    BY <2>1
  <2>3. QED
    BY <2>2 DEF IInv, OneAtATime, NoOverlap
<1>2. NoLeak
  <2>1. permits + Cardinality(LiveRuns) + (IF pc = "reserve" THEN 1 ELSE 0) = MaxConcurrent
    BY DEF IInv, PermitsFit
  <2>2. ASSUME pc # "ended", NEW j \in DOMAIN mem
        PROVE  mem[j].running = Cardinality(LiveOf(j))
    <3>1. CASE \E r \in LiveRuns : runs[r].job = j
      <4>1. PICK r \in LiveRuns : runs[r].job = j
        BY <3>1
      <4>2. LiveOf(j) = {r}
        BY <4>1 DEF IInv, OneAtATime, LiveOf
      <4>3. Cardinality(LiveOf(j)) = 1
        BY <4>2, FS_Singleton
      <4>4. QED
        BY <2>2, <3>1, <4>3 DEF IInv, CountsFit
    <3>2. CASE ~\E r \in LiveRuns : runs[r].job = j
      <4>1. LiveOf(j) = {}
        BY <3>2 DEF LiveOf
      <4>2. Cardinality(LiveOf(j)) = 0
        BY <4>1, FS_EmptySet
      <4>3. QED
        BY <2>2, <3>2, <4>2 DEF IInv, CountsFit
    <3>3. QED
      BY <3>1, <3>2
  <2>3. QED
    BY <2>1, <2>2 DEF NoLeak
<1>3. AtMostOneLate
  <2> DEFINE late == {r \in ThisLife : runs[r].late}
  <2>1. \A r, s \in late : r = s
    BY DEF IInv, LateOnce
  <2>2. CASE late = {}
    BY <2>2, FS_EmptySet DEF AtMostOneLate
  <2>3. CASE late # {}
    <3>1. PICK r \in late : TRUE
      BY <2>3
    <3>2. late = {r}
      BY <2>1, <3>1
    <3>3. Cardinality(late) = 1
      BY <3>2, FS_Singleton
    <3>4. QED
      BY <3>3 DEF AtMostOneLate
  <2>4. QED
    BY <2>2, <2>3
<1>4. QED
  BY <1>1, <1>2, <1>3 DEF IInv, DispatchIsSound

(* The host dispatches a job neither twice at a time nor twice for one     *)
(* occurrence within a life, and loses no permit.  Once stop() has cleared *)
(* the flag it reserves at most one job.                                   *)
THEOREM Soundness == Spec => []DispatchIsSound
BY Invariant, InvariantSuffices, PTL

-----------------------------------------------------------------------------
(* What becomes of the runs of this life.  An execution is killed only     *)
(* with the process and aborted only by stop(), which has joined the loop. *)
NoneKilled ==
  host # "off" =>
    \A r \in ThisLife :
      /\ runs[r].exec # "killed"
      /\ runs[r].exec = "aborted" => host \in {"draining", "stopped"}

(* When the store takes every write, the row of a run is there before the  *)
(* execution and has its outcome before the count is released; that of an  *)
(* aborted one has it before its handle is given up.                       *)
OutcomesFit ==
  host # "off" /\ StoreOutcomes = {TRUE} =>
    \A r \in ThisLife :
      /\ Spawned(r) \/ (pc = "spawn" /\ runs[r].exec = "reserved") => runs[r].row # "none"
      /\ runs[r].exec \in {"recorded", "ended"} => runs[r].row \in {"succeeded", "failed"}
      /\ runs[r].exec = "aborted" /\ r \notin handles =>
           runs[r].row \in {"succeeded", "failed"}

SInv == IInv /\ NoneKilled /\ OutcomesFit

(* The steps by which a run moves from one stage to the next.              *)
LEMMA ExecStep ==
  ASSUME IInv, [Next]_vars, NEW r \in DOMAIN runs
  PROVE  \/ runs'[r].exec = runs[r].exec
         \/ Spawn /\ r = LastRun /\ runs[r].exec = "reserved" /\ runs'[r].exec = "executing"
         \/ runs[r].exec = "executing" /\ runs'[r].exec = "writing"
         \/ OutcomeLands(r) /\ runs[r].exec = "writing" /\ runs'[r].exec = "recorded"
         \/ runs[r].exec = "recorded" /\ runs'[r].exec = "ended"
         \/ AbortExecution /\ r \in handles /\ runs'[r].exec = "aborted"
         \/ runs[r].exec = "reserved" /\ runs'[r].exec = "dropped"
         \/ /\ Exit \/ Crash
            /\ runs[r].exec \in InProgress \ {"reserved"} /\ runs'[r].exec = "killed"
<1>0. runs[r] \in Run
  BY RunsAreSequence DEF IInv
<1>1. CASE UNCHANGED runs
  BY <1>1
<1>2. CASE Spawn
  <2>1. runs[LastRun].exec = "reserved"
    BY <1>2 DEF IInv, LoopFits, Dispatching, Spawn
  <2>2. QED
    BY <1>2, <2>1, SpawnFields DEF Fields
<1>3. CASE Record
  BY <1>3, RecordFields DEF Fields
<1>4. CASE AbortExecution
  BY <1>4, AbortFields DEF Fields
<1>5. CASE RecordInterrupted
  BY <1>5, InterruptedFields DEF Fields
<1>6. ASSUME NEW q \in DOMAIN runs, NEW o \in {"succeeded", "failed"}, FinishExecution(q, o)
      PROVE  \/ runs'[r].exec = runs[r].exec
             \/ runs[r].exec = "executing" /\ runs'[r].exec = "writing"
  BY <1>6, ExecutionFields DEF Fields, FinishExecution
<1>7. ASSUME NEW q \in DOMAIN runs, OutcomeLands(q)
      PROVE  \/ runs'[r].exec = runs[r].exec
             \/ OutcomeLands(r) /\ runs[r].exec = "writing" /\ runs'[r].exec = "recorded"
  BY <1>7, ExecutionFields DEF Fields
<1>8. ASSUME NEW q \in DOMAIN runs, ReleasePermit(q)
      PROVE  \/ runs'[r].exec = runs[r].exec
             \/ runs[r].exec = "recorded" /\ runs'[r].exec = "ended"
  BY <1>8, ExecutionFields DEF Fields, ReleasePermit
<1>9. CASE AbortLoop
  BY <1>0, <1>9, AbortLoopChanges, DroppedFacts
<1>10. CASE Exit \/ Crash
  BY <1>0, <1>10, EndChanges, KilledFacts DEF Exit, Crash
<1>11. CASE Reserve
  BY <1>1, <1>11, ReserveAppends DEF Reserve
<1>12. CASE ClockTick \/ User \/ UNCHANGED vars
  BY <1>1, <1>12, OutsideHost DEF vars
<1>13. CASE Start \/ FireTick \/ LoopReturns \/ PassEnds \/ (\E j \in Job : Visit(j))
            \/ Persist \/ Stop \/ GraceEnds \/ LoopJoined \/ ExecutionJoined
  BY <1>1, <1>13 DEF Start, FireTick, LoopReturns, PassEnds, Visit, Persist, Stop, GraceEnds,
     LoopJoined, ExecutionJoined
<1>14. QED
  BY <1>2, <1>3, <1>4, <1>5, <1>6, <1>7, <1>8, <1>9, <1>10, <1>11, <1>12, <1>13
  DEF Next, Dispatch, Completion, Execution, Shutdown

(* ... and those that write its row. *)
LEMMA RowStep ==
  ASSUME IInv, [Next]_vars, NEW r \in DOMAIN runs
  PROVE  \/ runs'[r].row = runs[r].row
         \/ Record /\ r = LastRun /\ runs'[r].row = "running"
         \/ runs[r].row # "none" /\ runs'[r].row \in {"succeeded", "failed"}
<1>0. runs[r] \in Run /\ \A q \in DOMAIN runs : runs[q] \in Run
  BY RunsAreSequence DEF IInv
<1>1. CASE UNCHANGED runs
  BY <1>1
<1>2. CASE Spawn
  BY <1>2, SpawnFields DEF Fields
<1>3. CASE Record
  BY <1>3, RecordFields DEF Fields
<1>4. CASE AbortExecution
  BY <1>4, AbortFields DEF Fields
<1>5. CASE RecordInterrupted
  BY <1>5, InterruptedFields DEF Fields
<1>6. CASE Execution
  BY <1>6, ExecutionFields DEF Fields, Execution
<1>7. ASSUME NEW q \in DOMAIN runs, OutcomeLands(q)
      PROVE  \/ runs'[r].row = runs[r].row
             \/ runs[r].row # "none" /\ runs'[r].row \in {"succeeded", "failed"}
  <2>1. runs[q].write \in {"succeeded", "failed"}
    BY <1>0, <1>7 DEF OutcomeLands, Run
  <2>2. QED
    BY <1>7, <2>1, ExecutionFields DEF Fields
<1>8. CASE \E q \in DOMAIN runs : ReleasePermit(q)
  BY <1>8, ExecutionFields DEF Fields
<1>9. CASE AbortLoop
  BY <1>0, <1>9, AbortLoopChanges, DroppedFacts
<1>10. CASE ProcessEnds
  BY <1>0, <1>10, EndChanges, KilledFacts
<1>11. CASE Reserve
  BY <1>1, <1>11, ReserveAppends DEF Reserve
<1>12. CASE ClockTick \/ User \/ UNCHANGED vars
  BY <1>1, <1>12, OutsideHost DEF vars
<1>13. CASE Start \/ FireTick \/ LoopReturns \/ PassEnds \/ (\E j \in Job : Visit(j))
            \/ Persist \/ Stop \/ GraceEnds \/ LoopJoined \/ ExecutionJoined
  BY <1>1, <1>13 DEF Start, FireTick, LoopReturns, PassEnds, Visit, Persist, Stop, GraceEnds,
     LoopJoined, ExecutionJoined
<1>14. QED
  BY <1>2, <1>3, <1>4, <1>5, <1>6, <1>7, <1>8, <1>9, <1>10, <1>11, <1>12, <1>13, NextSteps
  DEF HostStep, Dispatch, Completion

(* What the main task does to itself. *)
LEMMA HostMoves ==
  ASSUME IInv, [Next]_vars
  PROVE  \/ UNCHANGED host
         \/ Start
         \/ Stop
         \/ LoopJoined
         \/ Exit /\ host' = "stopped"
         \/ host' = "off"
<1>1. CASE ClockTick \/ User \/ UNCHANGED vars
  BY <1>1, OutsideHost DEF vars
<1>2. CASE Dispatch \/ Completion \/ Execution \/ GraceEnds
  BY <1>2 DEF Dispatch, FireTick, LoopReturns, PassEnds, Visit, Reserve, Persist, Record, Spawn,
     Completion, OutcomeLands, ReleasePermit, Execution, FinishExecution, GraceEnds
<1>3. CASE ExecutionJoined \/ AbortLoop \/ AbortExecution \/ RecordInterrupted
  BY <1>3 DEF ExecutionJoined, AbortLoop, AbortExecution, RecordInterrupted
<1>4. CASE Exit \/ Crash
  BY <1>4 DEF Exit, Crash
<1>5. QED
  BY <1>1, <1>2, <1>3, <1>4 DEF Next, Shutdown

(* Only a crash kills an execution; only stop() aborts one.                *)
LEMMA NoneKilledStep ==
  ASSUME SInv, [Next]_vars
  PROVE  NoneKilled'
<1> USE DEF SInv
<1>1. CASE Start
  BY <1>1, ThisLifeStep DEF NoneKilled
<1>2. CASE host' = "off"
  BY <1>2 DEF NoneKilled
<1>3. CASE host = "off" /\ ~Start
  BY <1>3, HostMoves DEF Stop, LoopJoined, Exit, NoneKilled
<1>4. CASE host # "off" /\ ~Start /\ host' # "off"
  <2>1. UNCHANGED lives
    BY <1>4, MemStep DEF ProcessEnds, Reserves, Reserve
  <2>2. host \in {"draining", "stopped"} => host' \in {"draining", "stopped"}
    BY <1>4, HostMoves DEF Stop, LoopJoined, Exit
  <2>3. ASSUME NEW r \in ThisLife
        PROVE  /\ runs'[r].exec # "killed"
               /\ runs'[r].exec = "aborted" => host' \in {"draining", "stopped"}
    <3>1. r \in DOMAIN runs /\ runs[r].exec # "killed"
          /\ (runs[r].exec = "aborted" => host \in {"draining", "stopped"})
      BY <1>4 DEF NoneKilled, ThisLife
    <3>2. AbortExecution => host' = "draining"
      BY DEF AbortExecution
    <3>3. (Exit \/ Crash) /\ runs[r].exec \in InProgress \ {"reserved"} => FALSE
      <4>1. Exit => handles = {}
        BY DEF Exit
      <4>2. Crash => host' = "off"
        BY DEF Crash
      <4>3. runs[r].exec \in InProgress \ {"reserved"} => r \in handles
        BY <3>1 DEF IInv, HandlesFit, Live
      <4>4. QED
        BY <1>4, <4>1, <4>2, <4>3
    <3>4. QED
      BY <2>2, <3>1, <3>2, <3>3, ExecStep
  <2>4. ASSUME Reserves
        PROVE  runs'[LastRun + 1].exec = "reserved"
    BY <2>4, ReserveAppends DEF Reserves, NewRun
  <2>5. QED
    BY <2>1, <2>3, <2>4, ThisLifeStep DEF NoneKilled
<1>5. QED
  BY <1>1, <1>2, <1>3, <1>4

(* The handle of an aborted execution goes when its outcome is recorded. *)
LEMMA HandleGoes ==
  ASSUME SInv, [Next]_vars, host' # "off", NEW r \in handles, r \notin handles',
         r \in ThisLife, runs[r].exec = "aborted"
  PROVE  RecordInterrupted /\ r = FirstHandle
<1>1. ~UNCHANGED handles
  OBVIOUS
<1>2. CASE Spawn
  <2>1. host \in {"running", "joining"}
    BY <1>2 DEF Spawn, SInv, IInv, LoopFits
  <2>2. QED
    BY <2>1 DEF SInv, NoneKilled
<1>3. ~ExecutionJoined /\ ~Exit /\ ~Crash
  BY DEF ExecutionJoined, Exit, Crash
<1>4. RecordInterrupted => r = FirstHandle
  BY DEF RecordInterrupted
<1>5. ~(ClockTick \/ User \/ UNCHANGED vars)
  BY <1>1, OutsideHost DEF vars
<1>6. ~(Start \/ Completion \/ Execution \/ Stop \/ GraceEnds \/ (Dispatch /\ ~Spawn))
  BY <1>1
  DEF Start, Completion, OutcomeLands, ReleasePermit, Execution, FinishExecution, Stop, GraceEnds,
      Dispatch, FireTick, LoopReturns, PassEnds, Visit, Reserve, Persist, Record
<1>7. ~(LoopJoined \/ AbortLoop \/ AbortExecution)
  BY <1>1 DEF LoopJoined, AbortLoop, AbortExecution
<1>8. QED
  BY <1>2, <1>3, <1>4, <1>5, <1>6, <1>7 DEF Next, Shutdown, Dispatch

(* The loop comes to the spawn from the record of the run.                 *)
LEMMA SpawnFollows ==
  ASSUME IInv, [Next]_vars, pc' = "spawn"
  PROVE  pc = "spawn" \/ Record
<1>1. CASE ClockTick \/ User \/ UNCHANGED vars
  BY <1>1, OutsideHost DEF vars, loop
<1>2. CASE Dispatch
  BY <1>2 DEF Dispatch, FireTick, LoopReturns, PassEnds, Visit, Reserve, Persist, Spawn
<1>3. CASE Completion \/ Execution \/ Stop \/ GraceEnds \/ Start
  BY <1>3 DEF Completion, OutcomeLands, ReleasePermit, Execution, FinishExecution, Stop, GraceEnds,
     Start, loop
<1>4. CASE LoopJoined \/ ExecutionJoined \/ AbortLoop \/ AbortExecution \/ RecordInterrupted
  BY <1>4 DEF LoopJoined, ExecutionJoined, AbortLoop, AbortExecution, RecordInterrupted, loop
<1>5. CASE ProcessEnds
  BY <1>5 DEF ProcessEnds
<1>6. QED
  BY <1>1, <1>2, <1>3, <1>4, <1>5, NextSteps DEF HostStep

(* No outcome is forgotten on the way through stop().                      *)
LEMMA OutcomesFitStep ==
  ASSUME SInv, [Next]_vars
  PROVE  OutcomesFit'
<1> USE DEF SInv
<1>1. CASE Start
  BY <1>1, ThisLifeStep DEF OutcomesFit
<1>2. CASE host' = "off" \/ StoreOutcomes # {TRUE}
  BY <1>2 DEF OutcomesFit
<1>3. CASE host = "off" /\ ~Start
  BY <1>3, HostMoves DEF Stop, LoopJoined, Exit, OutcomesFit
<1>4. CASE host # "off" /\ ~Start /\ host' # "off" /\ StoreOutcomes = {TRUE}
  <2>1. UNCHANGED lives
    BY <1>4, MemStep DEF ProcessEnds, Reserves, Reserve
  <2>2. ASSUME NEW r \in ThisLife
        PROVE  /\ Spawned(r)' \/ (pc' = "spawn" /\ runs'[r].exec = "reserved")
                    => runs'[r].row # "none"
               /\ runs'[r].exec \in {"recorded", "ended"}
                    => runs'[r].row \in {"succeeded", "failed"}
               /\ runs'[r].exec = "aborted" /\ r \notin handles'
                    => runs'[r].row \in {"succeeded", "failed"}
    <3>1. /\ r \in DOMAIN runs
          /\ Spawned(r) \/ (pc = "spawn" /\ runs[r].exec = "reserved") => runs[r].row # "none"
          /\ runs[r].exec \in {"recorded", "ended"} => runs[r].row \in {"succeeded", "failed"}
          /\ runs[r].exec = "aborted" /\ r \notin handles
               => runs[r].row \in {"succeeded", "failed"}
      BY <1>4 DEF OutcomesFit, ThisLife
    <3>2. runs[r].row # "none" => runs'[r].row # "none"
      BY <3>1, RowStep
    <3>3. runs[r].row \in {"succeeded", "failed"} =>
            runs'[r].row \in {"succeeded", "failed"} \/ (Record /\ r = LastRun)
      BY <3>1, RowStep
    <3>4. Record => r # LastRun \/ runs[r].exec = "reserved"
      BY DEF IInv, LoopFits, Dispatching, Record
    <3>5. Record /\ r = LastRun => runs'[r].row = "running" /\ runs'[r].exec = "reserved"
      <4>1. Record => Fields(LastRun, runs[LastRun].exec, "running", runs[LastRun].write)
        BY <1>4, RecordFields
      <4>2. QED
        BY <3>4, <4>1 DEF Fields
    <3>6. Spawned(r)' \/ (pc' = "spawn" /\ runs'[r].exec = "reserved") => runs'[r].row # "none"
      <4>1. CASE Spawned(r)'
        <5>1. Spawned(r) \/ (Spawn /\ runs[r].exec = "reserved")
          BY <3>1, <4>1, ExecStep DEF IInv, HandlesFit, Spawned, InProgress
        <5>2. QED
          BY <3>1, <3>2, <5>1 DEF Spawn
      <4>2. CASE pc' = "spawn" /\ runs'[r].exec = "reserved"
        <5>1. runs[r].exec = "reserved"
          BY <3>1, <4>2, ExecStep
        <5>2. r = LastRun /\ (pc = "spawn" \/ Record)
          BY <3>1, <4>2, <5>1, SpawnFollows DEF IInv, LoopFits
        <5>3. QED
          BY <3>1, <3>2, <3>5, <5>1, <5>2
      <4>3. QED
        BY <4>1, <4>2
    <3>7. runs'[r].exec \in {"recorded", "ended"} => runs'[r].row \in {"succeeded", "failed"}
      <4>1. SUFFICES ASSUME runs'[r].exec \in {"recorded", "ended"}
                     PROVE  runs'[r].row \in {"succeeded", "failed"}
        OBVIOUS
      <4>2. CASE runs[r].exec \in {"recorded", "ended"}
        BY <3>1, <3>3, <3>4, <4>2
      <4>3. CASE OutcomeLands(r) /\ runs[r].exec = "writing"
        <5>1. runs[r].row # "none"
          BY <3>1, <4>3 DEF Spawned
        <5>2. runs[r].write \in {"succeeded", "failed"}
          BY <3>1, <4>3, RunsAreSequence DEF IInv, OutcomeLands, Run
        <5>3. QED
          BY <1>4, <3>1, <4>3, <5>1, <5>2, ExecutionFields DEF Fields
      <4>4. QED
        BY <3>1, <4>1, <4>2, <4>3, ExecStep
    <3>8. runs'[r].exec = "aborted" /\ r \notin handles'
            => runs'[r].row \in {"succeeded", "failed"}
      <4>1. SUFFICES ASSUME runs'[r].exec = "aborted", r \notin handles'
                     PROVE  runs'[r].row \in {"succeeded", "failed"}
        OBVIOUS
      <4>2. r \in handles => ~AbortExecution
        BY <4>1 DEF AbortExecution
      <4>3. runs[r].exec = "aborted"
        BY <3>1, <4>1, <4>2, ExecStep
      <4>4. CASE r \notin handles
        BY <3>1, <3>3, <3>4, <4>3, <4>4
      <4>5. CASE r \in handles
        <5>1. RecordInterrupted /\ r = FirstHandle
          BY <1>4, <3>1, <4>1, <4>3, <4>5, HandleGoes
        <5>2. runs[r].row # "none"
          BY <3>1, <4>3 DEF Spawned
        <5>3. QED
          BY <1>4, <5>1, <5>2, InterruptedFields DEF Fields
      <4>6. QED
        BY <4>4, <4>5
    <3>9. QED
      BY <3>6, <3>7, <3>8
  <2>3. ASSUME Reserves
        PROVE  runs'[LastRun + 1].exec = "reserved" /\ pc' = "persist"
    BY <2>3, ReserveAppends DEF Reserves, Reserve, NewRun
  <2>4. QED
    BY <2>1, <2>2, <2>3, ThisLifeStep DEF OutcomesFit, Spawned
<1>5. QED
  BY <1>1, <1>2, <1>3, <1>4

(* Then stop() leaves nothing behind.                                      *)
LEMMA Settles ==
  ASSUME SInv
  PROVE  StopSettles
<1>1. ASSUME host = "stopped", NEW r \in ThisLife
      PROVE  /\ runs[r].exec \in {"ended", "aborted", "dropped"}
             /\ StoreOutcomes = {TRUE} /\ Spawned(r) => runs[r].row \in {"succeeded", "failed"}
  <2>1. r \in DOMAIN runs /\ runs[r] \in Run
    BY <1>1, RunsAreSequence DEF SInv, IInv, ThisLife
  <2>2. ~Live(r) /\ handles = {}
    BY <1>1, <2>1 DEF SInv, IInv, Over, Up
  <2>3. runs[r].exec # "killed"
    BY <1>1 DEF SInv, NoneKilled
  <2>4. runs[r].exec \in {"ended", "aborted", "dropped"}
    BY <2>1, <2>2, <2>3 DEF Live, InProgress, Run
  <2>5. QED
    BY <1>1, <2>2, <2>4 DEF SInv, OutcomesFit, Spawned
<1>2. QED
  BY <1>1 DEF StopSettles

(* When stop() has returned no execution is left, and each that was        *)
(* spawned has its outcome in scheduler_runs, if the store took the writes. *)
THEOREM Settlement == Spec => []StopSettles
<1>1. Init => SInv
  BY Starts DEF SInv, Init, NoneKilled, OutcomesFit
<1>2. SInv /\ [Next]_vars => SInv'
  BY Stays, NoneKilledStep, OutcomesFitStep DEF SInv
<1>3. QED
  BY <1>1, <1>2, Settles, PTL DEF Spec

-----------------------------------------------------------------------------
(* An occurrence is spent for good when it is spent in the store too.      *)
NoToggles == pending = {}

SpentForGood ==
  /\ \A r \in DOMAIN runs :
       Spawned(r) => /\ runs[r].job \in added
                     /\ runs[r].job \in DOMAIN table => table[runs[r].job].next > runs[r].at
                     /\ runs[r].job \in DOMAIN mem => mem[runs[r].job].next > runs[r].at
  /\ pc \in {"record", "spawn"} /\ cur \in DOMAIN table =>
       table[cur].next > runs[LastRun].at

NInv == IInv /\ NoToggles /\ SpentForGood /\ NeverTwice

(* A run is spawned by Spawn only.                                         *)
LEMMA SpawnedStep ==
  ASSUME IInv, [Next]_vars, NEW r \in DOMAIN runs, Spawned(r)'
  PROVE  Spawned(r) \/ (Spawn /\ r = LastRun)
BY ExecStep DEF IInv, HandlesFit, Spawned, InProgress

(* What a step does to a row of the table.                                 *)
LEMMA TableStep ==
  ASSUME NInv, [Next]_vars, Toggles = FALSE, StoreOutcomes = {TRUE}
  PROVE  /\ pending' = {}
         /\ added \subseteq added'
         /\ \A j \in DOMAIN table' :
              \/ j \in DOMAIN table /\ table'[j] = table[j]
              \/ j \notin added
              \/ Persist /\ j = cur /\ j \in DOMAIN table /\ table'[j].next = mem[cur].next
<1> USE DEF NInv, NoToggles
<1>1. CASE UNCHANGED <<table, added, pending>>
  BY <1>1
<1>2. CASE \E j \in Job : Add(j)
  BY <1>2 DEF Add, SaveJob, IInv, TypeOK
<1>3. CASE \E j \in Job : RemoveJob(j)
  BY <1>3 DEF RemoveJob, DeleteJob
<1>4. CASE Persist
  BY <1>4 DEF Persist, UpdateJobState
<1>5. CASE ClockTick \/ Start \/ Completion \/ Execution \/ Stop \/ GraceEnds \/ UNCHANGED vars
  BY <1>1, <1>5
  DEF ClockTick, Start, Completion, OutcomeLands, ReleasePermit, Execution, FinishExecution, Stop,
      GraceEnds, vars, store
<1>6. CASE Dispatch /\ ~Persist
  BY <1>1, <1>6
  DEF Dispatch, FireTick, LoopReturns, PassEnds, Visit, Reserve, Record, Spawn, store
<1>7. CASE LoopJoined \/ ExecutionJoined \/ AbortLoop \/ AbortExecution \/ RecordInterrupted
           \/ ProcessEnds
  BY <1>1, <1>7
  DEF LoopJoined, ExecutionJoined, AbortLoop, AbortExecution, RecordInterrupted, ProcessEnds,
      store
<1>8. QED
  BY <1>2, <1>3, <1>4, <1>5, <1>6, <1>7, NextSteps DEF HostStep, User, LoadToSetEnabled,
     SetEnabled

(* The reservation comes after everything its job has been run for.        *)
LEMMA NeverTwiceStep ==
  ASSUME NInv, [Next]_vars
  PROVE  NeverTwice'
<1>1. \A r \in DOMAIN runs : SameRun(runs'[r], runs[r])
  BY RunsAreKept DEF NInv
<1>2. \A r, s \in DOMAIN runs : r < s /\ runs[r].job = runs[s].job /\ Spawned(r)
                                  => runs[s].due > runs[r].at
  BY DEF NInv, NeverTwice
<1>3. \A r \in DOMAIN runs : Spawned(r)' => Spawned(r) \/ r = LastRun
  BY SpawnedStep DEF NInv
<1>4. DOMAIN runs = 1..LastRun /\ LastRun \in Nat
  BY RunsAreSequence DEF NInv, IInv
<1>5. CASE DOMAIN runs' = DOMAIN runs
  <2>1. SUFFICES ASSUME NEW r \in DOMAIN runs, NEW s \in DOMAIN runs, r < s,
                        runs'[r].job = runs'[s].job, Spawned(r)'
                 PROVE  runs'[s].due > runs'[r].at
    BY <1>5 DEF NeverTwice
  <2>2. Spawned(r)
    BY <1>3, <1>4, <2>1
  <2>3. QED
    BY <1>1, <1>2, <2>1, <2>2 DEF SameRun
<1>6. CASE Reserve /\ MayReserve(cur)
  <2>1. /\ DOMAIN runs' = DOMAIN runs \cup {LastRun + 1} /\ runs'[LastRun + 1] = NewRun
        /\ cur \in DOMAIN mem
    BY <1>6, ReserveAppends DEF NInv
  <2>2. NewRun.job = cur /\ NewRun.due = mem[cur].next
    BY DEF NewRun
  <2>3. SUFFICES ASSUME NEW r \in DOMAIN runs', NEW s \in DOMAIN runs', r < s,
                        runs'[r].job = runs'[s].job, Spawned(r)'
                 PROVE  runs'[s].due > runs'[r].at
    BY DEF NeverTwice
  <2>4. r \in DOMAIN runs /\ Spawned(r)
    <3>1. r \in DOMAIN runs
      BY <1>4, <2>1, <2>3
    <3>2. ~Spawn
      BY <1>6 DEF Reserve, Spawn
    <3>3. QED
      BY <2>3, <3>1, <3>2, SpawnedStep DEF NInv
  <2>5. CASE s \in DOMAIN runs
    BY <1>1, <1>2, <2>3, <2>4, <2>5 DEF SameRun
  <2>6. CASE s = LastRun + 1
    <3>1. runs[r].job = cur
      BY <1>1, <2>1, <2>2, <2>3, <2>4, <2>6 DEF SameRun
    <3>2. mem[cur].next > runs[r].at
      BY <2>1, <2>4, <3>1 DEF NInv, SpentForGood
    <3>3. QED
      BY <1>1, <2>1, <2>2, <2>4, <2>6, <3>2 DEF SameRun
  <2>7. QED
    BY <2>1, <2>5, <2>6
<1>7. QED
  BY <1>5, <1>6, RunsAreKept DEF NInv

(* The loop comes to the record of a run from the save of its job.         *)
LEMMA PersistFollows ==
  ASSUME IInv, [Next]_vars, pc' \in {"record", "spawn"}
  PROVE  UNCHANGED cur /\ (Persist \/ pc \in {"record", "spawn"}) /\ ~Reserve
<1>1. CASE ClockTick \/ User \/ UNCHANGED vars
  BY <1>1, OutsideHost DEF vars, loop, Reserve
<1>2. CASE Dispatch
  BY <1>2 DEF Dispatch, FireTick, LoopReturns, PassEnds, Visit, Reserve, Persist, Record, Spawn
<1>3. CASE Completion \/ Execution \/ Stop \/ GraceEnds \/ Start
  BY <1>3 DEF Completion, OutcomeLands, ReleasePermit, Execution, FinishExecution, Stop, GraceEnds,
     Start, loop, Reserve
<1>4. CASE LoopJoined \/ ExecutionJoined \/ AbortLoop \/ AbortExecution \/ RecordInterrupted
  BY <1>4 DEF LoopJoined, ExecutionJoined, AbortLoop, AbortExecution, RecordInterrupted, loop,
     Reserve
<1>5. CASE ProcessEnds
  BY <1>5 DEF ProcessEnds
<1>6. QED
  BY <1>1, <1>2, <1>3, <1>4, <1>5, NextSteps DEF HostStep

(* No step brings an occurrence back that was executed.                    *)
LEMMA SpentForGoodStep ==
  ASSUME NInv, [Next]_vars, Toggles = FALSE, StoreOutcomes = {TRUE}
  PROVE  SpentForGood'
<1> USE DEF NInv
<1>1. \A r \in DOMAIN runs : /\ runs'[r].job = runs[r].job /\ runs'[r].at = runs[r].at
                             /\ runs[r].at \in Nat /\ runs[r].job \in Job
  BY RunsAreKept, RunsAreSequence, SchedulerAssumption DEF SameRun, IInv, Run
<1>2. /\ \A r \in DOMAIN runs :
           Spawned(r) =>
             /\ runs[r].job \in added
             /\ runs[r].job \in DOMAIN table => table[runs[r].job].next > runs[r].at
             /\ runs[r].job \in DOMAIN mem => mem[runs[r].job].next > runs[r].at
      /\ pc \in {"record", "spawn"} /\ cur \in DOMAIN table => table[cur].next > runs[LastRun].at
  BY DEF SpentForGood
<1>3. \A r \in DOMAIN runs' :
        Spawned(r)' => /\ r \in DOMAIN runs
                       /\ Spawned(r) \/ (Spawn /\ r = LastRun)
  <2>1. CASE DOMAIN runs' = DOMAIN runs
    BY <2>1, SpawnedStep
  <2>2. CASE Reserve /\ MayReserve(cur)
    BY <2>2, SpawnedStep, ReserveAppends DEF NewRun, Spawned
  <2>3. QED
    BY <2>1, <2>2, RunsAreKept
(* The run the loop is dispatching is one of this life. *)
<1>4. Dispatching => /\ LastRun \in DOMAIN runs /\ runs[LastRun].job = cur
                     /\ cur \in DOMAIN mem /\ cur \in added /\ mem[cur].next > runs[LastRun].at
  <2>1. Dispatching => /\ LastRun \in DOMAIN runs /\ runs[LastRun].job = cur /\ cur \in DOMAIN mem
                       /\ runs[LastRun].exec = "reserved"
    BY DEF IInv, LoopFits
  <2>2. Dispatching => runs[LastRun].life = lives
    BY <2>1 DEF IInv, LivesFit, Live, InProgress
  <2>3. Dispatching => mem[cur].next > runs[LastRun].at
    BY <2>1, <2>2 DEF IInv, Spent, ThisLife
  <2>4. QED
    BY <2>1, <2>3 DEF IInv, TypeOK
<1>5. ASSUME NEW r \in DOMAIN runs', Spawned(r)'
      PROVE  /\ runs'[r].job \in added'
             /\ runs'[r].job \in DOMAIN table' => table'[runs'[r].job].next > runs'[r].at
             /\ runs'[r].job \in DOMAIN mem' => mem'[runs'[r].job].next > runs'[r].at
  <2> DEFINE j == runs[r].job
  <2>1. r \in DOMAIN runs /\ runs'[r].job = j /\ runs'[r].at = runs[r].at
    BY <1>1, <1>3, <1>5
  <2>2. /\ j \in added
        /\ j \in DOMAIN table => table[j].next > runs[r].at
        /\ j \in DOMAIN mem => mem[j].next > runs[r].at
    <3>1. CASE Spawned(r)
      BY <1>2, <2>1, <3>1
    <3>2. CASE Spawn /\ r = LastRun
      BY <1>2, <1>4, <3>2 DEF Spawn, Dispatching
    <3>3. QED
      BY <1>3, <1>5, <3>1, <3>2
  <2> HIDE DEF j
  <2>3. j \in DOMAIN table' => table'[j].next > runs[r].at
    <3>1. Persist => cur \in DOMAIN mem
      BY <1>4 DEF Persist, Dispatching
    <3>2. QED
      BY <2>2, <3>1, TableStep
  <2>4. j \in DOMAIN mem' => mem'[j].next > runs[r].at
    <3>1. CASE Start
      <4>1. mem' = LoadAllJobs
        BY <3>1 DEF Start
      <4>2. QED
        BY <2>2, <4>1 DEF LoadAllJobs, IntoJob
    <3>2. CASE ProcessEnds
      BY <3>2 DEF ProcessEnds, NoJobs
    <3>3. CASE Reserves
      <4>1. /\ mem[cur].next <= now /\ mem'[cur].next > now /\ now \in Nat
            /\ mem'[cur].next \in Nat /\ mem[cur].next \in Nat
        <5>1. mem[cur].next \in 0..Never
          BY <3>3, ReserveMarks DEF IInv, TypeOK
        <5>2. MaxTime \in Nat /\ Never \in Nat
          BY SchedulerAssumption DEF Never
        <5>3. QED
          BY <3>3, <5>1, <5>2, ReserveMarks, NextIsLater
      <4>2. CASE j = cur
        <5>1. mem[cur].next > runs[r].at
          BY <2>2, <3>3, <4>2, ReserveMarks
        <5>2. runs[r].at \in Nat
          BY <1>1, <2>1
        <5>3. QED
          BY <4>1, <4>2, <5>1, <5>2
      <4>3. CASE j # cur
        BY <2>2, <3>3, <4>3, ReserveMarks
      <4>4. QED
        BY <4>2, <4>3
    <3>4. QED
      BY <2>2, <3>1, <3>2, <3>3, MemStep
  <2>5. QED
    BY <2>1, <2>2, <2>3, <2>4, TableStep
<1>6. ASSUME pc' \in {"record", "spawn"}, cur' \in DOMAIN table'
      PROVE  table'[cur'].next > runs'[LastRun'].at
  <2>1. UNCHANGED cur /\ (Persist \/ pc \in {"record", "spawn"}) /\ ~Reserve
    BY <1>6, PersistFollows
  <2>2. LastRun' = LastRun /\ Dispatching
    BY <2>1, RunsAreKept DEF Dispatching, Persist
  <2>3. \A j \in DOMAIN table' : j \in added =>
          \/ j \in DOMAIN table /\ table'[j] = table[j]
          \/ Persist /\ j = cur /\ j \in DOMAIN table /\ table'[j].next = mem[cur].next
    BY TableStep
  <2>4. CASE Persist
    <3>1. cur \in DOMAIN table' => table'[cur].next = mem[cur].next
      BY <1>4, <2>2, <2>4 DEF Persist, UpdateJobState
    <3>2. QED
      BY <1>1, <1>4, <1>6, <2>1, <2>2, <3>1
  <2>5. CASE ~Persist
    BY <1>1, <1>2, <1>4, <1>6, <2>1, <2>2, <2>3, <2>5
  <2>6. QED
    BY <2>4, <2>5
<1>7. QED
  BY <1>5, <1>6 DEF SpentForGood

(* Across crashes and restarts an occurrence is executed at most once, if  *)
(* writes of the store succeed and no enable or disable writes back the    *)
(* state it loaded earlier.  Without either it is not so.                  *)
THEOREM AtMostOnce ==
  ASSUME StoreOutcomes = {TRUE}, Toggles = FALSE
  PROVE  Spec => []NeverTwice
<1>1. Init => NInv
  <2>1. Init => DOMAIN runs = {} /\ pending = {} /\ pc = "ended"
    BY DEF Init
  <2>2. QED
    BY <2>1, Starts DEF NInv, NoToggles, SpentForGood, NeverTwice
<1>2. NInv /\ [Next]_vars => NInv'
  BY Stays, TableStep, SpentForGoodStep, NeverTwiceStep DEF NInv, NoToggles
<1>3. NInv => NeverTwice
  BY DEF NInv
<1>4. QED
  BY <1>1, <1>2, <1>3, PTL DEF Spec

(* A job that was removed does not come back, whatever the host still has  *)
(* in memory and whichever command is about to write.                      *)
THEOREM RemovalLasts == Spec => RemovedStaysRemoved
<1>1. ASSUME [Next]_vars
      PROVE  DOMAIN table' \cap added \subseteq DOMAIN table
  <2>1. CASE UNCHANGED table
    BY <2>1
  <2>2. ASSUME NEW j, NEW enabled, NEW next, UpdateJobState(j, enabled, next)
        PROVE  DOMAIN table' = DOMAIN table
    BY <2>2 DEF UpdateJobState
  <2>3. CASE User
    BY <2>1, <2>2, <2>3
    DEF User, Add, SaveJob, RemoveJob, DeleteJob, LoadToSetEnabled, SetEnabled
  <2>4. CASE Dispatch
    BY <2>1, <2>2, <2>4
    DEF Dispatch, FireTick, LoopReturns, PassEnds, Visit, Reserve, Persist, Record, Spawn, store
  <2>5. CASE ClockTick \/ Start \/ Completion \/ Execution \/ Stop \/ GraceEnds
             \/ UNCHANGED vars
    BY <2>1, <2>5
    DEF ClockTick, Start, Completion, OutcomeLands, ReleasePermit, Execution, FinishExecution, Stop,
        GraceEnds, vars, store
  <2>6. CASE Shutdown \/ Crash
    BY <2>1, <2>6
    DEF Shutdown, LoopJoined, ExecutionJoined, AbortLoop, AbortExecution, RecordInterrupted,
        Exit, Crash, ProcessEnds, store
  <2>7. QED
    BY <1>1, <2>3, <2>4, <2>5, <2>6 DEF Next
<1>2. QED
  BY <1>1, PTL DEF Spec, RemovedStaysRemoved


-----------------------------------------------------------------------------
(* Of the rows of runs.                                                    *)

Call == ({"graphs", "lifecycles"} \X {"all"})
        \cup ({"load", "update", "enqueue", "agents"} \X (RootId \cup Keys))
        \cup ({"phase"} \X AgentId)
Requests ==
  [surface : {"none"} \cup UNION {SurfaceOf[c] : c \in Client},
   verb : {"pause", "resume", "cancel", "look", "submit", "none"},
   key : RootId \cup Keys \cup {"none"}, todo : Seq(Call), answer : {"none", "ok", "error"}]

(* A request names a run by its id, and an id is no goal.                  *)
ById == Keys \subseteq RootId /\ RootId \cap Goal = {}

(* What RowsAgree says, that every row is of a run that is listed, and     *)
(* that what a request has still to call names runs, or agents.            *)
StoreFits ==
  /\ DOMAIN graphs = RootId
  /\ newest \in Seq(RootId)
  /\ \A r \in RootId : Stored(r) => /\ graphs[r].status = graphs[r].json
                                    /\ ById => graphs[r].of = r
  /\ DOMAIN lifecycles = AgentId
  /\ \A a \in AgentId : lifecycles[a].phase = lifecycles[a].json
  /\ request \in [Client -> Requests]

LEMMA FoundFacts ==
  ASSUME newest \in Seq(RootId), NEW key
  PROVE  /\ Found(key) \in Seq(RootId)
         /\ Found(key) # <<>> => Head(Found(key)) \in RootId /\ Matches(Head(Found(key)), key)
<1> DEFINE S == {i \in DOMAIN newest : Matches(newest[i], key)}
<1>1. S \in SUBSET (1..Len(newest))
  BY LenProperties
<1>2. /\ Found(key) \in Seq(RootId) /\ Len(Found(key)) = Cardinality(S)
      /\ \A n \in 1..Cardinality(S) : Nth(S, n) \in S /\ Found(key)[n] = newest[Nth(S, n)]
  BY <1>1, PickFacts DEF Found
<1>3. ASSUME Found(key) # <<>>
      PROVE  Head(Found(key)) \in RootId /\ Matches(Head(Found(key)), key)
  <2>1. Head(Found(key)) = Found(key)[1] /\ Head(Found(key)) \in RootId /\ 1 \in 1..Cardinality(S)
    BY <1>2, <1>3, EmptySeq, HeadTailProperties
  <2>2. Nth(S, 1) \in S /\ Found(key)[1] = newest[Nth(S, 1)]
    BY <1>2, <2>1
  <2>3. QED
    BY <2>1, <2>2
<1>4. QED
  BY <1>2, <1>3

LEMMA TouchFacts ==
  ASSUME newest \in Seq(RootId), NEW rs \in Seq(RootId)
  PROVE  Touch(rs) \in Seq(RootId)
<1> DEFINE S == {i \in DOMAIN newest : ~Contains(rs, newest[i])}
<1>1. S \in SUBSET (1..Len(newest))
  BY LenProperties
<1>2. Pick(newest, S) \in Seq(RootId)
  BY <1>1, PickFacts
<1>3. QED
  BY <1>2, ConcatProperties DEF Touch

(* What the lists of the store give: some of the runs, in their order.     *)
LEMMA SomeRuns ==
  ASSUME newest \in Seq(RootId), NEW S \in SUBSET DOMAIN newest
  PROVE  Pick(newest, S) \in Seq(RootId)
<1>1. S \in SUBSET (1..Len(newest))
  BY LenProperties
<1>2. QED
  BY <1>1, PickFacts

LEMMA EachFits ==
  ASSUME NEW rs \in Seq(RootId)
  PROVE  Each(rs) \in Seq(Call)
<1>1. Len(rs) \in Nat /\ \A i \in 1..Len(rs) : rs[i] \in RootId
  BY LenProperties, ElementOfSeq
<1>2. ASSUME NEW n \in 1..2 * Len(rs)
      PROVE  Each(rs)[n] \in Call
  <2>1. CASE n % 2 = 1
    <3>1. (n + 1) \div 2 \in 1..Len(rs)
      BY <1>1, <2>1
    <3>2. Each(rs)[n] = <<"update", rs[(n + 1) \div 2]>>
      BY <2>1 DEF Each
    <3>3. QED
      BY <1>1, <3>1, <3>2 DEF Call
  <2>2. CASE n % 2 # 1
    <3>1. n \div 2 \in 1..Len(rs)
      BY <1>1, <2>2
    <3>2. Each(rs)[n] = <<"enqueue", rs[n \div 2]>>
      BY <2>2 DEF Each
    <3>3. QED
      BY <1>1, <3>1, <3>2 DEF Call
  <2>3. QED
    BY <2>1, <2>2
<1>3. 2 * Len(rs) \in Nat /\ Each(rs) = [n \in 1..2 * Len(rs) |-> Each(rs)[n]]
  BY <1>1 DEF Each
<1>4. QED
  BY <1>2, <1>3

LEMMA ScriptFits ==
  ASSUME newest \in Seq(RootId), NEW surface, NEW verb, NEW key \in Keys
  PROVE  Script(surface, verb, key) \in Seq(Call)
<1>1. Each(Listed(verb)) \in Seq(Call)
  BY EachFits, SomeRuns DEF Listed
<1>2. HttpCalls(key) \in Seq(Call) /\ DiscordCancel(key) \in Seq(Call)
  BY DEF HttpCalls, DiscordCancel, Call
<1>3. DispatchControl(key) \in Seq(Call) /\ CliCancel(key) \in Seq(Call)
  BY DEF DispatchControl, CliCancel, Call
<1>4. QED
  BY <1>1, <1>2, <1>3 DEF Script

LEMMA LooksFit ==
  ASSUME newest \in Seq(RootId), NEW surface, NEW key \in Keys, NEW calls \in Looks(surface, key)
  PROVE  calls \in Seq(Call)
<1>1. /\ One(key) \in Seq(Call) /\ AllOf("graphs") \in Seq(Call)
      /\ AllOf("lifecycles") \in Seq(Call)
  BY DEF One, AllOf, Call
<1>2. StatusReads \in Seq(Call) /\ One(key) \o AllOf("lifecycles") \in Seq(Call)
  BY <1>1, ConcatProperties DEF StatusReads
<1>3. LocksReads \in Seq(Call)
  <2>1. Unended \in Seq(RootId)
    BY SomeRuns DEF Unended
  <2>2. /\ Len(Unended) \in Nat /\ DOMAIN Unended = 1..Len(Unended)
        /\ \A i \in 1..Len(Unended) : Unended[i] \in RootId
    BY <2>1, LenProperties, ElementOfSeq
  <2>3. \A i \in 1..Len(Unended) : <<"load", Unended[i]>> \in Call
    BY <2>2 DEF Call
  <2>4. [i \in DOMAIN Unended |-> <<"load", Unended[i]>>] \in Seq(Call)
    BY <2>2, <2>3
  <2>5. QED
    BY <1>1, <2>4, ConcatProperties DEF LocksReads
<1>4. QED
  BY <1>1, <1>2, <1>3
  DEF Looks, HttpStatus, DiscordStatus, DiscordAgents, CliLooks, AgentsReads, InspectReads,
      RestoreReads, UnfinishedReads

LEMMA StoreInitial == StoreAssumption /\ StoreInit => StoreFits
<1> SUFFICES ASSUME StoreAssumption, StoreInit
             PROVE  StoreFits
  OBVIOUS
<1>1. NoRequest \in Requests
  BY DEF NoRequest, Requests
<1>2. QED
  BY <1>1 DEF StoreInit, StoreFits, Stored

(* A request stays one, whatever is left of it.                            *)
LEMMA LeftFits ==
  ASSUME request \in [Client -> Requests], NEW c \in Client,
         NEW todo_ \in Seq(Call), NEW answer \in {"none", "ok", "error"},
         Left(c, todo_, answer)
  PROVE  request' \in [Client -> Requests]
<1>1. NoRequest \in Requests
  BY DEF NoRequest, Requests
<1>2. [request[c] EXCEPT !.todo = todo_,
         !.answer = IF todo_ = <<>> /\ answer = "none" THEN "ok" ELSE answer] \in Requests
  BY DEF Requests
<1>3. QED
  BY <1>1, <1>2 DEF Left

LEMMA DoneFits ==
  ASSUME request \in [Client -> Requests], NEW c \in Client, request[c].todo # <<>>, Done(c)
  PROVE  request' \in [Client -> Requests]
<1>1. request[c].todo \in Seq(Call) /\ request[c].answer \in {"none", "ok", "error"}
  BY DEF Requests
<1>2. Tail(request[c].todo) \in Seq(Call)
  BY <1>1, HeadTailProperties
<1>3. QED
  BY <1>1, <1>2, LeftFits DEF Done

LEMMA ArgumentFits ==
  ASSUME request \in [Client -> Requests], NEW c \in Client, NEW call, AtCall(c, call)
  PROVE  /\ request[c].todo # <<>>
         /\ call \in {"update", "enqueue", "load", "agents"} => Argument(c) \in RootId \cup Keys
         /\ call = "phase" => Argument(c) \in AgentId
<1>1. request[c].todo \in Seq(Call) /\ request[c].todo # <<>>
  BY DEF Requests, AtCall
<1>2. Head(request[c].todo) \in Call
  BY <1>1, HeadTailProperties
<1>3. QED
  BY <1>1, <1>2 DEF AtCall, Argument, Call

LEMMA CancelEachFits ==
  ASSUME StoreAssumption, request \in [Client -> Requests], NEW c \in Client, NEW r,
         CancelEach(c, r)
  PROVE  request' \in [Client -> Requests]
<1> DEFINE as == SetToSeq(Unfinished(r))
           calls == [i \in DOMAIN as |-> <<"phase", as[i]>>]
<1>1. Unfinished(r) \subseteq AgentId /\ IsFiniteSet(Unfinished(r))
  BY FS_Subset DEF Unfinished, StoreAssumption
<1>2. as \in Seq(Unfinished(r))
  BY <1>1, SequenceOf
<1>3. /\ Len(as) \in Nat /\ DOMAIN as = 1..Len(as)
      /\ \A i \in 1..Len(as) : as[i] \in AgentId
  BY <1>1, <1>2, LenProperties, ElementOfSeq
<1>4. \A i \in 1..Len(as) : <<"phase", as[i]>> \in Call
  BY <1>3 DEF Call
<1>5. calls \in Seq(Call)
  BY <1>3, <1>4
<1>6. request' = [request EXCEPT ![c].todo = calls,
                                ![c].answer = IF as = <<>> /\ @ = "none" THEN "ok" ELSE @]
  BY DEF CancelEach
<1>7. request[c].answer \in {"none", "ok", "error"}
  BY DEF Requests
<1> HIDE DEF as, calls
<1> DEFINE answer == IF as = <<>> /\ request[c].answer = "none" THEN "ok" ELSE request[c].answer
           left == [request[c] EXCEPT !.todo = calls, !.answer = answer]
<1>8. left \in Requests
  <2>1. answer \in {"none", "ok", "error"}
    BY <1>7
  <2> HIDE DEF answer
  <2>2. QED
    BY <1>5, <2>1 DEF Requests
<1>9. request' = [request EXCEPT ![c] = left]
  BY <1>6 DEF Requests
<1>10. QED
  BY <1>8, <1>9

(* A row that is saved or updated is of its run, as it was.                *)
LEMMA SavedFits ==
  ASSUME StoreFits, NEW r \in RootId, NEW status, SaveGraph(r, status)
  PROVE  /\ DOMAIN graphs' = RootId /\ newest' \in Seq(RootId)
         /\ \A q \in RootId : Stored(q)' => /\ graphs'[q].status = graphs'[q].json
                                            /\ ById => graphs'[q].of = q
<1>1. newest' \in Seq(RootId)
  <2>1. <<r>> \in Seq(RootId)
    OBVIOUS
  <2>2. QED
    BY <2>1, TouchFacts DEF SaveGraph, StoreFits
<1>2. QED
  BY <1>1 DEF SaveGraph, StoreFits, Stored

LEMMA UpdatedFits ==
  ASSUME StoreAssumption, StoreFits, NEW key \in RootId \cup Keys, NEW status,
         Found(key) # <<>>, UpdateGraph(key, status)
  PROVE  /\ DOMAIN graphs' = RootId /\ newest' \in Seq(RootId)
         /\ \A q \in RootId : Stored(q)' => /\ graphs'[q].status = graphs'[q].json
                                            /\ ById => graphs'[q].of = q
<1> DEFINE h == Head(Found(key))
<1>1. Found(key) \in Seq(RootId) /\ h \in RootId /\ Matches(h, key)
  BY FoundFacts DEF StoreFits
<1>2. newest' \in Seq(RootId)
  BY <1>1, TouchFacts DEF UpdateGraph, StoreFits
<1>3. ById => \A q \in RootId : Matches(q, key) => q = key
  BY DEF ById, Matches, StoreAssumption
<1>4. ById => h = key /\ graphs[h].of = key
  BY <1>1, <1>3 DEF Matches, StoreFits
<1> HIDE DEF h
<1>5. graphs' = [q \in RootId |-> IF Matches(q, key)
                                  THEN [of |-> graphs[h].of, status |-> status, json |-> status]
                                  ELSE graphs[q]]
  BY DEF UpdateGraph, h
<1>6. ASSUME NEW q \in RootId, Stored(q)'
      PROVE  graphs'[q].status = graphs'[q].json /\ (ById => graphs'[q].of = q)
  <2>1. CASE Matches(q, key)
    BY <1>3, <1>4, <1>5, <2>1
  <2>2. CASE ~Matches(q, key)
    BY <1>5, <1>6, <2>2 DEF StoreFits, Stored
  <2>3. QED
    BY <2>1, <2>2
<1>7. QED
  BY <1>2, <1>5, <1>6

LEMMA PhasesFit ==
  ASSUME StoreFits, NEW a \in AgentId, NEW phase, UpdatePhase(a, phase)
  PROVE  DOMAIN lifecycles' = AgentId
         /\ \A b \in AgentId : lifecycles'[b].phase = lifecycles'[b].json
BY DEF StoreFits, UpdatePhase

LEMMA ClientFits ==
  ASSUME StoreAssumption, StoreFits, NEW c \in Client, ClientCall(c)
  PROVE  StoreFits'
<1>1. request \in [Client -> Requests]
  BY DEF StoreFits
<1>2. CASE List(c) \/ Load(c) \/ Signal(c)
  <2>1. request' \in [Client -> Requests]
    BY <1>1, <1>2, ArgumentFits, DoneFits DEF List, Load, Signal
  <2>2. UNCHANGED <<graphs, newest, lifecycles>>
    BY <1>2 DEF List, Load, Signal
  <2>3. QED
    BY <2>1, <2>2 DEF StoreFits, Stored
<1>3. CASE Update(c)
  <2>1. request' \in [Client -> Requests] /\ Argument(c) \in RootId \cup Keys
    BY <1>1, <1>3, ArgumentFits, DoneFits DEF Update
  <2>2. UNCHANGED lifecycles
    BY <1>3 DEF Update
  <2>3. QED
    BY <1>3, <2>1, <2>2, UpdatedFits DEF StoreFits, Stored, Update
<1>4. CASE ListAgents(c)
  <2>1. request' \in [Client -> Requests]
    BY <1>1, <1>4, CancelEachFits DEF ListAgents
  <2>2. UNCHANGED <<graphs, newest, lifecycles>>
    BY <1>4 DEF ListAgents
  <2>3. QED
    BY <2>1, <2>2 DEF StoreFits, Stored
<1>5. CASE CancelAgent(c)
  <2>1. request' \in [Client -> Requests] /\ Argument(c) \in AgentId
    BY <1>1, <1>5, ArgumentFits, DoneFits DEF CancelAgent
  <2>2. UNCHANGED <<graphs, newest>>
    BY <1>5 DEF CancelAgent
  <2>3. QED
    BY <1>5, <2>1, <2>2, PhasesFit DEF StoreFits, Stored, CancelAgent
<1>6. CASE CallFails(c)
  <2>1. request[c].todo \in Seq(Call) /\ request[c].todo # <<>>
    BY <1>1, <1>6 DEF CallFails, AtCall, Requests
  <2>2. Tail(request[c].todo) \in Seq(Call) /\ <<>> \in Seq(Call)
    BY <2>1, HeadTailProperties
  <2>3. request' \in [Client -> Requests]
    BY <1>1, <1>6, <2>2, LeftFits DEF CallFails
  <2>4. UNCHANGED <<graphs, newest, lifecycles>>
    BY <1>6 DEF CallFails
  <2>5. QED
    BY <2>3, <2>4 DEF StoreFits, Stored
<1>7. QED
  BY <1>2, <1>3, <1>4, <1>5, <1>6 DEF ClientCall

LEMMA RequestFits ==
  ASSUME StoreAssumption, StoreFits, NEW c \in Client, NEW s \in SurfaceOf[c],
         \/ \E v \in DOMAIN Verb, k \in Keys : Ask(c, s, v, k)
         \/ \E k \in Keys : Look(c, s, k)
         \/ \E r \in RootId : s # "ws" /\ Submit(c, s, r)
  PROVE  StoreFits'
<1>1. request \in [Client -> Requests] /\ s \in UNION {SurfaceOf[d] : d \in Client}
  BY DEF StoreFits
<1>2. ASSUME NEW v \in DOMAIN Verb, NEW k \in Keys, Ask(c, s, v, k)
      PROVE  StoreFits'
  <2>1. Script(s, v, k) \in Seq(Call) /\ v \in {"pause", "resume", "cancel"}
    BY ScriptFits DEF StoreFits, Verb
  <2>2. request' \in [Client -> Requests]
    BY <1>1, <1>2, <2>1 DEF Ask, Requests
  <2>3. UNCHANGED <<graphs, newest, lifecycles>>
    BY <1>2 DEF Ask
  <2>4. QED
    BY <2>2, <2>3 DEF StoreFits, Stored
<1>3. ASSUME NEW k \in Keys, Look(c, s, k)
      PROVE  StoreFits'
  <2>1. \A calls \in Looks(s, k) : calls \in Seq(Call)
    BY LooksFit DEF StoreFits
  <2>2. request' \in [Client -> Requests]
    BY <1>1, <1>3, <2>1 DEF Look, Requests
  <2>3. UNCHANGED <<graphs, newest, lifecycles>>
    BY <1>3 DEF Look
  <2>4. QED
    BY <2>2, <2>3 DEF StoreFits, Stored
<1>4. ASSUME NEW r \in RootId, Submit(c, s, r)
      PROVE  StoreFits'
  <2>1. Submitted(s, Stored(r)') \in {"none", "ok", "error"}
    BY DEF Submitted, HttpSubmit, CliSubmit, DiscordSubmit
  <2>2. request' \in [Client -> Requests]
    BY <1>1, <1>4, <2>1 DEF Submit, Requests
  <2>3. UNCHANGED lifecycles /\ (SaveGraph(r, "building") \/ UNCHANGED <<graphs, newest>>)
    BY <1>4 DEF Submit
  <2>4. QED
    BY <2>2, <2>3, SavedFits DEF StoreFits, Stored
<1>5. QED
  BY <1>2, <1>3, <1>4

LEMMA OwnerFits ==
  ASSUME StoreFits, NEW r \in RootId, Begin(r) \/ Poll(r) \/ Save(r) \/ End(r) \/ Die(r)
  PROVE  StoreFits'
<1>1. UNCHANGED <<lifecycles, request>>
  BY DEF Begin, Poll, Save, End, Die
<1>2. (\E status : SaveGraph(r, status)) \/ UNCHANGED <<graphs, newest>>
  BY DEF Begin, Poll, Save, End, Die
<1>3. QED
  BY <1>1, <1>2, SavedFits DEF StoreFits, Stored

LEMMA StoreInductive == StoreAssumption /\ StoreFits /\ [StoreNext]_svars => StoreFits'
<1> SUFFICES ASSUME StoreAssumption, StoreFits, [StoreNext]_svars
             PROVE  StoreFits'
  OBVIOUS
<1>1. CASE UNCHANGED svars
  BY <1>1 DEF svars, StoreFits, Stored
<1>2. ASSUME NEW a \in AgentId, SaveAgent(a)
      PROVE  StoreFits'
  BY <1>2, PhasesFit DEF SaveAgent, StoreFits, Stored
<1>3. QED
  BY <1>1, <1>2, ClientFits, RequestFits, OwnerFits DEF StoreNext

-----------------------------------------------------------------------------
(* Of the screen.                                                          *)

Stages == {"paused", "retrying", "cancelled", "planning", "done"}
Phases == {"none", "queued", "running"} \cup Stages
AppRun == RunId \cup {None}
AppState ==
  [mode : {"Idle", "Running", "Paused"}, tx : AppRun, rx : AppRun, active : AppRun,
   running : SUBSET RunId, pending : AppRun, live : [RunId -> Phases],
   agents : Seq(RunId \X Phases), quiet : BOOLEAN, warned : BOOLEAN]
Events ==
  [kind : {"RunStarted", "RunPaused", "RunResumed", "RunFinished", "RunCancelled", "FatalError"},
   run : RunId]
  \cup [kind : {"AgentStage"}, run : RunId, stage : Stages]
Commands == {"Pause", "Resume", "Redirect", "Cancel"}

(* What an application that can send to a run knows of it.                 *)
Holds(a) ==
  a.tx # None => a.rx = a.tx /\ a.active = a.tx /\ a.running = {a.tx} /\ a.mode # "Idle"

NamedOnce(a) == \A i, j \in DOMAIN a.agents : a.agents[i][1] = a.agents[j][1] => i = j
ShowsLast(a) == \A i \in DOMAIN a.agents : a.live[a.agents[i][1]] \in {"none", a.agents[i][2]}
AppFine(a) == a \in AppState /\ Holds(a) /\ NamedOnce(a) /\ ShowsLast(a)

(* The overlays change nothing but the agents, and with them each agent    *)
(* shows what it reported last.                                            *)
LEMMA OverlaidFine ==
  ASSUME AppAssumption, NEW a \in AppState, Holds(a), NamedOnce(a)
  PROVE  /\ AppFine(Overlaid(a))
         /\ Overlaid(a).tx = a.tx /\ Overlaid(a).rx = a.rx /\ Overlaid(a).mode = a.mode
<1> DEFINE seen == {a.agents[i][1] : i \in DOMAIN a.agents}
           unseen == {r \in RunId \ seen : a.live[r] # "none"}
           new == {<<r, a.live[r]>> : r \in unseen}
           old == [i \in DOMAIN a.agents |-> IF a.live[a.agents[i][1]] = "none" THEN a.agents[i]
                                             ELSE <<a.agents[i][1], a.live[a.agents[i][1]]>>]
           q == SetToSeq(new)
           Named == RunId \X Phases
<1>1. /\ a.agents \in Seq(Named) /\ a.live \in [RunId -> Phases]
      /\ Len(a.agents) \in Nat /\ DOMAIN a.agents = 1..Len(a.agents)
      /\ \A i \in 1..Len(a.agents) : a.agents[i] \in Named
  <2>1. a.agents \in Seq(Named) /\ a.live \in [RunId -> Phases]
    BY DEF AppState
  <2>2. QED
    BY <2>1, LenProperties, ElementOfSeq
<1>2. /\ old \in Seq(Named) /\ Len(old) = Len(a.agents)
      /\ \A i \in 1..Len(a.agents) : /\ old[i][1] = a.agents[i][1]
                                     /\ a.live[old[i][1]] \in {"none", old[i][2]}
  <2>1. \A i \in 1..Len(a.agents) : old[i] \in Named
    BY <1>1
  <2>2. old \in Seq(Named) /\ Len(old) = Len(a.agents)
    BY <1>1, <2>1
  <2>3. QED
    BY <1>1, <2>2
<1>3. /\ q \in Seq(new)
      /\ \A i \in 1..Len(q) : q[i] \in Named /\ q[i][1] \in unseen /\ q[i][2] = a.live[q[i][1]]
      /\ \A i, j \in 1..Len(q) : q[i][1] = q[j][1] => i = j
  <2>1. IsFiniteSet(unseen)
    BY FS_Subset DEF AppAssumption
  <2>2. IsFiniteSet(new)
    <3> DEFINE f == [r \in unseen |-> <<r, a.live[r]>>]
    <3>1. f \in Surjection(unseen, new)
      BY DEF Surjection
    <3>2. QED
      BY <2>1, <3>1, FS_Surjection
  <2>3. q \in Seq(new) /\ IsInjective(q)
    BY <2>2, SequenceOf
  <2>4. /\ Len(q) \in Nat /\ DOMAIN q = 1..Len(q)
        /\ \A i \in 1..Len(q) : q[i] \in new
    BY <2>3, LenProperties, ElementOfSeq
  <2> HIDE DEF q
  <2>5. \A x \in new : x \in Named /\ x[1] \in unseen /\ x[2] = a.live[x[1]] /\ x = <<x[1], x[2]>>
    BY <1>1
  <2> HIDE DEF new, unseen, seen, Named
  <2>6. \A i, j \in 1..Len(q) : q[i][1] = q[j][1] => q[i] = q[j]
    BY <2>4, <2>5
  <2>7. \A i, j \in 1..Len(q) : q[i] = q[j] => i = j
    BY <2>3, <2>4 DEF IsInjective
  <2>8. QED
    BY <2>3, <2>4, <2>5, <2>6, <2>7
<1>4. Overlaid(a) = [a EXCEPT !.agents = old \o q]
  BY DEF Overlaid
<1>5. q \in Seq(Named) /\ Len(q) \in Nat
  <2> HIDE DEF q, new, Named
  <2>1. Len(q) \in Nat /\ q = [i \in 1..Len(q) |-> q[i]] /\ \A i \in 1..Len(q) : q[i] \in Named
    BY <1>3, LenProperties
  <2>2. QED
    BY <2>1
<1>6. \A i \in 1..Len(old), j \in 1..Len(q) : old[i][1] # q[j][1]
  <2>1. \A i \in 1..Len(old) : old[i][1] \in seen
    BY <1>1, <1>2
  <2>2. \A j \in 1..Len(q) : q[j][1] \notin seen
    <3> HIDE DEF q
    <3>1. QED
      BY <1>3
  <2>3. QED
    BY <2>1, <2>2
<1>7. \A j \in 1..Len(q) : a.live[q[j][1]] \in {"none", q[j][2]}
  BY <1>3
<1>8. \A i, j \in 1..Len(old) : old[i][1] = old[j][1] => i = j
  BY <1>1, <1>2 DEF NamedOnce
<1> HIDE DEF old, q, new, unseen, seen, Named
<1> DEFINE s == old \o q
<1>9. /\ s \in Seq(Named) /\ DOMAIN s = 1..Len(old) + Len(q)
      /\ \A i \in 1..Len(old) : s[i] = old[i]
      /\ \A j \in 1..Len(q) : s[Len(old) + j] = q[j]
  <2>1. old \in Seq(Named)
    BY <1>2
  <2>2. QED
    BY <1>5, <2>1, Joined
<1> HIDE DEF s
<1>10. \A i \in DOMAIN s : \/ i \in 1..Len(old) /\ s[i] = old[i]
                           \/ i - Len(old) \in 1..Len(q) /\ s[i] = q[i - Len(old)]
  <2> TAKE i \in DOMAIN s
  <2>1. CASE i <= Len(old)
    BY <1>1, <1>2, <1>5, <1>9, <2>1
  <2>2. CASE ~(i <= Len(old))
    <3>1. i - Len(old) \in 1..Len(q) /\ Len(old) + (i - Len(old)) = i
      BY <1>1, <1>2, <1>5, <1>9, <2>2
    <3>2. QED
      BY <1>9, <3>1
  <2>3. QED
    BY <2>1, <2>2
<1>11. \A i, j \in DOMAIN s : s[i][1] = s[j][1] => i = j
  <2> SUFFICES ASSUME NEW i \in DOMAIN s, NEW j \in DOMAIN s, s[i][1] = s[j][1]
               PROVE  i = j
    OBVIOUS
  <2>1. i \in Nat /\ j \in Nat /\ Len(old) \in Nat
    BY <1>1, <1>2, <1>5, <1>9
  <2>2. CASE i \in 1..Len(old) /\ s[i] = old[i]
    BY <1>6, <1>8, <1>10, <2>2
  <2>3. CASE i - Len(old) \in 1..Len(q) /\ s[i] = q[i - Len(old)]
    <3>1. j - Len(old) \in 1..Len(q) /\ s[j] = q[j - Len(old)]
      BY <1>6, <1>10, <2>3
    <3>2. i - Len(old) = j - Len(old)
      BY <1>3, <2>3, <3>1
    <3>3. QED
      BY <2>1, <3>2
  <2>4. QED
    BY <1>10, <2>2, <2>3
<1>12. \A i \in DOMAIN s : a.live[s[i][1]] \in {"none", s[i][2]}
  BY <1>2, <1>7, <1>10
<1>13. Overlaid(a) \in AppState
  BY <1>4, <1>9 DEF AppState, s, Named
<1>14. /\ Overlaid(a).agents = s /\ Overlaid(a).live = a.live
       /\ Overlaid(a).tx = a.tx /\ Overlaid(a).rx = a.rx /\ Overlaid(a).mode = a.mode
       /\ Overlaid(a).active = a.active /\ Overlaid(a).running = a.running
  BY <1>4 DEF AppState, s
<1>15. QED
  BY <1>11, <1>12, <1>13, <1>14 DEF AppFine, Holds, NamedOnce, ShowsLast

LEMMA RunFailedFine ==
  ASSUME NEW a, AppFine(a), NEW run
  PROVE  AppFine(OnRunFailed(a, run)) /\ OnRunFailed(a, run).tx = None
         /\ OnRunFailed(a, run).rx = a.rx
<1>1. a \in AppState
  BY DEF AppFine
<1>2. OnRunFailed(a, run) \in AppState
  <2> DEFINE left == a.running \ {run}
             mode == IF left = {} THEN "Idle" ELSE a.mode
  <2>1. left \in SUBSET RunId /\ mode \in {"Idle", "Running", "Paused"} /\ None \in AppRun
    BY <1>1 DEF AppState, AppRun
  <2>2. OnRunFailed(a, run) = [a EXCEPT !.running = left, !.tx = None, !.mode = mode]
    BY <1>1 DEF OnRunFailed, AppState
  <2> HIDE DEF left, mode
  <2>3. QED
    BY <1>1, <2>1, <2>2 DEF AppState
<1>3. /\ OnRunFailed(a, run).tx = None /\ OnRunFailed(a, run).rx = a.rx
      /\ OnRunFailed(a, run).agents = a.agents /\ OnRunFailed(a, run).live = a.live
  BY <1>1 DEF OnRunFailed, AppState
<1>4. QED
  BY <1>2, <1>3 DEF AppFine, Holds, NamedOnce, ShowsLast

(* What an event of the run makes of the mode.                             *)
Moded(event) == event.kind \in {"RunStarted", "RunPaused", "RunResumed"}
Told(event) == IF event.kind = "RunPaused" THEN "Paused" ELSE "Running"

LEMMA AppliedFine ==
  ASSUME AppAssumption, NEW a, AppFine(a), NEW event \in Events, event.run = a.rx
  PROVE  LET b == Overlaid([Applied(a, event) EXCEPT !.quiet = FALSE, !.warned = FALSE])
         IN /\ AppFine(b)
            /\ Terminal(event) => b.tx = None /\ b.rx = None
            /\ ~Terminal(event) => b.tx = a.tx /\ b.rx = a.rx
            /\ ~Terminal(event) => b.mode = IF Moded(event) THEN Told(event) ELSE a.mode
<1> DEFINE e == Applied(a, event)
           c == [e EXCEPT !.quiet = FALSE, !.warned = FALSE]
<1>1. a \in AppState /\ Holds(a) /\ NamedOnce(a) /\ event.run \in RunId /\ a.rx # None
  BY DEF AppFine, Events, AppAssumption
<1>2. /\ e \in AppState /\ Holds(e) /\ e.agents = a.agents
      /\ Terminal(event) => e.tx = None /\ e.rx = None
      /\ ~Terminal(event) => e.tx = a.tx /\ e.rx = a.rx
      /\ ~Terminal(event) => e.mode = IF Moded(event) THEN Told(event) ELSE a.mode
  <2>1. CASE event.kind = "RunStarted"
    <3>1. e = [a EXCEPT !.active = event.run, !.running = {event.run}, !.mode = "Running"]
      BY <2>1 DEF Applied
    <3>2. QED
      <4>1. {event.run} \in SUBSET RunId /\ event.run \in AppRun
        BY <1>1 DEF AppRun
      <4>2. e \in AppState
        BY <1>1, <3>1, <4>1 DEF AppState
      <4>3. /\ e.tx = a.tx /\ e.rx = a.rx /\ e.active = event.run /\ e.running = {event.run}
            /\ e.mode = "Running" /\ e.agents = a.agents
        BY <1>1, <3>1 DEF AppState
      <4> HIDE DEF e
      <4>4. QED
        BY <1>1, <2>1, <4>2, <4>3 DEF Holds, Terminal, Moded, Told
  <2>2. CASE event.kind = "AgentStage"
    <3>1. e = [a EXCEPT !.live[event.run] = event.stage]
      BY <2>2 DEF Applied
    <3>2. event.stage \in Stages
      BY <2>2 DEF Events
    <3>3. QED
      BY <1>1, <2>2, <3>1, <3>2 DEF AppState, Holds, Terminal, Moded, Told, Phases
  <2>3. CASE event.kind = "RunPaused"
    <3>1. e = [a EXCEPT !.mode = "Paused"]
      BY <2>3 DEF Applied
    <3>2. QED
      BY <1>1, <2>3, <3>1 DEF AppState, Holds, Terminal, Moded, Told
  <2>4. CASE event.kind = "RunResumed"
    <3>1. e = [a EXCEPT !.mode = "Running"]
      BY <2>4 DEF Applied
    <3>2. QED
      BY <1>1, <2>4, <3>1 DEF AppState, Holds, Terminal, Moded, Told
  <2>5. CASE event.kind \in {"RunFinished", "RunCancelled"}
    <3>1. e = Detached(a, event.run)
      BY <2>5 DEF Applied
    <3>2. QED
      BY <1>1, <2>5, <3>1 DEF AppState, Holds, Terminal, Detached, AppRun
  <2>6. CASE event.kind = "FatalError"
    <3>1. e = [OnRunFailed(a, a.active) EXCEPT !.rx = None, !.active = None]
      BY <2>6 DEF Applied
    <3>2. OnRunFailed(a, a.active) \in AppState /\ OnRunFailed(a, a.active).tx = None
          /\ OnRunFailed(a, a.active).agents = a.agents
      BY <1>1, RunFailedFine DEF AppFine, OnRunFailed, AppState
    <3> HIDE DEF e
    <3>3. QED
      BY <2>6, <3>1, <3>2 DEF AppState, Holds, Terminal, AppRun
  <2>7. QED
    BY <2>1, <2>2, <2>3, <2>4, <2>5, <2>6 DEF Events
<1> HIDE DEF e
<1>3. /\ c \in AppState /\ c.agents = a.agents /\ Holds(c)
      /\ c.tx = e.tx /\ c.rx = e.rx /\ c.mode = e.mode
  BY <1>2 DEF AppState, Holds
<1>4. NamedOnce(c)
  BY <1>1, <1>3 DEF NamedOnce
<1> HIDE DEF c
<1>5. AppFine(Overlaid(c)) /\ Overlaid(c).tx = c.tx /\ Overlaid(c).rx = c.rx
      /\ Overlaid(c).mode = c.mode
  BY <1>3, <1>4, OverlaidFine
<1>6. QED
  BY <1>2, <1>3, <1>5 DEF c, e

LEMMA RefreshedFine ==
  ASSUME AppAssumption, NEW a, AppFine(a), stored \in [RunId -> Phases], NEW run \in AppRun
  PROVE  LET b == Refreshed(a, run)
         IN /\ AppFine(b) /\ b.tx = a.tx /\ b.rx = a.rx
            /\ a.tx # None => b.mode = a.mode
<1> DEFINE attached == a.tx # None
           c == [a EXCEPT
                   !.running = IF attached THEN {a.active} \ {None} ELSE {},
                   !.active = IF attached THEN @ ELSE None,
                   !.mode = IF ~attached THEN "Idle" ELSE IF @ = "Paused" THEN @ ELSE "Running",
                   !.agents = IF run = None THEN <<>> ELSE <<<<run, stored[run]>>>>]
           shown == IF run = None THEN <<>> ELSE <<<<run, stored[run]>>>>
<1>1. a \in AppState /\ Holds(a)
  BY DEF AppFine
<1>2. /\ shown \in Seq(RunId \X Phases)
      /\ \A i, j \in DOMAIN shown : shown[i][1] = shown[j][1] => i = j
  <2>1. CASE run = None
    BY <2>1
  <2>2. CASE run # None
    <3>1. <<run, stored[run]>> \in RunId \X Phases
      BY <2>2 DEF AppRun
    <3>2. shown = <<<<run, stored[run]>>>> /\ DOMAIN shown = 1..1
      BY <2>2
    <3> HIDE DEF shown
    <3>3. shown \in Seq(RunId \X Phases)
      BY <3>1, <3>2
    <3>4. \A i, j \in 1..1 : i = j
      OBVIOUS
    <3>5. QED
      BY <3>2, <3>3, <3>4
  <2>3. QED
    BY <2>1, <2>2
<1>3. Refreshed(a, run) = Overlaid(c)
  BY DEF Refreshed
<1>4. c = [a EXCEPT !.running = IF attached THEN {a.active} \ {None} ELSE {},
                    !.active = IF attached THEN a.active ELSE None,
                    !.mode = IF ~attached THEN "Idle"
                             ELSE IF a.mode = "Paused" THEN a.mode ELSE "Running",
                    !.agents = shown]
  BY <1>1 DEF AppState
<1> HIDE DEF c, shown
<1>5. c \in AppState
  BY <1>1, <1>2, <1>4 DEF AppState, AppRun
<1>6. /\ Holds(c) /\ c.tx = a.tx /\ c.rx = a.rx /\ c.agents = shown
      /\ attached => c.mode = a.mode
  BY <1>1, <1>4 DEF AppState, Holds, AppRun, AppAssumption
<1>7. NamedOnce(c)
  BY <1>2, <1>6 DEF NamedOnce
<1>8. QED
  BY <1>3, <1>5, <1>6, <1>7, OverlaidFine

LEMMA StaleFine ==
  ASSUME AppAssumption, NEW a, AppFine(a)
  PROVE  LET b == Overlaid(CheckStale(a))
         IN AppFine(b) /\ b.tx = a.tx /\ b.rx = a.rx /\ b.mode = a.mode
<1> DEFINE c == CheckStale(a)
<1>1. a \in AppState /\ Holds(a) /\ NamedOnce(a)
  BY DEF AppFine
<1>2. /\ c \in AppState /\ c.tx = a.tx /\ c.rx = a.rx /\ c.mode = a.mode
      /\ c.active = a.active /\ c.running = a.running /\ c.agents = a.agents
  BY <1>1 DEF CheckStale, AppState
<1> HIDE DEF c
<1>3. Holds(c) /\ NamedOnce(c)
  BY <1>1, <1>2 DEF Holds, NamedOnce
<1>4. QED
  BY <1>2, <1>3, OverlaidFine DEF c

(* The mode that is left when every event has been received: what the last *)
(* of them that is about the mode says.                                    *)
Foretold(mode, es, end) ==
  \/ (\A i \in DOMAIN es : ~Moded(es[i])) /\ mode = end
  \/ \E i \in DOMAIN es : /\ Moded(es[i]) /\ Told(es[i]) = end
                          /\ \A j \in DOMAIN es : j > i => ~Moded(es[j])

LEMMA ForetoldTail ==
  ASSUME NEW es \in Seq(Events), es # <<>>, NEW mode, NEW end, Foretold(mode, es, end)
  PROVE  Foretold(IF Moded(Head(es)) THEN Told(Head(es)) ELSE mode, Tail(es), end)
<1> DEFINE m == IF Moded(Head(es)) THEN Told(Head(es)) ELSE mode
           t == Tail(es)
<1>1. /\ Len(es) \in Nat /\ Len(es) >= 1 /\ DOMAIN es = 1..Len(es) /\ Head(es) = es[1]
      /\ t \in Seq(Events) /\ Len(t) = Len(es) - 1 /\ DOMAIN t = 1..Len(es) - 1
      /\ \A i \in 1..Len(es) - 1 : t[i] = es[i + 1]
  <2>1. Len(es) \in Nat /\ Len(es) # 0 /\ DOMAIN es = 1..Len(es) /\ Head(es) = es[1]
    BY LenProperties, EmptySeq, HeadTailProperties
  <2>2. t \in Seq(Events) /\ Len(t) = Len(es) - 1
    BY HeadTailProperties
  <2>3. \A i \in 1..Len(es) - 1 : t[i] = es[i + 1]
    BY <2>1, <2>2, HeadTailProperties
  <2>4. DOMAIN t = 1..Len(es) - 1
    BY <2>2, LenProperties
  <2>5. QED
    BY <2>1, <2>2, <2>3, <2>4
<1> HIDE DEF t
<1>2. CASE \A i \in DOMAIN es : ~Moded(es[i])
  <2>1. mode = end
    BY <1>2 DEF Foretold
  <2>2. m = mode /\ \A i \in DOMAIN t : ~Moded(t[i])
    BY <1>1, <1>2
  <2>3. QED
    BY <2>1, <2>2 DEF Foretold, t
<1>3. CASE \E i \in DOMAIN es : /\ Moded(es[i]) /\ Told(es[i]) = end
                                /\ \A j \in DOMAIN es : j > i => ~Moded(es[j])
  <2>1. PICK i \in DOMAIN es : /\ Moded(es[i]) /\ Told(es[i]) = end
                               /\ \A j \in DOMAIN es : j > i => ~Moded(es[j])
    BY <1>3
  <2>2. CASE i = 1
    <3>1. m = end /\ \A j \in DOMAIN t : ~Moded(t[j])
      BY <1>1, <2>1, <2>2
    <3>2. QED
      BY <3>1 DEF Foretold, t
  <2>3. CASE i # 1
    <3>1. i - 1 \in DOMAIN t /\ t[i - 1] = es[i]
      BY <1>1, <2>3
    <3>2. \A j \in DOMAIN t : j > i - 1 => ~Moded(t[j])
      BY <1>1, <2>1
    <3>3. QED
      BY <2>1, <3>1, <3>2 DEF Foretold, t
  <2>4. QED
    BY <2>2, <2>3
<1>4. QED
  BY <1>2, <1>3 DEF Foretold

(* An event about the mode decides it; others change nothing.              *)
LEMMA ForetoldMore ==
  ASSUME NEW es \in Seq(Events), NEW new \in Seq(Events), NEW mode, NEW end,
         \/ Foretold(mode, es, end) /\ \A i \in DOMAIN new : ~Moded(new[i])
         \/ /\ Len(new) >= 1 /\ Moded(new[1]) /\ Told(new[1]) = end
            /\ \A i \in DOMAIN new : i > 1 => ~Moded(new[i])
  PROVE  Foretold(mode, es \o new, end)
<1> DEFINE s == es \o new
<1>1. /\ Len(es) \in Nat /\ Len(new) \in Nat /\ DOMAIN s = 1..Len(es) + Len(new)
      /\ DOMAIN es = 1..Len(es) /\ DOMAIN new = 1..Len(new)
      /\ \A i \in 1..Len(es) : s[i] = es[i]
      /\ \A j \in 1..Len(new) : s[Len(es) + j] = new[j]
  BY Joined, LenProperties
<1> HIDE DEF s
<1>2. ASSUME NEW i \in DOMAIN s, i > Len(es)
      PROVE  i - Len(es) \in DOMAIN new /\ s[i] = new[i - Len(es)]
  <2>1. i - Len(es) \in 1..Len(new) /\ Len(es) + (i - Len(es)) = i
    BY <1>1, <1>2
  <2>2. QED
    BY <1>1, <2>1
<1>3. CASE Foretold(mode, es, end) /\ \A i \in DOMAIN new : ~Moded(new[i])
  <2>1. \A i \in DOMAIN s : i > Len(es) => ~Moded(s[i])
    BY <1>2, <1>3
  <2>2. \A i \in DOMAIN s : i > Len(es) \/ (i \in DOMAIN es /\ s[i] = es[i])
    BY <1>1
  <2>3. CASE (\A i \in DOMAIN es : ~Moded(es[i])) /\ mode = end
    BY <2>1, <2>2, <2>3 DEF Foretold, s
  <2>4. CASE \E i \in DOMAIN es : /\ Moded(es[i]) /\ Told(es[i]) = end
                                  /\ \A j \in DOMAIN es : j > i => ~Moded(es[j])
    <3>1. PICK i \in DOMAIN es : /\ Moded(es[i]) /\ Told(es[i]) = end
                                 /\ \A j \in DOMAIN es : j > i => ~Moded(es[j])
      BY <2>4
    <3>2. i \in DOMAIN s /\ s[i] = es[i]
      BY <1>1
    <3>3. \A j \in DOMAIN s : j > i => ~Moded(s[j])
      BY <2>1, <2>2, <3>1
    <3>4. QED
      BY <3>1, <3>2, <3>3 DEF Foretold, s
  <2>5. QED
    BY <1>3, <2>3, <2>4 DEF Foretold
<1>4. CASE /\ Len(new) >= 1 /\ Moded(new[1]) /\ Told(new[1]) = end
           /\ \A i \in DOMAIN new : i > 1 => ~Moded(new[i])
  <2>1. Len(es) + 1 \in DOMAIN s /\ s[Len(es) + 1] = new[1]
    BY <1>1, <1>4
  <2>2. \A j \in DOMAIN s : j > Len(es) + 1 => ~Moded(s[j])
    <3> TAKE j \in DOMAIN s
    <3> HAVE j > Len(es) + 1
    <3>1. j - Len(es) > 1 /\ j > Len(es)
      BY <1>1
    <3>2. QED
      BY <1>2, <1>4, <3>1
  <2>3. QED
    BY <1>4, <2>1, <2>2 DEF Foretold, s
<1>5. QED
  BY <1>3, <1>4

(* The runs: one without a task has neither commands nor a channel; its    *)
(* events are its own; when it has ended its last word is under way.       *)
RunFits(r) ==
  /\ runner[r].at = "none" => app.tx # r /\ app.rx # r /\ inbox[r] = <<>>
  /\ runner[r].at \in {"none", "preparing"} => runner[r] = Idler(runner[r].at)
  /\ \A i \in DOMAIN events[r] : events[r][i].run = r
  /\ app.rx = r /\ runner[r].at = "ended" => \E i \in DOMAIN events[r] : Terminal(events[r][i])

(* Nobody has asked for a pause or its end that the run has not handled:   *)
(* then what it is, is what the application shows or will be told.         *)
Unasked(r) == \A i \in DOMAIN inbox[r] : inbox[r][i] \notin {"Pause", "Resume"}
ModeFits(r) ==
  app.tx = r /\ runner[r].at = "working" /\ runner[r].by # "outside" /\ Unasked(r) =>
    Foretold(app.mode, events[r], IF runner[r].paused THEN "Paused" ELSE "Running")

AppTypes ==
  /\ runner \in [RunId -> [at : {"none", "preparing", "working", "ended", "panicked"},
                           paused : BOOLEAN, by : {"nobody", "user", "outside"},
                           cancelled : BOOLEAN, agent : {"queued", "running", "done"}]]
  /\ inbox \in [RunId -> Seq(Commands)]
  /\ events \in [RunId -> Seq(Events)]
  /\ stored \in [RunId -> Phases]

AppFits == AppTypes /\ AppFine(app) /\ \A r \in RunId : RunFits(r) /\ ModeFits(r)

LEMMA AppInitial == AppAssumption /\ AppInit => AppFits
<1> SUFFICES ASSUME AppAssumption, AppInit
             PROVE  AppFits
  OBVIOUS
<1>1. AppTypes
  BY DEF AppInit, AppTypes, Idler, Phases
<1>2. app \in AppState /\ app.tx = None /\ app.rx = None /\ app.agents = <<>>
  BY DEF AppInit, AppState, AppRun, Phases
<1>3. AppFine(app)
  BY <1>2 DEF AppFine, Holds, NamedOnce, ShowsLast
<1>4. \A r \in RunId : RunFits(r) /\ ModeFits(r)
  <2> TAKE r \in RunId
  <2>1. /\ r # None /\ inbox[r] = <<>> /\ events[r] = <<>>
        /\ runner[r] = Idler("none") /\ runner[r].at = "none"
    BY DEF AppInit, Idler, AppAssumption
  <2>2. QED
    BY <1>2, <2>1 DEF RunFits, ModeFits
<1>5. QED
  BY <1>1, <1>3, <1>4 DEF AppFits

LEMMA ScreenSound == AppAssumption /\ AppFits => ScreenIsRight
<1> SUFFICES ASSUME AppAssumption, AppFits
             PROVE  ScreenIsRight
  OBVIOUS
<1>1. AgentsListedOnce
  BY DEF AppFits, AppFine, NamedOnce, ShowsLast, AgentsListedOnce
<1>2. ASSUME NEW r \in RunId, Quiescent(r), Attached(r)
      PROVE  /\ runner[r].at = "working" /\ runner[r].by # "outside" =>
                  app.mode = IF runner[r].paused THEN "Paused" ELSE "Running"
             /\ runner[r].at # "ended"
             /\ app.running = {r} /\ app.active = r
  <2>1. inbox[r] = <<>> /\ events[r] = <<>> /\ DOMAIN inbox[r] = {} /\ DOMAIN events[r] = {}
    BY <1>2 DEF Quiescent
  <2>2. RunFits(r) /\ ModeFits(r) /\ Holds(app)
    BY DEF AppFits, AppFine
  <2>3. app.tx = r /\ app.rx = r
    BY <1>2 DEF Attached
  <2>4. QED
    BY <2>1, <2>2, <2>3 DEF RunFits, ModeFits, Unasked, Foretold, Holds, AppAssumption
<1>3. QED
  BY <1>1, <1>2 DEF ScreenIsRight, ModeAgrees

(* A step of the application alone.                                        *)
LEMMA AppOnly ==
  ASSUME AppFits, AppFine(app'), app'.rx = app.rx, app'.tx \in {app.tx, None},
         app'.tx # None => app'.mode = app.mode, None \notin RunId,
         UNCHANGED <<runner, inbox, events>>, stored' \in [RunId -> Phases]
  PROVE  AppFits'
<1>1. AppTypes'
  BY DEF AppFits, AppTypes
<1>2. ASSUME NEW r \in RunId
      PROVE  RunFits(r)' /\ ModeFits(r)'
  <2>1. RunFits(r) /\ ModeFits(r)
    BY DEF AppFits
  <2>2. app'.tx = r => app.tx = r /\ app'.mode = app.mode
    OBVIOUS
  <2>3. QED
    BY <2>1, <2>2 DEF RunFits, ModeFits, Unasked
<1>3. QED
  BY <1>1, <1>2 DEF AppFits

LEMMA SendFits ==
  ASSUME AppAssumption, AppFits, NEW command \in Commands, NEW a, NEW then, AppFine(a),
         a.tx = app.tx, a.rx = app.rx, command \notin {"Pause", "Resume"} => a.mode = app.mode,
         Send(command, a, then), UNCHANGED <<runner, events, stored>>
  PROVE  AppFits'
<1>1. AppTypes /\ AppFine(app) /\ None \notin RunId
  BY DEF AppFits, AppAssumption
<1>2. CASE app.tx # None /\ Gone(app.tx)
  <2>1. app' = OnRunFailed(app, None) /\ UNCHANGED inbox
    BY <1>2 DEF Send
  <2>2. AppFine(app') /\ app'.tx = None /\ app'.rx = app.rx
    BY <1>1, <2>1, RunFailedFine
  <2>3. QED
    BY <1>1, <2>1, <2>2, AppOnly DEF AppTypes
<1>3. CASE app.tx = None
  <2>1. app' = a /\ UNCHANGED inbox
    BY <1>3 DEF Send
  <2>2. QED
    BY <1>1, <1>3, <2>1, AppOnly DEF AppTypes
<1>4. CASE app.tx # None /\ ~Gone(app.tx)
  <2>1. app' = a /\ inbox' = [inbox EXCEPT ![app.tx] = Append(@, command)] /\ app.tx \in RunId
    BY <1>1, <1>4 DEF Send, AppFine, AppState, AppRun
  <2>2. /\ Append(inbox[app.tx], command) \in Seq(Commands)
        /\ inbox' \in [RunId -> Seq(Commands)]
        /\ inbox'[app.tx] = Append(inbox[app.tx], command)
        /\ \A r \in RunId : r # app.tx => inbox'[r] = inbox[r]
    BY <1>1, <2>1, AppendProperties DEF AppTypes
  <2>3. AppTypes'
    BY <1>1, <2>2 DEF AppTypes
  <2>4. ASSUME NEW r \in RunId
        PROVE  RunFits(r)' /\ ModeFits(r)'
    <3>1. RunFits(r) /\ ModeFits(r)
      BY DEF AppFits
    <3>2. CASE r # app.tx
      BY <2>1, <2>2, <3>1, <3>2 DEF RunFits, ModeFits, Unasked
    <3>3. CASE r = app.tx
      <4>1. RunFits(r)'
        BY <2>1, <3>1, <3>3 DEF RunFits
      <4>2. inbox[r] \in Seq(Commands)
        BY <1>1 DEF AppTypes
      <4>3. /\ Len(inbox[r]) \in Nat /\ DOMAIN inbox[r] = 1..Len(inbox[r])
            /\ DOMAIN inbox'[r] = 1..Len(inbox[r]) + 1
            /\ \A i \in 1..Len(inbox[r]) : inbox'[r][i] = inbox[r][i]
            /\ inbox'[r][Len(inbox[r]) + 1] = command
        BY <2>2, <3>3, <4>2, AppendProperties, LenProperties
      <4>4. Unasked(r)' => command \notin {"Pause", "Resume"} /\ Unasked(r)
        BY <4>3 DEF Unasked
      <4>5. QED
        BY <2>1, <3>1, <4>1, <4>4 DEF ModeFits
    <3>4. QED
      BY <3>2, <3>3
  <2>5. QED
    BY <2>1, <2>3, <2>4 DEF AppFits
<1>5. QED
  BY <1>2, <1>3, <1>4

LEMMA SubmitFits ==
  ASSUME AppAssumption, AppFits, NEW r \in RunId, SubmitGoal(r)
  PROVE  AppFits'
<1> DEFINE creating == [app EXCEPT !.mode = "Running", !.live = [s \in RunId |-> "none"],
                                   !.quiet = FALSE, !.warned = FALSE]
           joined == [creating EXCEPT !.active = r, !.running = {r}, !.tx = r, !.rx = r]
<1>1. /\ AppTypes /\ AppFine(app) /\ app \in AppState /\ runner[r].at = "none" /\ UNCHANGED inbox
      /\ RunFits(r) /\ None \notin RunId
  BY DEF AppFits, AppFine, SubmitGoal, AppAssumption
<1>2. /\ creating \in AppState /\ creating.tx = app.tx /\ creating.rx = app.rx
      /\ creating.active = app.active /\ creating.running = app.running
      /\ creating.mode = "Running" /\ creating.agents = app.agents
      /\ creating.live = [s \in RunId |-> "none"]
  BY <1>1 DEF AppState, Phases
<1>3. \A i \in DOMAIN app.agents : app.agents[i][1] \in RunId
  BY <1>1, LenProperties, ElementOfSeq DEF AppState
<1> HIDE DEF creating
<1>4. AppFine(creating)
  BY <1>1, <1>2, <1>3 DEF AppFine, Holds, NamedOnce, ShowsLast
<1>5. CASE Prepared(r) /\ app' = joined
  <2>1. /\ app' \in AppState /\ app'.tx = r /\ app'.rx = r /\ app'.active = r
        /\ app'.running = {r} /\ app'.mode = "Running"
        /\ app'.agents = creating.agents /\ app'.live = creating.live
    BY <1>2, <1>5 DEF AppState, AppRun
  <2>2. AppFine(app')
    BY <1>4, <2>1 DEF AppFine, Holds, NamedOnce, ShowsLast
  <2>3. AppTypes' /\ \A q \in RunId : events'[q] = <<>>
    <3>1. /\ runner' = [runner EXCEPT ![r].at = "preparing"]
          /\ stored' = [stored EXCEPT ![r] = "queued"]
          /\ events' = [s \in RunId |-> <<>>]
      BY <1>5 DEF Prepared
    <3>2. stored' \in [RunId -> Phases] /\ inbox' \in [RunId -> Seq(Commands)]
      BY <1>1, <3>1 DEF AppTypes, Phases
    <3>3. events' \in [RunId -> Seq(Events)] /\ \A q \in RunId : events'[q] = <<>>
      BY <3>1
    <3>4. QED
      BY <1>1, <3>1, <3>2, <3>3 DEF AppTypes
  <2>4. ASSUME NEW q \in RunId
        PROVE  RunFits(q)' /\ ModeFits(q)'
    <3>1. RunFits(q) /\ ModeFits(q)
      BY DEF AppFits
    <3>2. CASE q = r
      <4>1. runner'[r] = [Idler("none") EXCEPT !.at = "preparing"]
        BY <1>1, <1>5 DEF Prepared, AppTypes, RunFits
      <4>2. runner'[r] = Idler("preparing") /\ runner'[r].at = "preparing"
        BY <4>1 DEF Idler
      <4>3. QED
        BY <2>3, <3>2, <4>2 DEF RunFits, ModeFits
    <3>3. CASE q # r
      <4>1. runner'[q] = runner[q] /\ inbox'[q] = inbox[q] /\ app'.tx # q /\ app'.rx # q
        BY <1>1, <1>5, <2>1, <3>3 DEF Prepared, AppTypes
      <4>2. QED
        BY <2>3, <3>1, <4>1 DEF RunFits, ModeFits
    <3>4. QED
      BY <3>2, <3>3
  <2>5. QED
    BY <2>2, <2>3, <2>4 DEF AppFits
<1>6. CASE app' = OnRunFailed(creating, None) /\ UNCHANGED <<runner, events, stored>>
  <2>1. AppFine(app') /\ app'.tx = None /\ app'.rx = app.rx
    BY <1>2, <1>4, <1>6, RunFailedFine
  <2>2. QED
    BY <1>1, <1>6, <2>1, AppOnly DEF AppTypes
<1>7. QED
  BY <1>5, <1>6 DEF SubmitGoal, creating

LEMMA DrainFits ==
  ASSUME AppAssumption, AppFits, DrainRunnerEvents
  PROVE  AppFits'
<1>1. /\ AppTypes /\ AppFine(app) /\ app \in AppState /\ UNCHANGED <<runner, inbox, stored>>
      /\ None \notin RunId
  BY DEF AppFits, AppFine, DrainRunnerEvents, AppAssumption
<1>2. CASE UNCHANGED <<app, events>>
  BY <1>1, <1>2, AppOnly DEF AppTypes
<1>3. CASE ~(app.rx = None \/ events[app.rx] = <<>>)
  <2> DEFINE d == app.rx
             event == Head(events[d])
  <2>1. d \in RunId /\ events[d] \in Seq(Events) /\ events[d] # <<>>
    BY <1>1, <1>3 DEF AppTypes, AppState, AppRun
  <2>2. /\ ApplyRunnerEvent(event)
        /\ events' = [events EXCEPT ![d] = Tail(@)]
    BY <1>3 DEF DrainRunnerEvents
  <2>3. /\ Len(events[d]) \in Nat /\ Len(events[d]) >= 1 /\ DOMAIN events[d] = 1..Len(events[d])
        /\ event = events[d][1] /\ event \in Events
        /\ Tail(events[d]) \in Seq(Events) /\ DOMAIN Tail(events[d]) = 1..Len(events[d]) - 1
        /\ \A i \in 1..Len(events[d]) - 1 : Tail(events[d])[i] = events[d][i + 1]
    BY <2>1, HeadTailProperties, LenProperties, EmptySeq, ElementOfSeq
  <2>4. RunFits(d) /\ event.run = d
    BY <2>1, <2>3 DEF AppFits, RunFits
  <2> HIDE DEF event
  <2>5. /\ AppFine(app')
        /\ Terminal(event) => app'.tx = None /\ app'.rx = None
        /\ ~Terminal(event) => app'.tx = app.tx /\ app'.rx = app.rx
        /\ ~Terminal(event) => app'.mode = IF Moded(event) THEN Told(event) ELSE app.mode
    BY <1>1, <2>2, <2>3, <2>4, AppliedFine DEF ApplyRunnerEvent
  <2>6. /\ events' \in [RunId -> Seq(Events)] /\ events'[d] = Tail(events[d])
        /\ \A q \in RunId : q # d => events'[q] = events[q]
    BY <1>1, <2>1, <2>2, <2>3 DEF AppTypes
  <2>7. AppTypes'
    BY <1>1, <2>6 DEF AppTypes
  <2>8. ASSUME NEW q \in RunId
        PROVE  RunFits(q)' /\ ModeFits(q)'
    <3>1. RunFits(q) /\ ModeFits(q) /\ q # None /\ runner'[q] = runner[q] /\ inbox'[q] = inbox[q]
      BY <1>1 DEF AppFits
    <3>2. app'.tx = q \/ app'.rx = q => ~Terminal(event) /\ app'.tx = app.tx /\ app'.rx = app.rx
      BY <2>5, <3>1
    <3>3. CASE q # d
      <4>1. app.tx # q /\ app.rx # q
        BY <1>1, <3>1, <3>3 DEF AppFine, Holds
      <4>2. events'[q] = events[q] /\ app'.tx # q /\ app'.rx # q
        BY <2>6, <3>2, <3>3, <4>1
      <4>3. QED
        BY <3>1, <4>2 DEF RunFits, ModeFits
    <3>4. CASE q = d
      <4>1. events'[q] = Tail(events[q]) /\ events[q] \in Seq(Events) /\ events[q] # <<>>
            /\ event = Head(events[q])
        BY <2>1, <2>6, <3>4 DEF event
      <4>2. \A i \in DOMAIN events'[q] : i + 1 \in DOMAIN events[q]
              /\ events'[q][i] = events[q][i + 1]
        BY <2>3, <3>4, <4>1
      <4>3. \A i \in DOMAIN events'[q] : events'[q][i].run = q
        BY <3>1, <4>2 DEF RunFits
      <4>4. ASSUME app'.rx = q, runner[q].at = "ended"
            PROVE  \E i \in DOMAIN events'[q] : Terminal(events'[q][i])
        <5>1. ~Terminal(events[q][1])
          BY <2>3, <3>2, <3>4, <4>4
        <5>2. PICK i \in DOMAIN events[q] : Terminal(events[q][i])
          BY <3>1, <3>4, <4>4 DEF RunFits
        <5>3. i # 1 /\ i - 1 \in DOMAIN events'[q] /\ events'[q][i - 1] = events[q][i]
          <6>1. i # 1 /\ i \in 1..Len(events[q]) /\ Len(events[q]) \in Nat
            BY <2>3, <3>4, <5>1, <5>2
          <6>2. i - 1 \in 1..Len(events[q]) - 1 /\ (i - 1) + 1 = i
            BY <6>1
          <6>3. i - 1 \in DOMAIN events'[q]
            BY <2>3, <3>4, <4>1, <6>2
          <6>4. QED
            BY <4>2, <6>1, <6>2, <6>3
        <5>4. QED
          BY <5>2, <5>3
      <4>5. RunFits(q)'
        BY <3>1, <3>2, <4>3, <4>4 DEF RunFits
      <4>6. ASSUME app'.tx = q, runner[q].at = "working", runner[q].by # "outside", Unasked(q)
            PROVE  Foretold(app'.mode, events'[q], IF runner[q].paused THEN "Paused" ELSE "Running")
        <5>1. /\ app.tx = q /\ ~Terminal(event)
              /\ app'.mode = IF Moded(event) THEN Told(event) ELSE app.mode
          BY <2>5, <3>2, <4>6
        <5>2. Foretold(app.mode, events[q], IF runner[q].paused THEN "Paused" ELSE "Running")
          BY <3>1, <4>6, <5>1 DEF ModeFits
        <5>3. QED
          BY <4>1, <5>1, <5>2, ForetoldTail
      <4>7. ModeFits(q)'
        BY <3>1, <4>6 DEF ModeFits, Unasked
      <4>8. QED
        BY <4>5, <4>7
    <3>5. QED
      BY <3>3, <3>4
  <2>9. QED
    BY <2>5, <2>7, <2>8 DEF AppFits
<1>4. QED
  BY <1>2, <1>3 DEF DrainRunnerEvents

(* A step of the task of one run: where it takes the run, which commands   *)
(* it leaves and which events it sends.                                    *)
Runners == [at : {"none", "preparing", "working", "ended", "panicked"}, paused : BOOLEAN,
            by : {"nobody", "user", "outside"}, cancelled : BOOLEAN,
            agent : {"queued", "running", "done"}]
Asks(q) == \E i \in DOMAIN q : q[i] \in {"Pause", "Resume"}
Deciding(es, end) ==
  Len(es) >= 1 /\ Moded(es[1]) /\ Told(es[1]) = end /\ \A i \in DOMAIN es : i > 1 => ~Moded(es[i])
Moves(r, x, q, es) ==
  /\ runner' = [runner EXCEPT ![r] = x] /\ inbox' = [inbox EXCEPT ![r] = q]
  /\ Emit(r, es) \/ (UNCHANGED events /\ es = <<>>)
  /\ UNCHANGED app

LEMMA OneRunMoves ==
  ASSUME AppAssumption, AppFits, NEW r \in RunId, NEW x \in Runners, NEW q \in Seq(Commands),
         NEW es \in Seq(Events), Moves(r, x, q, es),
         \A i \in DOMAIN es : es[i].run = r,
         runner[r].at \in {"preparing", "working"}, x.at \in {"working", "ended", "panicked"},
         x.at = "ended" => \E i \in DOMAIN es : Terminal(es[i]),
         x.at = "working" /\ x.by # "outside" /\ ~Asks(q) =>
           \/ Deciding(es, IF x.paused THEN "Paused" ELSE "Running")
           \/ /\ runner[r].at = "working" /\ runner[r].by # "outside" /\ runner[r].paused = x.paused
              /\ Unasked(r) /\ \A i \in DOMAIN es : ~Moded(es[i]),
         stored' \in [RunId -> Phases]
  PROVE  AppFits'
<1> DEFINE end == IF x.paused THEN "Paused" ELSE "Running"
<1>1. /\ AppTypes /\ AppFine(app) /\ RunFits(r) /\ ModeFits(r) /\ events[r] \in Seq(Events)
      /\ UNCHANGED app /\ Holds(app) /\ r # None
  BY DEF AppFits, AppTypes, AppFine, Moves, AppAssumption
<1>2. /\ runner' \in [RunId -> Runners] /\ runner'[r] = x /\ inbox' \in [RunId -> Seq(Commands)]
      /\ inbox'[r] = q
      /\ \A s \in RunId : s # r => runner'[s] = runner[s] /\ inbox'[s] = inbox[s]
  BY <1>1 DEF Moves, AppTypes, Runners
<1>3. /\ events' \in [RunId -> Seq(Events)]
      /\ app.rx = r => events'[r] = events[r] \o es \/ (events'[r] = events[r] /\ es = <<>>)
      /\ app.rx # r => events'[r] = events[r]
      /\ \A s \in RunId : s # r => events'[s] = events[s]
  <2>1. CASE UNCHANGED events /\ es = <<>>
    BY <1>1, <2>1 DEF AppTypes
  <2>2. CASE Emit(r, es)
    <3>1. events[r] \o es \in Seq(Events)
      BY <1>1, ConcatProperties
    <3>2. QED
      BY <1>1, <2>2, <3>1 DEF Emit, AppTypes
  <2>3. QED
    BY <2>1, <2>2 DEF Moves
<1>4. ASSUME NEW s \in RunId, s # r
      PROVE  RunFits(s)' /\ ModeFits(s)'
  <2>1. RunFits(s) /\ ModeFits(s)
    BY DEF AppFits
  <2>2. /\ runner'[s] = runner[s] /\ inbox'[s] = inbox[s] /\ events'[s] = events[s]
        /\ app'.tx = app.tx /\ app'.rx = app.rx /\ app'.mode = app.mode
    BY <1>1, <1>2, <1>3, <1>4
  <2>3. QED
    BY <2>1, <2>2 DEF RunFits, ModeFits, Unasked
<1>5. /\ Len(events[r]) \in Nat /\ Len(es) \in Nat
      /\ DOMAIN events[r] = 1..Len(events[r]) /\ DOMAIN es = 1..Len(es)
      /\ DOMAIN (events[r] \o es) = 1..Len(events[r]) + Len(es)
      /\ \A i \in 1..Len(events[r]) : (events[r] \o es)[i] = events[r][i]
      /\ \A i \in 1..Len(es) : (events[r] \o es)[Len(events[r]) + i] = es[i]
  BY <1>1, Joined, LenProperties
<1>6. \A i \in DOMAIN events'[r] : events'[r][i].run = r
  <2>1. \A i \in DOMAIN events[r] : events[r][i].run = r
    BY <1>1 DEF RunFits
  <2>2. CASE events'[r] = events[r]
    BY <2>1, <2>2
  <2>3. CASE events'[r] = events[r] \o es
    <3> TAKE i \in DOMAIN events'[r]
    <3>1. CASE i \in 1..Len(events[r])
      BY <1>5, <2>1, <2>3, <3>1
    <3>2. CASE i \notin 1..Len(events[r])
      <4>1. i - Len(events[r]) \in 1..Len(es) /\ Len(events[r]) + (i - Len(events[r])) = i
        BY <1>5, <2>3, <3>2
      <4>2. events'[r][i] = es[i - Len(events[r])]
        BY <1>5, <2>3, <4>1
      <4>3. QED
        BY <1>5, <4>1, <4>2
    <3>3. QED
      BY <3>1, <3>2
  <2>4. QED
    BY <1>3, <2>2, <2>3
<1>7. ASSUME app'.rx = r, x.at = "ended"
      PROVE  \E i \in DOMAIN events'[r] : Terminal(events'[r][i])
  <2>1. PICK i \in DOMAIN es : Terminal(es[i])
    BY <1>7
  <2>2. es # <<>> /\ events'[r] = events[r] \o es
    BY <1>1, <1>3, <1>7, <2>1
  <2>3. Len(events[r]) + i \in DOMAIN events'[r] /\ events'[r][Len(events[r]) + i] = es[i]
    BY <1>5, <2>2
  <2>4. QED
    BY <2>1, <2>3
<1>8. RunFits(r)'
  BY <1>2, <1>6, <1>7 DEF RunFits
<1>9. ASSUME app'.tx = r, x.at = "working", x.by # "outside", ~Asks(q)
      PROVE  Foretold(app'.mode, events'[r], end)
  <2>1. app.tx = r /\ app.rx = r /\ app'.mode = app.mode
    BY <1>1, <1>9 DEF Holds
  <2>2. CASE Deciding(es, end)
    <3>1. es # <<>>
      BY <1>5, <2>2 DEF Deciding
    <3>2. events'[r] = events[r] \o es
      BY <1>3, <2>1, <3>1
    <3>3. Foretold(app.mode, events[r] \o es, end)
      BY <1>1, <2>2, ForetoldMore DEF Deciding
    <3>4. QED
      BY <2>1, <3>2, <3>3
  <2>3. CASE /\ runner[r].at = "working" /\ runner[r].by # "outside" /\ runner[r].paused = x.paused
             /\ Unasked(r) /\ \A i \in DOMAIN es : ~Moded(es[i])
    <3>1. Foretold(app.mode, events[r], end)
      BY <1>1, <2>1, <2>3 DEF ModeFits
    <3>2. Foretold(app.mode, events[r] \o es, end)
      BY <1>1, <2>3, <3>1, ForetoldMore
    <3>3. QED
      BY <1>3, <2>1, <3>1, <3>2
  <2>4. QED
    BY <1>9, <2>2, <2>3
<1>10. ModeFits(r)'
  BY <1>2, <1>9 DEF ModeFits, Unasked, Asks
<1>11. AppTypes'
  BY <1>2, <1>3 DEF AppTypes, Runners
<1>12. QED
  BY <1>1, <1>4, <1>8, <1>10, <1>11 DEF AppFits

(* What a run sends.                                                       *)
LEMMA EventsAre ==
  ASSUME NEW r \in RunId
  PROVE  /\ \A k \in {"RunStarted", "RunPaused", "RunResumed", "RunFinished", "RunCancelled",
                      "FatalError"} :
              Event(r, k) \in Events /\ Event(r, k).run = r /\ Event(r, k).kind = k
         /\ \A s \in Stages :
              Stage(r, s) \in Events /\ Stage(r, s).run = r /\ Stage(r, s).kind = "AgentStage"
BY DEF Event, Stage, Events

LEMMA RunnerIs ==
  ASSUME AppFits, NEW r \in RunId
  PROVE  /\ runner[r] \in Runners /\ inbox[r] \in Seq(Commands)
         /\ runner = [runner EXCEPT ![r] = runner[r]] /\ inbox = [inbox EXCEPT ![r] = inbox[r]]
         /\ \A how \in {"ended", "panicked"} : Idler(how) \in Runners /\ Idler(how).at = how
BY DEF AppFits, AppTypes, Runners, Idler

LEMMA StartFits ==
  ASSUME AppAssumption, AppFits, NEW r \in RunId, StartLoop(r)
  PROVE  AppFits'
<1> DEFINE x == [runner[r] EXCEPT !.at = "working"]
           es == <<Event(r, "RunStarted")>>
<1>1. runner[r] = Idler("preparing") /\ runner[r].at = "preparing"
  BY DEF AppFits, RunFits, StartLoop
<1>2. x \in Runners /\ x.at = "working" /\ x.paused = FALSE
  <2>1. runner[r] \in Runners /\ runner[r].paused = FALSE
    BY <1>1, RunnerIs DEF Idler
  <2>2. QED
    BY <2>1 DEF Runners
<1>3. /\ es \in Seq(Events) /\ DOMAIN es = {1} /\ \A i \in DOMAIN es : es[i].run = r
      /\ Deciding(es, "Running")
  BY EventsAre DEF Deciding, Moded, Told
<1>4. Moves(r, x, inbox[r], es) /\ inbox[r] \in Seq(Commands)
  BY RunnerIs DEF Moves, StartLoop
<1>5. stored' \in [RunId -> Phases]
  BY DEF StartLoop, AppFits, AppTypes
<1> HIDE DEF x, es
<1>6. QED
  BY <1>1, <1>2, <1>3, <1>4, <1>5, OneRunMoves

LEMMA HandleFits ==
  ASSUME AppAssumption, AppFits, NEW r \in RunId, HandleCommand(r)
  PROVE  AppFits'
<1> DEFINE c == Head(inbox[r])
           q == Tail(inbox[r])
<1>1. /\ runner[r] \in Runners /\ runner[r].at = "working" /\ inbox[r] \in Seq(Commands)
      /\ inbox[r] # <<>> /\ inbox' = [inbox EXCEPT ![r] = q] /\ UNCHANGED app
      /\ stored' \in [RunId -> Phases]
  BY RunnerIs DEF HandleCommand, Free, Working, AppFits, AppTypes
<1>2. /\ q \in Seq(Commands) /\ c \in Commands
      /\ c \notin {"Pause", "Resume"} /\ ~Asks(q) => Unasked(r)
  <2>1. q \in Seq(Commands) /\ c \in Commands /\ inbox[r] = <<c>> \o q
    BY <1>1, HeadTailProperties
  <2>2. /\ Len(inbox[r]) \in Nat /\ DOMAIN inbox[r] = 1..Len(inbox[r]) /\ c = inbox[r][1]
        /\ DOMAIN q = 1..Len(inbox[r]) - 1
        /\ \A i \in 1..Len(inbox[r]) - 1 : q[i] = inbox[r][i + 1]
    BY <1>1, <2>1, HeadTailProperties, LenProperties
  <2> HIDE DEF q, c
  <2>3. \A i \in 1..Len(inbox[r]) : i = 1 \/ (i - 1 \in DOMAIN q /\ q[i - 1] = inbox[r][i])
    BY <2>2
  <2>4. QED
    BY <2>1, <2>2, <2>3 DEF Asks, Unasked
<1>3. /\ c = "Pause" => PausesOrResumes(r, TRUE)
      /\ c = "Resume" => PausesOrResumes(r, FALSE)
      /\ c = "Cancel" => /\ runner' = [runner EXCEPT ![r].cancelled = TRUE]
                         /\ Emit(r, <<Stage(r, "cancelled")>>)
      /\ c = "Redirect" => UNCHANGED <<runner, events>>
  BY DEF HandleCommand
<1> HIDE DEF c, q
<1>4. ASSUME NEW paused \in BOOLEAN, PausesOrResumes(r, paused)
      PROVE  AppFits'
  <2> DEFINE x == [runner[r] EXCEPT !.paused = paused, !.by = "user"]
             es == <<Event(r, IF paused THEN "RunPaused" ELSE "RunResumed"),
                     Stage(r, IF paused THEN "paused" ELSE "retrying")>>
  <2>1. x \in Runners /\ x.at = "working" /\ x.paused = paused
    BY <1>1 DEF Runners
  <2>2. /\ es \in Seq(Events) /\ DOMAIN es = 1..2 /\ Len(es) = 2
        /\ es[1].run = r /\ es[1].kind = IF paused THEN "RunPaused" ELSE "RunResumed"
        /\ es[2].run = r /\ es[2].kind = "AgentStage"
    BY EventsAre DEF Stages
  <2>3. Moves(r, x, q, es)
    BY <1>1, <1>4 DEF Moves, PausesOrResumes
  <2> HIDE DEF x, es
  <2>4. \A i \in DOMAIN es : i \in {1, 2}
    BY <2>2
  <2>5. \A i \in DOMAIN es : es[i].run = r
    BY <2>2, <2>4
  <2>6. Deciding(es, IF paused THEN "Paused" ELSE "Running")
    BY <2>2, <2>4 DEF Deciding, Moded, Told
  <2>7. QED
    BY <1>1, <1>2, <2>1, <2>2, <2>3, <2>5, <2>6, OneRunMoves
<1>5. CASE c = "Cancel"
  <2> DEFINE x == [runner[r] EXCEPT !.cancelled = TRUE]
             es == <<Stage(r, "cancelled")>>
  <2>1. x \in Runners /\ x.at = "working" /\ x.paused = runner[r].paused /\ x.by = runner[r].by
    BY <1>1 DEF Runners
  <2>2. /\ es \in Seq(Events) /\ DOMAIN es = {1} /\ \A i \in DOMAIN es : es[i].run = r
        /\ \A i \in DOMAIN es : ~Moded(es[i])
    BY EventsAre DEF Stages, Moded
  <2>3. Moves(r, x, q, es)
    BY <1>1, <1>3, <1>5 DEF Moves
  <2> HIDE DEF x, es
  <2>4. QED
    BY <1>1, <1>2, <1>5, <2>1, <2>2, <2>3, OneRunMoves
<1>6. CASE c = "Redirect"
  <2>1. Moves(r, runner[r], q, <<>>)
    BY <1>1, <1>3, <1>6, RunnerIs DEF Moves
  <2>2. <<>> \in Seq(Events) /\ DOMAIN <<>> = {}
    OBVIOUS
  <2>3. QED
    BY <1>1, <1>2, <1>6, <2>1, <2>2, OneRunMoves
<1>7. QED
  BY <1>2, <1>3, <1>4, <1>5, <1>6 DEF Commands

LEMMA OutsideFits ==
  ASSUME AppAssumption, AppFits, NEW r \in RunId, OutsideControl(r)
  PROVE  AppFits'
<1>1. /\ runner[r] \in Runners /\ runner[r].at = "working" /\ inbox[r] \in Seq(Commands)
      /\ inbox = [inbox EXCEPT ![r] = inbox[r]] /\ UNCHANGED <<app, inbox, events>>
      /\ stored' \in [RunId -> Phases] /\ <<>> \in Seq(Events) /\ DOMAIN <<>> = {}
  BY RunnerIs DEF OutsideControl, Free, Working, AppFits, AppTypes
<1>2. ASSUME NEW paused \in BOOLEAN,
             runner' = [runner EXCEPT ![r].paused = paused, ![r].by = "outside"]
      PROVE  AppFits'
  <2> DEFINE x == [runner[r] EXCEPT !.paused = paused, !.by = "outside"]
  <2>1. x \in Runners /\ x.at = "working" /\ x.by = "outside"
    BY <1>1 DEF Runners
  <2>2. Moves(r, x, inbox[r], <<>>)
    BY <1>1, <1>2 DEF Moves
  <2> HIDE DEF x
  <2>3. QED
    BY <1>1, <2>1, <2>2, OneRunMoves
<1>3. ASSUME runner' = [runner EXCEPT ![r].cancelled = TRUE]
      PROVE  AppFits'
  <2> DEFINE x == [runner[r] EXCEPT !.cancelled = TRUE]
  <2>1. x \in Runners /\ x.at = "working" /\ x.paused = runner[r].paused /\ x.by = runner[r].by
    BY <1>1 DEF Runners
  <2>2. Moves(r, x, inbox[r], <<>>)
    BY <1>1, <1>3 DEF Moves
  <2>3. ~Asks(inbox[r]) => Unasked(r)
    BY DEF Asks, Unasked
  <2> HIDE DEF x
  <2>4. QED
    BY <1>1, <2>1, <2>2, <2>3, OneRunMoves
<1>4. QED
  BY <1>2, <1>3 DEF OutsideControl

LEMMA WorkFits ==
  ASSUME AppAssumption, AppFits, NEW r \in RunId, AgentWorks(r)
  PROVE  AppFits'
<1>1. /\ runner[r] \in Runners /\ runner[r].at = "working" /\ inbox[r] \in Seq(Commands)
      /\ inbox = [inbox EXCEPT ![r] = inbox[r]] /\ UNCHANGED <<app, inbox>>
      /\ stored \in [RunId -> Phases]
  BY RunnerIs DEF AgentWorks, Free, Working, AppFits, AppTypes
<1>2. PICK to \in {"running", "done"}, stage \in {"planning", "done"} :
        /\ runner' = [runner EXCEPT ![r].agent = to]
        /\ stored' = [stored EXCEPT ![r] = to]
        /\ Emit(r, <<Stage(r, stage)>>)
  BY DEF AgentWorks
<1> DEFINE x == [runner[r] EXCEPT !.agent = to]
           es == <<Stage(r, stage)>>
<1>3. x \in Runners /\ x.at = "working" /\ x.paused = runner[r].paused /\ x.by = runner[r].by
  BY <1>1 DEF Runners
<1>4. /\ es \in Seq(Events) /\ DOMAIN es = {1} /\ \A i \in DOMAIN es : es[i].run = r
      /\ \A i \in DOMAIN es : ~Moded(es[i])
  BY EventsAre DEF Stages, Moded
<1>5. Moves(r, x, inbox[r], es)
  BY <1>1, <1>2 DEF Moves
<1>6. stored' \in [RunId -> Phases] /\ (~Asks(inbox[r]) => Unasked(r))
  BY <1>1, <1>2 DEF Phases, Stages, Asks, Unasked
<1> HIDE DEF x, es
<1>7. QED
  BY <1>1, <1>3, <1>4, <1>5, <1>6, OneRunMoves

LEMMA EndFits ==
  ASSUME AppAssumption, AppFits, NEW r \in RunId, Finish(r) \/ Fail(r)
  PROVE  AppFits'
<1>1. /\ runner[r].at \in {"preparing", "working"} /\ UNCHANGED app
      /\ stored \in [RunId -> Phases]
  BY DEF Finish, Fail, Free, Working, AppFits, AppTypes
<1>2. stored' \in [RunId -> Phases]
  BY <1>1 DEF Finish, Fail, Phases, Stages
<1>3. <<>> \in Seq(Commands) /\ <<>> \in Seq(Events) /\ DOMAIN <<>> = {}
  OBVIOUS
<1>4. ASSUME NEW k \in {"RunFinished", "RunCancelled", "FatalError"},
             RunEnds(r, "ended"), Emit(r, <<Event(r, k)>>)
      PROVE  AppFits'
  <2> DEFINE es == <<Event(r, k)>>
  <2>1. /\ es \in Seq(Events) /\ DOMAIN es = {1} /\ \A i \in DOMAIN es : es[i].run = r
        /\ \E i \in DOMAIN es : Terminal(es[i])
    BY EventsAre DEF Terminal
  <2>2. Moves(r, Idler("ended"), <<>>, es)
    BY <1>1, <1>4 DEF Moves, RunEnds
  <2>3. Idler("ended") \in Runners /\ Idler("ended").at = "ended"
    BY RunnerIs
  <2> HIDE DEF es
  <2>4. QED
    BY <1>1, <1>2, <1>3, <2>1, <2>2, <2>3, OneRunMoves
<1>5. ASSUME RunEnds(r, "panicked"), UNCHANGED events
      PROVE  AppFits'
  <2>1. Moves(r, Idler("panicked"), <<>>, <<>>)
    BY <1>1, <1>5 DEF Moves, RunEnds
  <2>2. Idler("panicked") \in Runners /\ Idler("panicked").at = "panicked"
    BY RunnerIs
  <2>3. QED
    BY <1>1, <1>2, <1>3, <2>1, <2>2, OneRunMoves
<1>6. QED
  BY <1>4, <1>5 DEF Finish, Fail

(* A change to fields of App that the rest does not depend on.             *)
LEMMA AsideFits ==
  ASSUME AppAssumption, AppFits, app' \in AppState,
         app'.tx = app.tx, app'.rx = app.rx, app'.active = app.active,
         app'.running = app.running, app'.mode = app.mode, app'.live = app.live,
         app'.agents = app.agents, UNCHANGED <<runner, inbox, events, stored>>
  PROVE  AppFits'
<1>1. AppFine(app')
  BY DEF AppFits, AppFine, Holds, NamedOnce, ShowsLast
<1>2. QED
  BY <1>1, AppOnly DEF AppFits, AppTypes, AppAssumption

LEMMA UserFits ==
  ASSUME AppAssumption, AppFits, Steer \/ Pause \/ Resume \/ Cancel \/ ApprovePending \/ DenyPending
  PROVE  AppFits'
<1>1. app \in AppState /\ AppFine(app) /\ UNCHANGED <<runner, events, stored>>
  BY DEF AppFits, AppFine, Steer, Pause, Resume, Cancel, ApprovePending, DenyPending, Input
<1>2. ASSUME NEW mode \in {"Running", "Paused"}
      PROVE  LET a == [app EXCEPT !.mode = mode] IN AppFine(a) /\ a.tx = app.tx /\ a.rx = app.rx
  <2> DEFINE a == [app EXCEPT !.mode = mode]
  <2>1. /\ a \in AppState /\ a.tx = app.tx /\ a.rx = app.rx /\ a.active = app.active
        /\ a.running = app.running /\ a.mode = mode /\ a.live = app.live /\ a.agents = app.agents
    BY <1>1 DEF AppState
  <2> HIDE DEF a
  <2>2. AppFine(a)
    BY <1>1, <2>1 DEF AppFine, Holds, NamedOnce, ShowsLast
  <2>3. QED
    BY <2>1, <2>2 DEF a
<1>3. CASE Steer
  BY <1>1, <1>3, SendFits DEF Steer, Commands
<1>4. CASE Pause
  BY <1>1, <1>2, <1>4, SendFits DEF Pause, Commands
<1>5. CASE Resume
  BY <1>1, <1>2, <1>5, SendFits DEF Resume, Commands
<1>6. ASSUME NEW run \in AppRun
      PROVE  LET a == [app EXCEPT !.pending = run]
             IN /\ a \in AppState /\ a.tx = app.tx /\ a.rx = app.rx /\ a.active = app.active
                /\ a.running = app.running /\ a.mode = app.mode /\ a.live = app.live
                /\ a.agents = app.agents
  BY <1>1 DEF AppState
<1>7. app.active \in AppRun /\ None \in AppRun
  BY <1>1 DEF AppState, AppRun
<1>8. CASE Cancel
  BY <1>1, <1>6, <1>7, <1>8, AsideFits DEF Cancel
<1>9. CASE DenyPending
  BY <1>1, <1>6, <1>7, <1>9, AsideFits DEF DenyPending
<1>10. CASE ApprovePending
  <2> DEFINE a == [app EXCEPT !.pending = None]
  <2>1. /\ a \in AppState /\ a.tx = app.tx /\ a.rx = app.rx /\ a.active = app.active
        /\ a.running = app.running /\ a.mode = app.mode /\ a.live = app.live
        /\ a.agents = app.agents
    BY <1>6, <1>7
  <2>2. Send("Cancel", a, <<"drain">>)
    BY <1>10 DEF ApprovePending
  <2> HIDE DEF a
  <2>3. AppFine(a)
    BY <1>1, <2>1 DEF AppFine, Holds, NamedOnce, ShowsLast
  <2>4. QED
    BY <1>1, <2>1, <2>2, <2>3, SendFits DEF Commands
<1>11. QED
  BY <1>3, <1>4, <1>5, <1>8, <1>9, <1>10

LEMMA RefreshFits ==
  ASSUME AppAssumption, AppFits, RefreshOrchestration
  PROVE  AppFits'
<1>1. /\ AppTypes /\ app \in AppState /\ AppFine(app) /\ UNCHANGED <<runner, inbox, events, stored>>
      /\ None \notin RunId
  BY DEF AppFits, AppFine, RefreshOrchestration, AppAssumption
<1>2. ASSUME NEW run \in RunId \cup {None}, app' = Refreshed(app, run)
      PROVE  AppFits'
  <2>1. AppFine(app') /\ app'.tx = app.tx /\ app'.rx = app.rx
        /\ (app.tx # None => app'.mode = app.mode)
    BY <1>1, <1>2, RefreshedFine DEF AppRun, AppTypes
  <2>2. QED
    BY <1>1, <2>1, AppOnly DEF AppTypes
<1>3. CASE app' = app
  BY <1>1, <1>3, AppOnly DEF AppTypes
<1>4. CASE app' = Overlaid([app EXCEPT !.agents = <<>>])
  <2> DEFINE a == [app EXCEPT !.agents = <<>>]
  <2>1. /\ a \in AppState /\ a.tx = app.tx /\ a.rx = app.rx /\ a.active = app.active
        /\ a.running = app.running /\ a.mode = app.mode /\ a.agents = <<>>
    <3>1. \A none \in Seq(RunId \X Phases) :
            LET b == [app EXCEPT !.agents = none]
            IN /\ b \in AppState /\ b.tx = app.tx /\ b.rx = app.rx /\ b.active = app.active
               /\ b.running = app.running /\ b.mode = app.mode /\ b.agents = none
      BY <1>1 DEF AppState
    <3>2. <<>> \in Seq(RunId \X Phases)
      OBVIOUS
    <3>3. QED
      BY <3>1, <3>2
  <2>2. app' = Overlaid(a)
    BY <1>4
  <2> HIDE DEF a
  <2>3. Holds(a) /\ NamedOnce(a)
    BY <1>1, <2>1 DEF AppFine, Holds, NamedOnce
  <2>4. AppFine(app') /\ app'.tx = app.tx /\ app'.rx = app.rx /\ app'.mode = app.mode
    BY <2>1, <2>2, <2>3, OverlaidFine
  <2>5. QED
    BY <1>1, <2>4, AppOnly DEF AppTypes
<1>5. CASE app' = OnRunFailed(app, None)
  <2>1. AppFine(app') /\ app'.tx = None /\ app'.rx = app.rx
    BY <1>1, <1>5, RunFailedFine
  <2>2. QED
    BY <1>1, <2>1, AppOnly DEF AppTypes
<1>6. QED
  BY <1>2, <1>3, <1>4, <1>5 DEF RefreshOrchestration

LEMMA WaitFits ==
  ASSUME AppAssumption, AppFits, Tick \/ FifteenSeconds
  PROVE  AppFits'
<1>1. /\ AppTypes /\ app \in AppState /\ AppFine(app) /\ UNCHANGED <<runner, inbox, events, stored>>
      /\ None \notin RunId
  BY DEF AppFits, AppFine, Tick, FifteenSeconds, AppAssumption
<1>2. CASE Tick
  <2>1. AppFine(app') /\ app'.tx = app.tx /\ app'.rx = app.rx /\ app'.mode = app.mode
    BY <1>1, <1>2, StaleFine DEF Tick
  <2>2. QED
    BY <1>1, <2>1, AppOnly DEF AppTypes
<1>3. CASE FifteenSeconds
  <2>1. app' = [app EXCEPT !.quiet = TRUE]
    BY <1>3 DEF FifteenSeconds
  <2>2. /\ app' \in AppState /\ app'.tx = app.tx /\ app'.rx = app.rx /\ app'.active = app.active
        /\ app'.running = app.running /\ app'.mode = app.mode /\ app'.live = app.live
        /\ app'.agents = app.agents
    BY <1>1, <2>1 DEF AppState
  <2>3. QED
    BY <1>1, <2>2, AsideFits
<1>4. QED
  BY <1>2, <1>3

LEMMA AppInductive == AppAssumption /\ AppFits /\ [AppNext]_appvars => AppFits'
<1> SUFFICES ASSUME AppAssumption, AppFits, [AppNext]_appvars
             PROVE  AppFits'
  OBVIOUS
<1>1. CASE UNCHANGED appvars
  BY <1>1 DEF appvars, AppFits, AppTypes, AppFine, Holds, NamedOnce, ShowsLast, RunFits, ModeFits,
              Unasked
<1>2. CASE UserStep
  BY <1>2, SubmitFits, UserFits DEF UserStep
<1>3. CASE Tick \/ FifteenSeconds \/ UiStep
  BY <1>3, WaitFits, DrainFits, RefreshFits DEF UiStep
<1>4. ASSUME NEW r \in RunId, RunStep(r) \/ OutsideControl(r) \/ Fail(r)
      PROVE  AppFits'
  BY <1>4, StartFits, HandleFits, WorkFits, EndFits, OutsideFits DEF RunStep
<1>5. QED
  BY <1>1, <1>2, <1>3, <1>4 DEF AppNext

-----------------------------------------------------------------------------
(* The two as MCSurfaces puts them side by side.                           *)
LEMMA SurfacesInvariance == MCSpec => [](StoreFits /\ AppFits)
<1>1. MCInit => StoreFits /\ AppFits
  BY StoreInitial, AppInitial, StoreAssumption, AppAssumption DEF MCInit
<1>2. StoreFits /\ AppFits /\ [MCNext]_mvars => (StoreFits /\ AppFits)'
  <2> SUFFICES ASSUME StoreFits, AppFits, [MCNext]_mvars
               PROVE  StoreFits' /\ AppFits'
    OBVIOUS
  <2>1. [StoreNext]_svars /\ [AppNext]_appvars
    BY DEF MCNext, mvars
  <2>2. QED
    BY <2>1, StoreInductive, AppInductive, StoreAssumption, AppAssumption
<1>3. QED
  BY <1>1, <1>2, PTL DEF MCSpec

(* The column and the JSON of a row agree whatever keys requests name, and *)
(* so do those of an agent.                                                *)
THEOREM OneStatus ==
  MCSpec => [](/\ \A r \in RootId : Stored(r) => graphs[r].status = graphs[r].json
               /\ \A a \in AgentId : lifecycles[a].phase = lifecycles[a].json)
<1>1. StoreFits => /\ \A r \in RootId : Stored(r) => graphs[r].status = graphs[r].json
                   /\ \A a \in AgentId : lifecycles[a].phase = lifecycles[a].json
  BY DEF StoreFits
<1>2. QED
  BY <1>1, SurfacesInvariance, PTL

(* Requests that name runs by their ids leave each row to its run, however *)
(* many clients, surfaces, runs and failures (persistence.rs:520): an id   *)
(* that is no goal matches one row.  With a goal for a key it is false.    *)
THEOREM RowsKept ==
  ASSUME Keys \subseteq RootId, RootId \cap Goal = {}
  PROVE  MCSpec => []RowsAgree
<1>1. ById
  BY DEF ById
<1>2. StoreFits => RowsAgree
  BY <1>1 DEF StoreFits, RowsAgree
<1>3. QED
  BY <1>2, SurfacesInvariance, PTL

(* The mode is the run's once nothing is under way, and each agent is      *)
(* listed once with what it reported last, for any runs, inputs, controls  *)
(* from outside and failures.                                              *)
THEOREM Screened == MCSpec => []ScreenIsRight
<1>1. AppFits => ScreenIsRight
  BY ScreenSound, AppAssumption
<1>2. QED
  BY <1>1, SurfacesInvariance, PTL
=============================================================================
