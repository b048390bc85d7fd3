----------------------------- MODULE AgentLoop -----------------------------
(***************************************************************************)
(* One task in the loop engine: Engine::execute_task                       *)
(* (odin-loop/src/engine.rs) and the phases it calls                       *)
(* (odin-loop/src/phases.rs):                                              *)
(*     PLAN, then ACT INSPECT CRITIQUE and either REVISE or VERIFY DECIDE. *)
(*                                                                         *)
(* The model, the tools, the operator and the audit log are the            *)
(* environment: what they answer is chosen by \E.  Texts are kept as what  *)
(* the loop tells apart: a confidence is "low" (< 0.5), "mid" or "high"    *)
(* (>= 0.8), an ACT output is substantive or not, the success criteria are *)
(* mentioned in the conversation or not.                                   *)
(***************************************************************************)
EXTENDS ToolPolicy, FiniteSets

CONSTANTS
  Engines,        \* how an engine may be built (see Config)
  Calls,          \* the tool calls a model may request
  MaxIterations,  \* the smaller of the engine's and the task's
  MaxSubTasks,    \* GoalDecomposer::max_sub_tasks
  MaxPerTurn,     \* max_tool_calls_per_turn
  MaxPerTask,     \* max_tool_calls_per_task
  TurnSize        \* how many calls a model requests in one turn, at most

(* limit is the retry_limit of a model profile, 0 without one. *)
Config ==
  [provider : BOOLEAN, registry : BOOLEAN, audit : BOOLEAN, escalation : BOOLEAN,
   criteria : BOOLEAN, limit : Nat,
   policy : [engine : BOOLEAN, valid : BOOLEAN, approval : BOOLEAN]]

ASSUME LoopAssumption ==
  /\ MaxIterations \in Nat \ {0}
  /\ MaxSubTasks \in Nat \ {0, 1}
  /\ {MaxPerTurn, MaxPerTask, TurnSize} \subseteq Nat
  /\ Engines \subseteq Config

VARIABLES
  cfg,        \* the engine
  pc,         \* what runs next
  iteration, retries,
  plan,       \* the statuses of the local plan's sub-tasks
  ids,        \* the ids of the sub-tasks, as the model numbered them
  seen,       \* context.plan: the statuses of its sub-tasks
  strong,     \* the context has been switched to the escalation model
  turn,       \* the calls of the turn: requested, within the budget, run
  tally,      \* state.tool_results: how many, run, audited, last, any success
  acts,       \* ACT records of the history: how many, last, any substantive
  mentioned,  \* the success criteria occur in the messages
  last,       \* last_confidence
  recorded,   \* the confidence of the last record that has one
  outcome     \* the TaskResult

loopvars == <<cfg, pc, iteration, retries, plan, ids, seen, strong, turn, tally,
          acts, mentioned, last, recorded, outcome>>

Level == {"low", "mid", "high"}
Status == {"Pending", "Completed"}
Reason == {"Completed", "IterationLimit", "Stopped", "EscalationUnavailable"}
Result == {"ok", "empty", "failed"}

NoOutcome == [reason |-> "none", success |-> FALSE]

RetryLimit(default) == IF cfg.limit = 0 THEN default ELSE cfg.limit

LoopTypeOK ==
  /\ cfg \in Engines
  /\ pc \in {"loop", "plan", "act", "calls", "inspect", "critique", "revise",
             "verify", "decide", "returned", "failed"}
  /\ iteration \in 0..MaxIterations
  /\ retries \in 0..RetryLimit(3)
  /\ plan \in UNION {[1..n -> Status] : n \in 0..MaxSubTasks}
  /\ DOMAIN seen = DOMAIN plan
  /\ DOMAIN ids = DOMAIN plan
  /\ strong \in BOOLEAN
  /\ turn.left \in 0..TurnSize
  /\ tally.run <= tally.results
  /\ acts.count \in 0..MaxIterations
  /\ mentioned \in BOOLEAN
  /\ {last, recorded} \subseteq Level
  /\ outcome.reason \in Reason \cup {"none"}

LoopInit ==
  /\ cfg \in Engines
  /\ pc = "loop"
  /\ iteration = 0
  /\ retries = 0
  /\ plan = <<>>
  /\ ids = <<>>
  /\ seen = <<>>
  /\ strong = FALSE
  /\ turn = [left |-> 0, allowed |-> 0, run |-> 0]
  /\ tally = [results |-> 0, run |-> 0, audited |-> 0, last |-> "none", good |-> FALSE]
  /\ acts = [count |-> 0, last |-> FALSE, some |-> FALSE]
  /\ mentioned \in (IF cfg.criteria THEN BOOLEAN ELSE {FALSE})
  /\ last = "high"
  /\ recorded = "high"
  /\ outcome = NoOutcome

-----------------------------------------------------------------------------
PendingIn(p) == {i \in DOMAIN p : p[i] = "Pending"}

(* The first sub-task that is Pending, 0 when there is none. *)
FirstPending(p) ==
  IF PendingIn(p) = {} THEN 0
  ELSE CHOOSE i \in PendingIn(p) : \A j \in PendingIn(p) : i <= j

NextId(p) == IF FirstPending(p) = 0 THEN 0 ELSE ids[FirstPending(p)]

Least(a, b) == IF a <= b THEN a ELSE b

(* The smaller of two confidences. *)
Cap(a, b) ==
  IF "low" \in {a, b} THEN "low" ELSE IF "mid" \in {a, b} THEN "mid" ELSE "high"

(* verify_evidence: what it finds, and whether that is enough. *)
SomeEvidence == tally.good \/ acts.some \/ (cfg.criteria /\ mentioned)

EvidenceVerified ==
  IF cfg.criteria THEN mentioned
  ELSE \/ tally.good
       \/ acts.some
       \/ \E i \in DOMAIN plan : plan[i] = "Completed"

AnyActIsEvidence == TRUE   \* mutant

LatestActHasEvidence == acts.last \/ tally.last \in {"ok", "empty"}

(* score_tool_result: 0.5 + 0.2 + 0.1 is below 0.8 in a double, so a       *)
(* successful result is never "high".                                      *)
ToolScore(result) ==
  CASE result = "ok" -> {"mid"}
    [] result = "empty" -> {"low", "mid"}
    [] OTHER -> {"low"}

FallbackCritique == IF tally.last = "none" THEN Level ELSE ToolScore(tally.last)

(* A message may mention the criteria. *)
MayMention == mentioned' \in (IF cfg.criteria THEN {mentioned, TRUE} ELSE {mentioned})

Return(reason) ==
  /\ pc' = "returned"
  /\ outcome' = [reason |-> reason,
                 success |-> /\ reason = "Completed"
                             /\ acts.count > 0
                             /\ EvidenceVerified'
                             /\ last' = "high"]

Stay == UNCHANGED outcome

-----------------------------------------------------------------------------

IterationsLeft == iteration < MaxIterations

(* The head of the loop. *)
IterationLimit ==
  /\ pc = "loop"
  /\ ~IterationsLeft
  /\ UNCHANGED <<cfg, iteration, retries, plan, ids, seen, strong, turn, tally, acts,
                 mentioned, last, recorded>>
  /\ Return("IterationLimit")

(* From the second iteration on: the context is given the local plan when  *)
(* the ids of their next sub-tasks differ.                                 *)
NextIteration ==
  /\ pc = "loop"
  /\ IterationsLeft
  /\ iteration' = iteration + 1
  /\ pc' = IF iteration = 0 THEN "plan" ELSE "act"
  /\ seen' = IF NextId(plan) # NextId(seen) THEN plan ELSE seen
  /\ UNCHANGED <<cfg, retries, plan, ids, strong, turn, tally, acts, mentioned, last,
                 recorded, outcome>>

(* The heuristic makes at least two sub-tasks, numbered in order; a model  *)
(* makes any number and gives them what ids it likes.                      *)
Numberings(n) == IF cfg.provider THEN [1..n -> 1..n] ELSE {[i \in 1..n |-> i]}

Plan ==
  /\ pc = "plan"
  /\ \E n \in (IF cfg.provider THEN 1 ELSE 2)..MaxSubTasks :
       /\ plan' = [i \in 1..n |-> "Pending"]
       /\ ids' \in Numberings(n)
  /\ seen' = plan'
  /\ MayMention
  /\ last' = "high"
  /\ recorded' = "high"
  /\ pc' = "loop"
  /\ UNCHANGED <<cfg, iteration, retries, strong, turn, tally, acts, outcome>>

-----------------------------------------------------------------------------
Acted(substantive) ==
  /\ acts' = [count |-> acts.count + 1,
              last |-> substantive,
              some |-> acts.some \/ substantive]
  /\ pc' = "inspect"

(* Without a provider ACT writes down what it is working on. *)
ActOffline ==
  /\ pc = "act"
  /\ ~cfg.provider
  /\ Acted(FALSE)
  /\ MayMention
  /\ UNCHANGED <<cfg, iteration, retries, plan, ids, seen, strong, turn, tally, last,
                 recorded, outcome>>

ActText ==
  /\ pc = "act"
  /\ cfg.provider
  /\ \E substantive \in BOOLEAN : Acted(substantive)
  /\ MayMention
  /\ UNCHANGED <<cfg, iteration, retries, plan, ids, seen, strong, turn, tally, last,
                 recorded, outcome>>

AllowedOfTurn == MaxPerTurn   \* mutant

(* max_calls: what is left of the budgets when the turn starts. *)
Allowed ==
  IF MaxPerTask > tally.results
  THEN Least(MaxPerTurn, MaxPerTask - tally.results)
  ELSE 0

ActCalls ==
  /\ pc = "act"
  /\ cfg.provider
  /\ \E n \in 1..TurnSize :
       turn' = [left |-> n, allowed |-> Allowed, run |-> 0]
  /\ pc' = "calls"
  /\ UNCHANGED <<cfg, iteration, retries, plan, ids, seen, strong, tally, acts,
                 mentioned, last, recorded, outcome>>

(* A provider error ends execute_task with that error. *)
ActFails ==
  /\ pc = "act"
  /\ cfg.provider
  /\ pc' = "failed"
  /\ UNCHANGED <<cfg, iteration, retries, plan, ids, seen, strong, turn, tally, acts,
                 mentioned, last, recorded, outcome>>

(* The audit entry of a call, and its result: `audit?` ends the task.      *)
AuditAndPush(result, ran) ==
  \/ /\ turn' = [left |-> turn.left - 1,
                  allowed |-> IF turn.allowed = 0 THEN 0 ELSE turn.allowed - 1,
                  run |-> IF ran THEN turn.run + 1 ELSE turn.run]
     /\ tally' = [results |-> tally.results + 1,
                  run |-> IF ran THEN tally.run + 1 ELSE tally.run,
                  audited |-> IF cfg.audit THEN tally.audited + 1 ELSE 0,
                  last |-> result,
                  good |-> tally.good \/ result # "failed"]
     /\ pc' = "calls"
  \/ /\ cfg.audit
     /\ pc' = "failed"
     /\ UNCHANGED <<turn, tally>>

Registered(call) == cfg.registry /\ call.known

(* The arguments parse and validate, or one repair makes them. *)
UsableArgs(call) == call.args \in {"valid", "repairable"}

Dispatchable(call) == Registered(call) /\ UsableArgs(call)

Permitted(call, withinRate, approved) ==
  ~PolicyError(cfg.policy, call, withinRate, approved)

RunCall ==
  /\ pc = "calls"
  /\ turn.left > 0
  /\ turn.allowed > 0
  /\ \E call \in Calls, withinRate \in BOOLEAN, approved \in BOOLEAN :
       /\ Dispatchable(call)
       /\ Permitted(call, withinRate, approved)
  /\ \E result \in Result : AuditAndPush(result, TRUE)
  /\ UNCHANGED <<cfg, iteration, retries, plan, ids, seen, strong, acts, mentioned,
                 last, recorded, outcome>>

(* An unknown tool, arguments beyond repair, a denial: a failed result.    *)
RefuseCall ==
  /\ pc = "calls"
  /\ turn.left > 0
  /\ turn.allowed > 0
  /\ \E call \in Calls, withinRate \in BOOLEAN, approved \in BOOLEAN :
       \/ ~Dispatchable(call)
       \/ ~Permitted(call, withinRate, approved)
  /\ AuditAndPush("failed", FALSE)
  /\ UNCHANGED <<cfg, iteration, retries, plan, ids, seen, strong, acts, mentioned,
                 last, recorded, outcome>>

DenyOverBudget ==
  /\ pc = "calls"
  /\ turn.left > 0
  /\ turn.allowed = 0
  /\ AuditAndPush("failed", FALSE)
  /\ UNCHANGED <<cfg, iteration, retries, plan, ids, seen, strong, acts, mentioned,
                 last, recorded, outcome>>

(* "Calling tool: .." is the output recorded for the turn.                 *)
EndTurn ==
  /\ pc = "calls"
  /\ turn.left = 0
  /\ Acted(FALSE)
  /\ MayMention
  /\ turn' = [left |-> 0, allowed |-> 0, run |-> 0]
  /\ UNCHANGED <<cfg, iteration, retries, plan, ids, seen, strong, tally, last,
                 recorded, outcome>>

-----------------------------------------------------------------------------
(* Near the context limit the older messages are dropped. *)
Inspect ==
  /\ pc = "inspect"
  /\ mentioned' \in {mentioned, FALSE}
  /\ pc' = "critique"
  /\ UNCHANGED <<cfg, iteration, retries, plan, ids, seen, strong, turn, tally, acts,
                 last, recorded, outcome>>

(* The model's score, or the heuristic when there is none. *)
CritiqueScores == IF cfg.provider THEN Level ELSE FallbackCritique

CritiqueEscalates(score) == score = "low" /\ retries >= RetryLimit(2)

Critique ==
  /\ pc = "critique"
  /\ \E score \in CritiqueScores :
       /\ last' = score
       /\ recorded' = score
       /\ IF CritiqueEscalates(score)
          THEN IF cfg.escalation
               THEN strong' = TRUE /\ pc' = "loop" /\ Stay
               ELSE Return("EscalationUnavailable") /\ UNCHANGED strong
          ELSE /\ pc' = IF score = "low" THEN "revise" ELSE "verify"
               /\ UNCHANGED <<strong, outcome>>
  /\ UNCHANGED <<cfg, iteration, retries, plan, ids, seen, turn, tally, acts, mentioned>>

Revise ==
  /\ pc = "revise"
  /\ retries' = retries + 1
  /\ MayMention
  /\ UNCHANGED <<cfg, iteration, plan, ids, seen, strong, turn, tally, acts, last,
                 recorded>>
  /\ IF retries' >= RetryLimit(3)
     THEN Return("EscalationUnavailable")
     ELSE pc' = "loop" /\ Stay

(* What the verifier says; "NOT VERIFIED" counts as 0.0.  The heuristic    *)
(* asks for the criteria in the very case they are written in.             *)
VerifierScores ==
  IF cfg.provider THEN Level
  ELSE IF ~cfg.criteria THEN {"high"}
       ELSE IF mentioned THEN {"high", "mid"} ELSE {"mid"}

(* The evidence caps it. *)
EvidenceCap ==
  IF EvidenceVerified THEN "high" ELSE IF SomeEvidence THEN "mid" ELSE "low"

Verify ==
  /\ pc = "verify"
  /\ \E score \in VerifierScores : last' = Cap(score, EvidenceCap)
  /\ recorded' = last'
  /\ pc' = "decide"
  /\ UNCHANGED <<cfg, iteration, retries, plan, ids, seen, strong, turn, tally, acts,
                 mentioned, outcome>>

(* DecidePhase. *)
Decision ==
  CASE iteration >= MaxIterations -> "Stop"
    [] iteration < MaxIterations /\ PendingIn(seen) = {} -> "Stop"
    [] OTHER -> IF recorded = "low"
                THEN IF retries >= RetryLimit(2) THEN "Escalate" ELSE "Retry"
                ELSE "Continue"

(* The sub-task that DECIDE's Continue completes, if it does. *)
Completes == last = "high" /\ LatestActHasEvidence /\ FirstPending(plan) # 0

Decide ==
  /\ pc = "decide"
  /\ plan' = IF Decision = "Continue" /\ Completes
             THEN [plan EXCEPT ![FirstPending(plan)] = "Completed"]
             ELSE plan
  /\ UNCHANGED <<cfg, iteration, retries, ids, seen, strong, turn, tally, acts,
                 mentioned, last, recorded>>
  /\ CASE Decision = "Stop" ->
            Return(IF iteration >= MaxIterations THEN "IterationLimit" ELSE "Stopped")
       [] Decision = "Escalate" -> Return("EscalationUnavailable")
       [] Decision = "Retry" -> pc' = "loop" /\ Stay
       [] Decision = "Continue" ->
            IF PendingIn(plan') = {}
            THEN Return("Completed")
            ELSE pc' = "loop" /\ Stay

LoopNext ==
  \/ IterationLimit \/ NextIteration
  \/ Plan
  \/ ActOffline \/ ActText \/ ActCalls \/ ActFails
  \/ RunCall \/ RefuseCall \/ DenyOverBudget \/ EndTurn
  \/ Inspect \/ Critique \/ Revise \/ Verify \/ Decide

LoopSpec == LoopInit /\ [][LoopNext]_loopvars

(* execute_task is one future that is polled until it returns. *)
LoopFairSpec == LoopSpec /\ WF_loopvars(LoopNext)

-----------------------------------------------------------------------------
CompletedTasks == {i \in DOMAIN plan : plan[i] = "Completed"}

(* Success is never claimed for planning, for a part of the plan, or for   *)
(* more sub-tasks than there were ACT phases to do them, and not without   *)
(* an ACT that said something or a tool that succeeded.                    *)
SuccessIsEarned ==
  /\ Cardinality(CompletedTasks) <= acts.count
  /\ outcome.success =>
       /\ plan # <<>>
       /\ CompletedTasks = DOMAIN plan
       /\ acts.some \/ tally.good

(* The tools of a task run no more often than its budget allows, however   *)
(* many turns the model spreads its calls over, nor a turn's than the      *)
(* budget of a turn; it retries within the limit of its profile, and the   *)
(* stronger model is used only after the retries; when an audit log is     *)
(* attached, every result it was given has an entry, refused calls too.    *)
BudgetHolds ==
  /\ tally.run <= MaxPerTask
  /\ turn.run <= MaxPerTurn
  /\ retries <= RetryLimit(3)
  /\ strong => cfg.escalation /\ retries >= RetryLimit(2)
  /\ cfg.audit /\ pc # "failed" => tally.audited = tally.results

(* Every task returns or fails. *)
Terminates == <>(pc \in {"returned", "failed"})

(* engine.rs: "The local plan is authoritative after a sub-task completes; *)
(* do not execute against a stale context snapshot": what ACT works on is  *)
(* the next sub-task of the local plan.                                    *)
ActIsCurrent ==
  pc \in {"act", "calls"} => FirstPending(seen) = FirstPending(plan)

(* "Execution stopped because escalation was required but unavailable."    *)
EscalationIsUnavailable ==
  outcome.reason = "EscalationUnavailable" => ~cfg.escalation

=============================================================================
