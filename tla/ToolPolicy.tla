----------------------------- MODULE ToolPolicy -----------------------------
(***************************************************************************)
(* What PolicyEngine (odin-permissions/src/policy.rs) and the ACT phase    *)
(* (odin-loop/src/phases.rs) decide about one tool call.                   *)
(*                                                                         *)
(* A call is a record of the facts the checks look at:                     *)
(*   rule       the rule of the tool: "none", "allow", "ask" or "deny"     *)
(*              ("ask" also stands for a rule with require_approval)       *)
(*   method, headers   those of an http_request ("GET" and {} otherwise)   *)
(*   marked     tool.requires_approval_for(args)                           *)
(*   dangerous  a shell command that matches a dangerous pattern           *)
(*   outside    a file_read or file_write outside the path boundary        *)
(* and a policy is a record: engine (is one attached), valid (its          *)
(* patterns compile), approval (require_approval).                         *)
(***************************************************************************)
EXTENDS Naturals, Sequences, FiniteSets

(* http_request_requires_approval, of a request. *)
HttpRequiresApproval(call) ==
  \/ call.method \notin {"GET", "HEAD", "OPTIONS"}
  \/ call.headers \cap {"authorization", "proxy-authorization", "cookie",
                           "x-api-key", "x-auth-token"} # {}

(* check_tool: an explicit deny wins, then whatever asks, then Allow. *)
CheckTool(call) ==
  IF call.rule = "deny" THEN "deny"
  ELSE IF call.rule = "ask" \/ HttpRequiresApproval(call) THEN "ask" ELSE "allow"

(* needs_approval: the policy asks, or it allows a tool that is marked. *)
NeedsApproval(policy, call) ==
  \/ CheckTool(call) = "ask"
  \/ /\ CheckTool(call) = "allow"
     /\ call.marked
     /\ policy.approval

(* Nobody is asked about a call that an earlier check refuses. *)
Asks(policy, call, withinRate) ==
  /\ policy.engine
  /\ policy.valid
  /\ withinRate
  /\ NeedsApproval(policy, call)

PolicyErrorUnapproved(policy, call, withinRate, approved) ==   \* mutant
  IF ~policy.engine
  THEN call.marked
  ELSE \/ ~policy.valid
       \/ ~withinRate
       \/ CheckTool(call) = "deny"
       \/ /\ call.dangerous
          /\ ~(NeedsApproval(policy, call) /\ approved)
       \/ call.outside

(* policy_error: why the call does not run.  A granted approval also       *)
(* covers a dangerous command; nothing covers a path outside the boundary. *)
PolicyError(policy, call, withinRate, approved) ==
  IF ~policy.engine
  THEN call.marked
  ELSE \/ ~policy.valid
       \/ ~withinRate
       \/ CheckTool(call) = "deny"
       \/ /\ NeedsApproval(policy, call)
          /\ ~approved
       \/ /\ call.dangerous
          /\ ~(NeedsApproval(policy, call) /\ approved)
       \/ call.outside

-----------------------------------------------------------------------------
(* RateTracker::check_and_record: pop the times in front that are older    *)
(* than the window, then record the call if there is room.                 *)
Stale(tracker, now, window) ==
  {i \in DOMAIN tracker : \A k \in 1..i : tracker[k] + window <= now}

Recent(tracker, now, window) ==
  SubSeq(tracker, Cardinality(Stale(tracker, now, window)) + 1, Len(tracker))

CheckAndRecord(tracker, now, window, max) ==
  LET recent == Recent(tracker, now, window)
      allowed == Len(recent) < max
  IN  [allowed |-> allowed,
       tracker |-> IF allowed THEN Append(recent, now) ELSE recent]

=============================================================================
