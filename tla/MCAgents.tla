------------------------------ MODULE MCAgents ------------------------------
(***************************************************************************)
(* One run for what stands between a plan and the acts of its agents.  A   *)
(* behaviour is one of                                                     *)
(*   "plan"   the composer with four agents on two paths,                  *)
(*   "loop"   the loop of one agent,                                       *)
(*   "gate"   three calls of tools of two agents, two to be approved.      *)
(***************************************************************************)
EXTENDS Composer, AgentLoop, ToolGate, TLC

(* The composer: a1 and a2 write both paths, in opposite orders, so each   *)
(* can be refused after a partial acquisition and be handed a lock from a  *)
(* queue while it waits for the other; a3 writes the path it also reads    *)
(* and reads the other one; a4 reads and depends on a1.                    *)
CONSTANTS a1, a2, a3, a4, f1, f2

MCAgent == {a1, a2, a3, a4}
MCFile == {f1, f2}
MCWrites ==
  (a1 :> <<f1, f2>>) @@ (a2 :> <<f2, f1>>) @@ (a3 :> <<f2>>) @@ (a4 :> <<>>)
MCReads ==
  (a1 :> <<>>) @@ (a2 :> <<>>) @@ (a3 :> <<f2, f1>>) @@ (a4 :> <<f1>>)
MCEdges == {<<a1, a4>>}

(* The loop: engines with and without each attachment, calls of each kind. *)
Guarded == [engine |-> TRUE, valid |-> TRUE, approval |-> TRUE]
Unguarded == [engine |-> FALSE, valid |-> TRUE, approval |-> FALSE]

Full == [provider |-> TRUE, registry |-> TRUE, audit |-> TRUE, escalation |-> FALSE,
         criteria |-> FALSE, limit |-> 0, policy |-> Guarded]

MCEngines ==
  {Full,
   [Full EXCEPT !.escalation = TRUE, !.limit = 1],
   [Full EXCEPT !.escalation = TRUE, !.audit = FALSE, !.policy = Unguarded],
   [Full EXCEPT !.criteria = TRUE],
   [Full EXCEPT !.registry = FALSE, !.limit = 2],
   [Full EXCEPT !.provider = FALSE, !.criteria = TRUE],
   [Full EXCEPT !.provider = FALSE, !.escalation = TRUE]}

Call == [known |-> TRUE, args |-> "valid", rule |-> "none", method |-> "GET",
         headers |-> {}, marked |-> FALSE, dangerous |-> FALSE, outside |-> FALSE]

MCCalls ==
  {Call,
   [Call EXCEPT !.known = FALSE],
   [Call EXCEPT !.args = "repairable", !.marked = TRUE],
   [Call EXCEPT !.args = "bad"],
   [Call EXCEPT !.rule = "deny"],
   [Call EXCEPT !.method = "POST"],
   [Call EXCEPT !.marked = TRUE, !.dangerous = TRUE],
   [Call EXCEPT !.outside = TRUE]}

(* The gate. *)
CONSTANTS r1, r2, r3

Plain == [rule |-> "none", method |-> "GET", headers |-> {}, marked |-> FALSE,
          dangerous |-> FALSE, outside |-> FALSE]

MCRequest == {r1, r2, r3}
MCCallOf == (r1 :> [Plain EXCEPT !.marked = TRUE, !.outside = TRUE])
            @@ (r2 :> [Plain EXCEPT !.method = "POST"])
            @@ (r3 :> [Plain EXCEPT !.dangerous = TRUE])
MCAgentOf == (r1 :> a1) @@ (r2 :> a2) @@ (r3 :> a1)

-----------------------------------------------------------------------------
VARIABLE family

mvars == <<vars, loopvars, gatevars, family>>

MCInit ==
  /\ Init /\ LoopInit /\ GateInit
  /\ family \in {"plan", "loop", "gate"}
  /\ family # "loop" => cfg = Full

MCNext ==
  \/ family = "plan" /\ Next /\ UNCHANGED <<loopvars, gatevars, family>>
  \/ family = "loop" /\ LoopNext /\ UNCHANGED <<vars, gatevars, family>>
  \/ family = "gate" /\ GateNext /\ UNCHANGED <<vars, loopvars, family>>

(* The fairness of each part, in the behaviours that are of it. *)
MCSpec ==
  /\ MCInit /\ [][MCNext]_mvars
  /\ WF_loopvars(family = "loop" /\ LoopNext)
  /\ WF_gatevars(family = "gate" /\ Second)
  /\ \A r \in Request : WF_gatevars(family = "gate" /\ Advance(r))

(* Every variable keeps its type. *)
TypesHold == TypeOK /\ LoopTypeOK /\ GateTypeOK

(* The loop of an agent returns, and every call of a tool is answered. *)
EverythingReturns ==
  /\ family = "loop" => Terminates
  /\ family = "gate" => EveryoneAnswered
=============================================================================
