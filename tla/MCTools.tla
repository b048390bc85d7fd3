------------------------------- MODULE MCTools -------------------------------
(***************************************************************************)
(* One run for what the agents of a program share.  A behaviour is one of  *)
(*   "machine"  calls of the built-in tools on the machine,                *)
(*   "web"      an HTTP call,                                              *)
(*   "mcp"      a server of MCP tools with two callers,                    *)
(*   "box"      the registry of a program, built from its configuration,   *)
(*   "scores"   two programs that score their tools,                       *)
(*   "memory"   agents that recall and store what they did,                *)
(*   "plan"     the reading of a plan that a model wrote,                  *)
(*   "audit"    two tasks that log and a query, with a sink that fails,    *)
(*   "schema"   two programs that open one old database,                   *)
(*   "input"    the line a user of the TUI types.                          *)
(***************************************************************************)
EXTENDS ToolRun, Egress, McpClient, Toolbox, Reliability, Memory, Planner,
        AuditLog, StoreSchema, TuiInput

MCNets == {<<0, 1>>}

(* The registry. *)
AllEnabled == {b.name : b \in Catalog}

OneTool == [enabled |-> {"file_read"}, disabled |-> {}]

MCToolConfigs ==
  {OneTool,
   [enabled |-> DefaultEnabled, disabled |-> {}],
   [enabled |-> AllEnabled, disabled |-> {"shell", "other"}]}

Offer(name, description, schema, approval, safe) ==
  [name |-> name, description |-> description, schema |-> schema,
   approval |-> approval, safe |-> safe]

Value == [shape |-> "value", required |-> {}, properties |-> NoProperties]
Schemas ==
  {Value, Object({}, {}), Object({"x"}, {"x"}), Object({"x"}, NoProperties),
   Object({"x", "y"}, {"x"}), [Object({}, {}) EXCEPT !.shape = "untyped"]}

MCOffers ==
  {Offer("own", d, s, a, f) : d \in {"", "text"}, s \in Schemas,
                              a \in BOOLEAN, f \in BOOLEAN}
    \cup {Offer("other", "text", s, TRUE, FALSE) : s \in Schemas}
    \cup {Offer(n, "text", Value, FALSE, FALSE) : n \in {"", "shell", "file_list"}}

(* Memory: two attempts of one worker, the runtime as another. *)
MCSubject == [w \in Workers |-> IF w = "w2" THEN "b" ELSE "a"]
MCRetryLimit == [w \in Workers |-> IF w = "w1" THEN 1 ELSE 0]

(* The plans of one step, and of three with ids that may coincide. *)
Needs == SUBSET {"1", "2", "3", "other"}
MCPlans ==
  {<<[id |-> "1", needs |-> a]>> : a \in Needs}
  \cup {<<[id |-> "1", needs |-> a], [id |-> i, needs |-> b], [id |-> j, needs |-> c]>> :
          a, b, c \in Needs, i \in {"1", "2"}, j \in {"1", "3"}}

-----------------------------------------------------------------------------
VARIABLE family

mvars == <<toolvars, evars, mcpvars, boxvars, relvars, memvars, planvars,
           avars, schemavars, ui, family>>

MCInit ==
  /\ family \in {"machine", "web", "mcp", "box", "scores", "memory", "plan",
                 "audit", "schema", "input"}
  /\ family # "box" => toolConfig = OneTool
  /\ family # "plan" =>
       /\ plan = Heuristic(0) /\ reading = "groups"
       /\ status = [n \in plan.nodes |-> "pending"]
  /\ ToolInit /\ EInit /\ McpInit
  /\ BoxInit /\ RelInit /\ MemInit /\ PlanInit
  /\ AuditInit /\ SchemaInit /\ InputInit

(* What no part but the family's does. *)
Other(part) ==
  /\ UNCHANGED family
  /\ part # "machine" => UNCHANGED toolvars
  /\ part # "web"     => UNCHANGED evars
  /\ part # "mcp"     => UNCHANGED mcpvars
  /\ part # "box"     => UNCHANGED boxvars
  /\ part # "scores"  => UNCHANGED relvars
  /\ part # "memory"  => UNCHANGED memvars
  /\ part # "plan"    => UNCHANGED planvars
  /\ part # "audit"   => UNCHANGED avars
  /\ part # "schema"  => UNCHANGED schemavars
  /\ part # "input"   => UNCHANGED ui

MCNext ==
  \/ family = "machine" /\ ToolNext /\ Other("machine")
  \/ family = "web" /\ ENext /\ Other("web")
  \/ family = "mcp" /\ McpNext /\ Other("mcp")
  \/ family = "box" /\ BoxNext /\ Other("box")
  \/ family = "scores" /\ RelNext /\ Other("scores")
  \/ family = "memory" /\ MemNext /\ Other("memory")
  \/ family = "plan" /\ PlanNext /\ Other("plan")
  \/ family = "audit" /\ AuditNext /\ Other("audit")
  \/ family = "schema" /\ SchemaNext /\ Other("schema")
  \/ family = "input" /\ InputNext /\ Other("input")

(* The fairness of each part, in the behaviours that are of it. *)
MCSpec ==
  /\ MCInit /\ [][MCNext]_mvars
  /\ WF_toolvars(family = "machine" /\ (Spawn \/ SpawnFails))
  /\ WF_toolvars(family = "machine" /\ PipesEnd) /\ WF_toolvars(family = "machine" /\ TimesOut)
  /\ WF_toolvars(family = "machine" /\ Killed) /\ WF_toolvars(family = "machine" /\ Overdue)
  /\ WF_toolvars(family = "machine" /\ NextCall)
  /\ WF_evars(family = "web" /\ Send) /\ WF_evars(family = "web" /\ ChainTimesOut)
  /\ WF_evars(family = "web" /\ BodyTimesOut)
  /\ WF_mcpvars(family = "mcp" /\ TakeMutex) /\ WF_mcpvars(family = "mcp" /\ Loaded)
  /\ WF_mcpvars(family = "mcp" /\ Notify)
  /\ \A c \in Callers : WF_mcpvars(family = "mcp" /\ Drop(c))
  /\ \A u \in Users :
       /\ WF_mcpvars(family = "mcp" /\ Register(u))
       /\ WF_mcpvars(family = "mcp" /\ WriteMessage(u))
       /\ WF_mcpvars(family = "mcp" /\ WriteMessageFails(u))
       /\ WF_mcpvars(family = "mcp" /\ ResponseTimesOut(u))

(* Every call ends: of a program, of a file, over HTTP, through MCP.       *)
CallsEnd ==
  /\ family = "machine" => CallEnds
  /\ family = "web" => HttpEnds
  /\ family = "mcp" => McpCallEnds

(* Nothing survives a call that was given up, what calls change is what    *)
(* they declare, and every hop of an HTTP call is checked.                 *)
CallsAreContained == CommandsContained /\ EffectsDeclared /\ HopsChecked

(* What the registry says of its tools is so. *)
ToolboxSound == family = "box" => CleanBill /\ RetriesOnlyRead

(* What was logged is kept and found, what was scored is scored the same   *)
(* after a restart, and an upgrade of the database loses nothing.          *)
RecordsAreKept ==
  /\ EntriesKept /\ QueryIsComplete
  /\ RestartAgrees
  /\ MigrationLosesNothing
=============================================================================
