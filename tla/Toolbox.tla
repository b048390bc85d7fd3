------------------------------- MODULE Toolbox -------------------------------
(***************************************************************************)
(* The tools of one program: the registry it builds from its configuration *)
(* and its MCP servers, what `raven tools` and the gateway say about it    *)
(* (list, validate, doctor), and the part of it a sub-agent is given.      *)
(*                                                                         *)
(* A tool is its name and what the checks look at: the name in its schema, *)
(* whether it has a description, its parameters, and the flags of the Tool *)
(* trait.  Tags other than "safe" and "dangerous" are left out.            *)
(***************************************************************************)
EXTENDS Builtins, FiniteSets

CONSTANTS
  ToolConfigs,   \* the `tools` sections considered: [enabled, disabled]
  Offers,        \* what an MCP server may offer
  Capabilities,  \* capability words a planner may write
  MaxOffers      \* bound: MCP tools a program is offered

ASSUME ToolboxAssumption ==
  /\ ToolConfigs # {} /\ MaxOffers \in Nat
  /\ \A c \in ToolConfigs : c.enabled \subseteq {b.name : b \in Catalog}

VARIABLES toolConfig, toolbox, offered, sub

boxvars == <<toolConfig, toolbox, offered, sub>>

-----------------------------------------------------------------------------
(* Schemas: of a plain value, of an untyped object, or of an object with   *)
(* required fields and the properties it describes, if any.                *)
Object(required, properties) ==
  [shape |-> "object", required |-> required, properties |-> properties]
NoProperties == {"none"}
Undocumented(s) ==
  s.required \ (IF s.properties = NoProperties THEN {} ELSE s.properties)

NoArguments ==
  {"system_info", "disk_usage", "file_list", "time_now", "random_number", "process_list"}

AsTool(b) ==
  [name |-> b.name, function |-> b.name, description |-> b.name,
   schema |-> IF b.name \in NoArguments THEN Object({}, {}) ELSE Object({"x"}, {"x"}),
   approval |-> b.approval, safe |-> b.safe, dangerous |-> ~b.safe,
   tags |-> IF b.safe THEN {"safe"} ELSE {"dangerous"}, from |-> "builtin"]

(* The adapter rewrites the tags of its server to agree with `safe`.       *)
WithSafety(o) ==
  [name |-> o.name, function |-> o.name, description |-> o.description, schema |-> o.schema,
   approval |-> o.approval, safe |-> o.safe, dangerous |-> ~o.safe,
   tags |-> IF o.safe THEN {"safe"} ELSE {"dangerous"}, from |-> "mcp"]

NamesIn(box) == {t.name : t \in box}
Named(box, n) == CHOOSE t \in box : t.name = n

(* What a configuration that says nothing of tools enables.                *)
DefaultEnabled ==
  {"file_read", "file_write", "shell", "web_search", "web_fetch", "git",
   "github_issue_create", "github_issue_search", "github_pr_create",
   "github_pr_status", "github_actions_status", "http_request", "system_info",
   "disk_usage", "json_extract"}

EffectiveEnabled(c) == c.enabled \ c.disabled

BuiltinRegistry(c) == {AsTool(b) : b \in {x \in Catalog : x.name \in EffectiveEnabled(c)}}

(* The gateway has a registry of its own for when it is given none: there  *)
(* an empty list enables everything.                                       *)
Everything == [enabled |-> {}, disabled |-> {}]
GatewayRegistry(c) ==
  {AsTool(b) : b \in {x \in Catalog :
     /\ c.enabled = {} \/ x.name \in c.enabled
     /\ x.name \notin c.disabled}}

NoSub == [caps |-> {}, names |-> {}, box |-> {}, verdict |-> "none", retries |-> FALSE]

BoxInit ==
  /\ \/ toolConfig \in ToolConfigs /\ toolbox = BuiltinRegistry(toolConfig)
     \/ toolConfig = Everything /\ toolbox = GatewayRegistry(Everything)
  /\ offered = 0
  /\ sub = NoSub

Refuses(box, c, n) == n \in c.disabled \/ n \in NamesIn(box)

LoadOffer(o) ==
  /\ offered < MaxOffers
  /\ sub = NoSub
  /\ offered' = offered + 1
  /\ toolbox' = IF Refuses(toolbox, toolConfig, o.name) THEN toolbox
                ELSE toolbox \cup {WithSafety(o)}
  /\ UNCHANGED <<toolConfig, sub>>

-----------------------------------------------------------------------------
(* GET /tools and `raven tools list`: those that carry every asked tag.    *)
Listed(box, tags) == {t \in box : tags \subseteq t.tags}

(* ToolValidator.                                                          *)
SchemaFailures(t) ==
  {c \in {"name", "description", "object"} :
     \/ c = "name" /\ t.name = ""
     \/ c = "description" /\ t.description = ""
     \/ c = "object" /\ t.schema.shape = "value"}
  \cup (IF t.schema.shape = "value" THEN {} ELSE Undocumented(t.schema))

PermissionFailures(t) ==
  {c \in {"approval", "not marked safe", "marked safe"} :
     \/ c = "approval" /\ "dangerous" \in t.tags /\ ~t.approval
     \/ c = "not marked safe" /\ "dangerous" \in t.tags /\ t.safe
     \/ c = "marked safe" /\ "safe" \in t.tags /\ ~t.safe}

(* It tries every tool with no arguments at all.                           *)
ArgumentFailures(t) ==
  IF t.schema.shape = "value" \/ t.schema.required # {} THEN {"arguments"} ELSE {}

ValidateAll(box) ==
  [n \in NamesIn(box) |->
     LET t == Named(box, n)
     IN SchemaFailures(t) \cup ArgumentFailures(t) \cup PermissionFailures(t)]

(* Names are unique in a registry; schemas with their descriptions may not *)
(* be.                                                                     *)
Twins(box) ==
  {t \in box : \E u \in box :
     /\ t.name # u.name
     /\ t.schema = u.schema
     /\ t.description = u.description}

-----------------------------------------------------------------------------
(* ToolDoctor.                                                             *)
Grade(passes, otherwise) == IF passes THEN "pass" ELSE otherwise

WellFormed(t) == t.schema.shape = "object"

(* mutant: one documented field is enough *)
DocumentsOne(t) ==
  CASE ~WellFormed(t) -> "fail"
    [] t.schema.required = {} -> "pass"
    [] Undocumented(t.schema) # t.schema.required -> "pass"
    [] t.schema.properties = NoProperties -> "fail"
    [] OTHER -> "warn"

Documents(t) ==
  CASE ~WellFormed(t) -> "fail"
    [] Undocumented(t.schema) = {} -> "pass"
    [] t.schema.properties = NoProperties -> "fail"
    [] OTHER -> "warn"

Safety(t) ==
  Grade(/\ t.dangerous <=> "dangerous" \in t.tags
        /\ t.dangerous => t.approval, "warn")

Examine(t) ==
  [name        |-> Grade(t.name # "", "fail"),
   description |-> Grade(t.description # "", "fail"),
   schema      |-> Grade(WellFormed(t), "fail"),
   required    |-> Documents(t),
   tags        |-> Grade(t.tags # {}, "fail"),
   safety      |-> Safety(t),
   safeTag     |-> Grade("safe" \in t.tags => t.safe, "warn"),
   function    |-> Grade(t.function = t.name, "fail")]

(* check_one looks at the tool alone, and at less of it.                   *)
ExamineOne(t) ==
  [name        |-> Grade(t.name # "", "fail"),
   description |-> Grade(t.description # "", "fail"),
   schema      |-> Grade(WellFormed(t), "fail"),
   tags        |-> Grade(t.tags # {}, "fail"),
   safety      |-> "pass"]

Grades(e) == {e[c] : c \in DOMAIN e}

Examined(box) == [n \in NamesIn(box) |-> Examine(Named(box, n))]

(* The checks of the whole registry: twins fail, no tool at all is a       *)
(* warning.                                                                *)
Ecosystem(box) ==
  [duplicates |-> Grade(Twins(box) = {}, "fail"), count |-> Grade(box # {}, "warn")]

Tally(box, grade) ==
  Cardinality({e \in NamesIn(box) \X DOMAIN Examine(AsTool(Shell)) :
                 Examined(box)[e[1]][e[2]] = grade})
  + Cardinality({c \in {"duplicates", "count"} : Ecosystem(box)[c] = grade})

Healthy(box) == Tally(box, "fail") = 0

CheckOne(box, n) == "fail" \notin Grades(ExamineOne(Named(box, n)))

-----------------------------------------------------------------------------
(* Sub-agents: a task's capabilities name tools, and the registry is cut   *)
(* down to them.                                                           *)
DefaultTools ==
  {"file_read", "file_list", "file_exists", "text_search", "json_extract",
   "json_validate", "time_now"}

ToolsOf(cap) ==
  CASE cap \in {"read", "filesystem"} ->
         {"file_read", "file_list", "file_exists", "text_search", "json_extract",
          "json_validate"}
    [] cap = "write" -> {"file_write", "file_delete"}
    [] cap = "shell" -> {"shell", "process_list", "network_ping"}
    [] cap = "git" -> {"git"}
    [] cap = "web" -> {"web_fetch", "web_search", "http_request"}
    [] cap = "github" ->
         {"github_issue_create", "github_issue_search", "github_pr_create",
          "github_pr_status", "github_actions_status"}
    [] cap = "safe" -> DefaultTools
    [] OTHER -> {}

Toolkit(caps) ==
  LET named == UNION {ToolsOf(c) : c \in caps}
  IN IF named = {} THEN DefaultTools ELSE named

(* What a goal suggests when the planner named nothing: always reading,    *)
(* and the rest as its words have it.                                      *)
DefaultCapabilities(words) ==
  {"read", "filesystem"} \cup (words \cap {"write", "shell", "git", "web", "github"})

Wanted(caps, words) == IF caps = {} THEN DefaultCapabilities(words) ELSE caps

Scoped(box, names) ==
  IF names \subseteq NamesIn(box)
    THEN [verdict |-> "scoped", box |-> {t \in box : t.name \in names}]
    ELSE [verdict |-> "refused", box |-> {}]

ReadOnlyTools ==
  {"disk_usage", "env_var", "file_exists", "file_list", "file_read",
   "github_actions_status", "github_issue_search", "github_pr_status",
   "json_extract", "json_validate", "network_ping", "process_list",
   "system_info", "text_search", "time_now", "web_fetch", "web_search"}

RetryIsIdempotent(names) == names \subseteq ReadOnlyTools

(* create_sub_agent, and the scope it is started with.                     *)
CreateSubAgent(caps, words) ==
  /\ sub = NoSub
  /\ caps # {} => words = {}   \* the goal is read only then
  /\ LET names == Toolkit(Wanted(caps, words))
         scope == Scoped(toolbox, names)
     IN sub' = [caps |-> Wanted(caps, words), names |-> names, box |-> scope.box,
                verdict |-> scope.verdict, retries |-> RetryIsIdempotent(names)]
  /\ UNCHANGED <<toolConfig, toolbox, offered>>

BoxNext ==
  \/ \E o \in Offers : LoadOffer(o)
  \/ \E caps, words \in SUBSET Capabilities : CreateSubAgent(caps, words)

BoxSpec == BoxInit /\ [][BoxNext]_boxvars

-----------------------------------------------------------------------------
(* A clean bill from the doctor is worth something: when every grade is a  *)
(* pass, the validator finds no fault with a tool either, but for the call *)
(* without arguments; and no name the user disabled is among the tools,    *)
(* whichever of the two sources it came from (validator.rs, config.rs,     *)
(* load_mcp_tools).                                                        *)
CleanBill ==
  /\ Tally(toolbox, "fail") + Tally(toolbox, "warn") = 0
       => /\ \A n \in NamesIn(toolbox) : ValidateAll(toolbox)[n] \subseteq {"arguments"}
          /\ Twins(toolbox) = {}
  /\ NamesIn(toolbox) \cap toolConfig.disabled = {}

(* An agent whose run is repeated after a failure has no built-in tool     *)
(* that changes anything, so a repetition does nothing twice               *)
(* (subagent_retry_is_idempotent against the tools themselves).  A tool of *)
(* an MCP server may have taken the name of one that is not enabled.       *)
RetriesOnlyRead ==
  sub.verdict = "scoped" /\ sub.retries =>
    \A t \in sub.box : t.from = "builtin" =>
      LET b == CHOOSE x \in Catalog : x.name = t.name
      IN /\ b.via \notin {"write", "delete"}
         /\ \A i \in DOMAIN b.programs : b.programs[i] \notin Changing

(* Violated: with the tools that are enabled by default, a sub-agent whose *)
(* goal names nothing special is given the toolkit that is the default for *)
(* it.                                                                     *)
PlainAgentsGetTools ==
  /\ toolConfig = [enabled |-> DefaultEnabled, disabled |-> {}]
  /\ sub.verdict = "refused"
  => sub.caps # DefaultCapabilities({})

(* Violated: checking one tool reaches the verdict of checking it with all *)
(* the others.                                                             *)
DoctorsAgree ==
  \A n \in NamesIn(toolbox) :
    CheckOne(toolbox, n) => "fail" \notin Grades(Examined(toolbox)[n])
=============================================================================
