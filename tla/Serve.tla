------------------------------- MODULE Serve --------------------------------
(***************************************************************************)
(* `raven serve` (odin-cli/src/app.rs): the public and the management      *)
(* listener (odin-gateway/src/http.rs), the chat tasks they admit, each in *)
(* a runtime of its own (odin-runtime), and the Discord gateway            *)
(* (odin-gateway/src/discord.rs) with its long-lived runtime.              *)
(*                                                                         *)
(* A chat request runs between the awaits of the task handler: audit,      *)
(* memory, the agent, memory, audit.  The five-minute deadline and a       *)
(* client that hangs up drop the handler at any of them.                   *)
(***************************************************************************)
EXTENDS Integers, FiniteSets

CONSTANTS
  Request,     \* chat requests
  Commands,    \* Discord commands
  MaxTasks,    \* MAX_CONCURRENT_CHAT_TASKS
  Bot          \* the Discord configuration: see Config

ASSUME ServeAssumption == MaxTasks \in Nat

VARIABLES
  server,      \* [phase, bound, handler, valid]: the HTTP servers
  drain,       \* the task that waits for the active tasks after the signal
  permits,     \* chat_admission
  active,      \* active_tasks
  req,         \* request -> [pc, answer]
  record,      \* request -> what is left of it: audit entries, memory, session
  discord,     \* [started, connected, armed, shard]: the Discord gateway
  cmd,         \* command -> [pc, kind, who]
  posted       \* command -> what the channel was told

servevars == <<server, drain, permits, active, req, record, discord, cmd, posted>>
http == <<server, drain, permits, active, req, record>>
bot == <<discord, cmd, posted>>

-----------------------------------------------------------------------------
(* Authorization.                                                          *)

(* A principal: user on the allowlist, the guild of the command, the role. *)
Principal == [listed : BOOLEAN, guild : {"dm", "ours", "other"}, role : BOOLEAN]

(* The bot's configuration as far as it is valid: somebody is named, and   *)
(* direct messages need a listed user.                                     *)
Config == [role : BOOLEAN, users : BOOLEAN, dms : BOOLEAN, guild : BOOLEAN]

ValidAuthorization(c) == (c.role \/ c.users) /\ (c.dms => c.users)

PrincipalIsAuthorized(c, p) ==
  IF p.guild = "dm" THEN c.dms /\ c.users /\ p.listed
  ELSE /\ c.guild => p.guild = "ours"
       /\ (c.users /\ p.listed) \/ (c.role /\ p.role)

(* The check of a command walks the same conditions one by one, and asks   *)
(* Discord for the roles last, which may fail or find no member.           *)
CheckAdminPermission(c, p, answered) ==
  \/ p.guild = "dm" /\ PrincipalIsAuthorized(c, p)
  \/ /\ p.guild # "dm"
     /\ c.guild => p.guild = "ours"
     /\ \/ c.users /\ p.listed
        \/ c.role /\ answered /\ PrincipalIsAuthorized(c, p)

(* A listener that leaves the host needs a token or an explicit opt-out.   *)
ValidListener(loopback, token, insecure) == loopback \/ token \/ insecure

-----------------------------------------------------------------------------
(* A chat task.                                                            *)

Stages == {"logging", "recalling", "working", "saving", "closing"}

Holders == {r \in Request : req[r].pc \in Stages \cup {"leaving"}}

NoRecord == [start |-> FALSE, end |-> FALSE, memory |-> FALSE, said |-> 0]

ServeInit ==
  /\ \E h, l, t, i \in BOOLEAN :
       server = [phase |-> "binding", bound |-> 0, handler |-> h,
                 valid |-> ValidListener(l, t, i)]
  /\ drain = "idle"
  /\ permits = MaxTasks /\ active = 0
  /\ req = [r \in Request |-> [pc |-> "absent", answer |-> 0]]
  /\ record = [r \in Request |-> NoRecord]
  /\ discord = [started |-> FALSE, connected |-> FALSE, armed |-> FALSE, shard |-> "off"]
  /\ cmd = [k \in Commands |-> [pc |-> "absent", kind |-> "run"]]
  /\ posted = [k \in Commands |-> {}]

(* Discord is started before; the listeners' authentication is validated,  *)
(* then both sockets are bound. The second one failing leaves nothing      *)
(* running.                                                                *)
Bind ==
  /\ server.phase = "binding"
  /\ \E ok \in BOOLEAN :
       server' = IF ~ok \/ ~server.valid THEN [server EXCEPT !.phase = "failed", !.bound = 0]
                 ELSE IF server.bound = 1
                   THEN [server EXCEPT !.phase = "serving", !.bound = 2]
                   ELSE [server EXCEPT !.bound = 1]
  /\ UNCHANGED <<drain, permits, active, req, record, bot>>

Answer(r, status) == req' = [req EXCEPT ![r] = [pc |-> "answered", answer |-> status]]

(* From here on the guard and the permit are given back, in this order.    *)
Leave(r, status) == req' = [req EXCEPT ![r] = [pc |-> "leaving", answer |-> status]]

Stage(r, stage) == req' = [req EXCEPT ![r].pc = stage]

Arrive(r) ==
  /\ server.phase = "serving" /\ req[r].pc = "absent"
  /\ Stage(r, "arrived")
  /\ UNCHANGED <<server, drain, permits, active, record, bot>>

(* Sizes and iterations outside the budgets.                               *)
Reject(r) ==
  /\ req[r].pc = "arrived"
  /\ Answer(r, 400)
  /\ UNCHANGED <<server, drain, permits, active, record, bot>>

TurnAway(r) ==
  /\ req[r].pc = "arrived" /\ permits = 0
  /\ Answer(r, 429)
  /\ UNCHANGED <<server, drain, permits, active, record, bot>>

Admit(r) ==
  /\ req[r].pc = "arrived" /\ permits > 0
  /\ permits' = permits - 1
  /\ active' = active + 1
  /\ IF server.handler THEN Stage(r, "logging") ELSE Leave(r, 503)
  /\ UNCHANGED <<server, drain, record, bot>>

(* An error of the audit log or of the memory ends the request as a server *)
(* error, also when the task is done.                                      *)
StageFails(r) ==
  /\ req[r].pc \in Stages
  /\ Leave(r, 500)
  /\ UNCHANGED <<server, drain, permits, active, record, bot>>

LogStart(r) ==
  /\ req[r].pc = "logging"
  /\ record' = [record EXCEPT ![r].start = TRUE]
  /\ Stage(r, "recalling")
  /\ UNCHANGED <<server, drain, permits, active, bot>>

(* submit_task: memories into the context, the goal into the session.      *)
Recall(r) ==
  /\ req[r].pc = "recalling"
  /\ record' = [record EXCEPT ![r].said = 1]
  /\ Stage(r, "working")
  /\ UNCHANGED <<server, drain, permits, active, bot>>

Work(r) ==
  /\ req[r].pc = "working"
  /\ record' = [record EXCEPT ![r].said = 2]
  /\ Stage(r, "saving")
  /\ UNCHANGED <<server, drain, permits, active, bot>>

SaveLater(r) ==   \* mutant
  /\ req[r].pc = "saving"
  /\ \E m \in BOOLEAN : record' = [record EXCEPT ![r].memory = m]
  /\ Stage(r, "closing")
  /\ UNCHANGED <<server, drain, permits, active, bot>>

Save(r) ==
  /\ req[r].pc = "saving"
  /\ record' = [record EXCEPT ![r].memory = TRUE]
  /\ Stage(r, "closing")
  /\ UNCHANGED <<server, drain, permits, active, bot>>

LogEnd(r) ==
  /\ req[r].pc = "closing"
  /\ record' = [record EXCEPT ![r].end = TRUE]
  /\ Leave(r, 200)
  /\ UNCHANGED <<server, drain, permits, active, bot>>

Deadline(r) ==
  /\ req[r].pc \in Stages
  /\ Leave(r, 504)
  /\ UNCHANGED <<server, drain, permits, active, record, bot>>

(* The client hangs up: hyper drops the handler, whatever it awaits.       *)
HangUp(r) ==
  /\ req[r].pc \in Stages \cup {"arrived"}
  /\ IF req[r].pc = "arrived" THEN Answer(r, 0) ELSE Leave(r, 0)
  /\ UNCHANGED <<server, drain, permits, active, record, bot>>

(* ActiveTaskGuard is dropped, then the permit.                            *)
DropGuard(r) ==
  /\ req[r].pc = "leaving" 
  /\ active' = active - 1
  /\ Stage(r, "returning")
  /\ UNCHANGED <<server, drain, permits, record, bot>>

DropPermit(r) ==
  /\ req[r].pc = "returning"
  /\ permits' = permits + 1
  /\ Stage(r, "answered")
  /\ UNCHANGED <<server, drain, active, record, bot>>

-----------------------------------------------------------------------------
(* Shutdown: the listeners stop accepting and wait for their connections,  *)
(* a task beside them watches the active tasks for thirty seconds.         *)

Signal ==
  /\ server.phase = "serving"
  /\ server' = [server EXCEPT !.phase = "stopping"]
  /\ drain' = "waiting"
  /\ UNCHANGED <<permits, active, req, record, bot>>

Drained ==
  /\ drain = "waiting"
  /\ drain' = IF active = 0 THEN "empty" ELSE "timed_out"
  /\ UNCHANGED <<server, permits, active, req, record, bot>>

InFlight == {r \in Request : req[r].pc \notin {"absent", "answered"}}

(* join! of both servers, then of the drain.                               *)
ServersEnd ==
  /\ server.phase = "stopping" /\ InFlight = {} /\ drain # "waiting"
  /\ server' = [server EXCEPT !.phase = "closed", !.bound = 0]
  /\ UNCHANGED <<drain, permits, active, req, record, bot>>

(* cmd_serve goes on after an error of the servers too.                    *)
StopDiscord ==
  /\ server.phase \in {"closed", "failed"}
  /\ discord.started
  /\ discord' = [discord EXCEPT !.started = FALSE, !.connected = FALSE,
                                !.armed = TRUE]
  /\ UNCHANGED <<http, cmd, posted>>

-----------------------------------------------------------------------------
(* The Discord gateway.                                                    *)

StartDiscord ==
  /\ server.phase = "binding" /\ server.bound = 0
  /\ ~discord.started /\ discord.shard = "off" /\ ValidAuthorization(Bot)
  /\ discord' = [discord EXCEPT !.started = TRUE, !.shard = "connecting"]
  /\ UNCHANGED <<http, cmd, posted>>

(* Also after a reconnect, and after stop: nothing tells the handler.      *)
BotReady ==
  /\ discord.shard \in {"connecting", "up"}
  /\ discord' = [discord EXCEPT !.connected = TRUE, !.shard = "up"]
  /\ UNCHANGED <<http, cmd, posted>>

(* shutdown_all returns when the shards have ended.                        *)
ShutDownShards ==
  /\ discord.armed /\ discord.shard \in {"connecting", "up"}
  /\ discord' = [discord EXCEPT !.shard = "ended"]
  /\ UNCHANGED <<http, cmd, posted>>

ShardsEnded ==
  /\ discord.armed /\ discord.shard = "ended"
  /\ discord' = [discord EXCEPT !.armed = FALSE, !.connected = FALSE]
  /\ UNCHANGED <<http, cmd, posted>>

Tell(k, what) == posted' = [posted EXCEPT ![k] = @ \cup {what}]

Step(k, pc) == cmd' = [cmd EXCEPT ![k].pc = pc]

(* Every command is authorized before it is looked at.                     *)
Interaction(k) ==
  /\ discord.shard = "up" /\ cmd[k].pc = "absent"
  /\ \E p \in Principal, answered \in BOOLEAN, kind \in {"run", "list", "orchestrate"} :
       IF CheckAdminPermission(Bot, p, answered)
         THEN /\ cmd' = [cmd EXCEPT ![k] = [pc |-> IF kind = "run" THEN "deferred" ELSE "over",
                                            kind |-> kind]]
              /\ Tell(k, IF kind = "run" THEN "deferred" ELSE "list")
         ELSE Step(k, "over") /\ Tell(k, "denied")
  /\ UNCHANGED <<http, discord>>

(* Selecting the agent, or the first message, fails.                       *)
CannotStart(k) ==
  /\ cmd[k].pc = "deferred"
  /\ Step(k, "over")
  /\ \/ Tell(k, "no_agent")
     \/ posted' = posted
  /\ UNCHANGED <<http, discord>>

Acknowledge(k) ==
  /\ cmd[k].pc = "deferred"
  /\ Step(k, "acknowledged") /\ Tell(k, "submitted")
  /\ UNCHANGED <<http, discord>>

(* Without a thread the channel is told that the task started, and the     *)
(* handler returns.                                                        *)
NoThread(k) ==
  /\ cmd[k].pc = "acknowledged"
  /\ Step(k, "over") /\ Tell(k, "started")
  /\ UNCHANGED <<http, discord>>

Thread(k) ==
  /\ cmd[k].pc = "acknowledged"
  /\ Step(k, "running") /\ Tell(k, "started")
  /\ UNCHANGED <<http, discord>>

(* The spawned task: submit_task in the bot's runtime, then the result or  *)
(* the error into the thread.                                              *)
TaskEnds(k) ==
  /\ cmd[k].pc = "running"
  /\ \E result \in {"complete", "failed"} : Tell(k, result)
  /\ Step(k, "over")
  /\ UNCHANGED <<http, discord>>

-----------------------------------------------------------------------------
Handler(r) ==
  \/ Reject(r) \/ TurnAway(r) \/ Admit(r) \/ StageFails(r) \/ LogStart(r)
  \/ Recall(r) \/ Work(r) \/ Save(r) \/ LogEnd(r) \/ Deadline(r)
  \/ DropGuard(r) \/ DropPermit(r)

Server == Bind \/ Drained \/ ServersEnd \/ StopDiscord

Shards == ShutDownShards \/ ShardsEnded

Command(k) ==
  \/ Interaction(k) \/ CannotStart(k) \/ Acknowledge(k) \/ NoThread(k)
  \/ Thread(k) \/ TaskEnds(k)

ServeNext ==
  \/ \E r \in Request : Arrive(r) \/ Handler(r) \/ HangUp(r)
  \/ Server \/ Signal \/ StartDiscord \/ BotReady \/ Shards
  \/ \E k \in Commands : Command(k)

(* The timer fires and what is ready is polled; the agent need not end, nor *)
(* the audit log or the memory answer. The server and the gateway's tasks  *)
(* go on by themselves.                                                    *)
Polled(r) ==
  \/ Reject(r) \/ TurnAway(r) \/ Admit(r) \/ Deadline(r)
  \/ DropGuard(r) \/ DropPermit(r)

ServeFairness ==
  /\ \A r \in Request : WF_servevars(Polled(r))
  /\ WF_servevars(Server)
  /\ WF_servevars(Shards)

ServeSpec == ServeInit /\ [][ServeNext]_servevars

ServeFairSpec == ServeSpec /\ ServeFairness

-----------------------------------------------------------------------------
ServeTypeOK ==
  /\ server.phase \in {"binding", "serving", "stopping", "closed", "failed"}
  /\ drain \in {"idle", "waiting", "empty", "timed_out"}
  /\ permits \in 0..MaxTasks /\ active \in 0..MaxTasks
  /\ \A r \in Request : req[r].answer \in {0, 200, 400, 429, 500, 503, 504}
  /\ discord.shard \in {"off", "connecting", "up", "ended"}

(* Admission (http.rs:511-518): however requests end, in time, late, with  *)
(* an error or because the client is gone, every permit is with a request  *)
(* or back, and the active tasks are the requests before their guard is    *)
(* dropped.                                                                *)
PermitsAccounted ==
  /\ permits + Cardinality(Holders \cup {r \in Request : req[r].pc = "returning"}) = MaxTasks
  /\ active = Cardinality(Holders)

(* A client that is answered with success finds the start and the end in   *)
(* the audit log, the outcome in memory, and both sides of the exchange in *)
(* the session.                                                            *)
SuccessIsOnRecord ==
  \A r \in Request : req[r].answer = 200 =>
    record[r] = [start |-> TRUE, end |-> TRUE, memory |-> TRUE, said |-> 2]

(* The servers do not end before the last accepted request is answered:    *)
(* that the drain gives up after thirty seconds cuts nobody off.           *)
ShutdownIsGraceful ==
  server.phase = "closed" => InFlight = {} /\ permits = MaxTasks /\ active = 0

(* And it does end: the deadline of a chat bounds the wait.                *)
ShutdownEnds == (server.phase = "stopping") ~> (server.phase = "closed")

(* A stopped gateway ends up disconnected, although a ready event that is  *)
(* on its way sets the flag once more (discord.rs:126, 1197).              *)
StoppedIsDisconnected ==
  (~discord.started /\ discord.armed) ~> [](~discord.connected)

(* Whoever is told anything but a refusal is authorized by the             *)
(* configuration (discord.rs:74-98), step by step check or not.            *)
OnlyPrincipals ==
  \A c \in {x \in Config : ValidAuthorization(x)}, p \in Principal :
    CheckAdminPermission(c, p, TRUE) <=> PrincipalIsAuthorized(c, p)

(* discord.rs:499: the channel is told that the task started and that its  *)
(* results will appear; so the task is running, or over with a result.     *)
StartedRuns ==
  \A k \in Commands : "started" \in posted[k] =>
    \/ cmd[k].pc = "running"
    \/ posted[k] \cap {"complete", "failed"} # {}
=============================================================================
