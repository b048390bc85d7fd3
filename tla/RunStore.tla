------------------------------ MODULE RunStore ------------------------------
(***************************************************************************)
(* The orchestration database (odin-orchestrator/src/persistence.rs) with  *)
(* several runs in it, and the requests that `raven orchestrate`, the HTTP *)
(* handlers, the WebSocket dispatcher and Discord make of it.              *)
(*                                                                         *)
(* A row has its status twice, as a column and in the JSON of the graph or *)
(* lifecycle it holds.  A key that is no run's id is compared with the     *)
(* goals, and two runs may have the same goal.  Every call is an await;    *)
(* the owner of a run saves its own view of it in between.                 *)
(***************************************************************************)
EXTENDS Naturals, Sequences, FiniteSets, SequencesExt, Positions

CONSTANTS
  RootId, Goal, GoalOf,   \* ids of runs; the goal of each
  AgentId, RunOf, NoRun,  \* agents; graph_root_id, NoRun in a row older than the column
  Client, SurfaceOf,    \* processes that make one request each; how each may make it
  Keys,                 \* what a request may name
  MaxFaults             \* bound: calls of the store that fail

ASSUME StoreAssumption ==
  /\ GoalOf \in [RootId -> Goal]
  /\ RunOf \in [AgentId -> RootId \cup {NoRun}]
  /\ Keys \subseteq RootId \cup Goal
  /\ IsFiniteSet(AgentId)
  /\ MaxFaults \in Nat

VARIABLES
  graphs,     \* task_graphs: run -> [of, status, json], of and json being in graph_json
  newest,     \* the runs of the table in the order of updated_at, newest first
  lifecycles, \* agent_lifecycles: agent -> [phase, json]
  signals,    \* run_controls: [key, kind, by, status]
  request,    \* client -> its request
  owner,      \* run -> "none", "live", "gone": the process that executes it
  view,       \* run -> the status the owner has in memory
  failures

svars == <<graphs, newest, lifecycles, signals, request, owner, view, failures>>

Absent == [of |-> "none", status |-> "none", json |-> "none"]
FinalStatus == {"complete", "failed", "cancelled"}
Status == {"building", "running", "paused"} \cup FinalStatus
Verb == [pause |-> "paused", resume |-> "running", cancel |-> "cancelled"]
NoRequest == [surface |-> "none", verb |-> "none", key |-> "none", todo |-> <<>>, answer |-> "none"]
Stored(r) == graphs[r] # Absent

StoreInit ==
  /\ graphs = [r \in RootId |-> Absent] /\ newest = <<>>
  /\ lifecycles = [a \in AgentId |-> [phase |-> "running", json |-> "running"]]
  /\ signals = {}
  /\ request = [c \in Client |-> NoRequest]
  /\ owner = [r \in RootId |-> "none"]
  /\ view = [r \in RootId |-> "none"]
  /\ failures = 0

-----------------------------------------------------------------------------
(* The calls of the store.                                                 *)

(* root_id = key OR root_goal = key                                        *)
Matches(r, key) == Stored(r) /\ (r = key \/ GoalOf[r] = key)
Found(key) == Pick(newest, {i \in DOMAIN newest : Matches(newest[i], key)})
Touch(rs) == rs \o Pick(newest, {i \in DOMAIN newest : ~Contains(rs, newest[i])})

SaveGraph(r, status) ==
  /\ graphs' = [graphs EXCEPT ![r] = [of |-> r, status |-> status, json |-> status]]
  /\ newest' = Touch(<<r>>)

ColumnOnly(key, status) ==   \* mutant
  /\ graphs' = [r \in RootId |-> IF Matches(r, key) THEN [graphs[r] EXCEPT !.status = status]
                              ELSE graphs[r]]
  /\ newest' = Touch(Found(key))

(* update_graph_status: the newest match is read, its JSON is changed and  *)
(* written to every match.                                                 *)
UpdateGraph(key, status) ==
  /\ graphs' = [r \in RootId |->
       IF Matches(r, key)
       THEN [of |-> graphs[Head(Found(key))].of, status |-> status, json |-> status]
       ELSE graphs[r]]
  /\ newest' = Touch(Found(key))

UnderGoal(c, key) ==   \* mutant: the command names the goal, which no owner looks for
  signals' = signals \cup {[key |-> IF key \in RootId THEN GoalOf[key] ELSE key,
                            kind |-> request[c].verb, by |-> c, status |-> "pending"]}

(* enqueue_control stores the key the client was given.                    *)
Enqueue(c, key) ==
  signals' = signals \cup {[key |-> key, kind |-> request[c].verb, by |-> c, status |-> "pending"]}

UpdatePhase(a, phase) ==
  lifecycles' = [lifecycles EXCEPT ![a] = [phase |-> phase, json |-> phase]]

-----------------------------------------------------------------------------
(* A request is a list of calls.  HTTP marks the run and signals; the      *)
(* WebSocket looks the run up, signals and marks; Discord marks; the CLI   *)
(* cancels a run and its agents, and pauses or resumes whatever was in the *)
(* state for it when it listed the runs.                                   *)

Each(rs) == [n \in 1..2 * Len(rs) |-> IF n % 2 = 1 THEN <<"update", rs[(n + 1) \div 2]>>
                                      ELSE <<"enqueue", rs[n \div 2]>>]
Pausable(r) == graphs[r].status \notin FinalStatus
Resumable(r) == graphs[r].status = "paused"
Listed(verb) == Pick(newest, {i \in DOMAIN newest : IF verb = "pause" THEN Pausable(newest[i])
                                                    ELSE Resumable(newest[i])})

HttpCalls(key) == <<<<"update", key>>, <<"enqueue", key>>>>
DispatchControl(key) == <<<<"load", key>>, <<"enqueue", key>>, <<"update", key>>>>
DiscordCancel(key) == <<<<"update", key>>>>
CliCancel(key) == <<<<"update", key>>, <<"enqueue", key>>, <<"agents", key>>>>

Script(surface, verb, key) ==
  CASE surface = "http" -> HttpCalls(key)
    [] surface = "ws" -> DispatchControl(key)
    [] surface = "discord" -> DiscordCancel(key)
    [] surface = "cli" /\ verb = "cancel" -> CliCancel(key)
    [] OTHER -> Each(Listed(verb))

Everything == CHOOSE k \in Keys : TRUE   \* a request of the CLI that names no run

(* What a request to look reads, one call after the other: a list shows    *)
(* the columns, a load the JSON.                                           *)
AllOf(what) == <<<<what, "all">>>>
One(key) == <<<<"load", key>>>>
StatusReads == AllOf("graphs") \o AllOf("lifecycles")   \* `queue` does, too
AgentsReads == AllOf("lifecycles")
InspectReads(key) == One(key)   \* an agent is looked for if there is no such run
RestoreReads(key) == One(key)   \* `raven run` executes it again, as a run of its own
UnfinishedReads == AllOf("graphs")
Unended == Pick(newest, {i \in DOMAIN newest : graphs[newest[i]].status \in {"running", "paused"}})
LocksReads == AllOf("graphs") \o [i \in DOMAIN Unended |-> <<"load", Unended[i]>>]

CliLooks(key) == {StatusReads, AgentsReads, InspectReads(key), RestoreReads(key),
                  UnfinishedReads, LocksReads}
DiscordStatus(key) == {One(key), AllOf("graphs")}
DiscordAgents(key) == {One(key) \o AllOf("lifecycles")}
HttpStatus(key) == {One(key)}

Looks(surface, key) ==
  CASE surface = "http" -> HttpStatus(key)
    [] surface = "discord" -> DiscordStatus(key) \cup DiscordAgents(key)
    [] surface = "cli" -> CliLooks(key)
    [] OTHER -> {}

Look(c, surface, key) ==
  /\ request[c] = NoRequest
  /\ \E calls \in Looks(surface, key) :
       request' = [request EXCEPT ![c] = [surface |-> surface, verb |-> "look", key |-> key,
                                          todo |-> calls, answer |-> "none"]]
  /\ UNCHANGED <<graphs, newest, lifecycles, signals, owner, view, failures>>

Ask(c, surface, verb, key) ==
  /\ request[c] = NoRequest
  /\ surface = "discord" => verb = "cancel"
  /\ surface = "cli" /\ verb # "cancel" => key = Everything
  /\ request' = [request EXCEPT ![c] = [surface |-> surface, verb |-> verb, key |-> key,
                                        todo |-> Script(surface, verb, key), answer |-> "none"]]
  /\ UNCHANGED <<graphs, newest, lifecycles, signals, owner, view, failures>>

(* orchestrate_handler, handle_orchestrate_submit and `submit` store a     *)
(* plan; only Discord answers with its id whether or not it was stored.    *)
HttpSubmit(stored) == IF stored THEN "ok" ELSE "error"
CliSubmit(stored) == IF stored THEN "ok" ELSE "error"
DiscordSubmit(stored) == "ok"
Submitted(surface, stored) ==
  CASE surface = "http" -> HttpSubmit(stored)
    [] surface = "cli" -> CliSubmit(stored)
    [] OTHER -> DiscordSubmit(stored)

Submit(c, surface, r) ==
  /\ request[c] = NoRequest
  /\ ~Stored(r) /\ owner[r] = "none"
  /\ \/ SaveGraph(r, "building") /\ UNCHANGED failures
     \/ /\ failures < MaxFaults /\ failures' = failures + 1
        /\ UNCHANGED <<graphs, newest>>
  /\ request' = [request EXCEPT ![c] =
       [surface |-> surface, verb |-> "submit", key |-> r, todo |-> <<>>,
        answer |-> Submitted(surface, Stored(r)')]]
  /\ UNCHANGED <<lifecycles, signals, owner, view>>

AtCall(c, call) == request[c].todo # <<>> /\ Head(request[c].todo)[1] = call
Argument(c) == Head(request[c].todo)[2]
Left(c, todo, answer) ==   \* one that only looks is free to ask again
  request' = [request EXCEPT ![c] =
    IF todo = <<>> /\ @.verb = "look" THEN NoRequest
    ELSE [@ EXCEPT !.todo = todo, !.answer = IF todo = <<>> /\ answer = "none" THEN "ok" ELSE answer]]
Done(c) == Left(c, Tail(request[c].todo), request[c].answer)
Many(c) == request[c].surface = "cli" /\ request[c].verb # "cancel"

(* list_task_graphs, list_agent_lifecycles: an error is an empty list.     *)
List(c) ==
  /\ AtCall(c, "graphs") \/ AtCall(c, "lifecycles")
  /\ Done(c)
  /\ UNCHANGED <<graphs, newest, lifecycles, signals, owner, view, failures>>

Load(c) ==
  /\ AtCall(c, "load") /\ Found(Argument(c)) # <<>>
  /\ Done(c)
  /\ UNCHANGED <<graphs, newest, lifecycles, signals, owner, view, failures>>

Update(c) ==
  /\ AtCall(c, "update") /\ Found(Argument(c)) # <<>>
  /\ UpdateGraph(Argument(c), Verb[request[c].verb])
  /\ Done(c)
  /\ UNCHANGED <<lifecycles, signals, owner, view, failures>>

Signal(c) ==
  /\ AtCall(c, "enqueue")
  /\ Enqueue(c, Argument(c))
  /\ Done(c)
  /\ UNCHANGED <<graphs, newest, lifecycles, owner, view, failures>>

(* The first run of the list that is meant; none, if the list failed, and  *)
(* then the agents of no run are the ones compared equal.                  *)
Unfinished(r) == {a \in AgentId : RunOf[a] = r /\ lifecycles[a].phase = "running"}
CancelEach(c, r) ==
  LET as == SetToSeq(Unfinished(r))
  IN request' = [request EXCEPT ![c].todo = [i \in DOMAIN as |-> <<"phase", as[i]>>],
                                ![c].answer = IF as = <<>> /\ @ = "none" THEN "ok" ELSE @]

ListAgents(c) ==
  /\ AtCall(c, "agents")
  /\ \/ /\ CancelEach(c, IF Found(Argument(c)) = <<>> THEN NoRun ELSE Head(Found(Argument(c))))
        /\ UNCHANGED failures
     \/ /\ failures < MaxFaults /\ failures' = failures + 1
        /\ CancelEach(c, NoRun)
  /\ UNCHANGED <<graphs, newest, lifecycles, signals, owner, view>>

CancelAgent(c) ==
  /\ AtCall(c, "phase")
  /\ UpdatePhase(Argument(c), "cancelled")
  /\ Done(c)
  /\ UNCHANGED <<graphs, newest, signals, owner, view, failures>>

(* No such run, or the store fails: the request ends with an error, except *)
(* that the CLI goes on to the next call when it handles a list, and to    *)
(* the agents when only the signal was refused.                            *)
GoesOn(c) == \/ Many(c) \/ AtCall(c, "phase")
             \/ request[c].surface = "cli" /\ AtCall(c, "enqueue")

CallFails(c) ==
  /\ \E call \in {"load", "update", "enqueue", "phase"} : AtCall(c, call)
  /\ \/ /\ AtCall(c, "load") \/ AtCall(c, "update")
        /\ Found(Argument(c)) = <<>>
        /\ UNCHANGED failures
     \/ failures < MaxFaults /\ failures' = failures + 1
  /\ Left(c, IF GoesOn(c) THEN Tail(request[c].todo) ELSE <<>>, "error")
  /\ UNCHANGED <<graphs, newest, lifecycles, signals, owner, view>>

-----------------------------------------------------------------------------
(* The owner of a run: it stores the run as running before it starts,      *)
(* polls its signals, and saves its view of the run and of its agents.     *)

Begin(r) ==
  /\ owner[r] = "none" /\ ~Stored(r)
  /\ SaveGraph(r, "running")
  /\ owner' = [owner EXCEPT ![r] = "live"]
  /\ view' = [view EXCEPT ![r] = "running"]
  /\ UNCHANGED <<lifecycles, signals, request, failures>>

Owned(r) == owner[r] = "live"

(* claim_pending_controls takes them all at once; each is marked applied.  *)
Poll(r) ==
  /\ Owned(r)
  /\ \E s \in signals :
       /\ s.key = r /\ s.status = "pending"
       /\ signals' = (signals \ {s}) \cup {[s EXCEPT !.status = "applied"]}
       /\ view' = [view EXCEPT ![r] = IF view[r] = "cancelled" THEN @ ELSE Verb[s.kind]]
  /\ UNCHANGED <<graphs, newest, lifecycles, request, owner, failures>>

Save(r) ==
  /\ Owned(r)
  /\ SaveGraph(r, view[r])
  /\ UNCHANGED <<lifecycles, signals, request, owner, view, failures>>

SaveAgent(a) ==
  /\ RunOf[a] # NoRun /\ Owned(RunOf[a])
  /\ lifecycles[a].phase # "done" /\ UpdatePhase(a, "done")
  /\ UNCHANGED <<graphs, newest, signals, request, owner, view, failures>>

End(r) ==
  /\ Owned(r)
  /\ SaveGraph(r, IF view[r] = "cancelled" THEN "cancelled" ELSE "complete")
  /\ owner' = [owner EXCEPT ![r] = "gone"]
  /\ UNCHANGED <<lifecycles, signals, request, view, failures>>

Die(r) ==
  /\ Owned(r)
  /\ owner' = [owner EXCEPT ![r] = "gone"]
  /\ UNCHANGED <<graphs, newest, lifecycles, signals, request, view, failures>>

ClientCall(c) ==
  List(c) \/ Load(c) \/ Update(c) \/ Signal(c) \/ ListAgents(c) \/ CancelAgent(c) \/ CallFails(c)

StoreNext ==
  \/ \E c \in Client : \E s \in SurfaceOf[c] :
       \/ \E v \in DOMAIN Verb, k \in Keys : Ask(c, s, v, k)
       \/ \E k \in Keys : Look(c, s, k)
       \/ \E r \in RootId : s # "ws" /\ Submit(c, s, r)
  \/ \E c \in Client : ClientCall(c)
  \/ \E r \in RootId : Begin(r) \/ Poll(r) \/ Save(r) \/ End(r) \/ Die(r)
  \/ \E a \in AgentId : SaveAgent(a)

(* A live owner polls every half second.                                   *)
StoreFairness == \A r \in RootId : WF_svars(Poll(r))
StoreSpec == StoreInit /\ [][StoreNext]_svars /\ StoreFairness

-----------------------------------------------------------------------------
(* What is stored twice is the same both times, and the row of a run holds *)
(* the graph of that run, whoever saves and updates in whatever order: a   *)
(* list, which reads the columns, and a load, which reads the JSON, show   *)
(* one state of the run.                                                   *)
RowsAgree ==
  /\ \A r \in RootId : Stored(r) => /\ graphs[r].of = r
                                 /\ graphs[r].status = graphs[r].json
  /\ \A a \in AgentId : lifecycles[a].phase = lifecycles[a].json

(* A request answered without an error, over a surface that signals, is    *)
(* heard: its command is applied while the run has a live owner, and no    *)
(* agent of another run was cancelled by it.                               *)
Signalled(c) == /\ request[c].answer = "ok" /\ request[c].verb \in DOMAIN Verb
                /\ request[c].surface \in {"http", "ws"}
Meant(c) == {r \in RootId : r = request[c].key \/ GoalOf[r] = request[c].key}
Nameable == {r \in RootId : {r, GoalOf[r]} \cap Keys # {}}
Heard(c, r) == \E s \in signals : s.by = c /\ s.key = r /\ s.status = "applied"

RequestsAreHeard ==
  \A c \in {d \in Client : SurfaceOf[d] \cap {"http", "ws"} # {}}, r \in Nameable :
    (Signalled(c) /\ r \in Meant(c) /\ Owned(r)) ~> (Heard(c, r) \/ ~Owned(r))
=============================================================================
