---------------------------- MODULE RunControls ----------------------------
(***************************************************************************)
(* What the processes outside a run share with its owner: the row of the   *)
(* run in task_graphs, of which only the status matters here, and the rows *)
(* of run_controls (odin-orchestrator/src/control.rs, persistence.rs).     *)
(* The clients are `raven orchestrate`, the HTTP handlers, the WebSocket   *)
(* dispatcher and the Discord command.  A request is a few calls of the    *)
(* store with an await at each, in an order that differs between clients,  *)
(* so the owner and the other clients run between them.  A client makes    *)
(* one request.                                                            *)
(***************************************************************************)
EXTENDS Naturals, Sequences

CONSTANTS
  Client,     \* processes that make one request each
  Surfaces    \* the kinds of client among them

VARIABLES
  stored,    \* task_graphs.status of the run
  controls,  \* the run's control commands in the order of created_at
  client     \* client -> its request, and the calls it has still to make

Kind == {"Pause", "Resume", "Cancel"}
Surface == {"cli", "http", "ws", "discord"}

ASSUME SurfacesAssumption == Surfaces \subseteq Surface
StoredStatus == {"Running", "Paused", "Complete", "Failed", "Cancelled"}
Final == {"Complete", "Failed", "Cancelled"}

(* A command is created in the client, then inserted as pending, claimed   *)
(* by the owner, and applied.                                              *)
ControlStatus == {"created", "pending", "claimed", "applied"}
Control == [by : Client, kind : Kind, status : ControlStatus]

StatusFor == [Pause |-> "Paused", Resume |-> "Running", Cancel |-> "Cancelled"]

(* The CLI and HTTP mark the run and then signal its owner, the WebSocket  *)
(* the other way round; Discord, which can only cancel, marks the run.     *)
Calls(surface) ==
  CASE surface \in {"cli", "http"} -> <<"update", "create", "insert">>
    [] surface = "ws" -> <<"create", "insert", "update">>
    [] surface = "discord" -> <<"update">>

NoRequest == [surface |-> "none", kind |-> "none", todo |-> <<>>]
Request == [surface : Surface, kind : Kind,
            todo : Seq({"update", "create", "insert"})] \cup {NoRequest}

ControlsTypeOK ==
  /\ stored \in StoredStatus
  /\ controls \in Seq(Control)
  /\ client \in [Client -> Request]

(* The owner saves the graph as running before anybody knows the run's id. *)
ControlsInit ==
  /\ stored = "Running"
  /\ controls = <<>>
  /\ client = [c \in Client |-> NoRequest]

-----------------------------------------------------------------------------
(* `raven orchestrate pause` and `resume` read the stored statuses first   *)
(* and pass over runs that have ended, or that are not paused; by the time *)
(* of the update the status may be another one.                            *)
MayAsk(surface, kind) ==
  /\ surface = "discord" => kind = "Cancel"
  /\ surface = "cli" /\ kind = "Pause" => stored \notin Final
  /\ surface = "cli" /\ kind = "Resume" => stored = "Paused"

Ask(c, surface, kind) ==
  /\ client[c] = NoRequest
  /\ MayAsk(surface, kind)
  /\ client' = [client EXCEPT ![c] =
                  [surface |-> surface, kind |-> kind, todo |-> Calls(surface)]]
  /\ UNCHANGED <<stored, controls>>

NextCall(c, call) ==
  /\ client[c].todo # <<>>
  /\ Head(client[c].todo) = call
  /\ client' = [client EXCEPT ![c].todo = Tail(@)]

(* update_graph_status: whatever status the run has.                       *)
UpdateStatus(c) ==
  /\ NextCall(c, "update")
  /\ stored' = StatusFor[client[c].kind]
  /\ UNCHANGED controls

(* RunControlCommand::new stamps created_at; enqueue_control inserts later. *)
CreateControl(c) ==
  /\ NextCall(c, "create")
  /\ controls' = Append(controls, [by |-> c, kind |-> client[c].kind, status |-> "created"])
  /\ UNCHANGED stored

InsertControl(c) ==
  /\ NextCall(c, "insert")
  /\ controls' = [i \in DOMAIN controls |->
                    IF controls[i].by = c THEN [controls[i] EXCEPT !.status = "pending"]
                    ELSE controls[i]]
  /\ UNCHANGED stored

(* A store error, or the end of the client's process, leaves the request   *)
(* half done; the CLI's pause and resume ignore a failed update.           *)
GiveUp(c) ==
  /\ client[c].todo # <<>>
  /\ client' = [client EXCEPT ![c].todo = <<>>]
  /\ UNCHANGED <<stored, controls>>

IgnoreFailedUpdate(c) ==
  /\ client[c].surface = "cli"
  /\ client[c].kind # "Cancel"
  /\ NextCall(c, "update")
  /\ UNCHANGED <<stored, controls>>

ClientStep ==
  \E c \in Client :
    \/ \E surface \in Surfaces, kind \in Kind : Ask(c, surface, kind)
    \/ UpdateStatus(c)
    \/ CreateControl(c)
    \/ InsertControl(c)
    \/ GiveUp(c)
    \/ IgnoreFailedUpdate(c)

-----------------------------------------------------------------------------
(* claim_pending_controls and mark_control_applied, called by the owner.   *)
ClaimPending ==
  controls' = [i \in DOMAIN controls |->
                 IF controls[i].status = "pending"
                 THEN [controls[i] EXCEPT !.status = "claimed"]
                 ELSE controls[i]]

Claimed == {i \in DOMAIN controls : controls[i].status = "claimed"}

(* The claimed commands are applied in the order of created_at.            *)
NextClaimed(i) == i \in Claimed /\ \A j \in Claimed : i <= j

MarkApplied(i) == controls' = [controls EXCEPT ![i].status = "applied"]

=============================================================================
