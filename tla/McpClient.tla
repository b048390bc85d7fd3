------------------------------ MODULE McpClient ------------------------------
(***************************************************************************)
(* One MCP server behind the stdio transport of odin-mcp. At start-up      *)
(* load_mcp_tools spawns it, shakes hands, lists its tools and registers   *)
(* them; afterwards any number of callers share the client, whose mutex a  *)
(* call holds from its request to its answer. A task reads the lines of    *)
(* the server and hands each answer to the request with its id.            *)
(*                                                                         *)
(* The agent loop drops a call that takes too long, wherever it stands.    *)
(***************************************************************************)
EXTENDS Naturals, Sequences, SequencesExt, FiniteSets

CONSTANTS Callers,
          MaxIds,        \* bound: requests sent to the server
          BuiltinNames,  \* names registered before the server is asked
          Disabled,      \* tools.disabled
          Offered        \* names the server lists

Loader == "loader"
Users  == Callers \cup {Loader}
Nobody == "nobody"

ASSUME McpAssumption ==
  /\ MaxIds \in Nat
  /\ Loader \notin Callers /\ Nobody \notin Callers

VARIABLES phase,      \* spawn, initialize, list, then ready or skipped
          registry,   \* the registered names, with where each comes from
          mutex,      \* who holds the client: a caller, the loader, nobody
          waiters,    \* those queued for it
          step,       \* where each caller's call stands
          sentId,     \* the id of its request
          got,        \* what it was answered: nothing, a failure or a response
          nextId,
          pending,    \* ids whose answer somebody is waiting for
          reader,     \* the dispatcher task
          stdin,      \* open, half (an unfinished message), full or closed
          received    \* the requests the server has understood

mcpvars == <<phase, registry, mutex, waiters, step, sentId, got, nextId,
             pending, reader, stdin, received>>

Nothing == [kind |-> "nothing", id |-> 0]
Failure == [kind |-> "failure", id |-> 0]

McpInit ==
  /\ phase = "spawn"
  /\ registry = [n \in BuiltinNames |-> "builtin"]
  /\ mutex = Nobody /\ waiters = <<>>
  /\ step = [u \in Users |-> "idle"]
  /\ sentId = [u \in Users |-> 0]
  /\ got = [u \in Users |-> Nothing]
  /\ nextId = 1 /\ pending = {}
  /\ reader = "off" /\ stdin = "closed"
  /\ received = {}

(***************************************************************************)
(* Loading: a disabled server, another transport or a failed spawn skips   *)
(* it; so does any failure of the two requests.                            *)
(***************************************************************************)
Skip ==
  /\ phase = "spawn"
  /\ phase' = "skipped"
  /\ UNCHANGED <<registry, mutex, waiters, step, sentId, got, nextId, pending,
                 reader, stdin, received>>

Connect ==
  /\ phase = "spawn"
  /\ phase' = "initialize"
  /\ reader' = "running" /\ stdin' = "open"
  /\ mutex' = Loader
  /\ step' = [step EXCEPT ![Loader] = "asking"]
  /\ UNCHANGED <<registry, waiters, sentId, got, nextId, pending, received>>

\* Registered names keep their tool: a second one with that name is refused.
WithTools(names) ==
  [n \in DOMAIN registry \cup (names \ Disabled) |->
     IF n \in DOMAIN registry THEN registry[n] ELSE "server"]

Loaded ==
  /\ phase \in {"initialize", "list"}
  /\ step[Loader] = "done"
  /\ got' = [got EXCEPT ![Loader] = Nothing]
  /\ IF got[Loader].kind # "response"
     THEN /\ phase' = "skipped"
          /\ mutex' = Nobody
          /\ step' = [step EXCEPT ![Loader] = "idle"]
          /\ reader' = "stopped" /\ stdin' = "closed"  \* the client is dropped, its child killed
          /\ UNCHANGED registry
     ELSE /\ UNCHANGED <<reader, stdin>>
          /\ IF phase = "initialize"
             THEN /\ phase' = "list"
                  /\ step' = [step EXCEPT ![Loader] = "notifying"]
                  /\ UNCHANGED <<mutex, registry>>
             ELSE /\ phase' = "ready"
                  /\ mutex' = Nobody
                  /\ step' = [step EXCEPT ![Loader] = "idle"]
                  /\ \E names \in SUBSET Offered : registry' = WithTools(names)
  /\ UNCHANGED <<waiters, sentId, nextId, pending, received>>

\* notifications/initialized: it waits while the pipe is full, and a failure
\* of the write is ignored.
Notify ==
  /\ phase = "list" /\ step[Loader] = "notifying"
  /\ stdin # "full"
  /\ step' = [step EXCEPT ![Loader] = "asking"]
  /\ UNCHANGED <<phase, registry, mutex, waiters, sentId, got, nextId, pending,
                 reader, stdin, received>>

(***************************************************************************)
(* A call. The mutex is fair: it goes to those who queue, in their order.  *)
(***************************************************************************)
CallTool(c) ==
  /\ phase = "ready"
  /\ \E n \in DOMAIN registry : registry[n] = "server"
  /\ step[c] = "idle"
  /\ nextId + Cardinality({u \in Users : step[u] \in {"queued", "asking"}}) <= MaxIds
  /\ step' = [step EXCEPT ![c] = "queued"]
  /\ waiters' = Append(waiters, c)
  /\ UNCHANGED <<phase, registry, mutex, sentId, got, nextId, pending, reader, stdin, received>>

TakeMutex ==
  /\ mutex = Nobody /\ waiters # <<>>
  /\ mutex' = Head(waiters) /\ waiters' = Tail(waiters)
  /\ step' = [step EXCEPT ![Head(waiters)] = "asking"]
  /\ UNCHANGED <<phase, registry, sentId, got, nextId, pending, reader, stdin, received>>

\* send_request registers the id before it writes.
Register(u) ==
  /\ mutex = u /\ step[u] = "asking"
  /\ sentId' = [sentId EXCEPT ![u] = nextId]
  /\ pending' = pending \cup {nextId}
  /\ nextId' = nextId + 1
  /\ step' = [step EXCEPT ![u] = "writing"]
  /\ UNCHANGED <<phase, registry, mutex, waiters, got, reader, stdin, received>>

\* What the call makes of it; the guard of the mutex goes with the call.
Return(u, answer) ==
  /\ got' = [got EXCEPT ![u] = answer]
  /\ step' = [step EXCEPT ![u] = "done"]
  /\ mutex' = IF mutex = u /\ u # Loader THEN Nobody ELSE mutex

\* A whole message on a clean stream is understood; the rest of a line that
\* was cut short spoils the message that follows it.
WriteMessage(u) ==
  /\ step[u] = "writing"
  /\ stdin \in {"open", "half"}
  /\ received' = IF stdin = "open" THEN received \cup {sentId[u]} ELSE received
  /\ stdin' = "open"
  /\ step' = [step EXCEPT ![u] = "waiting"]
  /\ UNCHANGED <<phase, registry, mutex, waiters, sentId, got, nextId, pending, reader>>

WriteMessageFails(u) ==
  /\ step[u] = "writing"
  /\ stdin = "closed"
  /\ pending' = pending \ {sentId[u]}
  /\ Return(u, Failure)
  /\ UNCHANGED <<phase, registry, waiters, sentId, nextId, reader, stdin, received>>

\* The thirty seconds of RESPONSE_TIMEOUT cover the wait, not the writing.
ResponseTimesOut(u) ==
  /\ step[u] = "waiting"
  /\ pending' = pending \ {sentId[u]}
  /\ Return(u, Failure)
  /\ UNCHANGED <<phase, registry, waiters, sentId, nextId, reader, stdin, received>>

\* Dropped by the loop while queued, writing (perhaps in the middle of a
\* message) or waiting: its id stays pending.
Droppable == {"queued", "writing", "waiting"}

Drop(c) ==
  /\ step[c] \in Droppable
  /\ IF step[c] = "queued"
     THEN \E i \in DOMAIN waiters : waiters[i] = c /\ waiters' = RemoveAt(waiters, i)
     ELSE UNCHANGED waiters
  /\ Return(c, Failure)
  /\ \/ UNCHANGED stdin
     \/ step[c] = "writing" /\ stdin \in {"open", "full"} /\ stdin' = "half"
  /\ UNCHANGED <<phase, registry, sentId, nextId, pending, reader, received>>

Collect(c) ==
  /\ step[c] = "done"
  /\ step' = [step EXCEPT ![c] = "idle"]
  /\ got' = [got EXCEPT ![c] = Nothing]
  /\ sentId' = [sentId EXCEPT ![c] = 0]
  /\ UNCHANGED <<phase, registry, mutex, waiters, nextId, pending, reader, stdin, received>>

(***************************************************************************)
(* The lines of the server, as dispatch_responses reads them.              *)
(***************************************************************************)
\* mutant: one call at a time, so whatever comes is its answer
AnyoneWaiting(id) == {u \in Users : step[u] = "waiting"}

WaitingFor(id) == {u \in Users : step[u] = "waiting" /\ sentId[u] = id}

\* Those who wait for an id of the set get the answer; it is pending no more.
Deliver(ids, answer) ==
  LET who == UNION {WaitingFor(id) : id \in ids \cap pending} IN
  /\ pending' = pending \ ids
  /\ got' = [u \in Users |-> IF u \in who THEN answer ELSE got[u]]
  /\ step' = [u \in Users |-> IF u \in who THEN "done" ELSE step[u]]
  /\ mutex' = IF mutex \in who \ {Loader} THEN Nobody ELSE mutex

\* The server answers what it understood, once or again, in any order, now or
\* long after: with a result, or with what call_tool turns into an error.
Answer(id) ==
  /\ reader = "running" /\ id \in received
  /\ \E kind \in {"response", "failure"} : Deliver({id}, [kind |-> kind, id |-> id])
  /\ UNCHANGED <<phase, registry, waiters, sentId, nextId, reader, stdin, received>>

\* A line that does not parse, or is too long, fails whoever waits.
Garbage ==
  /\ reader = "running" /\ pending # {}
  /\ Deliver(pending, Failure)
  /\ UNCHANGED <<phase, registry, waiters, sentId, nextId, reader, stdin, received>>

ServerCloses ==
  /\ reader = "running"
  /\ Deliver(pending, Failure)
  /\ reader' = "stopped"
  /\ stdin' \in {stdin, "closed"}
  /\ UNCHANGED <<phase, registry, waiters, sentId, nextId, received>>

\* The server stops reading, or reads on.
PipeFills ==
  /\ \/ stdin = "open" /\ stdin' = "full"
     \/ stdin = "full" /\ stdin' = "open"
  /\ UNCHANGED <<phase, registry, mutex, waiters, step, sentId, got, nextId,
                 pending, reader, received>>

McpNext ==
  \/ Skip \/ Connect \/ Loaded \/ Notify \/ TakeMutex \/ Garbage \/ ServerCloses \/ PipeFills
  \/ \E c \in Callers : CallTool(c) \/ Drop(c) \/ Collect(c)
  \/ \E u \in Users : Register(u) \/ WriteMessage(u) \/ WriteMessageFails(u) \/ ResponseTimesOut(u)
  \/ \E id \in 1 .. MaxIds : Answer(id)

\* The runtime runs what is ready and fires the timers: RESPONSE_TIMEOUT and
\* the loop's limit around each call. Nothing is asked of the server.
McpFairness ==
  /\ WF_mcpvars(TakeMutex) /\ WF_mcpvars(Loaded) /\ WF_mcpvars(Notify)
  /\ \A c \in Callers : WF_mcpvars(Drop(c))
  /\ \A u \in Users :
       /\ WF_mcpvars(Register(u)) /\ WF_mcpvars(WriteMessage(u)) /\ WF_mcpvars(WriteMessageFails(u))
       /\ WF_mcpvars(ResponseTimesOut(u))

-----------------------------------------------------------------------------

\* A caller is only ever given the answer to its own request, however late
\* the server answers those that were given up; the client is held by a call
\* that is under way; nobody's built-in tool is replaced by a server's, and
\* no disabled name is registered.
AnswersOwn ==
  /\ \A u \in Users : got[u].kind = "response" => got[u].id = sentId[u]
  /\ mutex \in Callers => step[mutex] \in {"asking", "writing", "waiting"}
  /\ \A n \in DOMAIN registry :
       IF n \in BuiltinNames THEN registry[n] = "builtin" ELSE n \notin Disabled

\* Every call ends, whatever the server does.
McpCallEnds == \A c \in Callers : (step[c] = "queued") ~> (step[c] \in {"done", "idle"})
=============================================================================
