------------------------------- MODULE WsHub --------------------------------
(***************************************************************************)
(* The WebSocket connections of the gateway (odin-gateway/src/ws.rs).      *)
(*                                                                         *)
(* Every connection has an entry in the registry with the scopes it is     *)
(* subscribed to and a bounded broadcast channel of its own; a forwarder   *)
(* task writes what is in the channel to the socket while the read loop    *)
(* handles what the client sends. The HTTP side broadcasts events to the   *)
(* interested entries and removes those whose forwarder has ended.         *)
(*                                                                         *)
(* The registry and the connection count are two variables, updated one    *)
(* after the other; whether there is room is looked up before the upgrade. *)
(***************************************************************************)
EXTENDS Integers, Sequences, FiniteSets, SequencesExt

CONSTANTS
  Client,
  Scope,            \* the names of task, run and stream scopes
  Capacity,         \* of a connection's channel
  MaxConnections,   \* WsConfig.max_connections
  MaxEvents,        \* bound: events the HTTP side broadcasts
  MaxRequests       \* bound: client -> the messages it sends

ASSUME HubAssumption == /\ Capacity \in Nat \ {0}
                        /\ {MaxConnections, MaxEvents} \subseteq Nat
                        /\ MaxRequests \in [Client -> Nat]

VARIABLES
  conn,       \* client -> where its read loop is
  forwarder,  \* client -> [pc, hand]: the task that writes to the socket
  registry,   \* the clients with an entry
  scopes,     \* client -> the scopes of its entry
  queue,      \* client -> its channel: events and replies, oldest first
  count,      \* connection_count
  leaving,    \* the clients whose entry is gone and not yet counted down
  pending,    \* the clients a broadcast found closed and has yet to remove
  events,     \* history: the scope of each event broadcast
  since,      \* history: client -> scope -> events sent before it subscribed
  got, lost,  \* history: client -> events written to it, lagged over
  requests    \* client -> messages it has sent

hubvars == <<conn, forwarder, registry, scopes, queue, count, leaving, pending, events,
          since, got, lost, requests>>
hubhistory == <<events, since, got, lost>>

Reply == 0           \* any answer to the client itself
Never == MaxEvents   \* nothing sent later can be missed

HubInit ==
  /\ conn = [c \in Client |-> "absent"]
  /\ forwarder = [c \in Client |-> [pc |-> "none", hand |-> <<>>]]
  /\ registry = {} /\ count = 0 /\ leaving = {} /\ pending = {}
  /\ scopes = [c \in Client |-> {}]
  /\ queue = [c \in Client |-> <<>>]
  /\ events = <<>>
  /\ since = [c \in Client |-> [s \in Scope |-> Never]]
  /\ got = [c \in Client |-> <<>>]
  /\ lost = [c \in Client |-> {}]
  /\ requests = [c \in Client |-> 0]

-----------------------------------------------------------------------------
(* Connecting: the check, the upgrade, the entry, the count.               *)

AtCapacity == count >= MaxConnections

Upgrade(c) ==
  /\ conn[c] = "absent"
  /\ conn' = [conn EXCEPT ![c] = IF AtCapacity THEN "refused" ELSE "upgrading"]
  /\ UNCHANGED <<forwarder, registry, scopes, queue, count, leaving, pending, hubhistory, requests>>

RegisterIsolated(c) ==
  /\ conn[c] = "upgrading"
  /\ registry' = registry \cup {c}
  /\ conn' = [conn EXCEPT ![c] = "registered"]
  /\ UNCHANGED <<forwarder, scopes, queue, count, leaving, pending, hubhistory, requests>>

(* The welcome is written before the socket is shared.                     *)
Welcome(c) ==
  /\ conn[c] = "registered"
  /\ count' = count + 1
  /\ forwarder' = [forwarder EXCEPT ![c].pc = "waiting"]
  /\ conn' = [conn EXCEPT ![c] = "reading"]
  /\ UNCHANGED <<registry, scopes, queue, leaving, pending, hubhistory, requests>>

-----------------------------------------------------------------------------
(* The channel: a full one forgets its oldest message.                     *)

Sent(q, m) == IF Len(q) < Capacity THEN Append(q, m) ELSE Append(Tail(q), m)

Forgotten(q) == IF Len(q) < Capacity THEN {} ELSE {Head(q)} \ {Reply}

Open(c) == c \in registry /\ forwarder[c].pc # "ended"

(* Reaches only its own entry; without one, or a forwarder, it is dropped. *)
SendTo(c) ==
  /\ queue' = IF Open(c) THEN [queue EXCEPT ![c] = Sent(@, Reply)] ELSE queue
  /\ lost' = IF Open(c) THEN [lost EXCEPT ![c] = @ \cup Forgotten(queue[c])] ELSE lost

Receive(c) ==
  /\ conn[c] = "reading" /\ requests[c] < MaxRequests[c]
  /\ requests' = [requests EXCEPT ![c] = @ + 1]

(* subscribe, and task_submit with a scope: the entry is extended, then    *)
(* the client is told. A client whose entry is gone is told in vain.       *)
Subscribe(c, s) ==
  /\ Receive(c)
  /\ IF c \in registry
       THEN /\ scopes' = [scopes EXCEPT ![c] = @ \cup {s}]
            /\ since' = [since EXCEPT ![c][s] = IF s \in scopes[c] THEN @ ELSE Len(events)]
       ELSE UNCHANGED <<scopes, since>>
  /\ SendTo(c)
  /\ UNCHANGED <<conn, forwarder, registry, count, leaving, pending, events, got>>

(* status_query, a control command and its acknowledgement or refusal, a   *)
(* scope that is not one, task_submit without a scope.                     *)
Ask(c) ==
  /\ Receive(c)
  /\ SendTo(c)
  /\ UNCHANGED <<conn, forwarder, registry, scopes, count, leaving, pending, events, since, got>>

(* Close, or the end of the stream.                                        *)
Close(c) ==
  /\ conn[c] = "reading"
  /\ conn' = [conn EXCEPT ![c] = "closing"]
  /\ forwarder' = [forwarder EXCEPT ![c] = [pc |-> "ended", hand |-> <<>>]]
  /\ UNCHANGED <<registry, scopes, queue, count, leaving, pending, hubhistory, requests>>

-----------------------------------------------------------------------------
(* The forwarder.                                                          *)

Recv(c) ==
  /\ forwarder[c].pc = "waiting" /\ queue[c] # <<>>
  /\ forwarder' = [forwarder EXCEPT ![c] = [pc |-> "writing", hand |-> <<Head(queue[c])>>]]
  /\ queue' = [queue EXCEPT ![c] = Tail(@)]
  /\ UNCHANGED <<conn, registry, scopes, count, leaving, pending, hubhistory, requests>>

(* The lock on the socket and its back pressure are waited for here.       *)
Write(c) ==
  /\ forwarder[c].pc = "writing"
  /\ got' = [got EXCEPT ![c] = IF forwarder[c].hand = <<Reply>> THEN @ ELSE @ \o forwarder[c].hand]
  /\ forwarder' = [forwarder EXCEPT ![c] = [pc |-> "waiting", hand |-> <<>>]]
  /\ UNCHANGED <<conn, registry, scopes, queue, count, leaving, pending, events, since, lost, requests>>

SocketFails(c) ==
  /\ forwarder[c].pc = "writing"
  /\ forwarder' = [forwarder EXCEPT ![c] = [pc |-> "ended", hand |-> <<>>]]
  /\ UNCHANGED <<conn, registry, scopes, queue, count, leaving, pending, hubhistory, requests>>

-----------------------------------------------------------------------------
(* Broadcast and clean-up.                                                 *)

Everybody(s) == registry   \* mutant

Interested(s) == {c \in registry : s \in scopes[c]}

Broadcast(s) ==
  /\ Len(events) < MaxEvents
  /\ events' = Append(events, s)
  /\ LET to == {c \in Interested(s) : Open(c)} IN
       /\ queue' = [c \in Client |-> IF c \in to THEN Sent(queue[c], Len(events'))
                                     ELSE queue[c]]
       /\ lost' = [c \in Client |-> IF c \in to THEN lost[c] \cup Forgotten(queue[c])
                                    ELSE lost[c]]
  /\ pending' = pending \cup {c \in Interested(s) : ~Open(c)}
  /\ UNCHANGED <<conn, forwarder, registry, scopes, count, leaving, since, got, requests>>

(* Counted down, in a step of its own, only by the one of read loop and    *)
(* broadcast that finds the entry, and never below zero.                   *)
RemoveEntry(c) ==
  /\ registry' = registry \ {c}
  /\ leaving' = leaving \cup ({c} \cap registry)
  /\ UNCHANGED count

CountDown(c) ==
  /\ c \in leaving
  /\ leaving' = leaving \ {c}
  /\ count' = IF count > 0 THEN count - 1 ELSE count
  /\ UNCHANGED <<conn, forwarder, registry, scopes, queue, pending, hubhistory, requests>>

RemoveClosed(c) ==
  /\ c \in pending
  /\ RemoveEntry(c)
  /\ pending' = pending \ {c}
  /\ UNCHANGED <<conn, forwarder, scopes, queue, hubhistory, requests>>

CleanUp(c) ==
  /\ conn[c] = "closing"
  /\ RemoveEntry(c)
  /\ conn' = [conn EXCEPT ![c] = "gone"]
  /\ UNCHANGED <<forwarder, scopes, queue, pending, hubhistory, requests>>

-----------------------------------------------------------------------------
Connection(c) ==
  \/ Upgrade(c) \/ RegisterIsolated(c) \/ Welcome(c) \/ Ask(c) \/ Close(c)
  \/ Recv(c) \/ Write(c) \/ SocketFails(c) \/ RemoveClosed(c) \/ CleanUp(c) \/ CountDown(c)
  \/ \E s \in Scope : Subscribe(c, s)

HubNext == (\E c \in Client : Connection(c)) \/ (\E s \in Scope : Broadcast(s))

(* Tasks that are ready are polled; a socket takes or refuses what is      *)
(* written to it. Nothing makes a client connect, speak or close.          *)
HubFairness ==
  \A c \in Client :
    /\ WF_hubvars(RegisterIsolated(c)) /\ WF_hubvars(Welcome(c)) /\ WF_hubvars(CleanUp(c))
    /\ WF_hubvars(Recv(c)) /\ WF_hubvars(Write(c) \/ SocketFails(c)) /\ WF_hubvars(RemoveClosed(c))
    /\ WF_hubvars(CountDown(c))

HubSpec == HubInit /\ [][HubNext]_hubvars

HubFairSpec == HubSpec /\ HubFairness

-----------------------------------------------------------------------------
EventsIn(q) == {q[i] : i \in DOMAIN q} \ {Reply}

(* What a client is owed: the events of each of its scopes from the moment *)
(* on at which it subscribed.                                              *)
Owed(c) == {e \in DOMAIN events : e > since[c][events[e]]}

(* A client gets the events of the streams it subscribed to and no other,  *)
(* in the order they were sent; what is missing is still under way or was  *)
(* forgotten because the client was slower than a full channel             *)
(* (ws.rs:535-565, and the promise of isolated_subscribers_receive_only_   *)
(* their_stream).                                                          *)
ExactStream ==
  \A c \in Client :
    /\ \A i, j \in DOMAIN got[c] : i < j => got[c][i] < got[c][j]
    /\ Open(c) =>
         EventsIn(got[c]) \cup EventsIn(forwarder[c].hand) \cup EventsIn(queue[c])
           \cup lost[c] = Owed(c)

(* However the clean-up of a broadcast races the one of the read loop, the *)
(* count is the number of entries, but for connections that are between    *)
(* the two updates of their arrival or of their departure.                 *)
CountIsRegistry ==
  /\ registry \cap leaving = {}
  /\ count = Cardinality({c \in registry \cup leaving : conn[c] # "registered"})

(* A connection that is over leaves no entry behind and no place in the    *)
(* count, whoever removes it, and a client that stays reads on: once the   *)
(* last message is sent, everything queued is written, unless the          *)
(* connection takes it along.                                              *)
NoGhosts ==
  <>[](\A c \in Client : /\ conn[c] = "closing" => c \notin registry
                         /\ c \notin leaving
                         /\ Open(c) => queue[c] = <<>>)

(* WsConfig.max_connections (ws.rs:52): "Max connections."                 *)
WithinCapacity == count <= MaxConnections
=============================================================================
