------------------------------ MODULE LockTable ------------------------------
(***************************************************************************)
(* The state of FileLockManager for one normalised path, and what each of  *)
(* its operations does to it.  Two DashMaps keyed by path (`locks` and     *)
(* `write_queue`) are read as one function from paths to PathState; every  *)
(* operation of the manager works on its paths one at a time, so an        *)
(* operation on several paths is the same transformer applied to each.     *)
(*                                                                         *)
(* `holders` is the Vec<FileLock> of the path, as a set: nothing reads its *)
(* order.  An absent map entry is an empty set or an empty sequence.       *)
(* Aliases of a path (normalize_path) are one element of File.             *)
(***************************************************************************)
EXTENDS Naturals, Sequences

CONSTANTS
  Agent,    \* the sub-agents' ids
  File      \* normalised paths

Mode == {"read", "write"}
FileLock == [agent : Agent, mode : Mode]
PathState == [holders : SUBSET FileLock, queue : Seq(Agent)]

NoLocks == [holders |-> {}, queue |-> <<>>]

Lock(a, m) == [agent |-> a, mode |-> m]
HoldsAny(p, a) == \E h \in p.holders : h.agent = a
HoldsWrite(p, a) == Lock(a, "write") \in p.holders
WriteLocked(p) == \E h \in p.holders : h.mode = "write"
Queued(p, a) == \E i \in DOMAIN p.queue : p.queue[i] = a

-----------------------------------------------------------------------------
(* acquire_read: what the agent already holds grants it; else only another *)
(* agent's write lock refuses it.  Waiting writers do not hold it back.    *)
ReadGranted(p, a) == HoldsAny(p, a) \/ ~WriteLocked(p)

AcquireReadIgnoringWriter(p, a) ==   \* mutant
  [p EXCEPT !.holders = @ \cup {Lock(a, "read")}]

AcquireRead(p, a) ==
  IF HoldsAny(p, a) \/ WriteLocked(p)
  THEN p
  ELSE [p EXCEPT !.holders = @ \cup {Lock(a, "read")}]

(* acquire_write: granted to the agent that already holds it and on a path *)
(* nobody holds; otherwise the agent is queued, once.                      *)
WriteGrantedAmongReaders(p, a) == HoldsWrite(p, a) \/ ~WriteLocked(p)   \* mutant

WriteGranted(p, a) == HoldsWrite(p, a) \/ p.holders = {}

AcquireWrite(p, a) ==
  IF WriteGranted(p, a)
  THEN [p EXCEPT !.holders = @ \cup {Lock(a, "write")}]
  ELSE IF Queued(p, a) THEN p ELSE [p EXCEPT !.queue = Append(@, a)]

-----------------------------------------------------------------------------
(* The handoff of release and release_all: when the last holder leaves, the *)
(* writer at the head of the queue becomes the holder in the same step.    *)
HandoffDropped(p) == p   \* mutant

HandoffToLast(p) ==
  IF p.holders = {} /\ p.queue # <<>>
  THEN [holders |-> {Lock(p.queue[Len(p.queue)], "write")},
        queue |-> SubSeq(p.queue, 1, Len(p.queue) - 1)]
  ELSE p

Handoff(p) ==
  IF p.holders = {} /\ p.queue # <<>>
  THEN [holders |-> {Lock(Head(p.queue), "write")}, queue |-> Tail(p.queue)]
  ELSE p

(* release: one path; an absent entry is left alone, and the agent's own   *)
(* place in the queue is not given up.                                     *)
Release(p, a) ==
  IF p.holders = {}
  THEN p
  ELSE Handoff([p EXCEPT !.holders = {h \in @ : h.agent # a}])

(* queue.retain(|writer| writer.agent_id != agent_id): an agent is in a    *)
(* queue at most once (WaitsOnce), so its one entry is cut out.            *)
Unqueue(p, a) ==
  IF Queued(p, a)
  THEN LET i == CHOOSE i \in DOMAIN p.queue : p.queue[i] = a
       IN  [p EXCEPT !.queue = SubSeq(@, 1, i - 1) \o SubSeq(@, i + 1, Len(@))]
  ELSE p

(* release_all, on each path: the pending request goes first, then the     *)
(* locks; a path the agent holds nothing on is skipped.                    *)
ReleaseAllKeepingRequests(p, a) ==   \* mutant
  IF HoldsAny(p, a) THEN Release(p, a) ELSE p

ReleaseAll(p, a) ==
  LET q == Unqueue(p, a)
  IN  IF HoldsAny(q, a) THEN Release(q, a) ELSE q

-----------------------------------------------------------------------------
(* What a path's state must satisfy: the rules of FileLockManager's doc,   *)
(* and what the operations rely on to keep them.                           *)

(* A write lock is the only lock on its path, and an agent has one lock on *)
(* a path at most.                                                         *)
Exclusive(p) ==
  \A g, h \in p.holders : (g.mode = "write" \/ g.agent = h.agent) => g = h

(* Only release hands a lock on, so a writer queued on a path nobody holds *)
(* would wait for ever.                                                    *)
NoneForgotten(p) == p.queue # <<>> => p.holders # {}

(* An agent waits once for a path, and never behind its own write lock.    *)
WaitsOnce(p) ==
  \A i, j \in DOMAIN p.queue :
     /\ p.queue[i] = p.queue[j] => i = j
     /\ ~HoldsWrite(p, p.queue[i])

PathInv(p) == Exclusive(p) /\ NoneForgotten(p) /\ WaitsOnce(p)

(* From p to r nobody who is still waiting was overtaken by a new writer.  *)
InOrder(p, r) ==
  \A a \in Agent : HoldsWrite(r, a) /\ ~HoldsWrite(p, a) =>
     \A i \in DOMAIN p.queue : Queued(r, p.queue[i]) =>
        \E j \in 1..(i - 1) : p.queue[j] = a

==============================================================================
