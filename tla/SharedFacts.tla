---------------------------- MODULE SharedFacts -----------------------------
(***************************************************************************)
(* Facts that the proofs of several modules cite: what the operations on   *)
(* one path of the lock table preserve and establish, for every set of     *)
(* agents; and what picking some positions of a sequence gives, and        *)
(* keeping its last ones, for every sequence.                              *)
(***************************************************************************)
EXTENDS LockTable, Positions, Integers, SequencesExt, FiniteSetTheorems,
        SequenceTheorems, TLAPS

(* What matters to agents other than the one that calls: they keep what    *)
(* they hold, and they appear on the path only if they were there before.  *)
Undisturbed(p, r, a) ==
  \A b \in Agent \ {a} :
     /\ HoldsWrite(p, b) => HoldsWrite(r, b)
     /\ HoldsAny(p, b) => HoldsAny(r, b)
     /\ Queued(r, b) => Queued(p, b)
     /\ HoldsAny(r, b) => HoldsAny(p, b) \/ Queued(p, b)

(* An absent lock entry is a sound one. *)
LEMMA NoLocksSound == NoLocks \in PathState /\ PathInv(NoLocks)
  BY DEF NoLocks, PathState, PathInv, Exclusive, NoneForgotten, WaitsOnce

(* acquire_read keeps the rules of the table, disturbs nobody and gives    *)
(* the agent a lock whenever it reports success.                           *)
LEMMA AcquireReadFacts ==
  ASSUME NEW p \in PathState, NEW a \in Agent, PathInv(p)
  PROVE  /\ AcquireRead(p, a) \in PathState
         /\ PathInv(AcquireRead(p, a))
         /\ Undisturbed(p, AcquireRead(p, a), a)
         /\ ReadGranted(p, a) => HoldsAny(AcquireRead(p, a), a)
         /\ HoldsAny(p, a) => HoldsAny(AcquireRead(p, a), a)
         /\ HoldsWrite(p, a) => HoldsWrite(AcquireRead(p, a), a)
<1>1. CASE HoldsAny(p, a) \/ WriteLocked(p)
  BY <1>1 DEF AcquireRead, Undisturbed, ReadGranted
<1>2. CASE ~(HoldsAny(p, a) \/ WriteLocked(p))
  <2> DEFINE r == [p EXCEPT !.holders = @ \cup {Lock(a, "read")}]
  <2>1. AcquireRead(p, a) = r
    BY <1>2 DEF AcquireRead
  <2>2. /\ r.holders = p.holders \cup {Lock(a, "read")}
        /\ r.queue = p.queue
        /\ r \in PathState
    BY DEF PathState, Lock, FileLock, Mode
  <2>3. PathInv(r)
    BY <1>2, <2>2
    DEF PathInv, Exclusive, NoneForgotten, WaitsOnce, HoldsWrite, HoldsAny,
        WriteLocked, Lock, PathState, FileLock
  <2>4. Undisturbed(p, r, a) /\ HoldsAny(r, a) /\ (HoldsWrite(p, a) => HoldsWrite(r, a))
    BY <2>2 DEF Undisturbed, HoldsWrite, HoldsAny, Queued, Lock
  <2>5. QED
    BY <2>1, <2>2, <2>3, <2>4
<1>3. QED
  BY <1>1, <1>2

(* acquire_write likewise; an agent that is refused is now in the queue.   *)
LEMMA AcquireWriteFacts ==
  ASSUME NEW p \in PathState, NEW a \in Agent, PathInv(p)
  PROVE  /\ AcquireWrite(p, a) \in PathState
         /\ PathInv(AcquireWrite(p, a))
         /\ Undisturbed(p, AcquireWrite(p, a), a)
         /\ WriteGranted(p, a) => HoldsWrite(AcquireWrite(p, a), a)
         /\ HoldsAny(p, a) => HoldsAny(AcquireWrite(p, a), a)
<1>1. CASE WriteGranted(p, a)
  <2> DEFINE r == [p EXCEPT !.holders = @ \cup {Lock(a, "write")}]
  <2>1. AcquireWrite(p, a) = r
    BY <1>1 DEF AcquireWrite
  <2>2. /\ r.holders = p.holders \cup {Lock(a, "write")}
        /\ r.queue = p.queue
        /\ r \in PathState
    BY DEF PathState, Lock, FileLock, Mode
  <2>3. CASE HoldsWrite(p, a)
    <3>1. r.holders = p.holders
      BY <2>2, <2>3 DEF HoldsWrite
    <3>2. r = p
      BY <3>1, <2>2 DEF PathState
    <3>3. QED
      BY <3>2, <2>1, <2>3 DEF Undisturbed
  <2>4. CASE p.holders = {}
    <3>1. r.holders = {Lock(a, "write")} /\ r.queue = <<>>
      BY <2>2, <2>4 DEF PathInv, NoneForgotten
    <3>2. PathInv(r)
      BY <3>1 DEF PathInv, Exclusive, NoneForgotten, WaitsOnce
    <3>3. Undisturbed(p, r, a) /\ HoldsWrite(r, a)
      BY <3>1, <2>4, <2>2 DEF Undisturbed, HoldsWrite, HoldsAny, Queued, Lock
    <3>4. HoldsAny(r, a)
      <4>1. Lock(a, "write").agent = a
        BY DEF Lock
      <4>2. QED
        BY <3>1, <4>1 DEF HoldsAny
    <3>5. QED
      BY <2>1, <2>2, <3>2, <3>3, <3>4
  <2>5. QED
    BY <1>1, <2>3, <2>4 DEF WriteGranted
<1>2. CASE ~WriteGranted(p, a) /\ Queued(p, a)
  BY <1>2 DEF AcquireWrite, Undisturbed
<1>3. CASE ~WriteGranted(p, a) /\ ~Queued(p, a)
  <2> DEFINE r == [p EXCEPT !.queue = Append(@, a)]
  <2>1. AcquireWrite(p, a) = r
    BY <1>3 DEF AcquireWrite
  <2>2. /\ r.holders = p.holders
        /\ r.queue = Append(p.queue, a)
        /\ r \in PathState
        /\ p.queue \in Seq(Agent)
    BY DEF PathState
  <2>3. /\ DOMAIN r.queue = 1..(Len(p.queue) + 1)
        /\ DOMAIN p.queue = 1..Len(p.queue)
        /\ Len(p.queue) \in Nat
        /\ \A i \in DOMAIN p.queue : r.queue[i] = p.queue[i]
        /\ r.queue[Len(p.queue) + 1] = a
    BY <2>2
  <2>4. \A i \in DOMAIN p.queue : p.queue[i] # a
    BY <1>3 DEF Queued
  <2>5. PathInv(r)
    <3>1. Exclusive(r) /\ NoneForgotten(r)
      BY <1>3, <2>2 DEF PathInv, Exclusive, NoneForgotten, WriteGranted
    <3>2. WaitsOnce(r)
      <4> SUFFICES ASSUME NEW i \in DOMAIN r.queue, NEW j \in DOMAIN r.queue
                   PROVE  /\ r.queue[i] = r.queue[j] => i = j
                          /\ ~HoldsWrite(r, r.queue[i])
        BY DEF WaitsOnce
      <4>1. \A k \in DOMAIN r.queue : k \in DOMAIN p.queue \/ k = Len(p.queue) + 1
        BY <2>3
      <4>2. r.queue[i] = r.queue[j] => i = j
        BY <2>3, <2>4, <4>1 DEF PathInv, WaitsOnce
      <4>3. ~HoldsWrite(r, r.queue[i])
        BY <1>3, <2>2, <2>3, <4>1 DEF PathInv, WaitsOnce, HoldsWrite, WriteGranted
      <4>4. QED
        BY <4>2, <4>3
    <3>3. QED
      BY <3>1, <3>2 DEF PathInv
  <2>6. Undisturbed(p, r, a) /\ (HoldsAny(p, a) => HoldsAny(r, a))
    BY <2>2, <2>3 DEF Undisturbed, HoldsWrite, HoldsAny, Queued
  <2>7. QED
    BY <1>3, <2>1, <2>2, <2>5, <2>6
<1>4. QED
  BY <1>1, <1>2, <1>3

-----------------------------------------------------------------------------
(* Cutting an agent's own entry out of the queue removes the agent, keeps  *)
(* everyone else and keeps each waiting at most once.                      *)
LEMMA UnqueueFacts ==
  ASSUME NEW p \in PathState, NEW a \in Agent, Exclusive(p), WaitsOnce(p)
  PROVE  /\ Unqueue(p, a) \in PathState
         /\ Unqueue(p, a).holders = p.holders
         /\ WaitsOnce(Unqueue(p, a))
         /\ ~Queued(Unqueue(p, a), a)
         /\ \A b \in Agent : Queued(Unqueue(p, a), b) => Queued(p, b)
         /\ NoneForgotten(p) => NoneForgotten(Unqueue(p, a))
<1>1. CASE ~Queued(p, a)
  BY <1>1 DEF Unqueue
<1>2. CASE Queued(p, a)
  <2> DEFINE q == p.queue
             n == Len(p.queue)
             i == CHOOSE k \in DOMAIN p.queue : p.queue[k] = a
             s == SubSeq(q, 1, i - 1) \o SubSeq(q, i + 1, n)
             r == [p EXCEPT !.queue = s]
  <2>1. /\ q \in Seq(Agent)
        /\ n \in Nat
        /\ DOMAIN q = 1..n
        /\ i \in 1..n
        /\ q[i] = a
    BY <1>2 DEF Queued, PathState
  <2>2. Unqueue(p, a) = r
    BY <1>2 DEF Unqueue
  <2> HIDE DEF i
  <2>3. /\ SubSeq(q, 1, i - 1) \in Seq(Agent)
        /\ Len(SubSeq(q, 1, i - 1)) = i - 1
        /\ \A k \in 1..(i - 1) : SubSeq(q, 1, i - 1)[k] = q[k]
    BY <2>1
  <2>4. /\ SubSeq(q, i + 1, n) \in Seq(Agent)
        /\ Len(SubSeq(q, i + 1, n)) = n - i
        /\ \A k \in 1..(n - i) : SubSeq(q, i + 1, n)[k] = q[i + k]
    BY <2>1
  <2>5. /\ s \in Seq(Agent)
        /\ Len(s) = n - 1
        /\ DOMAIN s = 1..(n - 1)
        /\ \A k \in 1..(n - 1) : s[k] = IF k < i THEN q[k] ELSE q[k + 1]
    <3> DEFINE u == SubSeq(q, 1, i - 1)
               v == SubSeq(q, i + 1, n)
    <3>1. /\ u \in Seq(Agent) /\ v \in Seq(Agent)
          /\ Len(u) = i - 1 /\ Len(v) = n - i
          /\ \A k \in 1..(i - 1) : u[k] = q[k]
          /\ \A k \in 1..(n - i) : v[k] = q[i + k]
      BY <2>3, <2>4
    <3>2. s = u \o v
      OBVIOUS
    <3> HIDE DEF u, v, s
    <3>3. s \in Seq(Agent) /\ Len(s) = n - 1 /\ DOMAIN s = 1..(n - 1)
      BY <2>1, <3>1, <3>2
    <3>4. ASSUME NEW k \in 1..(n - 1), k < i
          PROVE  s[k] = q[k]
      BY <2>1, <3>1, <3>2, <3>4
    <3>5. ASSUME NEW k \in 1..(n - 1), ~(k < i)
          PROVE  s[k] = q[k + 1]
      <4>1. s[k] = v[k - (i - 1)] /\ k - (i - 1) \in 1..(n - i)
        BY <2>1, <3>1, <3>2, <3>5
      <4>2. v[k - (i - 1)] = q[i + (k - (i - 1))] /\ i + (k - (i - 1)) = k + 1
        BY <2>1, <3>1, <4>1
      <4>3. QED
        BY <4>1, <4>2
    <3>6. QED
      BY <3>3, <3>4, <3>5
  <2>6. r \in PathState /\ r.holders = p.holders /\ r.queue = s
    BY <2>5 DEF PathState
  <2> HIDE DEF s
  <2>7. \A j, k \in 1..n : q[j] = q[k] => j = k
    BY <2>1 DEF WaitsOnce
  <2> DEFINE at(k) == IF k < i THEN k ELSE k + 1
  <2>a. ASSUME NEW k \in 1..(n - 1)
        PROVE  /\ at(k) \in 1..n
               /\ at(k) # i
               /\ s[k] = q[at(k)]
    <3>1. at(k) \in 1..n /\ at(k) # i
      BY <2>1
    <3>2. s[k] = q[at(k)]
      BY <2>5
    <3>3. QED
      BY <3>1, <3>2
  <2>b. ASSUME NEW j \in 1..(n - 1), NEW k \in 1..(n - 1), at(j) = at(k)
        PROVE  j = k
    BY <2>1, <2>b
  <2> HIDE DEF at, q, n
  <2>8. ASSUME NEW k \in 1..(n - 1)
        PROVE  s[k] # a
    BY <2>1, <2>7, <2>a
  <2>9. ASSUME NEW k \in 1..(n - 1)
        PROVE  \E j \in 1..n : s[k] = q[j]
    BY <2>a
  <2>10. ASSUME NEW j \in 1..(n - 1), NEW k \in 1..(n - 1), s[j] = s[k]
         PROVE  j = k
    <3>1. at(j) = at(k)
      BY <2>7, <2>a, <2>10
    <3>2. QED
      BY <3>1, <2>b
  <2> USE DEF q, n
  <2>11. WaitsOnce(r)
    BY <2>1, <2>5, <2>6, <2>9, <2>10 DEF WaitsOnce, HoldsWrite
  <2>12. ~Queued(r, a) /\ \A b \in Agent : Queued(r, b) => Queued(p, b)
    BY <2>1, <2>5, <2>6, <2>8, <2>9 DEF Queued
  <2>13. NoneForgotten(p) => NoneForgotten(r)
    BY <2>1, <2>6 DEF NoneForgotten
  <2>14. QED
    BY <2>2, <2>6, <2>11, <2>12, <2>13
<1>3. QED
  BY <1>1, <1>2

(* The handoff makes the head of the queue the only holder of a path that  *)
(* nobody holds any more, and restores the rule that nobody is forgotten.  *)
LEMMA HandoffFacts ==
  ASSUME NEW p \in PathState, Exclusive(p), WaitsOnce(p)
  PROVE  /\ Handoff(p) \in PathState
         /\ PathInv(Handoff(p))
         /\ \A b \in Agent :
              /\ HoldsWrite(p, b) => HoldsWrite(Handoff(p), b)
              /\ HoldsAny(p, b) => HoldsAny(Handoff(p), b)
              /\ Queued(Handoff(p), b) => Queued(p, b)
              /\ HoldsAny(Handoff(p), b) => HoldsAny(p, b) \/ Queued(p, b)
<1>1. CASE ~(p.holders = {} /\ p.queue # <<>>)
  BY <1>1 DEF Handoff, PathInv, NoneForgotten
<1>2. CASE p.holders = {} /\ p.queue # <<>>
  <2> DEFINE q == p.queue
             n == Len(p.queue)
             r == [holders |-> {Lock(Head(q), "write")}, queue |-> Tail(q)]
  <2>1. /\ q \in Seq(Agent)
        /\ n \in Nat \ {0}
        /\ DOMAIN q = 1..n
        /\ Head(q) = q[1]
        /\ q[1] \in Agent
    BY <1>2 DEF PathState
  <2>2. /\ Tail(q) \in Seq(Agent)
        /\ Len(Tail(q)) = n - 1
        /\ DOMAIN Tail(q) = 1..(n - 1)
        /\ \A k \in 1..(n - 1) : Tail(q)[k] = q[k + 1]
    BY <1>2, <2>1
  <2>3. Handoff(p) = r
    BY <1>2 DEF Handoff
  <2>4. r.holders = {Lock(q[1], "write")} /\ r.queue = Tail(q) /\ r \in PathState
    BY <2>1, <2>2 DEF PathState, FileLock, Lock, Mode
  <2>5. \A j, k \in 1..n : q[j] = q[k] => j = k
    BY <2>1 DEF WaitsOnce
  <2>6. WaitsOnce(r)
    <3>1. \A j, k \in 1..(n - 1) : Tail(q)[j] = Tail(q)[k] => j = k
      BY <2>1, <2>2, <2>5
    <3>2. \A k \in 1..(n - 1) : Tail(q)[k] # q[1]
      BY <2>1, <2>2, <2>5
    <3>3. \A b : HoldsWrite(r, b) => b = q[1]
      BY <2>4 DEF HoldsWrite, Lock
    <3>4. QED
      BY <2>2, <2>4, <3>1, <3>2, <3>3 DEF WaitsOnce
  <2>7. Exclusive(r) /\ NoneForgotten(r)
    BY <2>4 DEF Exclusive, NoneForgotten
  <2>8. \A b \in Agent :
          /\ ~HoldsWrite(p, b)
          /\ ~HoldsAny(p, b)
          /\ Queued(r, b) => Queued(p, b)
          /\ HoldsAny(r, b) => Queued(p, b)
    <3>1. \A b : HoldsAny(r, b) => b = q[1]
      BY <2>4 DEF HoldsAny, Lock
    <3>2. \A b : Queued(r, b) => Queued(p, b)
      BY <2>1, <2>2, <2>4 DEF Queued
    <3>3. Queued(p, q[1])
      BY <2>1 DEF Queued
    <3>4. QED
      BY <1>2, <3>1, <3>2, <3>3 DEF HoldsWrite, HoldsAny
  <2>9. QED
    BY <2>3, <2>4, <2>6, <2>7, <2>8 DEF PathInv
<1>3. QED
  BY <1>1, <1>2

(* release, for any agent, whether it holds the path or not.               *)
LEMMA ReleaseFacts ==
  ASSUME NEW p \in PathState, NEW a \in Agent, Exclusive(p), WaitsOnce(p), NoneForgotten(p)
  PROVE  /\ Release(p, a) \in PathState
         /\ PathInv(Release(p, a))
         /\ Undisturbed(p, Release(p, a), a)
         /\ Queued(Release(p, a), a) => Queued(p, a)
         /\ HoldsAny(Release(p, a), a) => Queued(p, a)
<1>1. CASE p.holders = {}
  BY <1>1 DEF Release, PathInv, Undisturbed, HoldsAny
<1>2. CASE p.holders # {}
  <2> DEFINE r == [p EXCEPT !.holders = {h \in @ : h.agent # a}]
  <2>1. Release(p, a) = Handoff(r)
    BY <1>2 DEF Release
  <2>2. /\ r.holders = {h \in p.holders : h.agent # a}
        /\ r.queue = p.queue
        /\ r \in PathState
    BY DEF PathState
  <2>3. Exclusive(r) /\ WaitsOnce(r)
    BY <2>2 DEF Exclusive, WaitsOnce, HoldsWrite
  <2>4. /\ ~HoldsAny(r, a)
        /\ \A b \in Agent : Queued(r, b) <=> Queued(p, b)
        /\ \A b \in Agent \ {a} : HoldsAny(r, b) <=> HoldsAny(p, b)
        /\ \A b \in Agent \ {a} : HoldsWrite(p, b) => HoldsWrite(r, b)
    BY <2>2 DEF HoldsAny, HoldsWrite, Queued, Lock
  <2> HIDE DEF r
  <2>5. QED
    BY <2>1, <2>2, <2>3, <2>4, HandoffFacts DEF Undisturbed
<1>3. QED
  BY <1>1, <1>2

(* release_all leaves nothing of the agent on the path: no lock, and no    *)
(* request that could be granted later.                                    *)
LEMMA ReleaseAllFacts ==
  ASSUME NEW p \in PathState, NEW a \in Agent, PathInv(p)
  PROVE  /\ ReleaseAll(p, a) \in PathState
         /\ PathInv(ReleaseAll(p, a))
         /\ Undisturbed(p, ReleaseAll(p, a), a)
         /\ ~HoldsAny(ReleaseAll(p, a), a)
         /\ ~Queued(ReleaseAll(p, a), a)
<1> DEFINE q == Unqueue(p, a)
<1>1. /\ q \in PathState
      /\ q.holders = p.holders
      /\ PathInv(q)
      /\ ~Queued(q, a)
      /\ \A b \in Agent : Queued(q, b) => Queued(p, b)
  BY UnqueueFacts DEF PathInv, Exclusive
<1>2. \A b : /\ HoldsAny(q, b) <=> HoldsAny(p, b)
             /\ HoldsWrite(q, b) <=> HoldsWrite(p, b)
  BY <1>1 DEF HoldsAny, HoldsWrite
<1>3. ReleaseAll(p, a) = IF HoldsAny(q, a) THEN Release(q, a) ELSE q
  BY DEF ReleaseAll
<1> HIDE DEF q
<1>4. CASE HoldsAny(q, a)
  BY <1>1, <1>2, <1>3, <1>4, ReleaseFacts DEF Undisturbed, PathInv
<1>5. CASE ~HoldsAny(q, a)
  BY <1>1, <1>2, <1>3, <1>5 DEF Undisturbed
<1>6. QED
  BY <1>4, <1>5

-----------------------------------------------------------------------------
(* FIFO: no operation makes an agent the writer of a path past somebody    *)
(* who has been waiting longer and still waits.                            *)
LEMMA AcquireReadInOrder ==
  ASSUME NEW p \in PathState, NEW a \in Agent
  PROVE  InOrder(p, AcquireRead(p, a))
<1> DEFINE r == [p EXCEPT !.holders = @ \cup {Lock(a, "read")}]
<1>1. AcquireRead(p, a) \in {p, r}
  BY DEF AcquireRead
<1>2. r.holders = p.holders \cup {Lock(a, "read")}
  BY DEF PathState
<1>3. \A b \in Agent : HoldsWrite(r, b) => HoldsWrite(p, b)
  BY <1>2 DEF HoldsWrite, Lock
<1>4. QED
  BY <1>1, <1>3 DEF InOrder

LEMMA AcquireWriteInOrder ==
  ASSUME NEW p \in PathState, NEW a \in Agent, PathInv(p)
  PROVE  InOrder(p, AcquireWrite(p, a))
<1>1. CASE p.holders = {}
  <2>1. DOMAIN p.queue = {}
    BY <1>1 DEF PathInv, NoneForgotten
  <2>2. QED
    BY <2>1 DEF InOrder
<1>2. CASE p.holders # {}
  <2>1. \A b \in Agent : HoldsWrite(AcquireWrite(p, a), b) => HoldsWrite(p, b)
    <3>1. CASE HoldsWrite(p, a)
      <4>1. AcquireWrite(p, a).holders = p.holders \cup {Lock(a, "write")}
        BY <3>1 DEF AcquireWrite, WriteGranted, PathState
      <4>2. QED
        BY <3>1, <4>1 DEF HoldsWrite
    <3>2. CASE ~HoldsWrite(p, a)
      <4>1. AcquireWrite(p, a).holders = p.holders
        BY <1>2, <3>2 DEF AcquireWrite, WriteGranted, PathState
      <4>2. QED
        BY <4>1 DEF HoldsWrite
    <3>3. QED
      BY <3>1, <3>2
  <2>2. QED
    BY <2>1 DEF InOrder
<1>3. QED
  BY <1>1, <1>2

(* The only writer a release makes is the head of the queue, and the head  *)
(* no longer waits.                                                        *)
LEMMA ReleaseMakesHeadWriter ==
  ASSUME NEW p \in PathState, NEW a \in Agent, PathInv(p),
         NEW b \in Agent, HoldsWrite(Release(p, a), b), ~HoldsWrite(p, b)
  PROVE  p.queue # <<>> /\ b = p.queue[1] /\ ~Queued(Release(p, a), b)
<1> DEFINE r == [p EXCEPT !.holders = {h \in @ : h.agent # a}]
<1>1. p.holders # {}
  BY DEF Release
<1>2. /\ Release(p, a) = Handoff(r)
      /\ r.holders \subseteq p.holders
      /\ r.queue = p.queue
  BY <1>1 DEF Release, PathState
<1> HIDE DEF r
<1>3. r.holders = {} /\ r.queue # <<>>
  BY <1>2 DEF Handoff, HoldsWrite
<1>4. Handoff(r) = [holders |-> {Lock(Head(r.queue), "write")}, queue |-> Tail(r.queue)]
  BY <1>3 DEF Handoff
<1>5. /\ p.queue \in Seq(Agent)
      /\ p.queue # <<>>
      /\ Handoff(r).holders = {Lock(p.queue[1], "write")}
      /\ Handoff(r).queue = Tail(p.queue)
  BY <1>2, <1>3, <1>4 DEF PathState
<1>6. b = p.queue[1]
  BY <1>2, <1>5 DEF HoldsWrite, Lock
<1>7. \A k \in DOMAIN Tail(p.queue) : Tail(p.queue)[k] = p.queue[k + 1] /\ k + 1 \in DOMAIN p.queue
        /\ k + 1 # 1
  BY <1>5
<1>8. ~Queued(Handoff(r), b)
  <2>1. \A k \in DOMAIN Tail(p.queue) : Tail(p.queue)[k] # p.queue[1]
    BY <1>5, <1>7 DEF PathInv, WaitsOnce
  <2>2. QED
    BY <1>5, <1>6, <2>1 DEF Queued
<1>9. QED
  BY <1>2, <1>5, <1>6, <1>8

LEMMA ReleaseInOrder ==
  ASSUME NEW p \in PathState, NEW a \in Agent, PathInv(p)
  PROVE  InOrder(p, Release(p, a))
<1> SUFFICES ASSUME NEW b \in Agent, HoldsWrite(Release(p, a), b), ~HoldsWrite(p, b),
                    NEW i \in DOMAIN p.queue, Queued(Release(p, a), p.queue[i])
             PROVE  \E j \in 1..(i - 1) : p.queue[j] = b
  BY DEF InOrder
<1>1. p.queue # <<>> /\ b = p.queue[1] /\ ~Queued(Release(p, a), b)
  BY ReleaseMakesHeadWriter
<1>2. i # 1 /\ i \in Nat \ {0}
  BY <1>1 DEF PathState
<1>3. 1 \in 1..(i - 1)
  BY <1>2
<1>4. QED
  BY <1>1, <1>3

(* Only the agent itself can have been ahead of who is first without it.   *)
LEMMA UnqueueHead ==
  ASSUME NEW p \in PathState, NEW a \in Agent, PathInv(p), Unqueue(p, a).queue # <<>>
  PROVE  \E j \in DOMAIN p.queue :
           /\ p.queue[j] = Unqueue(p, a).queue[1]
           /\ \A i \in 1..(j - 1) : p.queue[i] = a
<1>1. CASE ~Queued(p, a)
  <2>1. Unqueue(p, a).queue = p.queue /\ p.queue \in Seq(Agent)
    BY <1>1 DEF Unqueue, PathState
  <2>2. 1 \in DOMAIN p.queue /\ \A i \in 1..(1 - 1) : FALSE
    BY <2>1
  <2>3. QED
    BY <2>1, <2>2
<1>2. CASE Queued(p, a)
  <2> DEFINE q == p.queue
             n == Len(p.queue)
             i == CHOOSE k \in DOMAIN p.queue : p.queue[k] = a
             u == SubSeq(q, 1, i - 1)
             v == SubSeq(q, i + 1, n)
  <2>1. q \in Seq(Agent) /\ n \in Nat /\ DOMAIN q = 1..n /\ i \in 1..n /\ q[i] = a
    BY <1>2 DEF Queued, PathState
  <2>2. Unqueue(p, a).queue = u \o v
    BY <1>2 DEF Unqueue, PathState
  <2> HIDE DEF i
  <2>3. /\ u \in Seq(Agent) /\ Len(u) = i - 1
        /\ \A k \in 1..(i - 1) : u[k] = q[k]
        /\ v \in Seq(Agent) /\ Len(v) = n - i
        /\ \A k \in 1..(n - i) : v[k] = q[i + k]
    BY <2>1
  <2> HIDE DEF u, v
  <2>4. u \o v \in Seq(Agent) /\ Len(u \o v) = Len(u) + Len(v) /\ u \o v # <<>>
    BY <2>2, <2>3
  <2>4a. Len(u) + Len(v) # 0
    <3> DEFINE w == u \o v
    <3> HIDE DEF w
    <3>1. \A s \in Seq(Agent) : s # <<>> => Len(s) # 0
      OBVIOUS
    <3>2. w \in Seq(Agent) /\ w # <<>> /\ Len(w) = Len(u) + Len(v)
      BY <2>4 DEF w
    <3>3. QED
      BY <3>1, <3>2
  <2>5. CASE i = 1
    <3>1. Len(u) = 0 /\ Len(v) = n - 1 /\ Len(v) # 0
      BY <2>1, <2>3, <2>4a, <2>5
    <3>2. (u \o v)[1] = v[1]
      BY <2>3, <3>1
    <3>3. 1 \in 1..(n - i) /\ i + 1 = 2 /\ 2 \in DOMAIN q
      <4> HIDE DEF q, n
      <4>1. n - 1 \in Nat /\ n - 1 # 0 /\ n \in Nat
        BY <2>1, <2>3, <2>5, <3>1
      <4>2. 2 \in 1..n /\ 1 \in 1..(n - 1)
        BY <4>1
      <4>3. QED
        BY <2>1, <2>5, <4>2
    <3>4. v[1] = q[2]
      BY <2>3, <3>3
    <3>5. \A k \in 1..(2 - 1) : k = i
      BY <2>5
    <3>6. QED
      BY <2>1, <2>2, <3>2, <3>3, <3>4, <3>5
  <2>6. CASE i # 1
    <3>1. (u \o v)[1] = u[1]
      BY <2>1, <2>3, <2>4, <2>6
    <3>2. u[1] = q[1] /\ 1 \in DOMAIN q /\ \A k \in 1..(1 - 1) : FALSE
      BY <2>1, <2>3, <2>4, <2>6
    <3>3. QED
      BY <2>1, <2>2, <3>1, <3>2
  <2>7. QED
    BY <2>5, <2>6
<1>3. QED
  BY <1>1, <1>2

LEMMA ReleaseAllInOrder ==
  ASSUME NEW p \in PathState, NEW a \in Agent, PathInv(p)
  PROVE  InOrder(p, ReleaseAll(p, a))
<1> DEFINE q == Unqueue(p, a)
           r == ReleaseAll(p, a)
<1> SUFFICES ASSUME NEW b \in Agent, HoldsWrite(r, b), ~HoldsWrite(p, b),
                    NEW i \in DOMAIN p.queue, Queued(r, p.queue[i])
             PROVE  \E j \in 1..(i - 1) : p.queue[j] = b
  BY DEF InOrder
<1>1. q \in PathState /\ PathInv(q) /\ (HoldsWrite(q, b) <=> HoldsWrite(p, b))
  BY UnqueueFacts DEF PathInv, Exclusive, HoldsWrite
<1>2. HoldsAny(q, a) /\ r = Release(q, a)
  BY <1>1 DEF ReleaseAll
<1>3. q.queue # <<>> /\ b = q.queue[1] /\ ~Queued(r, b)
  BY <1>1, <1>2, ReleaseMakesHeadWriter
<1>4. ~Queued(r, a)
  BY ReleaseAllFacts
<1>5. PICK j \in DOMAIN p.queue : p.queue[j] = b /\ \A k \in 1..(j - 1) : p.queue[k] = a
  BY <1>3, UnqueueHead
<1>6. i \in Nat \ {0} /\ j \in Nat \ {0}
  BY DEF PathState
<1>7. i # j /\ i \notin 1..(j - 1)
  BY <1>3, <1>4, <1>5
<1>8. j \in 1..(i - 1)
  BY <1>6, <1>7
<1>9. QED
  BY <1>5, <1>8

-----------------------------------------------------------------------------
(* Only acquire_read makes a reader, and only of its caller.               *)
NoNewReader(p, r) ==
  \A b \in Agent : Lock(b, "read") \in r.holders => Lock(b, "read") \in p.holders

LEMMA HandoffMakesNoReader ==
  ASSUME NEW p
  PROVE  NoNewReader(p, Handoff(p))
BY DEF NoNewReader, Handoff, Lock

LEMMA ReleaseMakesNoReader ==
  ASSUME NEW p \in PathState, NEW a
  PROVE  NoNewReader(p, Release(p, a))
<1> DEFINE q == [p EXCEPT !.holders = {h \in @ : h.agent # a}]
<1>1. NoNewReader(p, q)
  BY DEF NoNewReader, PathState
<1>2. NoNewReader(q, Handoff(q))
  BY HandoffMakesNoReader
<1>3. QED
  BY <1>1, <1>2 DEF NoNewReader, Release

LEMMA ReleaseAllMakesNoReader ==
  ASSUME NEW p \in PathState, NEW a \in Agent, PathInv(p)
  PROVE  NoNewReader(p, ReleaseAll(p, a))
<1>1. Unqueue(p, a) \in PathState /\ Unqueue(p, a).holders = p.holders
  BY UnqueueFacts DEF PathInv
<1>2. NoNewReader(p, Unqueue(p, a)) /\ NoNewReader(Unqueue(p, a), Release(Unqueue(p, a), a))
  BY <1>1, ReleaseMakesNoReader DEF NoNewReader
<1>3. ReleaseAll(p, a) \in {Unqueue(p, a), Release(Unqueue(p, a), a)}
  BY DEF ReleaseAll
<1>4. QED
  BY <1>2, <1>3 DEF NoNewReader

LEMMA AcquireWriteMakesNoReader ==
  ASSUME NEW p \in PathState, NEW a
  PROVE  NoNewReader(p, AcquireWrite(p, a))
BY DEF NoNewReader, AcquireWrite, PathState, Lock

LEMMA AcquireReadMakesOneReader ==
  ASSUME NEW p \in PathState, NEW a,
         NEW b, Lock(b, "read") \in AcquireRead(p, a).holders
  PROVE  Lock(b, "read") \in p.holders \/ b = a
BY DEF AcquireRead, PathState, Lock

(* Asking for a path takes no lock from anybody, the asker included.       *)
LEMMA AcquiringKeepsLocks ==
  ASSUME NEW p \in PathState, NEW a
  PROVE  /\ p.holders \subseteq AcquireWrite(p, a).holders
         /\ p.holders \subseteq AcquireRead(p, a).holders
BY DEF AcquireWrite, AcquireRead, PathState

-----------------------------------------------------------------------------

(* Sequences by their positions.  Induction over the numbers, where a proof *)
(* here needs it, is over a set of numbers.                                *)

LEMMA SetInduction ==
  ASSUME NEW T, 0 \in T, \A n \in Nat : n \in T => n + 1 \in T
  PROVE  Nat \subseteq T
<1> SUFFICES ASSUME NEW x \in Nat, x \notin T
             PROVE  FALSE
  OBVIOUS
<1> DEFINE A == T \cap (0..x)
           B == A \ {0}
           succ == [n \in A |-> n + 1]
<1>1. IsFiniteSet(A) /\ 0 \in A /\ IsFiniteSet(B)
  <2>1. IsFiniteSet(0..x)
    BY FS_Interval
  <2>2. IsFiniteSet(A)
    BY <2>1, FS_Subset
  <2>3. QED
    BY <2>2, FS_Subset
<1>2. Cardinality(B) = Cardinality(A) - 1
  BY <1>1, FS_RemoveElement
<1>3. succ \in Injection(A, B)
  <2>1. \A n \in A : n + 1 \in B
    OBVIOUS
  <2>2. \A m, n \in A : m + 1 = n + 1 => m = n
    OBVIOUS
  <2>3. QED
    BY <2>1, <2>2 DEF Injection, IsInjective
<1>4. Cardinality(A) <= Cardinality(B)
  BY <1>1, <1>3, FS_Injection
<1>5. QED
  BY <1>1, <1>2, <1>4, FS_CardinalityType

(* A set of numbers with an upper bound has a greatest one.                *)
LEMMA Greatest ==
  ASSUME NEW n \in Nat, NEW S \in SUBSET (1..n), S # {}
  PROVE  \E x \in S : \A y \in S : y <= x
<1> DEFINE T == {m \in Nat : \A U \in SUBSET (1..m) : U # {} => \E x \in U : \A y \in U : y <= x}
<1>1. 0 \in T
  <2>1. \A U \in SUBSET (1..0) : U = {}
    OBVIOUS
  <2>2. QED
    BY <2>1
<1>2. ASSUME NEW m \in Nat, m \in T
      PROVE  m + 1 \in T
  <2> SUFFICES ASSUME NEW U \in SUBSET (1..m + 1), U # {}
               PROVE  \E x \in U : \A y \in U : y <= x
    OBVIOUS
  <2>1. CASE m + 1 \in U
    BY <2>1
  <2>2. CASE m + 1 \notin U
    <3>1. U \in SUBSET (1..m)
      BY <2>2
    <3>2. QED
      BY <1>2, <3>1
  <2>3. QED
    BY <2>1, <2>2
<1> HIDE DEF T
<1>3. n \in T
  BY <1>1, <1>2, SetInduction
<1>4. QED
  BY <1>3 DEF T

(* The elements picked are those at the positions, each once, in order.    *)
LEMMA PickFacts ==
  ASSUME NEW T, NEW s \in Seq(T), NEW S \in SUBSET (1..Len(s))
  PROVE  /\ IsFiniteSet(S) /\ Cardinality(S) \in Nat
         /\ Pick(s, S) \in Seq(T) /\ Len(Pick(s, S)) = Cardinality(S)
         /\ \A n \in 1..Cardinality(S) : Nth(S, n) \in S /\ Pick(s, S)[n] = s[Nth(S, n)]
         /\ \A i \in S : \E n \in 1..Cardinality(S) : Nth(S, n) = i
         /\ \A m, n \in 1..Cardinality(S) : m < n => Nth(S, m) < Nth(S, n)
<1> DEFINE Below(i) == {j \in S : j < i}
           c == Cardinality(S)
           rank == [i \in S |-> Cardinality(Below(i)) + 1]
<1>1. Len(s) \in Nat /\ IsFiniteSet(S) /\ c \in Nat /\ S \subseteq Nat
      /\ \A i \in S : s[i] \in T
  <2>1. Len(s) \in Nat /\ \A i \in 1..Len(s) : s[i] \in T
    BY LenProperties, ElementOfSeq
  <2>2. IsFiniteSet(1..Len(s))
    BY <2>1, FS_Interval
  <2>3. IsFiniteSet(S)
    BY <2>2, FS_Subset
  <2>4. c \in Nat
    BY <2>3, FS_CardinalityType
  <2>5. S \subseteq Nat
    BY <2>1
  <2>6. \A i \in S : s[i] \in T
    BY <2>1
  <2> HIDE DEF c
  <2>7. QED
    BY <2>1, <2>3, <2>4, <2>5, <2>6
<1>0. \A i, j : j \in Below(i) <=> j \in S /\ j < i
  OBVIOUS
<1> HIDE DEF Below, c
<1>2. \A i \in S : IsFiniteSet(Below(i)) /\ Cardinality(Below(i)) \in 0..c - 1
  <2> TAKE i \in S
  <2> DEFINE A == Below(i)
             B == S \ {i}
  <2>1. IsFiniteSet(B) /\ Cardinality(B) = c - 1
    BY <1>1, FS_RemoveElement DEF c
  <2>2. A \subseteq B
    <3>1. ~(i < i) /\ A \subseteq S
      BY <1>0, <1>1
    <3>2. i \notin A
      BY <1>0, <3>1
    <3>3. QED
      BY <3>1, <3>2
  <2> HIDE DEF A, B
  <2>3. IsFiniteSet(A) /\ Cardinality(A) <= Cardinality(B)
    BY <2>1, <2>2, FS_Subset
  <2>4. Cardinality(A) \in Nat
    BY <2>3, FS_CardinalityType
  <2>5. QED
    BY <1>1, <2>1, <2>3, <2>4 DEF A
<1>3. \A i, j \in S : i < j => Cardinality(Below(i)) < Cardinality(Below(j))
  <2> TAKE i, j \in S
  <2> HAVE i < j
  <2> DEFINE A == Below(i)
             B == Below(j)
  <2>1. A \subseteq B /\ i \in B /\ i \notin A
    <3>1. i \in Nat /\ j \in Nat /\ \A k \in S : k \in Nat
      BY <1>1
    <3>2. ASSUME NEW k \in A
          PROVE  k \in B
      <4>1. k \in S /\ k < i
        BY <1>0
      <4>2. k \in Nat /\ k < j
        BY <3>1, <4>1
      <4>3. QED
        BY <1>0, <4>1, <4>2
    <3>3. i \in B
      BY <1>0
    <3>4. i \notin A
      <4>1. ~(i < i)
        BY <3>1
      <4>2. QED
        BY <1>0, <4>1
    <3>5. QED
      BY <3>2, <3>3, <3>4
  <2>2. IsFiniteSet(A) /\ IsFiniteSet(B)
        /\ Cardinality(A) \in 0..c - 1 /\ Cardinality(B) \in 0..c - 1
    BY <1>2
  <2> HIDE DEF A, B
  <2>3. Cardinality(A) <= Cardinality(B) /\ (Cardinality(B) = Cardinality(A) => B = A)
    BY <2>1, <2>2, FS_Subset
  <2>4. Cardinality(A) < Cardinality(B)
    BY <1>1, <2>1, <2>2, <2>3
  <2>5. QED
    BY <2>4 DEF A, B
<1>4. \A i, j \in S : Cardinality(Below(i)) = Cardinality(Below(j)) => i = j
  BY <1>1, <1>2, <1>3
<1>5. rank \in Injection(S, 1..c)
  <2>1. \A i \in S : Cardinality(Below(i)) + 1 \in 1..c
    BY <1>1, <1>2
  <2>2. \A i, j \in S : Cardinality(Below(i)) + 1 = Cardinality(Below(j)) + 1 => i = j
    BY <1>2, <1>4
  <2>3. QED
    BY <2>1, <2>2 DEF Injection, IsInjective
<1>6. IsFiniteSet(1..c) /\ Cardinality(1..c) = c
  BY <1>1, FS_Interval
<1>7. rank \in Surjection(S, 1..c)
  BY <1>1, <1>5, <1>6, FS_Injection DEF c
<1>8. \A n \in 1..c : \E i \in S : Cardinality(Below(i)) = n - 1
  <2> TAKE n \in 1..c
  <2>1. PICK i \in S : rank[i] = n
    BY <1>7 DEF Surjection
  <2>2. Cardinality(Below(i)) + 1 = n
    BY <2>1
  <2>3. QED
    BY <1>1, <1>2, <2>2
<1>9. \A n \in 1..c : Nth(S, n) \in S /\ Cardinality(Below(Nth(S, n))) = n - 1
  <2> TAKE n \in 1..c
  <2>1. \E i \in S : Cardinality({j \in S : j < i}) = n - 1
    BY <1>8 DEF Below
  <2>2. Nth(S, n) \in S /\ Cardinality({j \in S : j < Nth(S, n)}) = n - 1
    BY <2>1 DEF Nth
  <2>3. QED
    BY <2>2 DEF Below
<1>10. \A i \in S : \E n \in 1..c : Nth(S, n) = i
  <2> TAKE i \in S
  <2> DEFINE n == Cardinality(Below(i)) + 1
  <2>1. n \in 1..c /\ n - 1 = Cardinality(Below(i))
    BY <1>1, <1>2
  <2> HIDE DEF n
  <2>2. Nth(S, n) \in S /\ Cardinality(Below(Nth(S, n))) = Cardinality(Below(i))
    BY <1>9, <2>1
  <2>3. Nth(S, n) = i
    BY <1>4, <2>2
  <2>4. QED
    BY <2>1, <2>3
<1>11. \A m, n \in 1..c : m < n => Nth(S, m) < Nth(S, n)
  <2> TAKE m, n \in 1..c
  <2> HAVE m < n
  <2> DEFINE x == Nth(S, m)
             y == Nth(S, n)
  <2>1. x \in S /\ y \in S /\ Cardinality(Below(x)) = m - 1 /\ Cardinality(Below(y)) = n - 1
    BY <1>9
  <2> HIDE DEF x, y
  <2>2. Cardinality(Below(x)) < Cardinality(Below(y))
    BY <1>1, <2>1
  <2>3. ~(y < x) /\ x # y
    BY <1>2, <1>3, <2>1, <2>2
  <2>4. x < y
    BY <1>1, <2>1, <2>3
  <2>5. QED
    BY <2>4 DEF x, y
<1>12. Pick(s, S) = [n \in 1..c |-> s[Nth(S, n)]]
  BY DEF Pick, c
<1>13. Pick(s, S) \in Seq(T) /\ Len(Pick(s, S)) = c
  <2> DEFINE p == Pick(s, S)
  <2>1. p \in [1..c -> T]
    BY <1>1, <1>9, <1>12
  <2> HIDE DEF p
  <2>2. p \in Seq(T)
    BY <1>1, <2>1, SeqDef
  <2>3. DOMAIN p = 1..c /\ DOMAIN p = 1..Len(p) /\ Len(p) \in Nat
    BY <2>1, <2>2, LenProperties
  <2>4. Len(p) = c
    BY <1>1, <2>3
  <2>5. QED
    BY <2>2, <2>4 DEF p
<1>14. \A n \in 1..c : Pick(s, S)[n] = s[Nth(S, n)]
  BY <1>12
<1>15. QED
  BY <1>1, <1>9, <1>10, <1>11, <1>13, <1>14 DEF c

LEMMA Picked ==
  ASSUME NEW T, NEW s \in Seq(T), NEW S \in SUBSET (1..Len(s))
  PROVE  /\ Pick(s, S) \in Seq(T) /\ Len(Pick(s, S)) = Cardinality(S)
         /\ ToSet(Pick(s, S)) = {s[i] : i \in S}
         /\ (\A i, j \in S : s[i] = s[j] => i = j) => IsInjective(Pick(s, S))
<1> DEFINE p == Pick(s, S)
           c == Cardinality(S)
<1>1. /\ c \in Nat
      /\ p \in Seq(T) /\ Len(p) = c
      /\ \A n \in 1..c : Nth(S, n) \in S /\ p[n] = s[Nth(S, n)]
      /\ \A i \in S : \E n \in 1..c : Nth(S, n) = i
      /\ \A m, n \in 1..c : m < n => Nth(S, m) < Nth(S, n)
  BY PickFacts
<1>2. DOMAIN p = 1..c /\ Len(s) \in Nat
  BY <1>1, LenProperties
<1> HIDE DEF p, c
<1>3. ToSet(p) = {s[i] : i \in S}
  <2>1. ToSet(p) = {p[n] : n \in 1..c}
    BY <1>2 DEF ToSet
  <2>2. \A n \in 1..c : p[n] \in {s[i] : i \in S}
    BY <1>1
  <2>3. \A i \in S : \E n \in 1..c : p[n] = s[i]
    <3> TAKE i \in S
    <3>1. PICK n \in 1..c : Nth(S, n) = i
      BY <1>1
    <3>2. QED
      BY <1>1, <3>1
  <2>4. QED
    BY <2>1, <2>2, <2>3
<1>4. ASSUME \A i, j \in S : s[i] = s[j] => i = j
      PROVE  IsInjective(p)
  <2> SUFFICES ASSUME NEW m \in 1..c, NEW n \in 1..c, p[m] = p[n]
               PROVE  m = n
    BY <1>2 DEF IsInjective
  <2> DEFINE x == Nth(S, m)
             y == Nth(S, n)
  <2>1. x \in S /\ y \in S /\ p[m] = s[x] /\ p[n] = s[y] /\ (m < n => x < y) /\ (n < m => y < x)
    BY <1>1
  <2> HIDE DEF x, y
  <2>2. x = y /\ x \in Nat
    <3>1. x = y
      BY <1>4, <2>1
    <3>2. x \in 1..Len(s)
      BY <2>1
    <3>3. QED
      BY <1>2, <3>1, <3>2
  <2>3. ~(m < n) /\ ~(n < m)
    BY <2>1, <2>2
  <2>4. QED
    BY <1>1, <2>3
<1>5. QED
  BY <1>1, <1>3, <1>4 DEF p, c

LEMMA IsPick ==
  ASSUME NEW T, NEW s \in Seq(T), NEW S \in SUBSET (1..Len(s)),
         NEW u \in Seq(T), Len(u) = Cardinality(S),
         NEW g \in [1..Cardinality(S) -> S],
         \A m, n \in 1..Cardinality(S) : m < n => g[m] < g[n],
         \A n \in 1..Cardinality(S) : u[n] = s[g[n]]
  PROVE  u = Pick(s, S)
<1> DEFINE c == Cardinality(S)
           h == [n \in 1..c |-> Nth(S, n)]
           p == Pick(s, S)
<1>1. /\ c \in Nat /\ IsFiniteSet(S)
      /\ p \in Seq(T) /\ Len(p) = c
      /\ \A n \in 1..c : h[n] \in S /\ p[n] = s[h[n]]
      /\ \A i \in S : \E n \in 1..c : h[n] = i
      /\ \A m, n \in 1..c : m < n => h[m] < h[n]
  <2>1. /\ IsFiniteSet(S) /\ c \in Nat
        /\ p \in Seq(T) /\ Len(p) = c
        /\ \A n \in 1..c : Nth(S, n) \in S /\ p[n] = s[Nth(S, n)]
        /\ \A i \in S : \E n \in 1..c : Nth(S, n) = i
        /\ \A m, n \in 1..c : m < n => Nth(S, m) < Nth(S, n)
    BY PickFacts
  <2> HIDE DEF c, p
  <2>2. \A n \in 1..c : h[n] = Nth(S, n)
    OBVIOUS
  <2> HIDE DEF h
  <2>3. \A n \in 1..c : h[n] \in S /\ p[n] = s[h[n]]
    BY <2>1, <2>2
  <2>4. ASSUME NEW i \in S
        PROVE  \E n \in 1..c : h[n] = i
    <3>1. PICK n \in 1..c : Nth(S, n) = i
      BY <2>1
    <3>2. QED
      BY <2>2, <3>1
  <2>5. \A m, n \in 1..c : m < n => h[m] < h[n]
    BY <2>1, <2>2
  <2>6. QED
    BY <2>1, <2>3, <2>4, <2>5
<1>2. /\ g \in [1..c -> S] /\ Len(u) = c
      /\ \A m, n \in 1..c : m < n => g[m] < g[n]
      /\ \A n \in 1..c : u[n] = s[g[n]]
  OBVIOUS
<1>3. S \subseteq Nat
  BY LenProperties
<1>4. IsFiniteSet(1..c) /\ Cardinality(1..c) = c
  BY <1>1, FS_Interval
<1> HIDE DEF h, p
<1>5. \A i \in S : \E n \in 1..c : g[n] = i
  <2>1. \A m, n \in 1..c : g[m] = g[n] => m = n
    <3> TAKE m, n \in 1..c
    <3> HAVE g[m] = g[n]
    <3>1. g[m] \in Nat /\ g[n] \in Nat /\ m \in Nat /\ n \in Nat
      <4>1. g[m] \in S /\ g[n] \in S
        BY <1>2
      <4>2. m \in Nat /\ n \in Nat
        BY <1>1
      <4> HIDE DEF c
      <4>3. QED
        BY <1>3, <4>1, <4>2
    <3>2. ~(m < n) /\ ~(n < m)
      BY <1>2, <3>1
    <3>3. QED
      BY <3>1, <3>2
  <2>2. g \in Injection(1..c, S)
    BY <1>2, <2>1 DEF Injection, IsInjective
  <2>3. g \in Surjection(1..c, S)
    BY <1>1, <1>4, <2>2, FS_Injection
  <2>4. QED
    BY <2>3 DEF Surjection
<1> HIDE DEF c
<1> DEFINE same == {k \in Nat : \A n \in 1..c : n <= k => g[n] = h[n]}
<1>6. ASSUME NEW k \in Nat, k \in same
      PROVE  k + 1 \in same
  <2> SUFFICES ASSUME NEW n \in 1..c, n <= k + 1
               PROVE  g[n] = h[n]
    BY <1>6
  <2>0. \A m \in 1..c : m <= k => g[m] = h[m]
    BY <1>6
  <2> HIDE DEF same
  <2>1. CASE n <= k
    BY <2>0, <2>1
  <2>2. CASE n = k + 1
    <3>1. PICK a \in 1..c : h[a] = g[n]
      BY <1>1, <1>2
    <3>2. PICK b \in 1..c : g[b] = h[n]
      BY <1>1, <1>5
    <3>3. h[n] \in Nat /\ g[n] \in Nat /\ h[a] \in Nat /\ g[b] \in Nat
      BY <1>1, <1>2, <1>3
    <3>4. ~(a < n)
      <4> SUFFICES ASSUME a < n
                   PROVE  FALSE
        OBVIOUS
      <4>1. g[a] = h[a]
        BY <1>1, <2>0, <2>2
      <4>2. g[a] < g[n]
        BY <1>2
      <4>3. QED
        BY <3>1, <3>3, <4>1, <4>2
    <3>5. ~(b < n)
      <4> SUFFICES ASSUME b < n
                   PROVE  FALSE
        OBVIOUS
      <4>1. g[b] = h[b]
        BY <1>1, <2>0, <2>2
      <4>2. h[b] < h[n]
        BY <1>1
      <4>3. QED
        BY <3>2, <3>3, <4>1, <4>2
    <3>6. h[n] <= h[a] /\ g[n] <= g[b]
      <4>1. (n < a \/ n = a) /\ (n < b \/ n = b)
        BY <1>1, <3>4, <3>5
      <4>2. n < a => h[n] < h[a]
        BY <1>1
      <4>3. n < b => g[n] < g[b]
        BY <1>2
      <4>4. QED
        BY <3>3, <4>1, <4>2, <4>3
    <3>7. QED
      BY <3>1, <3>2, <3>3, <3>6
  <2>3. QED
    BY <1>1, <2>1, <2>2
<1>7. 0 \in same
  BY <1>1
<1> HIDE DEF same
<1>8. c \in same
  BY <1>1, <1>6, <1>7, SetInduction
<1>9. \A n \in 1..c : g[n] = h[n]
  BY <1>1, <1>8 DEF same
<1>10. \A n \in 1..c : u[n] = p[n]
  BY <1>1, <1>2, <1>9
<1>11. u = p
  BY <1>1, <1>2, <1>10, SeqEqual
<1>12. QED
  BY <1>11 DEF p

LEMMA PickAppend ==
  ASSUME NEW T, NEW s \in Seq(T), NEW e \in T, NEW S \in SUBSET (1..Len(s))
  PROVE  /\ Pick(Append(s, e), S) = Pick(s, S)
         /\ Pick(Append(s, e), S \cup {Len(s) + 1}) = Append(Pick(s, S), e)
<1> DEFINE all == Append(s, e)
           c == Cardinality(S)
           p == Pick(s, S)
           last == Len(s) + 1
<1>1. /\ Len(s) \in Nat /\ last \in Nat
      /\ all \in Seq(T) /\ Len(all) = last
      /\ \A i \in 1..Len(s) : all[i] = s[i]
      /\ all[last] = e
  BY AppendProperties, LenProperties
<1>2. /\ c \in Nat /\ IsFiniteSet(S)
      /\ p \in Seq(T) /\ Len(p) = c
      /\ \A n \in 1..c : Nth(S, n) \in S /\ p[n] = s[Nth(S, n)]
      /\ \A m, n \in 1..c : m < n => Nth(S, m) < Nth(S, n)
  BY PickFacts
<1>3. \A i \in S : i \in Nat /\ i \in 1..Len(s) /\ i < last
  BY <1>1
<1>4. last \notin S
  BY <1>1, <1>3
<1>5. Cardinality(S \cup {last}) = c + 1
  BY <1>2, <1>4, FS_AddElement
<1> DEFINE h == [n \in 1..c |-> Nth(S, n)]
           g == [n \in 1..c + 1 |-> IF n = c + 1 THEN last ELSE Nth(S, n)]
           q == Append(p, e)
           more == S \cup {last}
<1>6. /\ q \in Seq(T) /\ Len(q) = c + 1
      /\ \A n \in 1..c : q[n] = p[n]
      /\ q[c + 1] = e
  <2> HIDE DEF p
  <2>1. /\ Append(p, e) \in Seq(T) /\ Len(Append(p, e)) = Len(p) + 1
        /\ \A n \in 1..Len(p) : Append(p, e)[n] = p[n]
        /\ Append(p, e)[Len(p) + 1] = e
    BY <1>2, AppendProperties
  <2>2. QED
    BY <1>2, <2>1
<1> HIDE DEF all, c, p, last, q
<1>7. /\ h \in [1..c -> S] /\ \A n \in 1..c : h[n] = Nth(S, n)
      /\ g \in [1..c + 1 -> more]
      /\ \A n \in 1..c : g[n] = Nth(S, n)
      /\ g[c + 1] = last
  BY <1>2
<1> HIDE DEF h, g
<1>8. p = Pick(all, S)
  <2>1. S \in SUBSET (1..Len(all)) /\ p \in Seq(T) /\ Len(p) = Cardinality(S)
        /\ all \in Seq(T) /\ h \in [1..Cardinality(S) -> S]
    BY <1>1, <1>2, <1>3, <1>7 DEF c
  <2>2. \A m, n \in 1..Cardinality(S) : m < n => h[m] < h[n]
    BY <1>2, <1>7 DEF c
  <2>3. \A n \in 1..Cardinality(S) : p[n] = all[h[n]]
    BY <1>1, <1>2, <1>3, <1>7 DEF c
  <2>4. QED
    BY <2>1, <2>2, <2>3, IsPick, ZenonT(60)
<1>9. q = Pick(all, more)
  <2>1. \A n \in 1..c + 1 : n \in 1..c \/ n = c + 1
    BY <1>2
  <2>2. more \in SUBSET (1..Len(all)) /\ q \in Seq(T) /\ Len(q) = Cardinality(more)
        /\ all \in Seq(T) /\ g \in [1..Cardinality(more) -> more]
    <3>1. last \in 1..last /\ \A i \in S : i \in 1..last
      <4>1. last \in 1..last
        BY <1>1 DEF last
      <4>2. \A i \in S : i \in Nat /\ 1 <= i /\ i < last
        BY <1>3, <1>1
      <4>3. QED
        BY <1>1, <4>1, <4>2
    <3>2. QED
      BY <1>1, <1>5, <1>6, <1>7, <3>1
  <2>3. \A m, n \in 1..c + 1 : m < n => g[m] < g[n]
    <3> TAKE m, n \in 1..c + 1
    <3> HAVE m < n
    <3>1. m \in 1..c
      BY <1>2
    <3>2. CASE n \in 1..c
      BY <1>2, <1>7, <3>1, <3>2
    <3>3. CASE n = c + 1
      BY <1>2, <1>3, <1>7, <3>1, <3>3
    <3>4. QED
      BY <2>1, <3>2, <3>3
  <2>4. \A n \in 1..c + 1 : q[n] = all[g[n]]
    <3> TAKE n \in 1..c + 1
    <3>1. CASE n \in 1..c
      BY <1>1, <1>2, <1>3, <1>6, <1>7, <3>1
    <3>2. CASE n = c + 1
      BY <1>1, <1>6, <1>7, <3>2
    <3>3. QED
      BY <2>1, <3>1, <3>2
  <2>5. Cardinality(more) = c + 1
    BY <1>5
  <2> HIDE DEF more
  <2>6. /\ \A m, n \in 1..Cardinality(more) : m < n => g[m] < g[n]
        /\ \A n \in 1..Cardinality(more) : q[n] = all[g[n]]
    BY <2>3, <2>4, <2>5
  <2>7. QED
    <3>1. more \in SUBSET (1..Len(all))
      BY <2>2
    <3>2. all \in Seq(T) /\ q \in Seq(T)
      BY <2>2
    <3>3. Len(q) = Cardinality(more)
      BY <2>2
    <3>4. g \in [1..Cardinality(more) -> more]
      BY <2>2
    <3>5. QED
      BY <2>6, <3>1, <3>2, <3>3, <3>4, IsPick, ZenonT(60)
<1>10. QED
  BY <1>8, <1>9 DEF all, p, q, last, more

LEMMA PickPick ==
  ASSUME NEW T, NEW s \in Seq(T), NEW K \in SUBSET (1..Len(s)),
         NEW M \in SUBSET (1..Cardinality(K))
  PROVE  Pick(Pick(s, K), M) = Pick(s, {Nth(K, m) : m \in M})
<1> DEFINE p == Pick(s, K)
           k == Cardinality(K)
           c == Cardinality(M)
           u == Pick(p, M)
           S == {Nth(K, m) : m \in M}
           to == [m \in M |-> Nth(K, m)]
           g == [n \in 1..c |-> Nth(K, Nth(M, n))]
<1>1. /\ k \in Nat /\ p \in Seq(T) /\ Len(p) = k
      /\ \A n \in 1..k : Nth(K, n) \in K /\ p[n] = s[Nth(K, n)]
      /\ \A m, n \in 1..k : m < n => Nth(K, m) < Nth(K, n)
  BY PickFacts
<1>2. M \in SUBSET (1..Len(p))
  BY <1>1
<1> HIDE DEF p
<1>3. /\ c \in Nat /\ IsFiniteSet(M) /\ u \in Seq(T) /\ Len(u) = c
      /\ \A n \in 1..c : Nth(M, n) \in M /\ u[n] = p[Nth(M, n)]
      /\ \A m, n \in 1..c : m < n => Nth(M, m) < Nth(M, n)
  BY <1>1, <1>2, PickFacts
<1> HIDE DEF u, k
<1>4. M \subseteq 1..k /\ M \subseteq Nat /\ K \subseteq Nat
  <2>1. Len(s) \in Nat
    BY LenProperties
  <2>2. QED
    BY <1>1, <2>1 DEF k
<1>5. \A m, n \in M : Nth(K, m) = Nth(K, n) => m = n
  <2> TAKE m, n \in M
  <2> HAVE Nth(K, m) = Nth(K, n)
  <2>1. m \in 1..k /\ n \in 1..k /\ Nth(K, m) \in Nat /\ m \in Nat /\ n \in Nat
    BY <1>1, <1>4
  <2>2. ~(m < n) /\ ~(n < m)
    BY <1>1, <2>1
  <2>3. QED
    BY <2>1, <2>2
<1>6. Cardinality(S) = c
  <2>1. to \in Surjection(M, S)
    BY DEF Surjection
  <2>2. to \in Injection(M, S)
    BY <1>5 DEF Injection, IsInjective
  <2> HIDE DEF to, S
  <2>3. QED
    BY <1>3, <2>1, <2>2, FS_Surjection
<1>7. S \in SUBSET (1..Len(s)) /\ \A m \in M : Nth(K, m) \in S
  BY <1>1, <1>4
<1> HIDE DEF S, c
<1>8. g \in [1..c -> S] /\ \A n \in 1..c : g[n] = Nth(K, Nth(M, n))
  BY <1>3, <1>7
<1> HIDE DEF g
<1>9. \A m, n \in 1..c : m < n => g[m] < g[n]
  <2> TAKE m, n \in 1..c
  <2> HAVE m < n
  <2>1. Nth(M, m) \in 1..k /\ Nth(M, n) \in 1..k /\ Nth(M, m) < Nth(M, n)
    BY <1>3, <1>4
  <2>2. QED
    BY <1>1, <1>8, <2>1
<1>10. \A n \in 1..c : u[n] = s[g[n]]
  BY <1>1, <1>3, <1>4, <1>8
<1>11. u = Pick(s, S)
  <2>1. /\ \A m, n \in 1..Cardinality(S) : m < n => g[m] < g[n]
        /\ \A n \in 1..Cardinality(S) : u[n] = s[g[n]]
        /\ g \in [1..Cardinality(S) -> S] /\ Len(u) = Cardinality(S)
    BY <1>3, <1>6, <1>8, <1>9, <1>10
  <2>2. u \in Seq(T) /\ S \in SUBSET (1..Len(s))
    BY <1>3, <1>7
  <2>3. QED
    BY <2>1, <2>2, IsPick, ZenonT(60)
<1>12. QED
  BY <1>11 DEF u, p, S

LEMMA Joined ==
  ASSUME NEW T, NEW s \in Seq(T), NEW t \in Seq(T)
  PROVE  /\ s \o t \in Seq(T) /\ Len(s) \in Nat /\ Len(t) \in Nat
         /\ Len(s \o t) = Len(s) + Len(t)
         /\ DOMAIN (s \o t) = 1..Len(s) + Len(t)
         /\ \A i \in 1..Len(s) : (s \o t)[i] = s[i]
         /\ \A j \in 1..Len(t) : (s \o t)[Len(s) + j] = t[j]
<1>1. /\ s \o t \in Seq(T)
      /\ Len(s \o t) = Len(s) + Len(t)
      /\ \A i \in 1 .. Len(s) + Len(t) : (s \o t)[i] = IF i <= Len(s) THEN s[i] ELSE t[i - Len(s)]
  BY ConcatProperties
<1>2. Len(s) \in Nat /\ Len(t) \in Nat
  BY LenProperties
<1>3. DOMAIN (s \o t) = 1..Len(s) + Len(t)
  BY <1>1, LenProperties
<1>4. \A i \in 1..Len(s) : (s \o t)[i] = s[i]
  BY <1>1, <1>2
<1>5. ASSUME NEW j \in 1..Len(t)
      PROVE  (s \o t)[Len(s) + j] = t[j]
  <2>1. Len(s) + j \in 1..Len(s) + Len(t) /\ ~(Len(s) + j <= Len(s)) /\ (Len(s) + j) - Len(s) = j
    BY <1>2
  <2>2. QED
    BY <1>1, <2>1
<1>6. QED
  BY <1>1, <1>2, <1>3, <1>4, <1>5

LEMMA LastAt ==
  ASSUME NEW T, NEW s \in Seq(T), NEW n \in Nat
  PROVE  /\ LastOf(s, n) \in Seq(T)
         /\ Len(LastOf(s, n)) = IF Len(s) <= n THEN Len(s) ELSE n
         /\ \A k \in 1..Len(LastOf(s, n)) :
              LastOf(s, n)[k] = s[(Len(s) - Len(LastOf(s, n))) + k]
<1>0. Len(s) \in Nat /\ \A i \in 1..Len(s) : s[i] \in T
  BY LenProperties, ElementOfSeq
<1>1. CASE Len(s) <= n
  <2>1. LastOf(s, n) = s
    BY <1>1 DEF LastOf
  <2>2. \A k \in 1..Len(s) : (Len(s) - Len(s)) + k = k
    BY <1>0
  <2>3. QED
    BY <1>1, <2>1, <2>2
<1>2. CASE ~(Len(s) <= n)
  <2> DEFINE m == Len(s)
             d == m - n
             r == SubSeq(s, d + 1, m)
  <2>1. m \in Nat /\ d \in Nat /\ d + n = m
    BY <1>0, <1>2
  <2>2. \A i \in (d + 1)..m : s[i] \in T
    BY <1>0, <2>1
  <2>3. LastOf(s, n) = r
    BY <1>2 DEF LastOf
  <2> HIDE DEF d, m
  <2>4. /\ r \in Seq(T)
        /\ Len(r) = IF d + 1 <= m THEN m - (d + 1) + 1 ELSE 0
        /\ \A i \in 1..m - (d + 1) + 1 : r[i] = s[(d + 1) + i - 1]
    BY <2>1, <2>2, SubSeqProperties
  <2> HIDE DEF r
  <2>5. m - (d + 1) + 1 = n /\ (~(d + 1 <= m) => n = 0)
    BY <2>1
  <2>6. Len(r) = n
    BY <2>4, <2>5
  <2>7. ASSUME NEW i \in 1..n
        PROVE  r[i] = s[d + i]
    <3>1. r[i] = s[(d + 1) + i - 1]
      BY <2>4, <2>5
    <3>2. (d + 1) + i - 1 = d + i
      BY <2>1
    <3>3. QED
      BY <3>1, <3>2
  <2>8. \A k \in 1..Len(r) : r[k] = s[(m - Len(r)) + k]
    <3>1. m - Len(r) = d
      BY <2>1, <2>6
    <3>2. QED
      BY <2>6, <2>7, <3>1
  <2>9. /\ LastOf(s, n) \in Seq(T) /\ Len(LastOf(s, n)) = n
        /\ \A k \in 1..Len(LastOf(s, n)) : LastOf(s, n)[k] = s[(m - Len(LastOf(s, n))) + k]
    BY <2>3, <2>4, <2>6, <2>8
  <2>10. QED
    BY <1>2, <2>9 DEF m
<1>3. QED
  BY <1>1, <1>2

LEMMA LastOfFacts ==
  ASSUME NEW T, NEW s \in Seq(T), NEW n \in Nat
  PROVE  /\ LastOf(s, n) \in Seq(T) /\ Len(LastOf(s, n)) <= n
         /\ ToSet(LastOf(s, n)) \subseteq ToSet(s)
         /\ IsInjective(s) => IsInjective(LastOf(s, n))
         /\ Len(LastOf(s, n)) < n => LastOf(s, n) = s
<1> DEFINE r == LastOf(s, n)
           d == Len(s) - Len(r)
<1>1. /\ r \in Seq(T) /\ Len(s) \in Nat /\ Len(r) \in Nat
      /\ Len(r) = (IF Len(s) <= n THEN Len(s) ELSE n)
      /\ \A k \in 1..Len(r) : r[k] = s[d + k]
  BY LastAt, LenProperties
<1>2. Len(r) < n => r = s
  BY <1>1 DEF LastOf
<1>3. DOMAIN s = 1..Len(s) /\ DOMAIN r = 1..Len(r)
  BY <1>1, LenProperties
<1>4. d \in Nat /\ \A k \in 1..Len(r) : d + k \in 1..Len(s)
  BY <1>1
<1> HIDE DEF r, d
<1>5. ToSet(r) \subseteq ToSet(s)
  BY <1>1, <1>3, <1>4 DEF ToSet
<1>6. IsInjective(s) => IsInjective(r)
  <2>1. ASSUME IsInjective(s), NEW j \in 1..Len(r), NEW k \in 1..Len(r), r[j] = r[k]
        PROVE  j = k
    <3>1. d + j = d + k
      BY <1>1, <1>3, <1>4, <2>1 DEF IsInjective
    <3>2. QED
      BY <1>1, <1>4, <3>1
  <2>2. QED
    BY <1>3, <2>1 DEF IsInjective
<1>7. Len(r) <= n
  BY <1>1
<1>8. QED
  BY <1>1, <1>2, <1>5, <1>6, <1>7 DEF r

LEMMA LastIsPick ==
  ASSUME NEW T, NEW s \in Seq(T), NEW n \in Nat
  PROVE  LastOf(s, n) = Pick(s, {i \in 1..Len(s) : i > Len(s) - n})
<1> DEFINE r == LastOf(s, n)
           m == Len(s)
           c == Len(r)
           S == {i \in 1..m : i > m - n}
           g == [k \in 1..c |-> (m - c) + k]
<1>1. /\ m \in Nat /\ c \in Nat /\ r \in Seq(T)
      /\ c = (IF m <= n THEN m ELSE n)
      /\ \A k \in 1..c : r[k] = s[(m - c) + k]
  BY LastAt, LenProperties
<1> HIDE DEF r, m, c
<1>2. S = (m - c) + 1..m
  BY <1>1
<1>3. Cardinality(S) = c
  <2> DEFINE a == (m - c) + 1
  <2>1. a \in Int /\ m \in Int /\ S = a..m /\ IF a > m THEN c = 0 ELSE m - a + 1 = c
    BY <1>1, <1>2
  <2> HIDE DEF a
  <2>2. Cardinality(a..m) = IF a > m THEN 0 ELSE m - a + 1
    BY <2>1, FS_Interval
  <2>3. QED
    BY <2>1, <2>2
<1>4. g \in [1..c -> S] /\ \A k \in 1..c : g[k] = (m - c) + k
  BY <1>1, <1>2
<1>5. \A j, k \in 1..c : j < k => g[j] < g[k]
  BY <1>1, <1>4
<1>6. \A k \in 1..c : r[k] = s[g[k]]
  BY <1>1, <1>4
<1> HIDE DEF S, g
<1>7. S \in SUBSET (1..Len(s))
  BY DEF S, m
<1>8. r = Pick(s, S)
  <2>1. /\ Len(r) = Cardinality(S) /\ g \in [1..Cardinality(S) -> S]
        /\ \A j, k \in 1..Cardinality(S) : j < k => g[j] < g[k]
        /\ \A k \in 1..Cardinality(S) : r[k] = s[g[k]]
    BY <1>3, <1>4, <1>5, <1>6 DEF c
  <2>2. r \in Seq(T)
    BY <1>1
  <2> HIDE DEF c
  <2>3. QED
    BY <1>7, <2>1, <2>2, IsPick, ZenonT(60)
<1>9. QED
  BY <1>8 DEF r, S, m

(* What is appended to the last ones is appended to all of them.           *)
LEMMA LastAfter ==
  ASSUME NEW T, NEW x \in Seq(T), NEW y \in Seq(T), NEW n \in Nat
  PROVE  LastOf(LastOf(x, n) \o y, n) = LastOf(x \o y, n)
<1> DEFINE z == LastOf(x, n)
           a == z \o y
           b == x \o y
           p == LastOf(a, n)
           q == LastOf(b, n)
<1>1. /\ z \in Seq(T) /\ Len(x) \in Nat /\ Len(y) \in Nat
      /\ Len(z) = (IF Len(x) <= n THEN Len(x) ELSE n)
      /\ \A k \in 1..Len(z) : z[k] = x[(Len(x) - Len(z)) + k]
  BY LastAt, LenProperties
<1> HIDE DEF z
<1>2. /\ a \in Seq(T) /\ Len(a) = Len(z) + Len(y)
      /\ \A i \in 1..Len(z) : a[i] = z[i]
      /\ \A j \in 1..Len(y) : a[Len(z) + j] = y[j]
  <2>1. z \in Seq(T) /\ y \in Seq(T)
    BY <1>1
  <2>2. /\ z \o y \in Seq(T) /\ Len(z \o y) = Len(z) + Len(y)
        /\ \A i \in 1..Len(z) : (z \o y)[i] = z[i]
        /\ \A j \in 1..Len(y) : (z \o y)[Len(z) + j] = y[j]
    BY <2>1, Joined
  <2>3. QED
    BY <2>2
<1>3. /\ b \in Seq(T) /\ Len(b) = Len(x) + Len(y)
      /\ \A i \in 1..Len(x) : b[i] = x[i]
      /\ \A j \in 1..Len(y) : b[Len(x) + j] = y[j]
  BY Joined
<1> HIDE DEF a, b
<1>4. /\ p \in Seq(T) /\ Len(p) = IF Len(a) <= n THEN Len(a) ELSE n
      /\ \A k \in 1..Len(p) : p[k] = a[(Len(a) - Len(p)) + k]
  <2>1. a \in Seq(T)
    BY <1>2
  <2>2. /\ LastOf(a, n) \in Seq(T)
        /\ Len(LastOf(a, n)) = IF Len(a) <= n THEN Len(a) ELSE n
        /\ \A k \in 1..Len(LastOf(a, n)) :
              LastOf(a, n)[k] = a[(Len(a) - Len(LastOf(a, n))) + k]
    BY <2>1, LastAt
  <2>3. QED
    BY <2>2
<1>5. /\ q \in Seq(T) /\ Len(q) = IF Len(b) <= n THEN Len(b) ELSE n
      /\ \A k \in 1..Len(q) : q[k] = b[(Len(b) - Len(q)) + k]
  <2>1. b \in Seq(T)
    BY <1>3
  <2>2. /\ LastOf(b, n) \in Seq(T)
        /\ Len(LastOf(b, n)) = IF Len(b) <= n THEN Len(b) ELSE n
        /\ \A k \in 1..Len(LastOf(b, n)) :
              LastOf(b, n)[k] = b[(Len(b) - Len(LastOf(b, n))) + k]
    BY <2>1, LastAt
  <2>3. QED
    BY <2>2
<1> HIDE DEF p, q
<1>6. CASE Len(x) <= n
  <2>1. z = x
    BY <1>6 DEF z, LastOf
  <2>2. QED
    BY <2>1 DEF z
<1>7. CASE ~(Len(x) <= n)
  <2> DEFINE lx == Len(x)
             ly == Len(y)
  <2>1. /\ lx \in Nat /\ ly \in Nat /\ ~(lx <= n) /\ Len(z) = n
        /\ Len(a) = n + ly /\ Len(b) = lx + ly /\ Len(p) = n /\ Len(q) = n
    BY <1>1, <1>2, <1>3, <1>4, <1>5, <1>7
  <2>2. /\ \A k \in 1..n : z[k] = x[(lx - n) + k]
        /\ \A i \in 1..n : a[i] = z[i]
        /\ \A j \in 1..ly : a[n + j] = y[j]
        /\ \A i \in 1..lx : b[i] = x[i]
        /\ \A j \in 1..ly : b[lx + j] = y[j]
        /\ \A k \in 1..n : p[k] = a[((n + ly) - n) + k]
        /\ \A k \in 1..n : q[k] = b[((lx + ly) - n) + k]
    BY <1>1, <1>2, <1>3, <1>4, <1>5, <2>1
  <2> HIDE DEF lx, ly
  <2>3. ASSUME NEW k \in 1..n
        PROVE  p[k] = q[k]
    <3>1. CASE ly + k <= n
      <4> DEFINE i == ly + k
      <4>1. /\ i \in 1..n /\ ((n + ly) - n) + k = i
            /\ (lx - n) + i \in 1..lx /\ ((lx + ly) - n) + k = (lx - n) + i
        BY <2>1, <3>1
      <4> HIDE DEF i
      <4>2. p[k] = x[(lx - n) + i] /\ q[k] = x[(lx - n) + i]
        BY <2>2, <4>1
      <4>3. QED
        BY <4>2
    <3>2. CASE ~(ly + k <= n)
      <4> DEFINE j == (ly + k) - n
      <4>1. /\ j \in 1..ly /\ ((n + ly) - n) + k = n + j
            /\ ((lx + ly) - n) + k = lx + j
        BY <2>1, <3>2
      <4> HIDE DEF j
      <4>2. p[k] = y[j] /\ q[k] = y[j]
        BY <2>2, <4>1
      <4>3. QED
        BY <4>2
    <3>3. QED
      BY <3>1, <3>2
  <2>4. p = q
    BY <1>4, <1>5, <2>1, <2>3, SeqEqual
  <2>5. QED
    BY <2>4 DEF p, q, a, b, z
<1>8. QED
  BY <1>6, <1>7

(* A loop over a sequence has made something after each of its turns.      *)
Turns(made, s, first, turn) ==
  /\ made[0] = first
  /\ \A i \in 1..Len(s) : made[i] = turn[made[i - 1]][s[i]]

LEMMA AlongExists ==
  ASSUME NEW T, NEW E, NEW s \in Seq(E), NEW first \in T, NEW turn \in [T -> [E -> T]]
  PROVE  \E made \in [0..Len(s) -> T] : Turns(made, s, first, turn)
<1> DEFINE Until(n, m) == /\ m[0] = first
                          /\ \A i \in 1..n : m[i] = turn[m[i - 1]][s[i]]
           Good == {n \in Nat : n <= Len(s) => \E m \in [0..n -> T] : Until(n, m)}
<1>1. Len(s) \in Nat /\ \A i \in 1..Len(s) : s[i] \in E
  OBVIOUS
<1>2. 0 \in Good
  <2> DEFINE m == [i \in 0..0 |-> first]
  <2>1. m \in [0..0 -> T] /\ m[0] = first
    OBVIOUS
  <2>2. Until(0, m)
    BY <2>1
  <2> HIDE DEF m, Until
  <2>3. QED
    BY <2>1, <2>2
<1> HIDE DEF Until
<1>3. ASSUME NEW n \in Nat, n \in Good
      PROVE  n + 1 \in Good
  <2> SUFFICES ASSUME n + 1 <= Len(s)
               PROVE  \E m \in [0..n + 1 -> T] : Until(n + 1, m)
    OBVIOUS
  <2>0. n <= Len(s)
    BY <1>1
  <2>1. PICK m \in [0..n -> T] : Until(n, m)
    BY <1>3, <2>0
  <2> DEFINE r == [i \in 0..n + 1 |-> IF i = n + 1 THEN turn[m[n]][s[n + 1]] ELSE m[i]]
  <2>2. m[n] \in T /\ s[n + 1] \in E
    BY <1>1
  <2>3. turn[m[n]][s[n + 1]] \in T
    BY <2>2
  <2>4. r \in [0..n + 1 -> T]
    BY <2>3
  <2>5. r[0] = first
    BY <2>1 DEF Until
  <2>6. ASSUME NEW i \in 1..n + 1
        PROVE  r[i] = turn[r[i - 1]][s[i]]
    <3>1. CASE i = n + 1
      <4>1. r[i] = turn[m[n]][s[n + 1]] /\ r[i - 1] = m[n]
        BY <3>1
      <4>2. QED
        BY <3>1, <4>1
    <3>2. CASE i # n + 1
      <4>1. i \in 1..n /\ r[i] = m[i] /\ r[i - 1] = m[i - 1]
        BY <3>2
      <4>2. QED
        BY <2>1, <4>1 DEF Until
    <3>3. QED
      BY <3>1, <3>2
  <2>7. Until(n + 1, r)
    BY <2>5, <2>6 DEF Until
  <2> HIDE DEF r
  <2>8. QED
    BY <2>4, <2>7
<1> HIDE DEF Good
<1>4. Nat \subseteq Good
  BY <1>2, <1>3, SetInduction
<1>5. Len(s) \in Good
  BY <1>1, <1>4
<1>6. PICK m \in [0..Len(s) -> T] : Until(Len(s), m)
  BY <1>1, <1>5 DEF Good
<1>7. QED
  BY <1>6 DEF Until, Turns

(* The elements of a finite set, each once, in an order not told.          *)
LEMMA SequenceOf ==
  ASSUME NEW S, IsFiniteSet(S)
  PROVE  /\ SetToSeq(S) \in SetToSeqs(S)
         /\ \A q \in SetToSeqs(S) : q \in Seq(S) /\ IsInjective(q) /\ ToSet(q) = S
<1> DEFINE c == Cardinality(S)
<1>1. c \in Nat /\ ExistsBijection(1..c, S)
  BY FS_CardinalityType
<1>2. PICK f : f \in Bijection(1..c, S)
  BY <1>1 DEF ExistsBijection
<1>3. f \in [1..c -> S] /\ IsInjective(f)
  BY <1>2 DEF Bijection, Injection, IsInjective
<1>4. IsFiniteSet(1..c) /\ Cardinality(1..c) = c
  BY <1>1, FS_Interval
<1>5. ASSUME NEW q \in SetToSeqs(S)
      PROVE  q \in Seq(S) /\ IsInjective(q) /\ ToSet(q) = S
  <2>1. q \in [1..c -> S] /\ DOMAIN q = 1..c /\ \A i, j \in 1..c : i # j => q[i] # q[j]
    BY DEF SetToSeqs
  <2> HIDE DEF c
  <2>2. q \in Seq(S)
    BY <1>1, <2>1
  <2>3. IsInjective(q)
    BY <2>1 DEF IsInjective
  <2>4. q \in Injection(1..c, S)
    BY <2>1 DEF Injection, IsInjective
  <2>5. q \in Surjection(1..c, S)
    BY <1>4, <2>4, FS_Injection DEF c
  <2>6. ToSet(q) = S
    BY <2>1, <2>5 DEF Surjection, ToSet
  <2>7. QED
    BY <2>2, <2>3, <2>6
<1>6. SetToSeq(S) \in SetToSeqs(S)
  <2>1. SetToSeq(S) \in [1..c -> S] /\ IsInjective(SetToSeq(S))
    BY <1>3 DEF SetToSeq
  <2> HIDE DEF c
  <2>2. DOMAIN SetToSeq(S) = 1..c
    BY <2>1
  <2>3. \A i, j \in 1..c : i # j => SetToSeq(S)[i] # SetToSeq(S)[j]
    BY <2>1, <2>2 DEF IsInjective
  <2>4. QED
    BY <2>1, <2>3 DEF SetToSeqs, c
<1>7. QED
  BY <1>5, <1>6
=============================================================================
