------------------------------- MODULE FileLock -------------------------------
(***************************************************************************)
(* FileLockManager as a shared component: any agent calls any operation on *)
(* any path, in any order, and each call is atomic (the manager's only     *)
(* owner is a Composer behind &mut self).  `saved` is the LockSnapshot last *)
(* taken.                                                                  *)
(***************************************************************************)
EXTENDS LockTable, SequencesExt

VARIABLES
  locks,    \* the lock table: path -> PathState
  saved     \* the last snapshot, as a table

vars == <<locks, saved>>

TypeOK ==
  /\ locks \in [File -> PathState]
  /\ saved \in [File -> PathState]

Init ==
  /\ locks = [f \in File |-> NoLocks]
  /\ saved = [f \in File |-> NoLocks]

-----------------------------------------------------------------------------
AcquireReadLock(a, f) ==
  /\ locks' = [locks EXCEPT ![f] = AcquireRead(@, a)]
  /\ UNCHANGED saved

AcquireWriteLock(a, f) ==
  /\ locks' = [locks EXCEPT ![f] = AcquireWrite(@, a)]
  /\ UNCHANGED saved

ReleaseLock(a, f) ==
  /\ locks' = [locks EXCEPT ![f] = Release(@, a)]
  /\ UNCHANGED saved

ReleaseAllLocks(a) ==
  /\ locks' = [f \in File |-> ReleaseAll(locks[f], a)]
  /\ UNCHANGED saved

TakeSnapshot ==
  /\ saved' = locks
  /\ UNCHANGED locks

(* restore_from, on one path.  The maps are cleared and the snapshot's     *)
(* holders are acquired again, in the order a DashMap iteration listed     *)
(* them, so any: the first is granted, readers join a reader, a writer it  *)
(* excludes is queued and a reader it excludes gets nothing.  Then the     *)
(* snapshot's queue, when the path has one, replaces the queue.            *)
RestoreOutcomes(p) ==
  IF p.holders = {}
  THEN {p}
  ELSE UNION {
    LET late == {h \in p.holders \ {first} : h.mode = "write"}
    IN {[holders |-> IF first.mode = "write"
                     THEN {first}
                     ELSE {h \in p.holders : h.mode = "read"},
         queue   |-> q] :
          q \in IF p.queue # <<>> \/ late = {}
                THEN {p.queue}
                ELSE SetToSeqs({h.agent : h \in late})} :
    first \in p.holders}

Restore ==
  \E table \in [File -> UNION {RestoreOutcomes(saved[f]) : f \in File}] :
    /\ \A f \in File : table[f] \in RestoreOutcomes(saved[f])
    /\ locks' = table
    /\ UNCHANGED saved

Next ==
  \/ \E a \in Agent, f \in File :
       \/ AcquireReadLock(a, f)
       \/ AcquireWriteLock(a, f)
       \/ ReleaseLock(a, f)
  \/ \E a \in Agent : ReleaseAllLocks(a)
  \/ TakeSnapshot
  \/ Restore

Spec == Init /\ [][Next]_vars

-----------------------------------------------------------------------------
(* "Only ONE agent can hold a WRITE lock", "No READ locks are allowed      *)
(* while a WRITE lock is held": file_lock.rs, the rules of the manager.    *)
ExclusiveWriter == \A f \in File : Exclusive(locks[f])

(* A queued writer always has somebody whose release will wake it, and     *)
(* that is never itself: it waits once, and not behind a lock it writes    *)
(* under (the comments of acquire_write).                                  *)
NoLostWakeup == \A f \in File : NoneForgotten(locks[f]) /\ WaitsOnce(locks[f])

(* "Writers are queued FIFO": whatever operation makes an agent the writer *)
(* of a path, nobody who still waits for it had been waiting longer.       *)
FifoGrant == [][Restore \/ \A f \in File : InOrder(locks[f], locks'[f])]_vars

(* restore_from acquires the snapshot's locks one by one, each subject to  *)
(* refusal, in any order; it still gives back the table that was saved.    *)
RestoreRoundTrip == [][Restore => locks' = saved]_vars

===============================================================================
