------------------------------ MODULE AuditLog ------------------------------
(***************************************************************************)
(* The audit logger (odin-audit/src/logger.rs) and the commands that read  *)
(* its file (`raven tasks`, `sessions`, `audit replay`).                   *)
(*                                                                         *)
(* Tasks of one process log entries through one logger: an entry goes to   *)
(* the history that answers queries, to the buffer, and with a flush to    *)
(* the file of JSON lines.  History, buffer and file have a lock each,     *)
(* taken one after the other.  A write may fail half way; the logger then  *)
(* cuts the file back, which may fail as well, and returns the batch to    *)
(* the buffer.  When the process ends, dropping the logger tries once more *)
(* and cuts nothing back.  The next process appends to what it finds.      *)
(***************************************************************************)
EXTENDS Naturals, Sequences, FiniteSets, SequencesExt, Positions

CONSTANTS
  Logger,       \* the tasks that log; each is the session of its entries
  PerTask,      \* bound: the entries a task logs
  BufferSize,   \* entries that trigger a flush, 1 in every program that builds one
  HistorySize,  \* entries kept for queries
  QueryLimit,   \* of a query
  MaxFaults,    \* bound: operations on the file that fail
  MaxQueries    \* bound

ASSUME AuditAssumption ==
  /\ {PerTask, BufferSize, HistorySize, QueryLimit, MaxFaults, MaxQueries} \subseteq Nat
  /\ BufferSize > 0
  /\ Logger \cap {"nobody", "query", "any"} = {}

VARIABLES
  logfile,      \* the lines of the file; one that is not whole does not parse
  buffer,    \* entries not yet on their way to the file
  recent,    \* `history`: the last entries, oldest first
  batch,     \* the entries drained by the flush that is writing
  before,    \* the length of the file when that flush began
  holder,    \* who holds the file's mutex
  task,      \* task -> [at, entry, outcome]
  accepted,  \* history: the entries whose log() returned Ok
  query,     \* the query under way, with its answer when it has one
  life,      \* "up", "closed", "again": the process and its successor
  faults, queries,
  uncut      \* history: the rollbacks that failed

avars == <<logfile, buffer, recent, batch, before, holder, task, accepted, query,
           life, faults, queries, uncut>>

Entry == Logger \X (1..PerTask)
Session(e) == e[1]
Line(e) == [entry |-> e, text |-> "whole"]
TornLine(e) == [entry |-> e, text |-> "open"]   \* the newline is missing, too
Whole(line) == line.text = "whole"
Lines(es) == [i \in DOMAIN es |-> Line(es[i])]
NoHolder == "nobody"
NoQuery == [of |-> "none", found |-> <<>>, known |-> {}, must |-> {}, answer |-> "none"]

AuditInit ==
  /\ logfile = <<>> /\ buffer = <<>> /\ recent = <<>> /\ batch = <<>>
  /\ before = 0
  /\ holder = NoHolder
  /\ task = [t \in Logger |-> [at |-> "idle", entry |-> 0]]
  /\ accepted = {}
  /\ query = NoQuery
  /\ life = "up"
  /\ faults = 0 /\ queries = 0 /\ uncut = 0

IsUp == life # "closed"
Readable(lines) == {line.entry : line \in {l \in ToSet(lines) : Whole(l)}}
Entered(t) == <<t, task[t].entry>>
Moves(t, at) == task' = [task EXCEPT ![t].at = at]

-----------------------------------------------------------------------------
(* log: redact, push to the history, push to the buffer, flush if due.     *)

Log(t) ==
  /\ IsUp /\ task[t].at = "idle" /\ task[t].entry < PerTask
  /\ task' = [task EXCEPT ![t] = [at |-> "buffer", entry |-> @.entry + 1]]
  /\ recent' = LastOf(Append(recent, <<t, task[t].entry + 1>>), HistorySize)
  /\ UNCHANGED <<logfile, buffer, batch, before, holder, accepted, query, life, faults, queries, uncut>>

PushBuffer(t) ==
  /\ task[t].at = "buffer"
  /\ buffer' = Append(buffer, Entered(t))
  /\ Moves(t, "check")
  /\ UNCHANGED <<logfile, recent, batch, before, holder, accepted, query, life, faults, queries, uncut>>

(* The buffer is looked at under a lock of its own: another task may have  *)
(* drained the entry in between.                                           *)
CheckBuffer(t) ==
  /\ task[t].at = "check"
  /\ IF Len(buffer) >= BufferSize
     THEN Moves(t, "flush") /\ UNCHANGED accepted
     ELSE Moves(t, "idle") /\ accepted' = accepted \cup {Entered(t)}
  /\ UNCHANGED <<logfile, buffer, recent, batch, before, holder, query, life, faults, queries, uncut>>

Returns(t, ok) ==
  /\ Moves(t, "idle")
  /\ accepted' = IF ok THEN accepted \cup {Entered(t)} ELSE accepted

(* flush_to_file: the flush lock, the file's mutex, the file's length; an  *)
(* empty buffer is a success, otherwise the batch is encoded and drained.  *)
FlushNothing(t) ==
  /\ task[t].at = "flush" /\ holder = NoHolder
  /\ buffer = <<>>
  /\ Returns(t, TRUE)
  /\ UNCHANGED <<logfile, buffer, recent, batch, before, holder, query, life, faults, queries, uncut>>

(* The length cannot be read: an error before the buffer is touched.       *)
FlushRefused(t) ==
  /\ task[t].at = "flush" /\ holder = NoHolder
  /\ faults < MaxFaults /\ faults' = faults + 1
  /\ Returns(t, FALSE)
  /\ UNCHANGED <<logfile, buffer, recent, batch, before, holder, query, life, queries, uncut>>

Drain(t) ==
  /\ task[t].at = "flush" /\ holder = NoHolder
  /\ buffer # <<>>
  /\ holder' = t
  /\ batch' = buffer /\ buffer' = <<>>
  /\ before' = Len(logfile)
  /\ Moves(t, "write")
  /\ UNCHANGED <<logfile, recent, accepted, query, life, faults, queries, uncut>>

(* What reaches the file: a line behind a torn one is part of that line.   *)
OpenEnded(lines) == lines # <<>> /\ Last(lines).text = "open"
Spoiled(line) == [line EXCEPT !.text = IF Whole(line) THEN "spoiled" ELSE @]
Extended(lines, new) ==
  lines \o (IF new # <<>> /\ OpenEnded(lines) THEN <<Spoiled(new[1])>> \o Tail(new) ELSE new)

WriteAndSync(t) ==
  /\ task[t].at = "write"
  /\ logfile' = Extended(logfile, Lines(batch))
  /\ batch' = <<>> /\ before' = 0 /\ holder' = NoHolder
  /\ Returns(t, TRUE)
  /\ UNCHANGED <<buffer, recent, query, life, faults, queries, uncut>>

(* Part of the batch, from nothing to all of it, lands before write or     *)
(* sync fails; it may end within a line.                                   *)
Partial(es, k, torn) ==
  Lines(SubSeq(es, 1, k)) \o IF torn /\ k < Len(es) THEN <<TornLine(es[k + 1])>> ELSE <<>>

SinkFails(t) ==
  /\ task[t].at = "write" /\ faults < MaxFaults
  /\ \E k \in 0..Len(batch), torn \in BOOLEAN :
       logfile' = Extended(logfile, Partial(batch, k, torn))
  /\ faults' = faults + 1
  /\ Moves(t, "rollback")
  /\ UNCHANGED <<buffer, recent, batch, before, holder, accepted, query, life, queries, uncut>>

ForgetBatch(t) ==   \* mutant: the batch that failed does not go back to the buffer
  /\ task[t].at = "rollback"
  /\ logfile' = SubSeq(logfile, 1, before) /\ batch' = <<>> /\ holder' = NoHolder
  /\ Returns(t, FALSE)
  /\ UNCHANGED <<buffer, recent, before, query, life, faults, queries, uncut>>

(* The batch goes back; entries pushed meanwhile stay behind it.           *)
GiveBack(t) ==
  /\ task[t].at = "rollback"
  /\ buffer' = batch \o buffer
  /\ batch' = <<>> /\ before' = 0 /\ holder' = NoHolder
  /\ Returns(t, FALSE)
  /\ UNCHANGED <<recent, query, life, queries>>

(* set_len; a seek or flush that fails behind it only changes the message. *)
Rollback(t) ==
  /\ GiveBack(t)
  /\ logfile' = SubSeq(logfile, 1, before)
  /\ UNCHANGED <<faults, uncut>>

(* set_len fails: what was written stays, and the batch goes back all the  *)
(* same.                                                                   *)
RollbackFails(t) ==
  /\ GiveBack(t)
  /\ faults < MaxFaults /\ faults' = faults + 1
  /\ uncut' = uncut + 1
  /\ UNCHANGED logfile

-----------------------------------------------------------------------------
(* query: the file's mutex for the whole of it, the history first, then    *)
(* the file from its end for what is missing.                              *)

NewestOf(s, n) == LastOf(s, n)
Of(s, e) == s = "any" \/ Session(e) = s
OfHistory(s) == Pick(recent, {i \in DOMAIN recent : Of(s, recent[i])})

QueryHistory(s) ==
  /\ IsUp /\ holder = NoHolder /\ queries < MaxQueries
  /\ holder' = "query"
  /\ queries' = queries + 1
  /\ query' = [of |-> s, found |-> NewestOf(OfHistory(s), QueryLimit),
               known |-> ToSet(recent), must |-> {e \in Readable(logfile) : Of(s, e)},
               answer |-> "none"]
  /\ UNCHANGED <<logfile, buffer, recent, batch, before, task, accepted, life, faults,
                 uncut>>

(* read_persisted_reverse and push_persisted_match: a line that does not   *)
(* parse ends the query with an error, unless enough was found behind it.  *)
Known(e) == e \in query.known
Sought(i) == Whole(logfile[i]) /\ Of(query.of, logfile[i].entry) /\ ~Known(logfile[i].entry)
Missing == QueryLimit - Len(query.found)
Reached(i) == Cardinality({j \in (i + 1)..Len(logfile) : Sought(j)}) < Missing

Older == {i \in DOMAIN logfile : Sought(i) /\ Reached(i)}

QueryFile ==
  /\ holder = "query" /\ query.answer = "none"
  /\ query' = IF \E i \in DOMAIN logfile : Reached(i) /\ ~Whole(logfile[i])
              THEN [query EXCEPT !.answer = "error", !.known = {}]
              ELSE [query EXCEPT !.answer = "ok", !.known = {},
                                 !.found = Pick([i \in DOMAIN logfile |-> logfile[i].entry], Older) \o @]
  /\ UNCHANGED <<logfile, buffer, recent, batch, before, holder, task, accepted, life, faults,
                 queries, uncut>>

(* The caller has its answer; the mutex is held until then.                *)
QueryReturns ==
  /\ holder = "query" /\ query.answer # "none"
  /\ holder' = NoHolder
  /\ query' = NoQuery
  /\ UNCHANGED <<logfile, buffer, recent, batch, before, task, accepted, life, faults,
                 queries, uncut>>

(* recent(limit) is a query for any session.                               *)
StartQuery == \E s \in Logger \cup {"any"} : QueryHistory(s)

-----------------------------------------------------------------------------
(* The process ends; the mutexes are free.  Drop writes what is buffered   *)
(* and ignores a failure.  The next process has an empty history.          *)

Quiet == holder = NoHolder /\ \A t \in Logger : task[t].at = "idle"

DropLogger ==
  /\ life = "up" /\ Quiet
  /\ \/ logfile' = Extended(logfile, Lines(buffer)) /\ UNCHANGED faults
     \/ /\ faults < MaxFaults /\ faults' = faults + 1
        /\ \E k \in 0..(Len(buffer) - 1), torn \in BOOLEAN :
             logfile' = Extended(logfile, Partial(buffer, k, torn))
  /\ buffer' = <<>> /\ recent' = <<>>
  /\ life' = "closed"
  /\ UNCHANGED <<batch, before, holder, task, accepted, query, queries, uncut>>

(* A crash: what the kernel has of an unfinished write stays.              *)
Crash ==
  /\ life = "up"
  /\ buffer' = <<>> /\ recent' = <<>> /\ batch' = <<>> /\ holder' = NoHolder
  /\ before' = 0
  /\ task' = [t \in Logger |-> [task[t] EXCEPT !.at = "idle"]]
  /\ query' = NoQuery
  /\ life' = "closed"
  /\ UNCHANGED <<logfile, accepted, faults, queries, uncut>>

OpenFile ==
  /\ life = "closed"
  /\ life' = "again"
  /\ UNCHANGED <<logfile, buffer, recent, batch, before, holder, task, accepted, query,
                 faults, queries, uncut>>

LogStep(t) ==
  \/ Log(t) \/ PushBuffer(t) \/ CheckBuffer(t)
  \/ FlushNothing(t) \/ FlushRefused(t) \/ Drain(t) \/ WriteAndSync(t)
  \/ SinkFails(t) \/ Rollback(t) \/ RollbackFails(t)

AuditNext ==
  \/ \E t \in Logger : LogStep(t)
  \/ StartQuery \/ QueryFile \/ QueryReturns
  \/ DropLogger \/ Crash \/ OpenFile

AuditSpec == AuditInit /\ [][AuditNext]_avars

-----------------------------------------------------------------------------
Held == ToSet(buffer) \cup ToSet(batch)

(* While the logger lives an entry past its push is in the buffer, in the  *)
(* batch being written or on the disk, and on the disk at most once, with  *)
(* every line whole, through failed writes, their rollbacks and retries.   *)
(* Of this a rollback that fails costs what it must and no more: it can    *)
(* leave one more copy of each entry, and one torn line, which spoils one  *)
(* line of the next write and so can lose one entry.  The end of the       *)
(* process can cost another torn line (flush_to_file, drop).               *)
Pushed == {e \in Entry : \/ e[2] < task[Session(e)].entry
                         \/ e = Entered(Session(e)) /\ task[Session(e)].at # "buffer"}
Copies(lines, e) == {i \in DOMAIN lines : lines[i].entry = e}
Broken(lines) == {i \in DOMAIN lines : ~Whole(lines[i])}
TornAtMost == IF life = "up" THEN uncut ELSE uncut + 1

EntriesKept ==
  /\ life = "up" => Cardinality(Pushed \ (Held \cup Readable(logfile))) <= uncut
  /\ ToSet(buffer) \cap ToSet(batch) = {}
  /\ holder \notin Logger =>
       /\ \A e \in Entry : Cardinality(Copies(logfile, e)) <= uncut + 1
       /\ Cardinality(Broken(logfile)) <= 2 * TornAtMost

(* A query's answer has no entry twice unless the file has, and unless it  *)
(* is full nothing that was on the disk when it began is missing, wherever *)
(* the entry was found.                                                    *)
QueryIsComplete ==
  query.answer = "ok" =>
    /\ uncut = 0 => IsInjective(query.found)
    /\ Len(query.found) < QueryLimit => query.must \subseteq ToSet(query.found)

(* "Errors are returned to the caller so a sink outage cannot be mistaken  *)
(* for a durable audit write" (logger.rs:426-427): an entry whose log()    *)
(* returned Ok does not come back to the buffer from a write that failed.  *)
(* It does: a task that finds the buffer drained by another task's flush   *)
(* returns Ok before that flush has written anything.                      *)
OkIsDurable == life = "up" => accepted \cap ToSet(buffer) = {}
=============================================================================
