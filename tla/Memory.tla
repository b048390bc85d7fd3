------------------------------- MODULE Memory -------------------------------
(***************************************************************************)
(* What agents remember: the table of earlier outcomes, the brief an agent *)
(* is given from it, and the outcome it leaves.  An agent of an            *)
(* orchestrated run whose tools only read is repeated after a transient    *)
(* error; every attempt is briefed anew.  A task the runtime serves is     *)
(* briefed by a second packer.                                             *)
(*                                                                         *)
(* A text is its length in characters and the subject its words match.     *)
(***************************************************************************)
EXTENDS Integers, Sequences, SequencesExt, FiniteSets, Positions

CONSTANTS
  Workers,       \* agents
  Subject,       \* [Workers -> what the goal's longest word matches]
  RetryLimit,    \* [Workers -> attempts after the first]
  Runtimes,      \* the workers that are served by the runtime
  Sizes,         \* lengths a summary may have
  Retention,     \* rows the table keeps
  MaxEntries,    \* entries a search returns at most
  BriefBudget,   \* characters of a brief
  Header, Footer, \* characters around the entries
  Least          \* room worth cutting an entry for

ASSUME MemoryAssumption ==
  /\ Subject \in [Workers -> STRING] /\ RetryLimit \in [Workers -> Nat]
  /\ Runtimes \subseteq Workers /\ \A w \in Runtimes : RetryLimit[w] = 0
  /\ Sizes \subseteq Nat /\ Retention \in Nat \ {0}
  /\ {MaxEntries, BriefBudget, Header, Footer, Least} \subseteq Nat
  /\ Footer > 0 /\ Least > 0

VARIABLES
  memory,   \* the rows: [id, by, subject, size]; ids grow with updated_at
  worker,   \* where each agent stands
  stamp     \* the last timestamp given to an entry

memvars == <<memory, worker, stamp>>

NoBrief == [chars |-> 0, shown |-> <<>>]
NoEntry == [id |-> 0, by |-> CHOOSE w \in Workers : TRUE, subject |-> "", size |-> 0]

-----------------------------------------------------------------------------
(* search: the newest entries that match, at most `limit`.                 *)
Newest(rows) ==
  LET ids == {e.id : e \in rows}
  IN [n \in 1..Cardinality(ids) |->
        CHOOSE e \in rows : e.id = Nth(ids, Cardinality(ids) + 1 - n)]

Search(rows, subject, limit) ==
  LET found == Newest({e \in rows : e.subject = subject})
  IN SubSeq(found, 1, IF Len(found) > limit THEN limit ELSE Len(found))

NewPack == [chars |-> Header, shown |-> <<>>, full |-> FALSE]

(* mutant: the closing tag is not counted *)
PackOpen(pack, e) ==
  CASE pack.full -> pack
    [] ~pack.full /\ pack.chars + e.size <= BriefBudget ->
         [pack EXCEPT !.chars = @ + e.size, !.shown = Append(@, e)]
    [] OTHER ->
         LET remaining == BriefBudget - (pack.chars + Footer)
         IN IF remaining > Least
            THEN [chars |-> pack.chars + (remaining - 1) + 1,
                  shown |-> Append(pack.shown, e), full |-> TRUE]
            ELSE [pack EXCEPT !.full = TRUE]

(* One more line, whole if it fits; else cut, if that leaves more than a   *)
(* scrap, with a line end of its own.  Nothing follows a cut line.         *)
Pack(pack, e) ==
  CASE pack.full -> pack
    [] ~pack.full /\ pack.chars + e.size + Footer <= BriefBudget ->
         [pack EXCEPT !.chars = @ + e.size, !.shown = Append(@, e)]
    [] OTHER ->
         LET remaining == BriefBudget - (pack.chars + Footer)
         IN IF remaining > Least
            THEN [chars |-> pack.chars + (remaining - 1) + 1,
                  shown |-> Append(pack.shown, e), full |-> TRUE]
            ELSE [pack EXCEPT !.full = TRUE]

RetrieveTaskContext(rows, subject) ==
  LET found  == Search(rows, subject, MaxEntries)
      packed == Along(found, NewPack, Pack)[Len(found)]
  IN IF found = <<>> \/ Header + Footer >= BriefBudget \/ packed.shown = <<>>
     THEN NoBrief
     ELSE [chars |-> packed.chars + Footer, shown |-> packed.shown]

(* The runtime takes whole lines only, closes a brief without any, and     *)
(* counts one character less for the closing tag than it has.              *)
PackWhole(pack, e) ==
  IF pack.full \/ pack.chars + e.size + (Footer - 1) > BriefBudget
  THEN [pack EXCEPT !.full = TRUE]
  ELSE [pack EXCEPT !.chars = @ + e.size, !.shown = Append(@, e)]

TaskWithMemory(rows, subject) ==
  LET found  == Search(rows, subject, MaxEntries)
      packed == Along(found, NewPack, PackWhole)[Len(found)]
  IN IF found = <<>> THEN NoBrief
     ELSE [chars |-> packed.chars + Footer, shown |-> packed.shown]

-----------------------------------------------------------------------------
MemInit ==
  /\ memory = {}
  /\ worker = [w \in Workers |->
                 [at |-> "ready", attempt |-> 0, brief |-> NoBrief, leaves |-> NoEntry,
                  result |-> "none"]]
  /\ stamp = 0

(* The brief of an attempt.  A search that fails leaves an orchestrated    *)
(* agent without a brief; the runtime gives up the task.                   *)
Brief(w) ==
  /\ worker[w].at = "ready"
  /\ \/ worker' = [worker EXCEPT ![w].at = "working",
                                 ![w].brief = IF w \in Runtimes
                                              THEN TaskWithMemory(memory, Subject[w])
                                              ELSE RetrieveTaskContext(memory, Subject[w])]
     \/ /\ w \notin Runtimes
        /\ worker' = [worker EXCEPT ![w].at = "working", ![w].brief = NoBrief]
     \/ /\ w \in Runtimes
        /\ worker' = [worker EXCEPT ![w].at = "over", ![w].result = "error"]
  /\ UNCHANGED <<memory, stamp>>

(* Only a transient error is repeated, and only so often.                  *)
Repeats(w, result) == result = "transient" /\ worker[w].attempt < RetryLimit[w]

(* Where an attempt whose outcome is stored, or that leaves none, goes on. *)
After(w, result) ==
  [at      |-> IF Repeats(w, result) THEN "ready" ELSE "over",
   attempt |-> IF Repeats(w, result) THEN worker[w].attempt + 1 ELSE worker[w].attempt,
   brief   |-> NoBrief, leaves |-> NoEntry, result |-> result]

(* The loop returns a result, successful or not, or an error.  Of a result *)
(* with a summary an entry is made; the redacted text may be of any        *)
(* length and about anything.                                              *)
EndAttempt(w) ==
  /\ worker[w].at = "working"
  /\ \/ \E result \in {"success", "failure"}, size \in Sizes, s \in {Subject[v] : v \in Workers} :
          /\ worker' = [worker EXCEPT
               ![w].at = "storing", ![w].result = result, ![w].brief = NoBrief,
               ![w].leaves = [id |-> stamp + 1, by |-> w, subject |-> s, size |-> size]]
          /\ stamp' = stamp + 1
     \/ \E result \in {"success", "failure", "transient", "error"} :
          /\ worker' = [worker EXCEPT ![w] = After(w, result)]
          /\ UNCHANGED stamp
  /\ UNCHANGED memory

Retained(rows) ==
  LET seq == Newest(rows)
  IN ToSet(SubSeq(seq, 1, IF Len(seq) > Retention THEN Retention ELSE Len(seq)))

(* The insertion and the retention are one transaction.  Entries may be    *)
(* stored in another order than their timestamps have.  A store that fails *)
(* is warned of; the runtime returns it in place of the result.            *)
StoreOutcome(w) ==
  /\ worker[w].at = "storing"
  /\ \/ /\ memory' = Retained(memory \cup {worker[w].leaves})
        /\ worker' = [worker EXCEPT ![w] = After(w, worker[w].result)]
     \/ /\ UNCHANGED memory
        /\ worker' = [worker EXCEPT
             ![w] = IF w \in Runtimes THEN After(w, "error") ELSE After(w, worker[w].result)]
  /\ UNCHANGED stamp

MemNext == \E w \in Workers : Brief(w) \/ EndAttempt(w) \/ StoreOutcome(w)

MemFairness ==
  \A w \in Workers : WF_memvars(Brief(w) \/ EndAttempt(w) \/ StoreOutcome(w))

MemSpec == MemInit /\ [][MemNext]_memvars /\ MemFairness

-----------------------------------------------------------------------------
(* The brief of an orchestrated agent fits its budget whatever was stored, *)
(* is closed, and is never an empty pair of tags; and no attempt is        *)
(* briefed with what an earlier attempt of the same agent left, because an *)
(* attempt that leaves something is never repeated (context.rs, the retry  *)
(* loop of run_orchestrated).                                              *)
BriefsAreSound ==
  \A w \in Workers \ Runtimes :
    /\ worker[w].brief.chars <= BriefBudget
    /\ worker[w].brief.chars > 0 <=> worker[w].brief.shown # <<>>
    /\ \A i \in DOMAIN worker[w].brief.shown : worker[w].brief.shown[i].by # w

(* Violated: the runtime's brief fits RUNTIME_MEMORY_CONTEXT_CHARS.        *)
RuntimeBriefFits == \A w \in Runtimes : worker[w].brief.chars <= BriefBudget
=============================================================================
