----------------------------- MODULE Reliability -----------------------------
(***************************************************************************)
(* How reliable the tools are: every program keeps its latest samples of   *)
(* each tool in memory and appends each to a table all programs of the     *)
(* user share.  Memory is written first, the table by a worker thread the  *)
(* caller waits for; agents of one program record at the same time.        *)
(*                                                                         *)
(* Time is counted in half-lives of a sample's weight.  A sample carries   *)
(* the number of its recording, which stands for its duration too.         *)
(***************************************************************************)
EXTENDS Integers, Sequences, SequencesExt, FiniteSets, Positions

CONSTANTS
  Programs,    \* programs of one user, with one data directory
  Tools,       \* tools that are called
  Asking,      \* those of them that need an approval
  Outcomes,    \* outcomes a call may have
  Window,      \* samples kept of a tool
  Vanishes,    \* half-lives after which a weight rounds to zero
  MaxSamples,  \* bound: samples recorded
  MaxTime      \* bound: half-lives that pass

ASSUME ReliabilityAssumption ==
  /\ Asking \subseteq Tools /\ Programs \cap {"test"} = {}
  /\ Outcomes \subseteq {"success", "policy_denial", "validation_failure",
                         "transport_failure", "tool_failure"}
  /\ Window \in Nat \ {0} /\ Vanishes \in Nat \ {0}
  /\ MaxSamples \in Nat /\ MaxTime \in Nat

VARIABLES
  rows,     \* the table, in the order of its ids
  held,     \* what each program holds of each tool; nothing when closed
  flights,  \* samples handed to worker threads: [by, sample]
  samples,  \* samples recorded so far
  clock,
  apart     \* history: programs whose memory the table need not agree with

relvars == <<rows, held, flights, samples, clock, apart>>

Closed == [open |-> FALSE, of |-> [t \in Tools |-> <<>>]]

-----------------------------------------------------------------------------
OfTool(seq, t) == Pick(seq, {i \in DOMAIN seq : seq[i].tool = t})
Trim(seq) == LastOf(seq, Window)

(* The insertion and the deletion of what is beyond the window are one     *)
(* transaction.                                                            *)
Appended(table, sample) ==
  LET all  == Append(table, sample)
      kept == Trim(OfTool(all, sample.tool))
  IN Pick(all, {i \in DOMAIN all : all[i].tool # sample.tool \/ Contains(kept, all[i])})

LoadedSamples == [t \in Tools |-> Trim(OfTool(rows, t))]

Sample(t, outcome) ==
  [tool |-> t, outcome |-> outcome, at |-> clock, n |-> samples]

RelInit ==
  /\ rows = <<>> /\ flights = {} /\ samples = 0 /\ clock = 0
  /\ held = [p \in Programs |-> Closed]
  /\ apart = {}

(* persistent                                                              *)
OpenTracker(p) ==
  /\ ~held[p].open
  /\ held' = [held EXCEPT ![p] = [open |-> TRUE, of |-> LoadedSamples]]
  /\ apart' = apart \ {p}
  /\ UNCHANGED <<rows, flights, samples, clock>>

(* record_outcome_async, up to the await.                                  *)
Record(p, t, outcome) ==
  /\ held[p].open
  /\ samples < MaxSamples
  /\ samples' = samples + 1
  /\ held' = [held EXCEPT ![p].of[t] = Trim(Append(@, Sample(t, outcome)))]
  /\ flights' = flights \cup {[by |-> p, sample |-> Sample(t, outcome)]}
  /\ UNCHANGED <<rows, clock, apart>>

(* The worker appends.  Workers of one program may overtake each other.    *)
Overtakes(f) ==
  \E g \in flights : g.by = f.by /\ g.sample.tool = f.sample.tool
                       /\ g.sample.n < f.sample.n

AppendFlight(f) ==
  /\ rows' = Appended(rows, f.sample)
  /\ flights' = flights \ {f}
  /\ apart' = apart \cup {p \in Programs : p # f.by \/ Overtakes(f)}
  /\ UNCHANGED <<held, samples, clock>>

(* A failed append is warned of; memory keeps the sample.                  *)
AppendFails(f) ==
  /\ flights' = flights \ {f}
  /\ apart' = apart \cup {f.by}
  /\ UNCHANGED <<rows, held, samples, clock>>

(* The program ends, or is killed: a worker that has not committed yet     *)
(* does not.                                                               *)
Exit(p) ==
  /\ held[p].open
  /\ held' = [held EXCEPT ![p] = Closed]
  /\ flights' = {f \in flights : f.by # p}
  /\ UNCHANGED <<rows, samples, clock, apart>>

(* `raven tools test` opens a tracker for one sample.                      *)
TestOutcome(t, arguments, approve, ran) ==
  CASE arguments = "bad" -> "validation_failure"
    [] t \in Asking /\ ~approve -> "policy_denial"
    [] OTHER -> ran

TestTool(t, arguments, dryRun, approve, ran) ==
  /\ samples < MaxSamples
  /\ IF dryRun THEN UNCHANGED <<rows, samples, apart>>
     ELSE /\ rows' = Appended(rows, Sample(t, TestOutcome(t, arguments, approve, ran)))
          /\ samples' = samples + 1
          /\ apart' = Programs
  /\ UNCHANGED <<held, flights, clock>>

HalfLife ==
  /\ clock < MaxTime
  /\ clock' = clock + 1
  /\ UNCHANGED <<rows, held, flights, samples, apart>>

RelNext ==
  \/ \E p \in Programs : OpenTracker(p) \/ Exit(p)
  \/ \E p \in Programs, t \in Tools, o \in Outcomes : Record(p, t, o)
  \/ \E f \in flights : AppendFlight(f) \/ AppendFails(f)
  \/ \E t \in Tools, arguments \in {"bad", "good"}, dryRun, approve \in BOOLEAN,
        ran \in Outcomes :
       TestTool(t, arguments, dryRun, approve, ran)
  \/ HalfLife

RelSpec == RelInit /\ [][RelNext]_relvars

-----------------------------------------------------------------------------
(* What a program says of a tool.  A weight halves every half-life, until  *)
(* it is too small for a float; scores are fractions.                      *)
Weight(s) ==
  IF clock - s.at >= Vanishes THEN 0 ELSE 2^(Vanishes - (clock - s.at))

Weights(seq) == FoldSeq(LAMBDA s, sum : sum + Weight(s), 0, seq)
Successes(seq) == Pick(seq, {i \in DOMAIN seq : seq[i].outcome = "success"})

DefaultScore == [won |-> 1, of |-> 2]

Score(seq) ==
  IF Weights(seq) = 0 THEN DefaultScore
  ELSE [won |-> Weights(Successes(seq)), of |-> Weights(seq)]

(* The alert threshold is 0.7.                                             *)
Summary(seq) ==
  [score      |-> Score(seq),
   total      |-> Len(seq),
   successes  |-> Len(Successes(seq)),
   failures   |-> Len(seq) - Len(Successes(seq)),
   unreliable |-> seq # <<>> /\ 10 * Score(seq).won < 7 * Score(seq).of]

Reported(p) == {t \in Tools : held[p].of[t] # <<>>}

-----------------------------------------------------------------------------
(* A program that alone has recorded since it opened its tracker, whose    *)
(* appends were made in order and did not fail, would say of every tool    *)
(* what it says now after a restart: window, order and other tools'        *)
(* samples do not come between memory and table (record_outcome_async,     *)
(* append, persistent).                                                    *)
RestartAgrees ==
  \A p \in Programs \ apart :
    held[p].open /\ (\A f \in flights : f.by # p) =>
      held[p].of = LoadedSamples

(* Violated: the default score is for tools with no data                   *)
(* (reliability.rs:23).                                                    *)
DefaultIsForNoData ==
  \A p \in Programs : \A t \in Reported(p) :
    Summary(held[p].of[t]).failures = 0 => ~Summary(held[p].of[t]).unreliable
=============================================================================
