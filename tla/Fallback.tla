------------------------------ MODULE Fallback ------------------------------
(***************************************************************************)
(* The provider layer (crates/odin-providers): how a configuration becomes *)
(* a chain of providers, how an HTTP answer becomes a retryable or a       *)
(* permanent error, and the chain itself: callers that try one provider    *)
(* after the other behind a circuit breaker per provider name, and the     *)
(* background task that checks their health until the chain is dropped.    *)
(*                                                                         *)
(* A caller works without a lock while a provider answers; the breaker and *)
(* the health status of a name have a lock each, so that a success is      *)
(* recorded in two steps.                                                  *)
(***************************************************************************)
EXTENDS Integers, Sequences, FiniteSets, SequencesExt

CONSTANTS
  Clients,
  Providers,   \* the names of the configuration's provider map
  Configs,     \* name -> [type, key, model, chain]
  Primaries,   \* the names a composition may build its provider from
  Threshold,   \* circuit_breaker_threshold, 0 turns the breaker off
  Cooldown,    \* seconds an open circuit is left alone
  Checked,     \* whether health_check_interval_secs is positive
  MaxNow,      \* bound: the clock stops there
  MaxStarts     \* bound: calls that are started

ASSUME FallbackAssumption ==
  /\ Threshold \in Nat /\ Cooldown \in Nat /\ MaxNow \in Nat
  /\ Configs \in [Providers -> [type : STRING, key : STRING, model : STRING, chain : Seq(STRING)]]
  /\ Primaries \subseteq Providers
  /\ Checked \in BOOLEAN

VARIABLES
  chain,      \* the ordered names, the primary's first
  breaker,    \* name -> [failures, last, open]
  health,     \* name -> what provider_info shows
  attempt,    \* caller -> [pc, at, stream]
  checker,    \* the health check task: [pc, at]
  shutdown,   \* [flag, woken]: health_check_cancelled, notify_waiters seen
  elapsed,
  started,    \* calls started so far
  answers     \* history: name -> [streak, last], from the answers themselves

chainvars == <<chain, breaker, health, attempt, checker, shutdown, elapsed, started, answers>>

Names == {chain[i] : i \in DOMAIN chain}

-----------------------------------------------------------------------------
(* Building the chain.                                                     *)

(* A key given directly wins, an empty one counts as none.                 *)
ApiKey(cfg) == cfg.key # "none"

Buildable(cfg) ==
  \/ cfg.type \in {"openai_compat", "local", "ollama"}
  \/ /\ cfg.type = "anthropic"
     /\ ApiKey(cfg)

(* The primary is filed under the name of its default model. <<>> is an    *)
(* error: a name missing from the map or a provider that cannot be built.  *)
BuildChain(cfg) ==
  IF /\ Buildable(cfg)
     /\ \A i \in DOMAIN cfg.chain : /\ cfg.chain[i] \in Providers
                                    /\ Buildable(Configs[cfg.chain[i]])
    THEN <<cfg.model>> \o cfg.chain
    ELSE <<>>

(* What a provider's answer becomes: an HTTP status, no answer at all, a   *)
(* body that is not the JSON expected, or options it refuses to send.      *)
Replies == {"ok", "status_429", "status_5xx", "status_4xx", "unreachable",
            "bad_body", "bad_options"}

ErrorOf(answer) ==
  CASE answer \in {"status_429", "status_5xx"} -> "Provider"
    [] answer = "unreachable" -> "Provider"
    [] answer = "status_4xx" -> "ProviderPermanent"
    [] answer = "bad_body" -> "ProviderPermanent"
    [] answer = "bad_options" -> "Validation"

Retryable(error) == error \in {"Provider", "RateLimit", "Timeout", "Network"}

-----------------------------------------------------------------------------
NewBreaker == [failures |-> 0, last |-> 0, open |-> FALSE]

ChainInit ==
  /\ chain \in {BuildChain(Configs[p]) : p \in Primaries} \ {<<>>}
  /\ breaker = [n \in Names |-> NewBreaker]
  /\ health = [n \in Names |-> "Unknown"]
  /\ attempt = [c \in Clients |-> [pc |-> "idle", at |-> 1, stream |-> FALSE]]
  /\ checker = [pc |-> "off", at |-> 1]
  /\ shutdown = [flag |-> FALSE, woken |-> FALSE]
  /\ elapsed = 0 /\ started = 0
  /\ answers = [n \in Names |-> [streak |-> 0, last |-> 0]]

RecordSuccessKeepsCount(b) == [b EXCEPT !.open = FALSE]   \* mutant

RecordSuccess(b) == [b EXCEPT !.failures = 0, !.open = FALSE]

RecordFailure(b) ==
  [failures |-> b.failures + 1,
   last |-> elapsed,
   open |-> b.open \/ (Threshold > 0 /\ b.failures + 1 >= Threshold)]

IsSkippable(b) ==
  /\ b.open /\ Threshold # 0
  /\ elapsed - b.last < Cooldown

-----------------------------------------------------------------------------
(* A call.                                                                 *)

Current(c) == chain[attempt[c].at]

EnsureHealthChecks ==
  checker' = IF Checked /\ checker.pc = "off"
               THEN [pc |-> "spawned", at |-> 1] ELSE checker

Start(c) ==
  /\ attempt[c].pc = "idle" /\ started < MaxStarts /\ ~shutdown.flag
  /\ \E s \in BOOLEAN : attempt' = [attempt EXCEPT ![c] = [pc |-> "next", at |-> 1, stream |-> s]]
  /\ EnsureHealthChecks
  /\ started' = started + 1
  /\ UNCHANGED <<chain, breaker, health, shutdown, elapsed, answers>>

PassOver(c) ==
  /\ attempt[c].pc = "next" /\ attempt[c].at <= Len(chain)
  /\ IsSkippable(breaker[Current(c)])
  /\ attempt' = [attempt EXCEPT ![c].at = @ + 1]
  /\ UNCHANGED <<chain, breaker, health, checker, shutdown, elapsed, started, answers>>

Try(c) ==
  /\ attempt[c].pc = "next" /\ attempt[c].at <= Len(chain)
  /\ ~IsSkippable(breaker[Current(c)])
  /\ attempt' = [attempt EXCEPT ![c].pc = "asking"]
  /\ UNCHANGED <<chain, breaker, health, checker, shutdown, elapsed, started, answers>>

(* All failed or were skipped: a retryable error in the chain's name.      *)
Exhausted(c) ==
  /\ attempt[c].pc = "next" /\ attempt[c].at > Len(chain)
  /\ attempt' = [attempt EXCEPT ![c].pc = "idle"]
  /\ UNCHANGED <<chain, breaker, health, checker, shutdown, elapsed, started, answers>>

Succeeds(c) ==
  /\ attempt[c].pc = "asking"
  /\ breaker' = [breaker EXCEPT ![Current(c)] = RecordSuccess(@)]
  /\ answers' = [answers EXCEPT ![Current(c)].streak = 0]
  /\ attempt' = [attempt EXCEPT ![c].pc = "noting"]
  /\ UNCHANGED <<chain, health, checker, shutdown, elapsed, started>>

NoteHealthy(c) ==
  /\ attempt[c].pc = "noting"
  /\ health' = [health EXCEPT ![Current(c)] = "Healthy"]
  /\ attempt' = [attempt EXCEPT ![c].pc = "idle"]
  /\ UNCHANGED <<chain, breaker, checker, shutdown, elapsed, started, answers>>

FailsForGood(c) ==
  /\ attempt[c].pc = "asking"
  /\ \E a \in Replies \ {"ok"} : ~Retryable(ErrorOf(a))
  /\ attempt' = [attempt EXCEPT ![c].pc = "idle"]
  /\ UNCHANGED <<chain, breaker, health, checker, shutdown, elapsed, started, answers>>

(* A chat that opens the circuit marks the provider while it still holds   *)
(* the breaker; a stream does not mark it.                                 *)
FailsForNow(c) ==
  /\ attempt[c].pc = "asking"
  /\ \E a \in Replies \ {"ok"} : Retryable(ErrorOf(a))
  /\ breaker' = [breaker EXCEPT ![Current(c)] = RecordFailure(@)]
  /\ health' = IF breaker'[Current(c)].open /\ ~attempt[c].stream
                 THEN [health EXCEPT ![Current(c)] = "Unhealthy"] ELSE health
  /\ answers' = [answers EXCEPT ![Current(c)] = [streak |-> @.streak + 1, last |-> elapsed]]
  /\ attempt' = [attempt EXCEPT ![c].pc = "next", ![c].at = @ + 1]
  /\ UNCHANGED <<chain, checker, shutdown, elapsed, started>>

(* The caller's future is dropped while the provider answers: a cancelled  *)
(* agent run. Nothing is recorded.                                         *)
Abandon(c) ==
  /\ attempt[c].pc = "asking"
  /\ attempt' = [attempt EXCEPT ![c].pc = "idle"]
  /\ UNCHANGED <<chain, breaker, health, checker, shutdown, elapsed, started, answers>>

-----------------------------------------------------------------------------
(* The health check task. notify_waiters reaches it only while it waits in *)
(* the select; otherwise the flag ends it after the tick.                  *)

Poll ==
  /\ checker.pc = "spawned"
  /\ checker' = [checker EXCEPT !.pc = "waiting"]
  /\ UNCHANGED <<chain, breaker, health, attempt, shutdown, elapsed, started, answers>>

TickIgnoresFlag ==   \* mutant
  /\ checker.pc = "waiting"
  /\ checker' = [pc |-> "checking", at |-> 1]
  /\ UNCHANGED <<chain, breaker, health, attempt, shutdown, elapsed, started, answers>>

Tick ==
  /\ checker.pc = "waiting"
  /\ checker' = [pc |-> IF shutdown.flag THEN "ended" ELSE "checking", at |-> 1]
  /\ UNCHANGED <<chain, breaker, health, attempt, shutdown, elapsed, started, answers>>

ShutDown ==
  /\ checker.pc = "waiting" /\ shutdown.woken
  /\ checker' = [checker EXCEPT !.pc = "ended"]
  /\ UNCHANGED <<chain, breaker, health, attempt, shutdown, elapsed, started, answers>>

(* One provider answers its health check, a failed check is unhealthy.     *)
HealthCheck ==
  /\ checker.pc = "checking"
  /\ \E h \in {"Healthy", "Unhealthy"} :
       health' = [health EXCEPT ![chain[checker.at]] = h]
  /\ checker' = IF checker.at < Len(chain)
                  THEN [checker EXCEPT !.at = @ + 1]
                  ELSE [pc |-> "waiting", at |-> 1]
  /\ UNCHANGED <<chain, breaker, attempt, shutdown, elapsed, started, answers>>

(* The last owner lets go of the chain: no call borrows it any more.       *)
DropChain ==
  /\ ~shutdown.flag
  /\ \A c \in Clients : attempt[c].pc = "idle"
  /\ shutdown' = [flag |-> TRUE, woken |-> checker.pc = "waiting"]
  /\ UNCHANGED <<chain, breaker, health, attempt, checker, elapsed, started, answers>>

Clock ==
  /\ elapsed < MaxNow
  /\ elapsed' = elapsed + 1
  /\ UNCHANGED <<chain, breaker, health, attempt, checker, shutdown, started, answers>>

-----------------------------------------------------------------------------
Caller(c) ==
  \/ Start(c) \/ PassOver(c) \/ Try(c) \/ Exhausted(c) \/ Succeeds(c)
  \/ NoteHealthy(c) \/ FailsForGood(c) \/ FailsForNow(c) \/ Abandon(c)

Checker == Poll \/ Tick \/ ShutDown \/ HealthCheck

ChainNext == (\E c \in Clients : Caller(c)) \/ Checker \/ DropChain \/ Clock

(* Providers answer or time out (reqwest clients have a timeout), tokio    *)
(* polls what is ready, and the interval ticks.                            *)
Proceeds(c) ==
  \/ PassOver(c) \/ Try(c) \/ Exhausted(c) \/ NoteHealthy(c)
  \/ Succeeds(c) \/ FailsForGood(c) \/ FailsForNow(c)

ChainFairness ==
  /\ \A c \in Clients : WF_chainvars(Proceeds(c))
  /\ WF_chainvars(Checker)

ChainSpec == ChainInit /\ [][ChainNext]_chainvars

ChainFairSpec == ChainSpec /\ ChainFairness

-----------------------------------------------------------------------------
(* The breakers and the health of exactly the chain's names; failures of a *)
(* name that is in the chain twice count together.                         *)
ChainTypeOK ==
  /\ chain \in Seq(STRING) /\ chain # <<>>
  /\ breaker \in [Names -> [failures : Nat, last : 0..MaxNow, open : BOOLEAN]]
  /\ health \in [Names -> {"Unknown", "Healthy", "Unhealthy"}]
  /\ attempt \in [Clients -> [pc : {"idle", "next", "asking", "noting"},
                           at : 1..(Len(chain) + 1), stream : BOOLEAN]]
  /\ checker \in [pc : {"off", "spawned", "waiting", "checking", "ended"},
                  at : 1..Len(chain)]
  /\ shutdown \in [flag : BOOLEAN, woken : BOOLEAN]

(* Whether the answers a name has given say that it is to be left alone:   *)
(* the last Threshold of them, of all callers, failed, the last one less   *)
(* than the cooldown ago.                                                  *)
Tripped(n) ==
  /\ Threshold > 0
  /\ answers[n].streak >= Threshold
  /\ elapsed - answers[n].last < Cooldown

(* However calls interleave, a provider is passed over exactly when its    *)
(* answers say so: one success lets traffic through again, one failure     *)
(* after the cooldown stops it again, and an open circuit is never for     *)
(* ever.                                                                   *)
SkipsOnEvidence ==
  [][\A c \in Clients : /\ PassOver(c) => Tripped(Current(c))
                        /\ Try(c) => ~Tripped(Current(c))]_chainvars

(* Every call gets an answer and, once the chain is dropped, the health    *)
(* check task ends, also when the notification finds it in the middle of   *)
(* a check.                                                                *)
EverythingEnds ==
  <>[](/\ \A c \in Clients : attempt[c].pc = "idle"
       /\ shutdown.flag => checker.pc \in {"off", "ended"})

(* HealthStatus (fallback.rs:73-79): unhealthy says that the circuit is    *)
(* open, healthy that requests are accepted.                               *)
HealthTellsCircuit ==
  \A n \in Names : health[n] = "Healthy" => ~IsSkippable(breaker[n])
=============================================================================
