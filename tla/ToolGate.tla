------------------------------ MODULE ToolGate ------------------------------
(***************************************************************************)
(* Tool calls of several agents at the policy engine and the approval gate *)
(* (odin-permissions/src/policy.rs, approval.rs), which they share.        *)
(*                                                                         *)
(* A call is checked against the rate limit of its agent and tool, may     *)
(* have to wait for an operator, and then runs or not.  Operators answer   *)
(* over HTTP or at the terminal, the gate expires requests, a client that  *)
(* goes away drops its call, and auto-approve may be switched at any time. *)
(* Every lock of the code protects one step here; what the code does in    *)
(* two critical sections (look a request up, then decide it) is two steps. *)
(***************************************************************************)
EXTENDS ToolPolicy

CONSTANTS
  Request,      \* the calls that are made, one request each
  CallOf,       \* the facts of the call, see ToolPolicy
  AgentOf,      \* whose call it is
  Policy,       \* the policy engine, see ToolPolicy
  Operator,     \* whoever answers requests
  Timeout,      \* of a request, in ticks
  Window,       \* of the rate limit: a minute, in ticks
  IdleLimit,    \* after which a rate tracker is dropped
  MaxRate,      \* calls in a window
  MaxTrackers,  \* MAX_RATE_TRACKERS
  MaxClock      \* bounds the clock

ASSUME GateAssumption ==
  /\ {Timeout, Window, IdleLimit, MaxRate, MaxTrackers, MaxClock} \subseteq Nat
  /\ IdleLimit > Window
  /\ IsFiniteSet(Request)
  /\ Policy.engine

VARIABLES
  clock,
  trackers,     \* rate_trackers, of the agents that have one
  caller,       \* where the call of a request is
  status,       \* of the request; it outlives the entry in the watch channel
  listed,       \* the requests in `pending`
  expires,      \* expires_at
  auto,         \* auto_approve
  operator,     \* the request an operator has looked up
  granted       \* when the calls of an agent passed the rate limit

requests == <<status, listed, expires>>
gatevars == <<clock, trackers, requests, caller, auto, operator, granted>>

Asker == {AgentOf[r] : r \in Request}

Decided == {"Approved", "Denied", "Expired"}
Returned == {"ran", "refused", "dropped"}

LastTick == MaxClock + Timeout * Cardinality(Request)

GateTypeOK ==
  /\ clock \in 0..LastTick
  /\ DOMAIN trackers \subseteq Asker
  /\ Cardinality(DOMAIN trackers) <= MaxTrackers
  /\ caller \in [Request -> Returned \cup
                            {"new", "checked", "asking", "auto", "waiting"}]
  /\ status \in [Request -> Decided \cup {"None", "Pending"}]
  /\ listed \subseteq {r \in Request : status[r] # "None"}
  /\ expires \in [Request -> Nat]
  /\ auto \in BOOLEAN
  /\ \A o \in Operator : operator[o] \in Request \cup {"nobody"}
  /\ granted \in [Asker -> Seq(0..LastTick)]

GateInit ==
  /\ clock = 0
  /\ trackers = [a \in {} |-> <<>>]
  /\ caller = [r \in Request |-> "new"]
  /\ status = [r \in Request |-> "None"]
  /\ listed = {}
  /\ expires = [r \in Request |-> 0]
  /\ auto \in BOOLEAN
  /\ operator = [o \in Operator |-> "nobody"]
  /\ granted = [a \in Asker |-> <<>>]

-----------------------------------------------------------------------------
(* The gate. *)
Due(r) == clock >= expires[r]

(* transition: nothing happens to a request that is not listed or not      *)
(* pending, and a decision that comes too late is an expiry.               *)
CanTransition(r) == r \in listed /\ status[r] = "Pending"

Effective(r, to) == IF Due(r) THEN "Expired" ELSE to

TransitionAgain(r, to) ==   \* mutant
  status' = IF r \in listed THEN [status EXCEPT ![r] = Effective(r, to)] ELSE status

Transition(r, to) ==
  status' = IF CanTransition(r)
            THEN [status EXCEPT ![r] = Effective(r, to)]
            ELSE status

(* expire_due_requests, which every lookup begins with. *)
ExpiredDue ==
  [r \in Request |-> IF CanTransition(r) /\ Due(r) THEN "Expired" ELSE status[r]]

ExpireDue == status' = ExpiredDue

(* What get_request finds. *)
Lookup(r) == IF r \in listed THEN ExpiredDue[r] ELSE "None"

-----------------------------------------------------------------------------
(* check_rate_limit: idle trackers are dropped, a new one needs room.      *)
LastSeen(a) == trackers[a].seen

KeptTrackers == {a \in DOMAIN trackers : LastSeen(a) + IdleLimit > clock}

HasRoomAlways(a) == TRUE   \* mutant

HasRoom(a) == a \in KeptTrackers \/ Cardinality(KeptTrackers) < MaxTrackers

TimesOf(a) == IF a \in KeptTrackers THEN trackers[a].times ELSE <<>>

Touch(a, times) ==
  trackers' = [b \in KeptTrackers \cup {a} |->
                 IF b = a THEN [times |-> times, seen |-> clock] ELSE trackers[b]]

CheckRateLimit(a) ==
  LET checked == CheckAndRecord(TimesOf(a), clock, Window, MaxRate) IN
  /\ HasRoom(a)
  /\ Touch(a, checked.tracker)
  /\ checked.allowed
  /\ granted' = [granted EXCEPT ![a] = Append(@, clock)]

RateLimited(a) ==
  LET checked == CheckAndRecord(TimesOf(a), clock, Window, MaxRate) IN
  /\ UNCHANGED granted
  /\ IF HasRoom(a)
     THEN Touch(a, checked.tracker) /\ ~checked.allowed
     ELSE trackers' = [b \in KeptTrackers |-> trackers[b]]

-----------------------------------------------------------------------------
(* A caller. *)
Goto(r, place) == caller' = [caller EXCEPT ![r] = place]

PassRate(r) ==
  /\ caller[r] = "new"
  /\ CheckRateLimit(AgentOf[r])
  /\ Goto(r, "checked")
  /\ UNCHANGED <<clock, requests, auto, operator>>

HitRate(r) ==
  /\ caller[r] = "new"
  /\ RateLimited(AgentOf[r])
  /\ Goto(r, "refused")
  /\ UNCHANGED <<clock, requests, auto, operator>>

(* What the checks say once the operator, if asked, has answered. *)
Verdict(r, approved) ==
  IF PolicyError(Policy, CallOf[r], TRUE, approved) THEN "refused" ELSE "ran"

Unasked(r) ==
  /\ caller[r] = "checked"
  /\ ~Asks(Policy, CallOf[r], TRUE)
  /\ Goto(r, Verdict(r, FALSE))
  /\ UNCHANGED <<clock, trackers, requests, auto, operator, granted>>

(* submit_request *)
Submit(r) ==
  /\ caller[r] = "checked"
  /\ Asks(Policy, CallOf[r], TRUE)
  /\ status' = [status EXCEPT ![r] = "Pending"]
  /\ listed' = listed \cup {r}
  /\ expires' = [expires EXCEPT ![r] = clock + Timeout]
  /\ Goto(r, "asking")
  /\ UNCHANGED <<clock, trackers, auto, operator, granted>>

(* await_decision reads auto_approve once; with it, the request is looked  *)
(* up and approved on the spot, else the caller subscribes, if the request *)
(* is still listed.                                                        *)
AwaitAuto(r) ==
  /\ caller[r] = "asking"
  /\ auto
  /\ ExpireDue
  /\ Goto(r, IF r \in listed THEN "auto" ELSE "refused")
  /\ UNCHANGED <<clock, trackers, listed, expires, auto, operator, granted>>

AutoApprove(r) ==
  /\ caller[r] = "auto"
  /\ Transition(r, "Approved")
  /\ Goto(r, IF r \in listed THEN Verdict(r, status'[r] = "Approved") ELSE "refused")
  /\ UNCHANGED <<clock, trackers, listed, expires, auto, operator, granted>>

Subscribe(r) ==
  /\ caller[r] = "asking"
  /\ ~auto
  /\ IF r \notin listed
     THEN Goto(r, "refused") /\ UNCHANGED requests
     ELSE IF Due(r)
          THEN /\ Transition(r, "Expired")
               /\ Goto(r, "refused")
               /\ UNCHANGED <<listed, expires>>
          ELSE Goto(r, "waiting") /\ UNCHANGED requests
  /\ UNCHANGED <<clock, trackers, auto, operator, granted>>

(* The watch channel wakes the caller with the decision. *)
Wake(r) ==
  /\ caller[r] = "waiting"
  /\ status[r] \in Decided
  /\ Goto(r, Verdict(r, status[r] = "Approved"))
  /\ UNCHANGED <<clock, trackers, requests, auto, operator, granted>>

WaitsOn(r) ==   \* mutant
  /\ caller[r] = "waiting"
  /\ status[r] = "Expired"
  /\ Goto(r, "refused")
  /\ UNCHANGED <<clock, trackers, requests, auto, operator, granted>>

(* The timeout: expire the request, or take a decision that came first.    *)
WaitTimesOut(r) ==
  /\ caller[r] = "waiting"
  /\ Due(r)
  /\ Transition(r, "Expired")
  /\ Goto(r, Verdict(r, ~CanTransition(r) /\ Lookup(r) = "Approved"))
  /\ UNCHANGED <<clock, trackers, listed, expires, auto, operator, granted>>

(* PendingRequestGuard: a caller that is dropped denies its request.       *)
CallerGone(r) ==
  /\ caller[r] \in {"asking", "auto", "waiting"}
  /\ Transition(r, "Denied")
  /\ Goto(r, "dropped")
  /\ UNCHANGED <<clock, trackers, listed, expires, auto, operator, granted>>

-----------------------------------------------------------------------------
(* approve, called by the CLI's responder and by the HTTP handler, looks   *)
(* the request up for its fingerprint, and decides it a step later.        *)
Look(o, r) ==
  /\ operator[o] = "nobody"
  /\ Lookup(r) = "Pending"
  /\ ExpireDue
  /\ operator' = [operator EXCEPT ![o] = r]
  /\ UNCHANGED <<clock, trackers, caller, listed, expires, auto, granted>>

Approve(o) ==
  /\ operator[o] \in Request
  /\ Transition(operator[o], "Approved")
  /\ operator' = [operator EXCEPT ![o] = "nobody"]
  /\ UNCHANGED <<clock, trackers, caller, listed, expires, auto, granted>>

(* deny needs no lookup; disconnect, at the end of the CLI's input, denies *)
(* what it found pending one request after the other.                      *)
Deny(r) ==
  /\ CanTransition(r)
  /\ Transition(r, "Denied")
  /\ UNCHANGED <<clock, trackers, caller, listed, expires, auto, operator, granted>>

(* pending_requests *)
List ==
  /\ ExpireDue
  /\ UNCHANGED <<clock, trackers, caller, listed, expires, auto, operator, granted>>

(* cleanup_expired removes every decided request. *)
Cleanup ==
  /\ ExpireDue
  /\ listed' = {r \in listed : status'[r] = "Pending"}
  /\ UNCHANGED <<clock, trackers, caller, expires, auto, operator, granted>>

SetAutoApprove ==
  /\ auto' = ~auto
  /\ UNCHANGED <<clock, trackers, requests, caller, operator, granted>>

(* Bounded by MaxClock, except that a pending request lives to its end. *)
Second ==
  /\ \/ clock < MaxClock
     \/ \E r \in Request : CanTransition(r) /\ ~Due(r)
  /\ clock' = clock + 1
  /\ UNCHANGED <<trackers, requests, caller, auto, operator, granted>>

Advance(r) ==
  \/ PassRate(r) \/ HitRate(r)
  \/ Unasked(r) \/ Submit(r)
  \/ AwaitAuto(r) \/ AutoApprove(r) \/ Subscribe(r)
  \/ Wake(r) \/ WaitTimesOut(r)

GateNext ==
  \/ \E r \in Request : Advance(r) \/ CallerGone(r)
  \/ \E o \in Operator, r \in Request : Look(o, r)
  \/ \E o \in Operator : Approve(o)
  \/ \E r \in Request : Deny(r)
  \/ List \/ Cleanup \/ SetAutoApprove \/ Second

GateSpec == GateInit /\ [][GateNext]_gatevars

(* Time passes and the executor polls the callers; operators owe nothing.  *)
GateFairSpec ==
  /\ GateSpec
  /\ WF_gatevars(Second)
  /\ \A r \in Request : WF_gatevars(Advance(r))

-----------------------------------------------------------------------------
(* What the gate decided of a request, and what its caller was told.       *)
DecisionOf(r) ==
  CASE status[r] = "Approved" -> "approved"
    [] status[r] \in {"Denied", "Expired"} -> "refused"
    [] OTHER -> "open"

ToldOf(r) ==
  CASE caller[r] = "ran" /\ status[r] # "None" -> "approved"
    [] caller[r] = "refused" /\ status[r] # "None" -> "refused"
    [] caller[r] = "dropped" -> "gone"
    [] OTHER -> "nothing"

DecisionMap == [r \in Request |-> DecisionOf(r)]
ToldMap == [r \in Request |-> ToldOf(r)]

(* The gate keeps the abstract promise, whatever races with whatever. *)
Promise == INSTANCE ApprovalPromise WITH decision <- DecisionMap, told <- ToldMap

KeepsPromise == Promise!Spec

(* A call that runs passes every check; if it had to be approved it was,   *)
(* by an operator or auto-approve, before its request expired.             *)
RunsConsented ==
  \A r \in Request :
    caller[r] = "ran" =>
      LET call == CallOf[r] IN
      /\ call.rule # "deny"
      /\ ~call.outside
      /\ call.dangerous \/ NeedsApproval(Policy, call) => status[r] = "Approved"

(* No window of the rate limit holds more grants than the limit, although  *)
(* trackers are trimmed and dropped.                                       *)
WindowHolds ==
  \A a \in Asker : \A i \in DOMAIN granted[a] :
    i + MaxRate \in DOMAIN granted[a] =>
      granted[a][i + MaxRate] >= granted[a][i] + Window

(* A request whose caller is gone is not open to an answer any more.       *)
NothingLeftOpen ==
  \A r \in Request : caller[r] \in Returned => status[r] # "Pending"

(* An approval that is recorded was recorded in time. *)
NoLateApproval ==
  [][\A r \in Request :
       status'[r] = "Approved" /\ status[r] # "Approved" => clock < expires[r]]_gatevars

(* What runs was allowed, no window of the rate limit holds more than its  *)
(* limit, and a request whose caller is gone is not open any more.         *)
ConsentIsSound == RunsConsented /\ WindowHolds /\ NothingLeftOpen

(* The gate implements its abstract promise, and no approval is late.      *)
PromiseIsKept == KeepsPromise /\ NoLateApproval

(* Every caller is answered, even if no operator ever answers. *)
EveryoneAnswered == <>(\A r \in Request : caller[r] \in Returned)

=============================================================================
