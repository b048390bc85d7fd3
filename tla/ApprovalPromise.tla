-------------------------- MODULE ApprovalPromise --------------------------
(***************************************************************************)
(* What the approval gate (odin-permissions/src/approval.rs) promises of a *)
(* request: it is decided at most once, for good, and its caller is told   *)
(* "approved" only when that was the decision.  A caller may be refused    *)
(* whatever the decision, and may leave without an answer, which refuses   *)
(* the request if it is still open.                                        *)
(***************************************************************************)
CONSTANT Request

VARIABLES decision, told

promise == <<decision, told>>

Init ==
  /\ decision = [r \in Request |-> "open"]
  /\ told = [r \in Request |-> "nothing"]

Decide(r, d) ==
  /\ decision[r] = "open"
  /\ decision' = [decision EXCEPT ![r] = d]

Tell(r, d) ==
  /\ told[r] = "nothing"
  /\ d = "approved" => decision'[r] = "approved"
  /\ told' = [told EXCEPT ![r] = d]

(* Requests that are over their time may be refused together. *)
RefuseSome ==
  \E R \in SUBSET Request :
    decision' = [r \in Request |->
                   IF r \in R /\ decision[r] = "open" THEN "refused" ELSE decision[r]]

Next ==
  \/ RefuseSome /\ (UNCHANGED told \/ \E r \in Request : Tell(r, "refused"))
  \/ \E r \in Request, d \in {"approved", "refused"} :
       /\ Decide(r, d)
       /\ UNCHANGED told \/ Tell(r, d) \/ Tell(r, "refused")
  \/ \E r \in Request, d \in {"approved", "refused", "gone"} :
       /\ decision[r] # "open"
       /\ UNCHANGED decision
       /\ Tell(r, d)
  \/ \E r \in Request : Decide(r, "refused") /\ Tell(r, "gone")

Spec == Init /\ [][Next]_promise

=============================================================================
