----------------------------- MODULE MCSurfaces -----------------------------
(***************************************************************************)
(* One run for the requests users make of runs.  A behaviour is of         *)
(*   "store"  two stored runs of one goal, two clients on two surfaces     *)
(*            each, and an agent that no run owns,                         *)
(*   "tui"    the TUI application with the runs a user starts.             *)
(***************************************************************************)
EXTENDS RunStore, TuiApp, TLC

CONSTANTS r1, r2, g, a1, a0, c1, c2

MCGoalOf == [r \in RootId |-> g]
MCSurfaceOf == (c1 :> {"cli", "discord"}) @@ (c2 :> {"http", "ws"})
MCRunOf == (a1 :> r1) @@ (a0 :> NoRun)

VARIABLE family

mvars == <<svars, appvars, family>>

MCInit == family \in {"store", "tui"} /\ StoreInit /\ AppInit

MCNext ==
  \/ family = "store" /\ StoreNext /\ UNCHANGED <<appvars, family>>
  \/ family = "tui" /\ AppNext /\ UNCHANGED <<svars, family>>

(* The fairness of each part, in the behaviours that are of it. *)
MCSpec ==
  /\ MCInit /\ [][MCNext]_mvars
  /\ \A r \in RootId : WF_svars(family = "store" /\ Poll(r))
  /\ WF_appvars(family = "tui" /\ UiStep)
  /\ WF_appvars(family = "tui" /\ Tick)
  /\ SF_appvars(family = "tui" /\ FifteenSeconds)

(* The mode of the application is that of its run, no agent is listed      *)
(* twice, and each shows what it reported last.                            *)
ScreenIsRight == ModeAgrees /\ AgentsListedOnce
=============================================================================
