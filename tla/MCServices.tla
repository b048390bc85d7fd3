----------------------------- MODULE MCServices -----------------------------
(***************************************************************************)
(* One run for what serves requests and keeps records.  A behaviour is of  *)
(*   "serve"   two chat requests for one permit, so that one is turned     *)
(*             away, and one Discord command,                              *)
(*   "hub"     two WebSocket clients, two streams and two events; the      *)
(*             first client can subscribe twice, the second once, and a    *)
(*             channel holds one message, so that a slow client loses some,*)
(*   "chain"   two callers of a chain of providers.                        *)
(***************************************************************************)
EXTENDS Serve, WsHub, Fallback

MCBot == [role |-> TRUE, users |-> TRUE, dms |-> TRUE, guild |-> TRUE]

CONSTANTS w1, w2

MCRequests == (w1 :> 2) @@ (w2 :> 1)

(* The chain: a cloud and its fallback; one in which the primary's model   *)
(* has the name of its fallback; a primary without a key.                  *)
MCProviders == {"cloud", "claude", "twin", "keyless"}
MCConfigs ==
  [p \in MCProviders |->
     CASE p = "cloud"   -> [type |-> "openai_compat", key |-> "set", model |-> "gpt", chain |-> <<"claude">>]
       [] p = "claude"  -> [type |-> "anthropic", key |-> "set", model |-> "sonnet", chain |-> <<>>]
       [] p = "twin"    -> [type |-> "ollama", key |-> "none", model |-> "claude", chain |-> <<"claude">>]
       [] p = "keyless" -> [type |-> "anthropic", key |-> "none", model |-> "haiku", chain |-> <<"cloud">>]]
MCPrimaries == {"cloud", "twin", "keyless"}

-----------------------------------------------------------------------------
VARIABLE family

mvars == <<servevars, hubvars, chainvars, family>>

MCInit ==
  /\ family \in {"serve", "hub", "chain"}
  /\ family # "serve" => server = [phase |-> "binding", bound |-> 0, handler |-> TRUE, valid |-> TRUE]
  /\ family # "chain" => chain = BuildChain(Configs["cloud"])
  /\ ServeInit /\ HubInit /\ ChainInit

(* What no part but the family's does. *)
Other(part) ==
  /\ UNCHANGED family
  /\ part # "serve"  => UNCHANGED servevars
  /\ part # "hub"    => UNCHANGED hubvars
  /\ part # "chain"  => UNCHANGED chainvars

MCNext ==
  \/ family = "serve" /\ ServeNext /\ Other("serve")
  \/ family = "hub" /\ HubNext /\ Other("hub")
  \/ family = "chain" /\ ChainNext /\ Other("chain")

(* The fairness of each part, in the behaviours that are of it. *)
MCSpec ==
  /\ MCInit /\ [][MCNext]_mvars
  /\ \A r \in Request : WF_servevars(family = "serve" /\ Polled(r))
  /\ WF_servevars(family = "serve" /\ Server)
  /\ WF_servevars(family = "serve" /\ Shards)
  /\ \A c \in Client :
       /\ WF_hubvars(family = "hub" /\ RegisterIsolated(c))
       /\ WF_hubvars(family = "hub" /\ Welcome(c))
       /\ WF_hubvars(family = "hub" /\ CleanUp(c))
       /\ WF_hubvars(family = "hub" /\ Recv(c))
       /\ WF_hubvars(family = "hub" /\ (Write(c) \/ SocketFails(c)))
       /\ WF_hubvars(family = "hub" /\ RemoveClosed(c))
       /\ WF_hubvars(family = "hub" /\ CountDown(c))
  /\ \A c \in Clients : WF_chainvars(family = "chain" /\ Proceeds(c))
  /\ WF_chainvars(family = "chain" /\ Checker)

(* A success is on record, permits are accounted for however requests end, *)
(* the drain cuts nobody off, and who is served is authorized.             *)
ServiceIsSound ==
  /\ SuccessIsOnRecord /\ PermitsAccounted /\ ShutdownIsGraceful
  /\ server.phase = "binding" => OnlyPrincipals
  /\ ServeTypeOK /\ ChainTypeOK

(* Each client gets its streams, and the count of connections is right.    *)
StreamsAreExact == ExactStream /\ CountIsRegistry

(* The server stops once it is told to, and a stopped bot ends up          *)
(* disconnected; a connection that is over leaves nothing behind; every    *)
(* call of a provider ends, and so does the health check task of a chain   *)
(* that is dropped.                                                        *)
EverythingEndsInTime ==
  /\ family = "serve" => ShutdownEnds /\ StoppedIsDisconnected
  /\ family = "hub" => NoGhosts
  /\ family = "chain" => EverythingEnds
=============================================================================
