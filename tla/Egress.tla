------------------------------- MODULE Egress -------------------------------
(***************************************************************************)
(* One HTTP call of web_fetch, web_search or http_request: the destination *)
(* is resolved, every address it has is checked, the connection is pinned  *)
(* to the first of them, and a redirect starts the same again for its      *)
(* target, under one limit for the whole chain (web.rs). An address is a   *)
(* number of Width bits; which ones are public is a constant.              *)
(***************************************************************************)
EXTENDS Naturals, Sequences

CONSTANTS Origins,       \* scheme, host and port of a destination
          Width,         \* bits of an address
          Public,        \* the addresses of the public internet
          AllowedHosts,  \* EgressPolicy.allowed_hosts
          AllowedNets,   \* EgressPolicy.allowed_networks: <<network, prefix>>
          MaxRedirects

Addresses == 0 .. 2^Width - 1

ASSUME EgressAssumption ==
  /\ Width \in Nat
  /\ Public \subseteq Addresses /\ AllowedHosts \subseteq Origins
  /\ \A net \in AllowedNets : net[1] \in Addresses /\ net[2] \in 0 .. Width
  /\ MaxRedirects \in Nat

VARIABLES request,   \* what the caller asked for
          now,       \* method, destination and body of the current hop
          hops,      \* redirects followed
          resolved,  \* the addresses of the last lookup
          wire,      \* the last request sent
          http,      \* where the future of the call stands
          verdict    \* what the call returned

evars == <<request, now, hops, resolved, wire, http, verdict>>

Methods == {"GET", "POST", "PUT", "DELETE"}
Unsent  == [origin |-> "none"]

Idle == [method |-> "GET", secret |-> FALSE, body |-> FALSE]

EInit ==
  /\ request = Idle /\ now = [method |-> "GET", body |-> FALSE]
  /\ hops = 0 /\ resolved = <<>> /\ wire = Unsent
  /\ http = "idle" /\ verdict = "none"

Finish(v) == http' = "finished" /\ verdict' = v

\* IpNetwork::contains: the mask is the all-ones word shifted left, cut to the
\* width of a word, and zero when the shift is the whole width (checked_shl).
Mask(prefix) ==
  IF Width - prefix >= Width THEN 0
  ELSE ((2^Width - 1) * 2^(Width - prefix)) % 2^Width

\* The bits of a where the mask has ones: the masks are runs of leading ones.
Masked(a, prefix) == IF Mask(prefix) = 0 THEN 0 ELSE a - (a % 2^(Width - prefix))

Covers(net, a) == Masked(a, net[2]) = Masked(net[1], net[2])

ExplicitlyAllows(origin, a) ==
  origin \in AllowedHosts \/ \E net \in AllowedNets : Covers(net, a)

\* An allow-listed call may skip the operator only for reads without secrets.
IsRisky(r) == r.method \notin {"GET", "HEAD", "OPTIONS"} \/ r.secret

\* The arguments of http_request: a bad URL or method is a failed result, a
\* body over the budget or a header naming the destination is an error.
Ask ==
  /\ http = "idle"
  /\ \E method \in Methods \cup {"HEAD", "OPTIONS"}, secret, body \in BOOLEAN, o \in Origins :
       /\ request' = [method |-> method, secret |-> secret, body |-> body, origin |-> o]
       /\ now' = [method |-> method, body |-> body, origin |-> o]
       /\ \/ Finish("failed")
          \/ method \in Methods /\ Finish("refused")
          \/ method \in Methods /\ http' = "lookup" /\ UNCHANGED verdict
  /\ UNCHANGED <<hops, resolved, wire>>

\* lookup_host: whatever the resolver says this time.
Lookup ==
  /\ http = "lookup"
  /\ \/ \E found \in {<<a>> : a \in Addresses} \cup (Addresses \X Addresses) :
          resolved' = found /\ http' = "classify" /\ UNCHANGED verdict
     \/ resolved' = <<>> /\ Finish("refused")
  /\ UNCHANGED <<request, now, hops, wire>>

Permitted(origin, a) == a \in Public \/ ExplicitlyAllows(origin, a)

PermitsAll(found) == \A i \in DOMAIN found : Permitted(now.origin, found[i])

Pinned(found) == {found[1]}

SameOrigin(a, b) == a = b

ForwardsSecret == request.secret /\ SameOrigin(now.origin, request.origin)

Send ==
  /\ http = "classify"
  /\ IF PermitsAll(resolved)
     THEN /\ \E a \in Pinned(resolved) :
               wire' = [origin |-> now.origin, address |-> a, method |-> now.method,
                        body |-> now.body, secret |-> ForwardsSecret]
          /\ http' = "sent"
          /\ UNCHANGED verdict
     ELSE Finish("refused") /\ UNCHANGED wire
  /\ resolved' = <<>>
  /\ UNCHANGED <<request, now, hops>>

\* See other, and moved or found after a POST, go on as a GET without a body.
AfterRedirect(status) ==
  IF status = "see other" \/ (status \in {"moved", "found"} /\ now.method = "POST")
  THEN [method |-> "GET", body |-> FALSE]
  ELSE [method |-> now.method, body |-> now.body]

Redirect ==
  /\ http = "sent"
  /\ IF hops = MaxRedirects
     THEN Finish("refused") /\ UNCHANGED <<now, hops>>
     ELSE \/ Finish("refused") /\ UNCHANGED <<now, hops>>  \* no usable Location
          \/ \E status \in {"moved", "found", "see other", "temporary"}, o \in Origins :
               /\ now' = [method |-> AfterRedirect(status).method,
                          body |-> AfterRedirect(status).body, origin |-> o]
               /\ hops' = hops + 1
               /\ http' = "lookup"
               /\ UNCHANGED verdict
  /\ UNCHANGED <<request, resolved, wire>>

ConnectionFails ==
  /\ http = "sent"
  /\ Finish("refused")
  /\ UNCHANGED <<request, now, hops, resolved, wire>>

Respond ==
  /\ http = "sent"
  /\ http' = "body"
  /\ UNCHANGED <<request, now, hops, resolved, wire, verdict>>

\* The body, up to the limit; a success status makes a successful result.
ReadBody ==
  /\ http = "body"
  /\ \E v \in {"ok", "failed", "refused"} : Finish(v)
  /\ UNCHANGED <<request, now, hops, resolved, wire>>

\* The limit of the whole chain covers everything but the body, which the
\* limit of the last client covers.
ChainTimesOut ==
  /\ http \in {"lookup", "sent"}
  /\ Finish("timeout")
  /\ UNCHANGED <<request, now, hops, resolved, wire>>

BodyTimesOut ==
  /\ http = "body"
  /\ Finish("refused")
  /\ UNCHANGED <<request, now, hops, resolved, wire>>

ENext ==
  \/ Ask \/ Lookup \/ Send \/ Redirect \/ ConnectionFails \/ Respond \/ ReadBody
  \/ ChainTimesOut \/ BodyTimesOut

EFairness == WF_evars(Send) /\ WF_evars(ChainTimesOut) /\ WF_evars(BodyTimesOut)

-----------------------------------------------------------------------------

\* What a network of that prefix is, bit by bit from the left.
InNetwork(net, a) ==
  \A i \in 1 .. net[2] :
    (a \div 2^(Width - i)) % 2 = (net[1] \div 2^(Width - i)) % 2

\* Every request of the chain, first or redirected, goes to an address that is
\* public or that the operator listed; a secret header reaches no other origin
\* than the one it was meant for; the chain is bounded; and what ran without
\* asking was a read without secrets.
HopsChecked ==
  wire # Unsent =>
    /\ \/ wire.address \in Public
       \/ wire.origin \in AllowedHosts
       \/ \E net \in AllowedNets : InNetwork(net, wire.address)
    /\ wire.secret => wire.origin = request.origin
    /\ hops <= MaxRedirects
    /\ ~IsRisky(request) => wire.method = "GET" /\ ~wire.secret

\* A call ends, however often it is sent elsewhere and whoever keeps silent.
HttpEnds == (http # "idle") ~> (http = "finished")
=============================================================================
