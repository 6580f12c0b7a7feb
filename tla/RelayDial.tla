----------------------------- MODULE RelayDial -----------------------------
(***************************************************************************)
(* How a client lane dials the relay (session-relay/relay_tls.rs): which   *)
(* targets get a plain connection, the probe for a relay on the machine    *)
(* itself, the addresses in their order, the TLS handshake, and the time   *)
(* each of them may take.                                                  *)
(*                                                                         *)
(* A target is a scheme and a host; what a name resolves to and what is    *)
(* at each address is the network's choice, and so is what listens on the  *)
(* machine itself at that port.  A listener that is not the relay fails    *)
(* the handshake, for it lacks the certificate of the host.                *)
(***************************************************************************)
EXTENDS Naturals, Sequences, FiniteSets

CONSTANTS DialTimeout,       \* DIAL_ADDRESS_TIMEOUT
          HandshakeTimeout,  \* HANDSHAKE_TIMEOUT
          MaxAddresses       \* bound: addresses of a name

DialAssumption == {DialTimeout, HandshakeTimeout, MaxAddresses} \subseteq Nat

Scheme == {"none", "plain", "tls"}
Host == {"localhost", "loopback", "name", "no-port"}

\* What is at an address: nothing, a firewall that drops the request, the relay,
\* another service, or one that accepts and never answers.
Endpoint == {"refuses", "drops", "relay", "foreign", "mute"}
Scope == {"public", "private", "loopback"}

VARIABLES
  target,    \* [scheme, host]
  resolved,  \* what the resolver gives for a name, in its order
  local,     \* what is at the port on the machine itself
  stage,     \* "start", "probing", "dialing", "done"
  todo,      \* the addresses still to try
  elapsed,   \* seconds since connect
  link       \* the link, or none: whether it is encrypted, and to what

vars == <<target, resolved, local, stage, todo, elapsed, link>>

NoLink == [up |-> FALSE]
LinkTo(tls, a) == [up |-> TRUE, tls |-> tls, scope |-> a.scope, is |-> a.is]

Loopback == [v4 |-> TRUE, scope |-> "loopback", is |-> local]

\* is_plain_target: the scheme alone does not make a target plain.
IsPlain(t) == t.scheme # "tls" /\ t.host \in {"localhost", "loopback"}

Addresses == IF target.host = "name" THEN resolved ELSE <<Loopback>>

\* dial_socket tries IPv4 first.
InOrder(s) == SelectSeq(s, LAMBDA a : a.v4) \o SelectSeq(s, LAMBDA a : ~a.v4)

Init ==
  /\ target \in [scheme : Scheme, host : Host]
  /\ \E n \in IF target.host = "name" THEN 0 .. MaxAddresses ELSE {0} :
       resolved \in [1 .. n -> [v4 : BOOLEAN, scope : {"public", "private"}, is : Endpoint]]
  /\ local \in Endpoint
  /\ stage = "start" /\ todo = <<>> /\ elapsed = 0 /\ link = NoLink

Finish(l) == stage' = "done" /\ link' = l

\* connect_trusting: a plain target is dialed at once, any other may be on this
\* machine if its address is public.
Start ==
  /\ stage = "start"
  /\ todo' = InOrder(Addresses)
  /\ \/ target.host = "no-port" /\ Finish(NoLink)
     \/ /\ target.host # "no-port"
        /\ stage' = IF ~IsPlain(target) /\ \E i \in DOMAIN Addresses : Addresses[i].scope = "public"
                    THEN "probing" ELSE "dialing"
        /\ UNCHANGED link
  /\ UNCHANGED <<target, resolved, local, elapsed>>

\* drive_handshake: how long it takes with what is there.
HandshakeTime(e) == IF e = "mute" THEN HandshakeTimeout ELSE 0

\* Mutant: a probe that was answered decides the dial.
ProbeDecides ==
  /\ stage = "probing"
  /\ elapsed' = elapsed + (IF local = "drops" THEN DialTimeout ELSE HandshakeTime(local))
  /\ IF local \in {"refuses", "drops"} THEN stage' = "dialing" /\ UNCHANGED link
     ELSE Finish(IF local = "relay" THEN LinkTo(TRUE, Loopback) ELSE NoLink)
  /\ UNCHANGED <<target, resolved, local, todo>>

\* try_local_relay: only a relay that proves the name of the target ends the
\* dial here; anything else costs time and is passed over.
Probe ==
  /\ stage = "probing"
  /\ elapsed' = elapsed + (IF local = "drops" THEN DialTimeout ELSE HandshakeTime(local))
  /\ IF local = "relay" THEN Finish(LinkTo(TRUE, Loopback))
     ELSE stage' = "dialing" /\ UNCHANGED link
  /\ UNCHANGED <<target, resolved, local, todo>>

\* One address of dial_socket: who accepts is the one, and if the link is to be
\* encrypted it has to be the relay.
Dial ==
  /\ stage = "dialing"
  /\ \/ todo = <<>> /\ Finish(NoLink) /\ UNCHANGED <<todo, elapsed>>
     \/ /\ todo # <<>> /\ Head(todo).is \in {"refuses", "drops"}
        /\ todo' = Tail(todo)
        /\ elapsed' = elapsed + (IF Head(todo).is = "drops" THEN DialTimeout ELSE 0)
        /\ UNCHANGED <<stage, link>>
     \/ /\ todo # <<>> /\ Head(todo).is \in {"relay", "foreign", "mute"}
        /\ LET plain == IsPlain(target) a == Head(todo) IN
           /\ Finish(IF plain \/ a.is = "relay" THEN LinkTo(~plain, a) ELSE NoLink)
           /\ elapsed' = elapsed + (IF plain THEN 0 ELSE HandshakeTime(a.is))
        /\ UNCHANGED todo
  /\ UNCHANGED <<target, resolved, local>>

Next == Start \/ Probe \/ Dial

Spec == Init /\ [][Next]_vars
-----------------------------------------------------------------------------
Done == stage = "done"
AllOf(S) == \A i \in DOMAIN resolved : resolved[i].is \in S
Some(e) == \E i \in DOMAIN resolved : resolved[i].is = e
Count(e) == Cardinality({i \in DOMAIN resolved : resolved[i].is = e})

\* An unencrypted connection never leaves the machine, whatever the scheme says
\* and whatever a name resolves to (is_plain_target, dial_socket).
PlainStaysLocal == link.up /\ ~link.tls => link.scope = "loopback"

\* Whatever listens on the machine itself: if the relay is all that answers at
\* the addresses of a name, the dial ends in a link to the relay
\* (try_local_relay, connect_trusting).
FallsThrough ==
  Done /\ target.host = "name" /\ Some("relay") /\ AllOf({"refuses", "drops", "relay"}) =>
    link.up /\ link.tls /\ link.is = "relay"

\* With nothing in the way on the machine itself, one address that drops
\* requests, or any number of IPv6 addresses that do, cost less than the
\* client's handshake window as long as the relay answers elsewhere, over IPv4
\* in the second case (dial_socket).
WindowHeld ==
  Done /\ target.host = "name" /\ local \in {"refuses", "foreign"}
       /\ Some("relay") /\ AllOf({"refuses", "drops", "relay"})
       /\ \/ Count("drops") <= 1
          \/ \E i \in DOMAIN resolved : resolved[i].v4 /\ resolved[i].is = "relay"
             /\ \A j \in DOMAIN resolved : resolved[j].is = "drops" => ~resolved[j].v4
  => elapsed < HandshakeTimeout
=============================================================================
