----------------------------- MODULE RelayLane -----------------------------
(***************************************************************************)
(* The relay lane of a hosted session: the relay's room                    *)
(* (session-relay/relay_server.rs), the bridge that drives the host core   *)
(* through it and the loopback bridge under each joining client            *)
(* (session-relay/relay_link.rs).  One link carries every joiner's lines   *)
(* to the host and the host's lines to all of them, addressed by user id.  *)
(*                                                                         *)
(* A connection is a slot: the relay thread that serves it, the lines and  *)
(* frames under way on it, and whether the socket works.  The bridge pair  *)
(* and the client on its loopback side are one: each ends with the other.  *)
(* The registry lock makes a claim, a routed frame and a cleanup one step  *)
(* each; the host lock does the same for what the host bridge reads.       *)
(*                                                                         *)
(* One room, codes that match, and no rate guard: what is left of a claim  *)
(* is whether the room is there, has space and does not know the user.     *)
(* The LAN listener beside the relay and the client's own frames are those *)
(* of SessionLan; here the host's edit and its publication are one step,   *)
(* and so are a client's.                                                  *)
(*                                                                         *)
(* Prompt assumes that what an ended connection left on the host's link is *)
(* gone before the next connection of its user claims its place.           *)
(***************************************************************************)
EXTENDS SessionClient, FiniteSets, SequencesExt

CONSTANTS Conn,        \* connection slots
          MaxMembers,  \* max_members_per_room
          Prompt,      \* see above
          HalfOpen,    \* a broken link may go unnoticed by the relay
          MaxFaults    \* bound: links the network breaks or holds up

ASSUME RelayAssumption ==
  /\ None \notin Conn \cup Client
  /\ MaxMembers \in Nat
  /\ Prompt \in BOOLEAN /\ HalfOpen \in BOOLEAN
  /\ MaxFaults \in Nat

VARIABLES
  room,        \* the room is in the registry
  members,     \* Room::members: user -> connection
  thread,      \* handle_connection of a slot: where it is
  who,         \* the user id a slot claims
  link,        \* "open", "shut" (both ends know) or "half" (the relay does not)
  up, down,    \* lines from, frames to a joiner
  bridge,      \* the host bridge holds its link (RelayHostHandle::alive)
  toHost,      \* host_outbound and what the bridge has yet to read
  fromHost,    \* what the bridge wrote and the relay has yet to route
  relay_users, \* the users whose queues the bridge drains
  taken,       \* how much of sent[u] take_outgoing drained
  app,         \* user -> its client
  via,         \* user -> the connection whose Hello made it a client of the
               \* core; no step depends on it
  minted, faults

relayVars == <<room, members, thread, who, link, up, down>>
bridgeVars == <<bridge, toHost, fromHost, relay_users, taken, via>>
vars == <<hostVars, relayVars, bridgeVars, app, minted, faults>>

LineMsg(k, m) == [type |-> "line", conn |-> k, msg |-> m]
LeftMsg(k) == [type |-> "left", conn |-> k, msg |-> ByeMsg]
KickMsg == [to |-> None, msg |-> ByeMsg]
ClosedMsg == [type |-> "room_closed"]

RelayInit ==
  /\ Init
  /\ room = TRUE /\ bridge = TRUE
  /\ members = [u \in {} |-> None]
  /\ thread = [k \in Conn |-> "ended"]
  /\ who = [k \in Conn |-> None]
  /\ link = [k \in Conn |-> "shut"]
  /\ up = [k \in Conn |-> <<>>] /\ down = [k \in Conn |-> <<>>]
  /\ toHost = <<>> /\ fromHost = <<>>
  /\ relay_users = {}
  /\ taken = [u \in Client |-> 0]
  /\ app = [u \in Client |-> Solo]
  /\ via = [u \in Client |-> None]
  /\ minted = 0 /\ faults = 0

Lose(u) == [app EXCEPT ![u].mode = Failed(@), ![u].conn = None]
Shut(k) == [link EXCEPT ![k] = IF @ = "open" THEN "shut" ELSE @]
-----------------------------------------------------------------------------
(* The relay.                                                              *)

\* The answers and the lines of connections of u that are no more.
Leftover(u) ==
  \/ \E i \in DOMAIN fromHost : fromHost[i].to = u
  \/ \E i \in DOMAIN toHost : toHost[i].type = "line" /\ who[toHost[i].conn] = u

\* Mutant: a user id that is in use is claimed again.
MayJoinTwice(u) == room /\ Cardinality(DOMAIN members) < MaxMembers

\* join_room: the room exists, does not know the user and has space.
MayJoin(u) ==
  /\ room
  /\ u \notin DOMAIN members
  /\ Cardinality(DOMAIN members) < MaxMembers

\* The role claim of a joiner.  A denial ends the connection, and with it the
\* handshake of the client behind the bridge.
Claim(k) ==
  LET u == who[k] IN
  /\ thread[k] = "claiming"
  /\ \/ /\ MayJoin(u)
        /\ Prompt => ~Leftover(u)
        /\ members' = With(members, u, k)
        /\ thread' = [thread EXCEPT ![k] = "routing"]
        /\ UNCHANGED <<link, up, app>>
     \/ /\ ~MayJoin(u)
        /\ thread' = [thread EXCEPT ![k] = "ended"]
        /\ link' = [link EXCEPT ![k] = "shut"]
        /\ up' = [up EXCEPT ![k] = <<>>]
        /\ app' = IF app[u].conn = k THEN Lose(u) ELSE app
        /\ UNCHANGED members
  /\ UNCHANGED <<hostVars, room, who, down, bridgeVars, minted, faults>>

\* route_loop of a joiner: its line goes to the host, under the user id.  A
\* line for a room that is gone ends the loop.
RouteUp(k) ==
  /\ thread[k] = "routing" /\ up[k] # <<>>
  /\ \/ /\ room
        /\ toHost' = Append(toHost, LineMsg(k, Head(up[k])))
        /\ up' = [up EXCEPT ![k] = Tail(@)]
        /\ UNCHANGED link
     \/ /\ ~room
        /\ up' = [up EXCEPT ![k] = <<>>]
        /\ link' = [link EXCEPT ![k] = "shut"]
        /\ UNCHANGED toHost
  /\ UNCHANGED <<hostVars, room, members, thread, who, down, bridge, fromHost,
                 relay_users, taken, via, app, minted, faults>>

\* cleanup: the end of a joiner's link frees its user id and tells the host,
\* under one lock.
Cleanup(k) ==
  /\ thread[k] = "routing" /\ up[k] = <<>> /\ link[k] = "shut"
  /\ thread' = [thread EXCEPT ![k] = "ended"]
  /\ members' = Without(members, {who[k]})
  /\ toHost' = IF who[k] \in DOMAIN members THEN Append(toHost, LeftMsg(k)) ELSE toHost
  /\ UNCHANGED <<hostVars, room, who, link, up, down, bridge, fromHost,
                 relay_users, taken, via, app, minted, faults>>

\* A frame that is written to a half-open link waits there.
Push(k, m) ==
  down' = [down EXCEPT ![k] = IF link[k] # "shut" THEN Append(@, m) ELSE @]

\* route_loop of the host: a line goes to the member of that name, if there is
\* one; a kick closes the sockets of all members.
RouteDown ==
  /\ room /\ fromHost # <<>>
  /\ fromHost' = Tail(fromHost)
  /\ LET f == Head(fromHost) IN
     \/ /\ f = KickMsg
        /\ link' = [k \in Conn |-> IF \E u \in DOMAIN members : members[u] = k
                                   THEN "shut" ELSE link[k]]
        /\ UNCHANGED down
     \/ /\ f # KickMsg /\ f.to \in DOMAIN members
        /\ Push(members[f.to], f.msg)
        /\ UNCHANGED link
     \/ /\ f # KickMsg /\ f.to \notin DOMAIN members
        /\ UNCHANGED <<down, link>>
  /\ UNCHANGED <<hostVars, room, members, thread, who, up, bridge, toHost,
                 relay_users, taken, via, app, minted, faults>>

\* The host's link is gone and all it wrote is routed: the room closes.
RoomCloses ==
  /\ room /\ ~bridge /\ fromHost = <<>>
  /\ room' = FALSE
  /\ down' = [k \in Conn |->
       IF (\E u \in DOMAIN members : members[u] = k) /\ link[k] # "shut"
       THEN Append(down[k], ClosedMsg) ELSE down[k]]
  /\ members' = Without(members, DOMAIN members)
  /\ UNCHANGED <<hostVars, thread, who, link, up, bridgeVars, app, minted, faults>>
-----------------------------------------------------------------------------
(* The host bridge.                                                        *)

\* What a client reads of its queue s after the first n messages, addressed.
Undrained(u, s, n) ==
  LET upTo[i \in 0 .. Len(s)] ==
        IF i = 0 THEN <<>>
        ELSE IF i > n /\ Relevant(s[i]) THEN Append(upTo[i - 1], [to |-> u, msg |-> s[i]])
        ELSE upTo[i - 1]
  IN  upTo[Len(s)]

\* drain_and_route_relay, at the end of a step of the core: the queues of the
\* relay users, in any order, behind what the bridge wrote.  `fresh` are the
\* users whose queue this step started anew.
Drain(fresh, users) ==
  LET start == [u \in Client |-> IF u \in fresh THEN 0 ELSE taken[u]] IN
  /\ \E us \in SetToSeqs(users) :
       LET upTo[i \in 0 .. Len(us)] ==
             IF i = 0 THEN fromHost
             ELSE upTo[i - 1] \o Undrained(us[i], sent'[us[i]], start[us[i]])
       IN  fromHost' = upTo[Len(us)]
  /\ taken' = [u \in Client |-> IF u \in users THEN Len(sent'[u]) ELSE start[u]]

\* The notice that a joiner's link died.
LeaveBridge(u) ==
  /\ relay_users' = relay_users \ {u}
  /\ DropClients({u})
  /\ Drain({u}, relay_users')
  /\ UNCHANGED via

\* A line of a joiner: the peer is wired to the bridge before the core handles
\* the message, and a rejection is written back to whoever has its user id.
HandleLine(k, u, m) ==
  /\ relay_users' = relay_users \cup {u}
  /\ \/ /\ m = HelloMsg /\ Admits(u)
        /\ \E n \in Name : HandleHello(u, n)
        /\ Drain({u}, relay_users')
        /\ via' = [via EXCEPT ![u] = k]
     \/ /\ m.type = "record" /\ IsConnected(u)
        /\ HandleAction(u, m.record)
        /\ Drain({}, relay_users')
        /\ UNCHANGED via
     \/ /\ IF m = HelloMsg THEN ~Admits(u) ELSE ~IsConnected(u)
        /\ fromHost' = Append(fromHost, [to |-> u, msg |-> DeniedMsg])
        /\ UNCHANGED <<hostVars, taken, via>>

\* One turn of relay_host_route_loop.
HostRead ==
  /\ bridge /\ toHost # <<>>
  /\ toHost' = Tail(toHost)
  /\ LET f == Head(toHost) u == who[f.conn] IN
     IF f.type = "left" THEN LeaveBridge(u) ELSE HandleLine(f.conn, u, f.msg)
  /\ UNCHANGED <<relayVars, bridge, app, minted, faults>>

\* A ping refreshes last_seen (see Silence); that of an evicted client is
\* refused.  One refusal under way stands for those of all its pings.
PingRefused(k) ==
  LET u == who[k] denial == [to |-> u, msg |-> DeniedMsg] IN
  /\ bridge /\ thread[k] = "routing" /\ link[k] = "open" /\ up[k] = <<>> /\ toHost = <<>>
  /\ app[u].conn = k /\ app[u].mode = "live"
  /\ ~IsConnected(u)
  /\ \A i \in DOMAIN fromHost : fromHost[i] # denial
  /\ relay_users' = relay_users \cup {u}
  /\ fromHost' = Append(fromHost, denial)
  /\ UNCHANGED <<hostVars, relayVars, bridge, toHost, taken, via, app, minted, faults>>

\* One turn of relay_host_pump_loop.
Pump ==
  /\ bridge
  /\ \/ StaleClients # {} /\ DropClients(StaleClients) /\ Drain(StaleClients, relay_users)
     \/ /\ StaleClients = {}
        /\ \E u \in relay_users : taken[u] < Len(sent[u])
        /\ UNCHANGED hostVars
        /\ Drain({}, relay_users)
  /\ UNCHANGED <<relayVars, bridge, toHost, relay_users, via, app, minted, faults>>

\* Silence grows only for a user whose client is not pinging and of whom
\* nothing is left to read.
Silence(u) ==
  /\ \A k \in Conn : who[k] = u /\ thread[k] = "routing" => up[k] = <<>> /\ link[k] # "open"
  /\ \A i \in DOMAIN toHost : who[toHost[i].conn] # u
  /\ Age(u)
  /\ UNCHANGED <<relayVars, bridgeVars, app, minted, faults>>

Mint(u) == [action_id |-> minted + 1, user_id |-> u]

HostEdit ==
  /\ bridge /\ ~ended
  /\ minted + 1 \in ActionId
  /\ minted' = minted + 1
  /\ HandleLocal(Mint(Host))
  /\ UNCHANGED <<relayVars, bridgeVars, app, faults>>

\* file:new or file:open while hosting: reseed_host evicts every client of the
\* core under the host lock, and afterwards kicks their links.
SwapDocument ==
  /\ bridge /\ ~ended
  /\ Reseed(<<>>)
  /\ fromHost' = Append(fromHost, KickMsg)
  /\ taken' = [u \in Client |-> 0]
  /\ UNCHANGED <<relayVars, bridge, toHost, relay_users, via, app, minted, faults>>

\* The host ends the session and drops its net: the pump may have had its turn
\* in between, or not.
HostLeave ==
  /\ bridge /\ ~ended
  /\ ended' = TRUE
  /\ Broadcast(clients, <<EndedMsg>>)
  /\ bridge' = FALSE
  /\ Drain({}, relay_users) \/ UNCHANGED <<fromHost, taken>>
  /\ UNCHANGED <<records, roster, cursors, silence, snapshot,
                 relayVars, toHost, relay_users, via, app, minted, faults>>
-----------------------------------------------------------------------------
(* The joining client behind its loopback bridge.                          *)

\* SessionClient::connect through the bridge, which dials the relay anew for
\* each connection.
Dial(u) ==
  /\ app[u].mode \in {"solo", "lost"}
  /\ \E k \in Conn :
       /\ thread[k] = "ended" /\ (who[k] # None => ~Leftover(who[k]) /\ app[who[k]].conn # k)
       /\ \A i \in DOMAIN toHost : toHost[i].conn # k
       /\ app' = [app EXCEPT ![u].conn = k,
                    ![u].mode = IF @ = "solo" THEN "joining" ELSE "rejoining"]
       /\ who' = [who EXCEPT ![k] = u]
       /\ link' = [link EXCEPT ![k] = "open"]
       /\ thread' = [thread EXCEPT ![k] = "claiming"]
       /\ up' = [up EXCEPT ![k] = <<HelloMsg>>]
       /\ down' = [down EXCEPT ![k] = <<>>]
  /\ UNCHANGED <<hostVars, room, members, bridgeVars, minted, faults>>

\* The client reads one message: of the handshake up to the Welcome, or of a
\* frame.  A room that closed ends the bridge pair; a connection that is given
\* up is shut.
ReadDown(u) ==
  LET k == app[u].conn m == Head(down[k]) s == app[u] IN
  /\ s.mode \in {"joining", "rejoining", "live"}
  /\ link[k] # "half" /\ down[k] # <<>>
  /\ down' = [down EXCEPT ![k] = Tail(@)]
  /\ app' = IF m = ClosedMsg \/ (m = DeniedMsg /\ s.mode # "live") THEN Lose(u)
            ELSE [app EXCEPT ![u] =
                    IF s.mode = "live" THEN Received(s, u, m)
                    ELSE IF m.type = "welcome" THEN Welcomed(s, m) ELSE s]
  /\ link' = IF app'[u].mode \in {"live", s.mode} THEN link ELSE Shut(k)
  /\ UNCHANGED <<hostVars, room, members, thread, who, up, bridgeVars, minted, faults>>

\* The pair ended: a handshake fails, a live client is disconnected.
LinkLost(u) ==
  LET k == app[u].conn IN
  /\ app[u].mode \in {"joining", "rejoining", "live"}
  /\ link[k] # "open"
  /\ app' = Lose(u)
  /\ UNCHANGED <<hostVars, relayVars, bridgeVars, minted, faults>>

\* The answer takes more than the 5 s of the handshake's read timeout: the
\* client gives the connection up.
HandshakeTimeout(u) ==
  /\ faults < MaxFaults
  /\ faults' = faults + 1
  /\ app[u].mode \in {"joining", "rejoining"}
  /\ thread[app[u].conn] = "routing"
  /\ app' = Lose(u)
  /\ link' = Shut(app[u].conn)
  /\ UNCHANGED <<hostVars, room, members, thread, who, up, down, bridgeVars, minted>>

\* An edit of the app, connected or not.
Edit(u) ==
  /\ app[u].mode \in {"live", "lost"}
  /\ minted + 1 \in ActionId
  /\ minted' = minted + 1
  /\ app' = [app EXCEPT ![u].runtime = Append(@, Mint(u))]
  /\ UNCHANGED <<hostVars, relayVars, bridgeVars, faults>>

\* The publish half of its frame.
Publish(u) ==
  LET k == app[u].conn IN
  /\ app[u].mode = "live" /\ link[k] = "open"
  /\ app[u].published < Len(app[u].runtime)
  /\ app' = [app EXCEPT ![u].published = Len(app[u].runtime)]
  /\ up' = [up EXCEPT ![k] = @ \o Outbound(app[u], u)]
  /\ UNCHANGED <<hostVars, room, members, thread, who, link, down, bridgeVars, minted, faults>>

\* The client went solo when the host ended the session.
AfterEnd(u) ==
  /\ app[u].mode = "ended"
  /\ app' = [app EXCEPT ![u] = Solo]
  /\ UNCHANGED <<hostVars, relayVars, bridgeVars, minted, faults>>
-----------------------------------------------------------------------------
(* The network.                                                            *)

\* A joiner's link breaks.  What the relay had not received is lost from some
\* point on.  The relay learns of it, or it does not.
Break(k) ==
  /\ faults < MaxFaults
  /\ thread[k] = "routing" /\ link[k] = "open"
  /\ faults' = faults + 1
  /\ link' \in {[link EXCEPT ![k] = w] : w \in {"shut"} \cup (IF HalfOpen THEN {"half"} ELSE {})}
  /\ \E n \in 0 .. Len(up[k]) : up' = [up EXCEPT ![k] = SubSeq(@, 1, n)]
  /\ down' = [down EXCEPT ![k] = <<>>]
  /\ UNCHANGED <<hostVars, room, members, thread, who, bridgeVars, app, minted>>

\* What was written to a half-open link is refused or times out.
HalfOpenEnds(k) ==
  /\ link[k] = "half" /\ down[k] # <<>>
  /\ link' = [link EXCEPT ![k] = "shut"]
  /\ UNCHANGED <<hostVars, room, members, thread, who, up, down, bridgeVars, app, minted, faults>>

\* The host's link breaks: nothing dials it again.
HostLinkBreaks ==
  /\ faults < MaxFaults /\ bridge
  /\ faults' = faults + 1
  /\ bridge' = FALSE
  /\ \E n \in 0 .. Len(fromHost) : fromHost' = SubSeq(fromHost, 1, n)
  /\ UNCHANGED <<hostVars, relayVars, toHost, relay_users, taken, via, app, minted>>
-----------------------------------------------------------------------------
RelayNext ==
  \/ RouteDown \/ RoomCloses
  \/ HostRead \/ Pump \/ HostEdit \/ SwapDocument \/ HostLeave \/ HostLinkBreaks
  \/ \E k \in Conn : Claim(k) \/ RouteUp(k) \/ Cleanup(k) \/ PingRefused(k)
                       \/ Break(k) \/ HalfOpenEnds(k)
  \/ \E u \in Client : Dial(u) \/ ReadDown(u) \/ LinkLost(u) \/ HandshakeTimeout(u)
                         \/ Edit(u) \/ Publish(u) \/ AfterEnd(u) \/ Silence(u)

RelaySpec == RelayInit /\ [][RelayNext]_vars
-----------------------------------------------------------------------------
RelayTypeOK ==
  /\ TypeOK
  /\ DOMAIN members \subseteq Client /\ relay_users \subseteq Client
  /\ \A u \in DOMAIN members : members[u] \in Conn
  /\ \A u \in Client : taken[u] \in 0 .. Len(sent[u])
  /\ thread \in [Conn -> {"claiming", "routing", "ended"}]
  /\ who \in [Conn -> Client \cup {None}]
  /\ link \in [Conn -> {"open", "shut", "half"}]
  /\ \A i \in DOMAIN toHost : toHost[i].conn \in Conn /\ toHost[i].type \in {"line", "left"}
  /\ \A u \in Client :
       /\ app[u].mode \in {"solo", "joining", "live", "lost", "rejoining", "ended"}
       /\ app[u].conn \in Conn \cup {None}

\* The host core and the bridge know no joiner whose link died, once they have
\* read what the relay queued for them: a lost link frees the identity "exactly
\* like a LAN socket EOF" (cleanup, relay_host_route_loop).
NoGhostMember ==
  (room /\ bridge /\ toHost = <<>> =>
    clients \subseteq DOMAIN members /\ relay_users \subseteq DOMAIN members)

\* A MemberLeft never undoes a membership of a later connection: the user it
\* is read for is in the core through the connection that ended, if at all
\* (join_room's user-id-in-use, and the one queue that lines and notices
\* share).  The teardown of a LAN connection makes no such promise.
LeftIsOwn ==
  LET f == Head(toHost) IN
  toHost # <<>> /\ f.type = "left" /\ IsConnected(who[f.conn]) =>
    via[who[f.conn]] = f.conn

\* The members the relay routes for, the bridge's users and the host core's
\* clients come to be the same, and stay so past late departures.  (And all is
\* well-typed.)
MembersAgree == RelayTypeOK /\ NoGhostMember /\ LeftIsOwn

RelayAppliedOnce ==
  \A u \in Client :
    \A i, j \in DOMAIN app[u].runtime :
      app[u].runtime[i].action_id = app[u].runtime[j].action_id => i = j

Quiet(u) ==
  LET k == app[u].conn IN
  /\ bridge /\ room /\ toHost = <<>> /\ fromHost = <<>>
  /\ app[u].mode = "live" /\ link[k] = "open" /\ up[k] = <<>> /\ down[k] = <<>>
  /\ app[u].published = Len(app[u].runtime)
  /\ IsConnected(u) /\ taken[u] = Len(sent[u])

\* A joined client with nothing under way on any leg holds the host's log, on
\* the host's document; and none ever holds a record twice.
RelayConverged ==
  RelayAppliedOnce /\ \A u \in Client : Quiet(u) =>
    /\ app[u].doc = snapshot
    /\ {app[u].runtime[i] : i \in DOMAIN app[u].runtime} = {records[i] : i \in DOMAIN records}
=============================================================================
