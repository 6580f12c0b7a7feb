---------------------------- MODULE SessionLan ----------------------------
(***************************************************************************)
(* A session over the LAN: the host core, its TCP transport                *)
(* (session-host/tcp.rs), the joining side (session-client), the seam the  *)
(* painter app sees (session-net) and the frame loop that drives it        *)
(* (main.rs).  The connection threads, the outbound pump, the network and  *)
(* the frame loops of the apps interleave; what runs under one lock, or in *)
(* one frame without meeting another thread, is one step.                  *)
(*                                                                         *)
(* A connection is a slot: the host thread that serves it, the bytes under *)
(* way in both directions, and whether the socket still works.  The queue  *)
(* `down` holds what the writer thread, the socket and the reader thread   *)
(* hold, up to the frame that drains it.  Rosters, presence and pongs are  *)
(* left out of it (see SessionClient).                                     *)
(*                                                                         *)
(* Timing.  A client that still pings is never silent for 5 s, nor is one  *)
(* whose messages the host has yet to read; a Hello is answered before its *)
(* client dials again.  Prompt assumes more: the host reads what an ended  *)
(* connection delivered, and tears it down, before the next connection of  *)
(* the same user gets through, and never between its Hello and its         *)
(* Welcome.  Nothing in the code makes it so; see the README on timing.    *)
(***************************************************************************)
EXTENDS SessionClient, FiniteSets

CONSTANTS App,        \* joining painter apps
          UserOf,     \* the identity an app joins with
          Conn,       \* connection slots
          SeedAuthor, \* authors in the history of a document that is opened
          Prompt,     \* connections of one user overlap only while one is half-open
          MaxFaults,  \* bound: connections the network breaks
          MaxLeaves   \* bound: times a user leaves

ASSUME LanAssumption ==
  /\ UserOf \in [App -> Client]
  /\ None \notin App \cup Conn
  /\ SeedAuthor \subseteq User
  /\ Prompt \in BOOLEAN
  /\ MaxFaults \in Nat
  /\ MaxLeaves \in Nat

VARIABLES
  serving,  \* is the listener accepting (SessionHostServer alive)
  senders,  \* outbound senders: user -> connection
  taken,    \* how much of sent[u] take_outgoing drained
  thread,   \* serve_connection of a slot: where it is
  joined,   \* its joined_user_id is Some
  owner,    \* the app that dialled the slot
  wire,     \* "open", "shut" (both ends know) or "half" (the host does not)
  up, down, \* messages under way to the host and to the client
  host,     \* the hosting app: runtime, publish cursor, consume cursor
  app,      \* each joining app: see Apps
  minted,   \* action ids handed out so far
  faults, leaves  \* counted for the bounds

netVars == <<senders, taken, thread, joined, owner, wire, up, down>>
envVars == <<minted, faults, leaves>>
vars == <<hostVars, serving, netVars, host, app, envVars>>

\* A slot a new connection can take.
Free(k) == thread[k] = "closed" /\ \A a \in App : app[a].conn = k => app[a].mode = "lost"

\* A client past its handshake pings every 2 s; so does one that was left
\* without its socket being closed (LeaveRequested only drops the
\* SessionClient).  The handshake before it is shorter than the silences.
Attended(k) == wire[k] = "open" /\ (app[owner[k]].conn = k => app[owner[k]].mode # "lost")

Pings(k) == Attended(k) /\ (app[owner[k]].conn = k => app[owner[k]].mode = "live")

LanInit ==
  /\ Init
  /\ serving = TRUE
  /\ senders = [u \in {} |-> None]
  /\ taken = [u \in Client |-> 0]
  /\ thread = [k \in Conn |-> "closed"]
  /\ joined = [k \in Conn |-> FALSE]
  /\ owner = [k \in Conn |-> None]
  /\ wire = [k \in Conn |-> "shut"]
  /\ up = [k \in Conn |-> <<>>]
  /\ down = [k \in Conn |-> <<>>]
  /\ host = [runtime |-> <<>>, published |-> 0, consumed |-> 0]
  /\ app = [a \in App |-> Solo]
  /\ minted = 0 /\ faults = 0 /\ leaves = 0
-----------------------------------------------------------------------------
(* The transport of the host.                                              *)

\* What a slot's client will read: a socket that broke delivers nothing.
Deliver(k, ms) == IF wire[k] = "open" THEN down[k] \o ms ELSE down[k]

\* drain_and_route, at the end of a step of the core: the queues of the wired
\* users go down their connections.  `fresh` are the users whose queue this
\* step started anew, `wired` the senders it finds.
Undrained(u, fresh) ==
  LET from == IF u \in fresh THEN 1 ELSE taken[u] + 1
  IN  SelectSeq(SubSeq(sent'[u], from, Len(sent'[u])), Relevant)

RoutedTo(k, fresh, wired) ==
  LET us == {u \in DOMAIN wired : wired[u] = k}
  IN  IF us = {} THEN <<>> ELSE Undrained(CHOOSE u \in us : TRUE, fresh)

Route(fresh, wired) ==
  /\ taken' = [u \in Client |-> IF u \in DOMAIN wired THEN Len(sent'[u])
                                ELSE IF u \in fresh THEN 0 ELSE taken[u]]
  /\ down' = [k \in Conn |-> Deliver(k, RoutedTo(k, fresh, wired))]

UserAt(k) == UserOf[owner[k]]

\* Denied goes to the connection itself, and the thread leaves its loop.
Deny(k, next) ==
  /\ down' = [down EXCEPT ![k] = Deliver(k, <<DeniedMsg>>)]
  /\ thread' = [thread EXCEPT ![k] = next]

NoHello(u) == Prompt => \A k \in Conn : thread[k] = "hello" => UserAt(k) # u

\* The first Hello registers the outbound sender before it takes the lock.
Register(k) ==
  /\ thread[k] = "reading"
  /\ up[k] # <<>> /\ Head(up[k]) = HelloMsg
  /\ Prompt => \A j \in Conn \ {k} :
       joined[j] /\ UserAt(j) = UserAt(k) =>
         thread[j] = "reading" /\ up[j] = <<>> /\ wire[j] # "shut"
  /\ up' = [up EXCEPT ![k] = Tail(@)]
  /\ senders' = With(senders, UserAt(k), k)
  /\ thread' = [thread EXCEPT ![k] = "hello"]
  /\ UNCHANGED <<hostVars, serving, taken, joined, owner, wire, down, host, app, envVars>>

\* Then the Hello is handled.  A refusal drops the sender again; nobody
\* joined, so the thread ends without a teardown.
Greet(k, n) ==
  /\ thread[k] = "hello"
  /\ \/ /\ Admits(UserAt(k))
        /\ HandleHello(UserAt(k), n)
        /\ Route({UserAt(k)}, senders)
        /\ joined' = [joined EXCEPT ![k] = TRUE]
        /\ thread' = [thread EXCEPT ![k] = "reading"]
        /\ UNCHANGED senders
     \/ /\ ~Admits(UserAt(k))
        /\ senders' = Without(senders, {UserAt(k)})
        /\ Deny(k, "closed")
        /\ UNCHANGED <<hostVars, taken, joined>>
  /\ UNCHANGED <<serving, owner, wire, up, host, app, envVars>>

\* A record or a Bye of a joined connection.
Serve(k) ==
  /\ thread[k] = "reading" /\ joined[k]
  /\ up[k] # <<>>
  /\ up' = [up EXCEPT ![k] = Tail(@)]
  /\ LET m == Head(up[k]) u == UserAt(k) IN
     \/ /\ m.type = "record" /\ IsConnected(u)
        /\ HandleAction(u, m.record)
        /\ Route({}, senders)
        /\ UNCHANGED thread
     \/ /\ m.type = "record" /\ ~IsConnected(u) /\ NoHello(u)
        /\ Deny(k, "leaving")
        /\ UNCHANGED <<hostVars, taken>>
     \/ /\ m = ByeMsg /\ IsConnected(u)
        /\ DropClients({u})
        /\ Route({u}, senders)
        /\ UNCHANGED thread
     \/ /\ m = ByeMsg /\ ~IsConnected(u)
        /\ UNCHANGED <<hostVars, taken, down, thread>>
  /\ UNCHANGED <<serving, senders, joined, owner, wire, host, app, envVars>>

\* Mutant: the ping of an evicted client is passed over.
PingIgnored(k) == FALSE

\* A ping refreshes last_seen (see Silence) unless the core dropped its
\* sender: then it is refused, and the refusal sends the client rejoining.
PingRefused(k) ==
  /\ thread[k] = "reading" /\ joined[k] /\ up[k] = <<>>
  /\ Pings(k)
  /\ ~IsConnected(UserAt(k)) /\ NoHello(UserAt(k))
  /\ Deny(k, "leaving")
  /\ UNCHANGED <<hostVars, serving, senders, taken, joined, owner, wire, up, host, app, envVars>>

\* The peer is gone and everything it sent has been read.
Eof(k) ==
  /\ thread[k] = "reading" /\ up[k] = <<>> /\ wire[k] = "shut"
  /\ joined[k] => NoHello(UserAt(k))
  /\ thread' = [thread EXCEPT ![k] = IF joined[k] THEN "leaving" ELSE "closed"]
  /\ UNCHANGED <<hostVars, serving, senders, taken, joined, owner, wire, up, down, host, app, envVars>>

\* Teardown, first half: the sender of the user goes, whoever's it is now.
Unwire(k) ==
  /\ thread[k] = "leaving"
  /\ senders' = Without(senders, {UserAt(k)})
  /\ thread' = [thread EXCEPT ![k] = "left"]
  /\ UNCHANGED <<hostVars, serving, taken, joined, owner, wire, up, down, host, app, envVars>>

\* Mutant: the sender goes and the user stays.
TeardownKeeps(k) ==
  /\ thread[k] = "left"
  /\ thread' = [thread EXCEPT ![k] = "closed"]
  /\ joined' = [joined EXCEPT ![k] = FALSE]
  /\ UNCHANGED <<hostVars, serving, senders, taken, owner, wire, up, down, host, app, envVars>>

\* Teardown, second half: the user leaves the core, whoever joined it.
Teardown(k) ==
  /\ thread[k] = "left"
  /\ DropClients({UserAt(k)})
  /\ Route({UserAt(k)}, senders)
  /\ thread' = [thread EXCEPT ![k] = "closed"]
  /\ joined' = [joined EXCEPT ![k] = FALSE]
  /\ UNCHANGED <<serving, senders, owner, wire, up, host, app, envVars>>

\* The outbound pump prunes and drains, while the server lives.
Pump ==
  /\ serving
  /\ \/ StaleClients # {} /\ DropClients(StaleClients) /\ Route(StaleClients, senders)
     \/ /\ StaleClients = {}
        /\ \E u \in DOMAIN senders : taken[u] < Len(sent[u])
        /\ UNCHANGED hostVars
        /\ Route({}, senders)
  /\ UNCHANGED <<serving, senders, thread, joined, owner, wire, up, host, app, envVars>>

\* Silence grows only where nobody pings and nothing is left to read.
Silence(u) ==
  /\ \A k \in Conn : thread[k] = "reading" /\ joined[k] /\ UserAt(k) = u =>
       up[k] = <<>> /\ ~Attended(k)
  /\ Age(u)
  /\ UNCHANGED <<serving, netVars, host, app, envVars>>
-----------------------------------------------------------------------------
(* The hosting app.                                                        *)

\* Records after the publish cursor that the app must send itself.
Unpublished(rt, cursor, me) == {i \in cursor + 1 .. Len(rt) : rt[i].user_id = me}

Mint(me) == [action_id |-> minted + 1, user_id |-> me]

HostEdit ==
  /\ serving
  /\ minted + 1 \in ActionId
  /\ minted' = minted + 1
  /\ host' = [host EXCEPT !.runtime = Append(@, Mint(Host))]
  /\ UNCHANGED <<hostVars, serving, netVars, app, faults, leaves>>

\* The frame seam: publish what is own and new, then apply what is foreign.
HostFrame ==
  LET due == Unpublished(host.runtime, host.published, Host) IN
  /\ serving
  /\ \/ \E i \in due :
          /\ \A j \in due : i <= j
          /\ HandleLocal(host.runtime[i])
          /\ host' = [host EXCEPT !.published = i]
          /\ UNCHANGED <<taken, down>>
     \/ /\ due = {}
        /\ host.consumed < Len(records)
        /\ LET r == records[host.consumed + 1] IN
           host' = [host EXCEPT !.consumed = @ + 1,
                                !.runtime = IF r.user_id # Host THEN Append(@, r) ELSE @]
        /\ UNCHANGED <<hostVars, taken, down>>
  /\ UNCHANGED <<serving, senders, thread, joined, owner, wire, up, app, envVars>>

SwapDocumentConsumed(seed) ==
  /\ serving
  /\ \A i \in DOMAIN seed : seed[i].action_id = minted + i /\ seed[i].user_id \in SeedAuthor
  /\ minted' = minted + Len(seed)
  /\ Reseed(seed)
  /\ host' = [host EXCEPT !.runtime = seed, !.published = Len(seed)]
  /\ taken' = [u \in Client |-> 0]
  /\ UNCHANGED <<serving, senders, thread, joined, owner, wire, up, down, app, faults, leaves>>

\* file:new or file:open while hosting: the runtime of the other document,
\* and reseed_host with the records it holds.
SwapDocument(seed) ==
  /\ serving
  /\ \A i \in DOMAIN seed : seed[i].action_id = minted + i /\ seed[i].user_id \in SeedAuthor
  /\ minted' = minted + Len(seed)
  /\ Reseed(seed)
  /\ host' = [runtime |-> seed, published |-> Len(seed), consumed |-> 0]
  /\ taken' = [u \in Client |-> 0]
  /\ UNCHANGED <<serving, senders, thread, joined, owner, wire, up, down, app, faults, leaves>>

\* The host leaves: end_session, and then the SessionNet is dropped; the pump
\* may have had its turn in between, or not.
HostLeave ==
  /\ serving
  /\ ended' = TRUE
  /\ Broadcast(clients, <<EndedMsg>>)
  /\ \/ serving' = FALSE /\ Route({}, senders)
     \/ serving' = FALSE /\ UNCHANGED <<taken, down>>
  /\ UNCHANGED <<records, roster, cursors, silence, snapshot,
                 senders, thread, joined, owner, wire, up, host, app, envVars>>

\* The host process ends, and with it the threads of its connections.
HostExit ==
  /\ ended
  /\ \E k \in Conn : thread[k] # "closed"
  /\ thread' = [k \in Conn |-> "closed"]
  /\ UNCHANGED <<hostVars, serving, senders, taken, joined, owner, wire, up, down, host, app, envVars>>
-----------------------------------------------------------------------------
(* The joining app.                                                        *)

\* SessionClient::connect: dial and say Hello.  The user joins from solo; the
\* sync of a frame rejoins once the connection is lost.
Dial(a) ==
  /\ serving
  /\ app[a].mode \in {"solo", "lost"}
  /\ \A k \in Conn : owner[k] = a =>
       thread[k] # "hello" /\ (up[k] # <<>> => Head(up[k]) # HelloMsg)
  /\ \E k \in Conn :
       /\ Free(k)
       /\ app' = [app EXCEPT ![a].conn = k,
                    ![a].mode = IF @ = "solo" THEN "joining" ELSE "rejoining"]
       /\ owner' = [owner EXCEPT ![k] = a]
       /\ wire' = [wire EXCEPT ![k] = "open"]
       /\ thread' = [thread EXCEPT ![k] = "reading"]
       /\ joined' = [joined EXCEPT ![k] = FALSE]
       /\ up' = [up EXCEPT ![k] = <<HelloMsg>>]
       /\ down' = [down EXCEPT ![k] = <<>>]
  /\ UNCHANGED <<hostVars, serving, senders, taken, host, envVars>>

\* The handshake reads up to the Welcome; what came before it is stale.
Shake(a) ==
  LET k == app[a].conn IN
  /\ app[a].mode \in {"joining", "rejoining"}
  /\ \/ /\ down[k] # <<>>
        /\ down' = [down EXCEPT ![k] = Tail(@)]
        /\ LET m == Head(down[k]) IN
           \/ /\ m.type = "welcome"
              /\ app' = [app EXCEPT ![a] = Welcomed(@, m)]
              /\ UNCHANGED wire
           \/ /\ m = DeniedMsg
              /\ app' = [app EXCEPT ![a].mode = Failed(@), ![a].conn = None]
              /\ wire' = [wire EXCEPT ![k] = "shut"]
           \/ /\ m.type \notin {"welcome", "denied"}
              /\ UNCHANGED <<app, wire>>
     \/ /\ down[k] = <<>> /\ (thread[k] = "closed" \/ wire[k] # "open")
        /\ app' = [app EXCEPT ![a].mode = Failed(@), ![a].conn = None]
        /\ UNCHANGED <<down, wire>>
  /\ UNCHANGED <<hostVars, serving, senders, taken, thread, joined, owner, up, host, envVars>>

\* The handshake's read timeout: the Hello was read and no answer comes, as
\* when a teardown took the sender and the membership of this connection.
HandshakeTimeout(a) ==
  LET k == app[a].conn IN
  /\ app[a].mode \in {"joining", "rejoining"}
  /\ down[k] = <<>> /\ up[k] = <<>> /\ thread[k] = "reading"
  /\ app' = [app EXCEPT ![a].mode = Failed(@), ![a].conn = None]
  /\ wire' = [wire EXCEPT ![k] = "shut"]
  /\ UNCHANGED <<hostVars, serving, senders, taken, thread, joined, owner, up, down, host, envVars>>

Edit(a) ==
  /\ app[a].mode \in {"live", "lost"}
  /\ minted + 1 \in ActionId
  /\ minted' = minted + 1
  /\ app' = [app EXCEPT ![a].runtime = Append(@, Mint(UserOf[a]))]
  /\ UNCHANGED <<hostVars, serving, netVars, host, faults, leaves>>

\* The frame seam of a connected app: publish, then take what arrived.  A
\* frame that takes several messages is several frames that take one.
Frame(a) ==
  LET k == app[a].conn
      s == [app[a] EXCEPT !.published = Len(app[a].runtime)]
      out == Outbound(app[a], UserOf[a])
  IN
  /\ app[a].mode = "live"
  /\ up' = [up EXCEPT ![k] = IF wire[k] = "open" THEN @ \o out ELSE @]
  /\ \/ /\ down[k] # <<>>
        /\ down' = [down EXCEPT ![k] = Tail(@)]
        /\ app' = [app EXCEPT ![a] = Received(s, UserOf[a], Head(down[k]))]
     \/ /\ s # app[a]
        /\ app' = [app EXCEPT ![a] = s]
        /\ UNCHANGED down
  /\ UNCHANGED <<hostVars, serving, senders, taken, thread, joined, owner, wire, host, envVars>>

\* The reader thread met the end of the stream: it has queued everything that
\* came before, and the frame loop may not have drained it.
ReaderEof(a) ==
  /\ app[a].mode = "live"
  /\ thread[app[a].conn] = "closed"
  /\ app' = [app EXCEPT ![a].mode = "lost"]
  /\ UNCHANGED <<hostVars, serving, netVars, host, envVars>>

\* The client went solo when the host ended the session: the end of the frame
\* force-saves and drops the SessionNet.
AfterEnd(a) ==
  /\ app[a].mode = "ended"
  /\ app' = [app EXCEPT ![a] = Solo]
  /\ UNCHANGED <<hostVars, serving, netVars, host, envVars>>

\* LeaveRequested: Bye behind what is under way, and the net is dropped; the
\* socket stays open and the keepalive thread keeps pinging.
Leave(a) ==
  LET k == app[a].conn IN
  /\ app[a].mode \in {"live", "lost"}
  /\ leaves < MaxLeaves
  /\ leaves' = leaves + 1
  /\ up' = IF app[a].mode = "live" /\ wire[k] = "open"
           THEN [up EXCEPT ![k] = Append(@, ByeMsg)] ELSE up
  /\ app' = [app EXCEPT ![a] = Solo]
  /\ UNCHANGED <<hostVars, serving, senders, taken, thread, joined, owner, wire, down, host, minted, faults>>
-----------------------------------------------------------------------------
(* The network.                                                            *)

\* A connection breaks.  What the host had not received yet is lost from some
\* point on; the client's reader ends.  The host learns of it, or it does not.
Break(k) ==
  /\ faults < MaxFaults
  /\ wire[k] = "open" /\ thread[k] # "closed"
  /\ faults' = faults + 1
  /\ wire' \in {[wire EXCEPT ![k] = w] : w \in {"shut", "half"}}
  /\ \E n \in 0 .. Len(up[k]) : up' = [up EXCEPT ![k] = SubSeq(@, 1, n)]
  /\ down' = [down EXCEPT ![k] = <<>>]
  /\ app' = [a \in App |->
       IF app[a].conn = k /\ app[a].mode = "live"
       THEN [app[a] EXCEPT !.mode = "lost"] ELSE app[a]]
  /\ UNCHANGED <<hostVars, serving, senders, taken, thread, joined, owner, host, minted, leaves>>

\* The host's side of a half-open connection fails at last.
HalfOpenEnds(k) ==
  /\ wire[k] = "half"
  /\ wire' = [wire EXCEPT ![k] = "shut"]
  /\ UNCHANGED <<hostVars, serving, senders, taken, thread, joined, owner, up, down, host, app, envVars>>
-----------------------------------------------------------------------------
HostNext ==
  \/ HostEdit \/ HostFrame \/ HostLeave \/ HostExit \/ Pump
  \/ \E s \in Seeds : SwapDocument(s)
  \/ \E u \in Client : Silence(u)

ConnNext ==
  \E k \in Conn :
    \/ Register(k) \/ Serve(k) \/ PingRefused(k) \/ Eof(k) \/ Unwire(k) \/ Teardown(k)
    \/ \E n \in Name : Greet(k, n)
    \/ Break(k) \/ HalfOpenEnds(k)

AppNext ==
  \E a \in App :
    Dial(a) \/ Shake(a) \/ HandshakeTimeout(a) \/ Edit(a) \/ Frame(a) \/ ReaderEof(a) \/ AfterEnd(a) \/ Leave(a)

LanNext == HostNext \/ ConnNext \/ AppNext

LanSpec == LanInit /\ [][LanNext]_vars

\* Fairness: the frame loops run, the threads run, time passes.  Nothing is
\* assumed of what the users do, nor of when a half-open connection fails.
Fairness ==
  /\ WF_vars(HostFrame) /\ WF_vars(Pump)
  /\ \A u \in Client : WF_vars(Silence(u))
  /\ \A k \in Conn :
       /\ WF_vars(Register(k)) /\ WF_vars(\E n \in Name : Greet(k, n)) /\ WF_vars(Serve(k))
       /\ WF_vars(PingRefused(k)) /\ WF_vars(Eof(k)) /\ WF_vars(Unwire(k)) /\ WF_vars(Teardown(k))
  /\ \A a \in App :
       /\ WF_vars(app[a].mode = "lost" /\ Dial(a)) /\ WF_vars(Shake(a))
       /\ WF_vars(HandshakeTimeout(a))
       /\ WF_vars(Frame(a)) /\ WF_vars(ReaderEof(a)) /\ WF_vars(AfterEnd(a))

LanFairSpec == LanSpec /\ Fairness
-----------------------------------------------------------------------------
LanTypeOK ==
  /\ TypeOK
  /\ DOMAIN senders \subseteq Client
  /\ \A u \in DOMAIN senders : senders[u] \in Conn
  /\ \A u \in Client : taken[u] \in 0 .. Len(sent[u])
  /\ thread \in [Conn -> {"closed", "reading", "hello", "leaving", "left"}]
  /\ joined \in [Conn -> BOOLEAN]
  /\ owner \in [Conn -> App \cup {None}]
  /\ wire \in [Conn -> {"open", "shut", "half"}]
  /\ host.published \in 0 .. Len(host.runtime)
  /\ host.consumed \in 0 .. Len(records)
  /\ \A a \in App :
       /\ app[a].mode \in {"solo", "joining", "live", "lost", "rejoining", "ended"}
       /\ app[a].conn \in Conn \cup {None}
       /\ app[a].published \in 0 .. Len(app[a].runtime)

\* Whatever breaks, rejoins and replays, no record is logged twice by the
\* host ("a rebuilt runtime never re-sends a record the host already logged"),
\* and no app applies one twice: not its own from the replay and from its own
\* edit, not a foreign one from the replay and from a broadcast, and the host
\* not one that it loaded with the document (the consume cursors).
OnlyOnce ==
  /\ NoDuplicateIds(records)
  /\ NoDuplicateIds(host.runtime)
  /\ \A a \in App : NoDuplicateIds(app[a].runtime)

\* An app that is joined over a working connection and has nothing under way
\* holds the records of the host's log, all of them and no others, on the
\* host's document: the rejoin "converges without any delta catch-up".
CaughtUp(a) ==
  LET k == app[a].conn u == UserOf[a] IN
  /\ app[a].mode = "live"
  /\ thread[k] = "reading" /\ joined[k] /\ wire[k] = "open"
  /\ up[k] = <<>> /\ down[k] = <<>>
  /\ app[a].published = Len(app[a].runtime)
  /\ IsConnected(u) /\ taken[u] = Len(sent[u])

Recs(s) == {s[i] : i \in DOMAIN s}

ClientConverged ==
  \A a \in App : CaughtUp(a) =>
    app[a].doc = snapshot /\ Recs(app[a].runtime) = Recs(records)

\* The same for the hosting app, once its frame has nothing to do.
HostConverged ==
  (host.consumed = Len(records) /\ Unpublished(host.runtime, host.published, Host) = {})
    => Recs(host.runtime) = Recs(records)

\* Whoever is caught up, client or host, holds the session's document, and
\* nobody ever holds a record of it twice.
Converged == OnlyOnce /\ ClientConverged /\ HostConverged

\* A member whose connection is served can be reached: its outbound sender is
\* its own connection's, unless the teardown or the Hello of another
\* connection of the same user is under way.  Otherwise its messages "are
\* silently dropped" while its pings keep it a member.  (And all is well-typed.)
MemberIsWired ==
  LanTypeOK /\ \A a \in App :
    LET k == app[a].conn u == UserOf[a] IN
    /\ app[a].mode = "live"
    /\ thread[k] = "reading" /\ joined[k] /\ wire[k] = "open" /\ IsConnected(u)
    /\ \A j \in Conn \ {k} : owner[j] # None /\ UserAt(j) = u => thread[j] \notin {"hello", "left"}
    => u \in DOMAIN senders /\ senders[u] = k

\* Every connection lost to the network, a prune, a re-seed or a takeover is
\* regained while the host serves, unless the user leaves: a denial of the old
\* identity is never for good (DUPLICATE_REJOIN_EVICT_AFTER, prune, Bye).
Rejoins ==
  \A a \in App :
    (app[a].mode = "lost" /\ leaves = MaxLeaves) ~> (app[a].mode = "live" \/ ~serving)

\* A live client is caught up again and again, or stops being one: its
\* records reach the log and the log reaches it.
Delivered == \A a \in App : app[a].mode = "live" ~> (CaughtUp(a) \/ app[a].mode # "live" \/ ~serving)

\* Nobody stays lost, and nobody live stays behind, for good.
CatchesUp == Rejoins /\ Delivered
=============================================================================
