---------------------------- MODULE RelayRooms -----------------------------
(***************************************************************************)
(* The relay server (session-relay/relay_server.rs) with all its rooms:    *)
(* the role claim of a connection and the limits at the door, the registry *)
(* under its lock, the routing of lines between a room's host and its      *)
(* joiners, the writer thread of a connection and the end of each.         *)
(* RelayLane has the inside of one room and the sessions at its ends; here *)
(* are many rooms and hosts, codes that do not match, addresses that claim *)
(* too often and lines near the cap.                                       *)
(*                                                                         *)
(* A connection is a thread that reads `inbox`, and once it has a role a   *)
(* writer thread that writes `queue`; `seen` is all that was written to    *)
(* its socket.  A step that uses the registry has its lock for the whole   *)
(* step, but for a claim that succeeds, which holds it until the answer is *)
(* written: the writer threads, which need no lock, run meanwhile.  Frames *)
(* are whole (FrameLink), codes are right, wrong or malformed.             *)
(*                                                                         *)
(* Fresh assumes that no room id is minted twice.                          *)
(***************************************************************************)
EXTENDS Naturals, Sequences, FiniteSets, Functions, SequencesExt

CONSTANTS Conn, User, RoomId, Address,
          Hosts, Joiners,  \* bound: the connections that may claim a room, or join
          Codes,      \* bound: how the hellos of joiners are
          AddressOf,  \* connection -> address
          All,        \* BROADCAST_TARGET
          Blank,      \* a user id of white space
          None,
          MaxRooms, MaxMembers, ClaimsPerWindow, JoinWindow, MaxFrame,  \* RelayCaps
          Wrapping,   \* what {"from":..} adds to a line's frame
          Sizes,      \* sizes of the frames that carry lines
          Fresh,
          MaxLines,   \* bound: lines and kicks of a connection
          MaxClock    \* bound: on the clock

ASSUME RoomsAssumption ==
  /\ Hosts \cup Joiners = Conn /\ AddressOf \in [Conn -> Address]
  /\ Codes \subseteq {"right", "wrong", "malformed", "garbled"}
  /\ All # Blank /\ None \notin Conn \cup RoomId
  /\ {MaxRooms, MaxMembers, ClaimsPerWindow, JoinWindow, MaxFrame, Wrapping,
      MaxLines, MaxClock} \subseteq Nat
  /\ Sizes \subseteq 1 .. MaxFrame /\ Fresh \in BOOLEAN

VARIABLES
  stage,     \* handle_connection: "new", "hello", "claiming", "answering",
             \* "routing" or "ended"
  hello,     \* the role that a connection claims
  place,     \* the room and the user id it is routed under
  sock,      \* its socket works
  inbox,     \* what the client sent and the reader has not read
  queue,     \* its outbound channel
  writer,    \* its writer thread: "none", "up", "down"
  seen,      \* what was written to its socket
  sent,      \* how many lines and kicks its client sent
  rooms,     \* Registry::rooms
  minted,    \* the room ids so far
  attempts,  \* Registry::claim_attempts
  allowed,   \* when claims of an address were allowed; no step depends on it
  lock,      \* the connection that holds the registry between two steps
  clock

connVars == <<stage, hello, place, sock, inbox, queue, writer, seen, sent>>
doorVars == <<minted, attempts, allowed, clock>>
vars == <<connVars, doorVars, rooms, lock>>

OkFrame == [type |-> "ok"]
ErrorFrame(reason) == [type |-> "error", reason |-> reason]
ClosedFrame == [type |-> "room-closed"]
LeftFrame(c) == [type |-> "member-left", conn |-> c]
\* A line from c, and to whom if c is a host.
Line(c, nr, to, size) == [type |-> "line", conn |-> c, nr |-> nr, to |-> to, size |-> size]
KickFrame(to) == [type |-> "kick", to |-> to]
SizeOf(f) == IF f.type = "line" THEN f.size ELSE 1

HostHello == [role |-> "host"]
Hello == {HostHello} \cup [role : {"join"}, room : RoomId, user : User, code : Codes]

Init ==
  /\ stage = [c \in Conn |-> "new"]
  /\ hello = [c \in Conn |-> HostHello]
  /\ place = [c \in Conn |-> [room |-> None, user |-> Blank]]
  /\ sock = [c \in Conn |-> TRUE]
  /\ inbox = [c \in Conn |-> <<>>] /\ queue = [c \in Conn |-> <<>>]
  /\ writer = [c \in Conn |-> "none"] /\ seen = [c \in Conn |-> <<>>]
  /\ sent = [c \in Conn |-> 0]
  /\ rooms = [r \in {} |-> None] /\ minted = {}
  /\ attempts = [a \in Address |-> <<>>] /\ allowed = [a \in Address |-> <<>>]
  /\ lock = None
  /\ clock = 0

IsHost(c) == place[c].user = All
Members(r) == DOMAIN rooms[r].members
Set(f, x, v) == [y \in DOMAIN f \cup {x} |-> IF y = x THEN v ELSE f[y]]
Del(f, x) == Restrict(f, DOMAIN f \ {x})
-----------------------------------------------------------------------------
(* The door.                                                               *)

\* A code is known once the host of its room was told it.
Known(r) ==
  \E c \in Conn : place[c] = [room |-> r, user |-> All] /\ seen[c] # <<>>

\* The accept loop hands the connection to a thread, whose upgrade may fail;
\* then comes the hello.
Accept(c) ==
  /\ stage[c] = "new"
  /\ \/ /\ stage' = [stage EXCEPT ![c] = "hello"]
        /\ \E h \in Hello :
             /\ IF h = HostHello THEN c \in Hosts ELSE c \in Joiners /\ Known(h.room)
             /\ hello' = [hello EXCEPT ![c] = h]
     \/ /\ stage' = [stage EXCEPT ![c] = "ended"]
        /\ UNCHANGED hello
  /\ UNCHANGED <<place, sock, inbox, queue, writer, seen, sent, doorVars, rooms, lock>>

\* deny: an error frame, and the connection ends.
Deny(c, reason) ==
  /\ seen' = [seen EXCEPT ![c] = IF sock[c] THEN Append(@, ErrorFrame(reason)) ELSE @]
  /\ stage' = [stage EXCEPT ![c] = "ended"]

\* Mutant: the window is a tick too short.
RecentLate(a) == SelectSeq(attempts[a], LAMBDA t : clock - t < JoinWindow - 1)

\* The claims of an address that its window still holds.
Recent(a) == SelectSeq(attempts[a], LAMBDA t : clock - t < JoinWindow)

\* A hello that cannot be parsed is denied; any other counts for the rate guard.
Knock(c) ==
  LET a == AddressOf[c] kept == Recent(a)
      garbled == hello[c] # HostHello /\ hello[c].code = "garbled"
  IN
  /\ stage[c] = "hello" /\ lock = None
  /\ \/ /\ garbled
        /\ Deny(c, "bad-hello")
        /\ UNCHANGED <<attempts, allowed>>
     \/ /\ ~garbled /\ Len(kept) >= ClaimsPerWindow
        /\ attempts' = [attempts EXCEPT ![a] = kept]
        /\ Deny(c, "claim-rate")
        /\ UNCHANGED allowed
     \/ /\ ~garbled /\ Len(kept) < ClaimsPerWindow
        /\ attempts' = [attempts EXCEPT ![a] = Append(kept, clock)]
        /\ allowed' = [allowed EXCEPT ![a] = Append(@, clock)]
        /\ stage' = [stage EXCEPT ![c] = "claiming"]
        /\ UNCHANGED seen
  /\ UNCHANGED <<hello, place, sock, inbox, queue, writer, sent, rooms, minted, lock, clock>>

\* Mutant: the registry is given back before the answer is written.
SeatUnlocked(c, r, u) ==
  /\ place' = [place EXCEPT ![c] = [room |-> r, user |-> u]]
  /\ writer' = [writer EXCEPT ![c] = "up"]
  /\ stage' = [stage EXCEPT ![c] = "answering"]
  /\ lock' = None

\* A claim that succeeds has its writer thread and its place, and holds the
\* registry until it is answered.
Seat(c, r, u) ==
  /\ place' = [place EXCEPT ![c] = [room |-> r, user |-> u]]
  /\ writer' = [writer EXCEPT ![c] = "up"]
  /\ stage' = [stage EXCEPT ![c] = "answering"]
  /\ lock' = c

\* claim_host_room: an id that no room has, under the cap on rooms.
ClaimHostRoom(c) ==
  LET free == {r \in RoomId \ DOMAIN rooms : Fresh => r \notin minted}
      full == Cardinality(DOMAIN rooms) >= MaxRooms
  IN
  /\ stage[c] = "claiming" /\ hello[c] = HostHello /\ lock = None
  /\ \/ /\ full
        /\ Deny(c, "server-full")
        /\ UNCHANGED <<place, writer, rooms, minted, lock>>
     \/ /\ ~full
        /\ \E r \in free :
             /\ rooms' = Set(rooms, r, [host |-> c, members |-> [u \in {} |-> c]])
             /\ minted' = minted \cup {r}
             /\ Seat(c, r, All)
        /\ UNCHANGED seen
  /\ UNCHANGED <<hello, sock, inbox, queue, sent, attempts, allowed, clock>>

\* Mutant: nobody looks whether the user id is taken.
RefusalIgnoresNames(h) ==
  IF h.code = "malformed" THEN "bad-code"
  ELSE IF h.room \notin DOMAIN rooms THEN "no-room"
  ELSE IF h.code = "wrong" THEN "bad-code"
  ELSE "none"

\* Why join_room refuses a claim, or "none".
Refusal(h) ==
  IF h.user \in {All, Blank} THEN "bad-user"
  ELSE IF h.code = "malformed" THEN "bad-code"
  ELSE IF h.room \notin DOMAIN rooms THEN "no-room"
  ELSE IF h.code = "wrong" THEN "bad-code"
  ELSE IF h.user \in Members(h.room) THEN "user-id-in-use"
  ELSE IF Cardinality(Members(h.room)) >= MaxMembers THEN "room-full"
  ELSE "none"

JoinRoom(c) ==
  LET h == hello[c] IN
  /\ stage[c] = "claiming" /\ h.role = "join" /\ lock = None
  /\ \/ /\ Refusal(h) # "none"
        /\ Deny(c, Refusal(h))
        /\ UNCHANGED <<place, writer, rooms, lock>>
     \/ /\ Refusal(h) = "none"
        /\ rooms' = [rooms EXCEPT ![h.room].members = Set(@, h.user, c)]
        /\ Seat(c, h.room, h.user)
        /\ UNCHANGED seen
  /\ UNCHANGED <<hello, sock, inbox, queue, sent, doorVars>>

\* The answer, and with it the end of the claim.
Answer(c) ==
  /\ stage[c] = "answering"
  /\ seen' = [seen EXCEPT ![c] = IF sock[c] THEN Append(@, OkFrame) ELSE @]
  /\ stage' = [stage EXCEPT ![c] = "routing"]
  /\ lock' = None
  /\ UNCHANGED <<hello, place, sock, inbox, queue, writer, sent, doorVars, rooms>>
-----------------------------------------------------------------------------
(* Routing.                                                                *)

\* The client of a connection that was let in sends: a joiner lines to its
\* host, a host lines to a joiner or to all, and kicks.
Send(c) ==
  /\ stage[c] = "routing" /\ sock[c] /\ seen[c] # <<>> /\ sent[c] < MaxLines
  /\ sent' = [sent EXCEPT ![c] = @ + 1]
  /\ \E n \in Sizes, to \in IF IsHost(c) THEN User \cup {All} ELSE {All} :
       \E f \in {Line(c, sent[c], to, n)} \cup (IF IsHost(c) THEN {KickFrame(to)} ELSE {}) :
         inbox' = [inbox EXCEPT ![c] = Append(@, f)]
  /\ UNCHANGED <<stage, hello, place, sock, queue, writer, seen, doorVars, rooms, lock>>

\* The route loop of a connection reads a frame and has the registry.
Routes(c, f) ==
  /\ stage[c] = "routing" /\ inbox[c] # <<>> /\ f = Head(inbox[c]) /\ lock = None

\* A channel whose writer thread is gone takes nothing.
Put(cs, f) ==
  queue' = [c \in Conn |-> IF c \in cs /\ writer[c] = "up" THEN Append(queue[c], f)
                           ELSE queue[c]]

\* Whom a host's frame is for.
Targets(r, to) == {rooms[r].members[u] : u \in IF to = All THEN Members(r) ELSE Members(r) \cap {to}}

RouteKick(c) ==
  \E to \in User \cup {All} :
    /\ Routes(c, KickFrame(to))
    /\ inbox' = [inbox EXCEPT ![c] = Tail(@)]
    /\ sock' = [k \in Conn |-> sock[k] /\ k \notin Targets(place[c].room, to)]
    /\ UNCHANGED <<stage, hello, place, queue, writer, seen, sent, doorVars, rooms, lock>>

RouteToJoiners(c) ==
  /\ inbox[c] # <<>> /\ Routes(c, Head(inbox[c]))
  /\ IsHost(c) /\ Head(inbox[c]).type = "line"
  /\ inbox' = [inbox EXCEPT ![c] = Tail(@)]
  /\ Put(Targets(place[c].room, Head(inbox[c]).to), Head(inbox[c]))
  /\ UNCHANGED <<stage, hello, place, sock, writer, seen, sent, doorVars, rooms, lock>>

\* A line of a joiner is wrapped for the host.  A room that is gone, and a host
\* whose writer thread is gone, end the route loop: what is left is not read.
HostListens(r) == r \in DOMAIN rooms /\ writer[rooms[r].host] = "up"

RouteToHost(c) ==
  LET r == place[c].room IN
  /\ inbox[c] # <<>> /\ Routes(c, Head(inbox[c])) /\ ~IsHost(c)
  /\ \/ /\ HostListens(r)
        /\ inbox' = [inbox EXCEPT ![c] = Tail(@)]
        /\ Put({rooms[r].host}, [Head(inbox[c]) EXCEPT !.size = @ + Wrapping])
        /\ UNCHANGED sock
     \/ /\ ~HostListens(r)
        /\ inbox' = [inbox EXCEPT ![c] = <<>>]
        /\ sock' = [sock EXCEPT ![c] = FALSE]
        /\ UNCHANGED queue
  /\ UNCHANGED <<stage, hello, place, writer, seen, sent, doorVars, rooms, lock>>

\* One turn of a writer thread.  A frame over the cap, or a socket that is gone,
\* ends it and what is queued is lost.
Write(c) ==
  /\ writer[c] = "up" /\ queue[c] # <<>>
  /\ \/ /\ sock[c] /\ SizeOf(Head(queue[c])) <= MaxFrame
        /\ seen' = [seen EXCEPT ![c] = Append(@, Head(queue[c]))]
        /\ queue' = [queue EXCEPT ![c] = Tail(@)]
        /\ UNCHANGED writer
     \/ /\ ~sock[c] \/ SizeOf(Head(queue[c])) > MaxFrame
        /\ writer' = [writer EXCEPT ![c] = "down"]
        /\ queue' = [queue EXCEPT ![c] = <<>>]
        /\ UNCHANGED seen
  /\ UNCHANGED <<stage, hello, place, sock, inbox, sent, doorVars, rooms, lock>>
-----------------------------------------------------------------------------
(* The end of a connection.                                                *)

\* The client goes: some of what it sent may still arrive.
Disconnect(c) ==
  /\ stage[c] \notin {"new", "ended"} /\ sock[c]
  /\ sock' = [sock EXCEPT ![c] = FALSE]
  /\ \E n \in 0 .. Len(inbox[c]) : inbox' = [inbox EXCEPT ![c] = SubSeq(@, 1, n)]
  /\ UNCHANGED <<stage, hello, place, queue, writer, seen, sent, doorVars, rooms, lock>>

\* cleanup: with its host a room goes, and its joiners are told; of a joiner the
\* host is told.
Cleanup(c) ==
  LET r == place[c].room u == place[c].user IN
  /\ stage[c] = "routing" /\ inbox[c] = <<>> /\ ~sock[c] /\ lock = None
  /\ stage' = [stage EXCEPT ![c] = "ended"]
  /\ \/ /\ IsHost(c)
        /\ rooms' = Del(rooms, r)
        /\ Put(Targets(r, All), ClosedFrame)
     \/ /\ ~IsHost(c) /\ r \in DOMAIN rooms /\ u \in Members(r)
        /\ rooms' = [rooms EXCEPT ![r].members = Del(@, u)]
        /\ Put({rooms[r].host}, LeftFrame(c))
     \/ /\ ~IsHost(c) /\ (r \in DOMAIN rooms => u \notin Members(r))
        /\ UNCHANGED <<rooms, queue>>
  /\ UNCHANGED <<hello, place, sock, inbox, writer, seen, sent, doorVars, lock>>

Tick ==
  /\ clock < MaxClock
  /\ clock' = clock + 1
  /\ UNCHANGED <<connVars, minted, attempts, allowed, rooms, lock>>

Serve(c) ==
  \/ Knock(c) \/ ClaimHostRoom(c) \/ JoinRoom(c) \/ Answer(c)
  \/ RouteKick(c) \/ RouteToJoiners(c) \/ RouteToHost(c) \/ Cleanup(c)

Next == Tick \/ \E c \in Conn : Accept(c) \/ Serve(c) \/ Send(c) \/ Write(c) \/ Disconnect(c)

Spec == Init /\ [][Next]_vars
-----------------------------------------------------------------------------
Live(c) == stage[c] \in {"answering", "routing"}
Lines(s, c) == SelectSeq(s, LAMBDA f : f.type = "line" /\ f.conn = c)
Had(c) == seen[c] \o queue[c]

\* The registry and the connections agree: each room has its host, each user id
\* of a room belongs to the one connection that claimed it, and a connection
\* that is let in keeps its place until its own cleanup, whatever other
\* connections come, go, claim the name again or mint the next room.
Tenancy ==
  /\ \A r \in DOMAIN rooms :
       /\ Live(rooms[r].host) /\ place[rooms[r].host] = [room |-> r, user |-> All]
       /\ \A u \in Members(r) : Live(rooms[r].members[u])
                                /\ place[rooms[r].members[u]] = [room |-> r, user |-> u]
  /\ \A c \in Conn : Live(c) /\ place[c].room \in DOMAIN rooms =>
       LET room == rooms[place[c].room] IN
       IF IsHost(c) THEN room.host = c
       ELSE place[c].user \in DOMAIN room.members /\ room.members[place[c].user] = c

\* In any stretch of time as long as the window an address is let through to a
\* claim no more often than the guard says, though stale claims are forgotten
\* only when the address claims again (claim_rate_allows).
RateHeld ==
  \A a \in Address : \A i \in DOMAIN allowed[a] :
    i + ClaimsPerWindow \in DOMAIN allowed[a] =>
      allowed[a][i + ClaimsPerWindow] - allowed[a][i] >= JoinWindow

\* What one end hears of the other is a true account of it.  The first frame is
\* the answer to its claim, and after an error nothing comes: a joiner takes the
\* first frame for the answer.  A host hears the lines of the joiners of its room,
\* of each from the first on, in order and none left out, and after the notice
\* that one left, no more of it.  A joiner hears lines of the host of its room, in
\* order, for it or for all, and the close of the room, which is the last, is
\* told to everyone who is in the room when its host goes (join_room,
\* claim_host_room, route_line, cleanup).
Heard ==
  \A c \in Conn : LET s == Had(c) IN
    /\ \A i \in DOMAIN s :
         LET f == s[i] d == f.conn IN
         CASE f.type = "line" /\ IsHost(c) ->
                /\ place[d].room = place[c].room
                /\ f.nr = Len(Lines(SubSeq(s, 1, i - 1), d))
                /\ \A j \in 1 .. i : s[j] # LeftFrame(d)
           [] f.type = "line" /\ ~IsHost(c) ->
                /\ place[d] = [room |-> place[c].room, user |-> All]
                /\ f.to \in {All, place[c].user}
                /\ \A j \in 1 .. i - 1 : s[j].type = "line" => s[j].nr < f.nr
                /\ \A j \in 1 .. i : s[j] # ClosedFrame
           [] OTHER -> f.type = "error" => Len(s) = 1
    /\ \A i \in DOMAIN seen[c] : (i = 1) <=> seen[c][i].type \in {"ok", "error"}
    /\ Live(c) /\ sock[c] /\ place[c].room \notin DOMAIN rooms => ClosedFrame \in Range(s)
=============================================================================
