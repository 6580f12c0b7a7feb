---------------------------- MODULE SessionHost ----------------------------
(***************************************************************************)
(* The transport-agnostic core of a hosted session                         *)
(* (workers/session-host/session_host.rs): one ordered record log, the     *)
(* roster of joined users, presence cursors, and one outgoing queue per    *)
(* joined client.  Every operator below is one method of `SessionHost`,    *)
(* or one arm of `handle_client_message`; each runs under the host lock    *)
(* and so is one step.                                                     *)
(*                                                                         *)
(* A rejected message changes nothing here but `last_seen`, which only     *)
(* matters for a joined user, so rejections are the absence of a step; the *)
(* connection that receives the denial is modelled in SessionLan.          *)
(*                                                                         *)
(* Abstractions.  A record is its action id and its author.  The snapshot  *)
(* is the number of the document the log is about (a re-seed changes it).  *)
(* The order in which the roster lists the clients is left out: a roster   *)
(* is a function from the users it names to their display names.  Elapsed  *)
(* time is an age in three steps, the two thresholds of the code.  The     *)
(* host user and the snapshot source are always set: SessionNet installs   *)
(* both before it shares the core.  take_outgoing, the transport's side of *)
(* a queue, is modelled with the transport.                                *)
(***************************************************************************)
EXTENDS Naturals, Sequences

CONSTANTS Client,      \* user ids that may join
          Host,        \* user id of the hosting app
          Name,        \* display names
          Cursor,      \* presence cursors a client may report
          NoCursor,    \* Option::None of a cursor
          ActionId,    \* action ids: each is minted once
          MaxStream,   \* bound: messages queued to one client per membership
          MaxSeed,     \* bound: records in the seed of a re-seeded log
          MaxDocs      \* bound: documents hosted one after the other

ASSUME ConstAssumption ==
  /\ Host \notin Client
  /\ NoCursor \notin Cursor
  /\ MaxStream \in Nat
  /\ MaxSeed \in Nat
  /\ MaxDocs \in Nat

User == Client \cup {Host}

Record == [action_id : ActionId, user_id : User]

VARIABLES records,    \* SessionHost::records, the log in arrival order
          roster,     \* user -> display name, for the host and every client
          cursors,    \* SessionHost::cursors
          silence,    \* age of SessionHost::last_seen, per joined client
          sent,       \* everything queued to a client since it joined: the
                      \* drained messages and HostClient::outgoing
          snapshot,   \* which document snapshot_source returns
          ended       \* SessionHost::ended

hostVars == <<records, roster, cursors, silence, sent, snapshot, ended>>

\* Silence of a client: heard from within 5 s, for 5 s or more
\* (DUPLICATE_REJOIN_EVICT_AFTER), for 10 s or more (CLIENT_SEEN_TIMEOUT).
Fresh == 0
Silent == 1
Stale == 2

Rosters == UNION {[S -> Name] : S \in SUBSET User}

HostMessage ==
  [type : {"welcome"}, snapshot : Nat, log_length : Nat, roster : Rosters]
    \cup [type : {"record"}, record : Record]
    \cup [type : {"presence"}, user : Client, cursor : Cursor \cup {NoCursor}]
    \cup [type : {"roster"}, roster : Rosters]
    \cup [type : {"ended", "pong"}]

RecordMsg(r) == [type |-> "record", record |-> r]
RosterMsg(R) == [type |-> "roster", roster |-> R]
EndedMsg == [type |-> "ended"]
PongMsg == [type |-> "pong"]

\* The joined clients: SessionHost::clients is the roster without the host.
clients == DOMAIN roster \ {Host}

IsConnected(u) == u \in clients

\* Bound: every queue that a broadcast of k messages reaches can take them.
Room(k) == \A c \in clients : Len(sent[c]) + k <= MaxStream
-----------------------------------------------------------------------------
(* Helpers of the core.                                                    *)

With(R, u, n) == [w \in DOMAIN R \cup {u} |-> IF w = u THEN n ELSE R[w]]
Without(R, S) == [w \in DOMAIN R \ S |-> R[w]]

\* Mutant: the queue is filled from its front.
BroadcastFront(to, ms) ==
  sent' = [c \in Client |-> IF c \in to THEN ms \o sent[c] ELSE sent[c]]

\* broadcast_others, and the loops that push to every client.
Broadcast(to, ms) ==
  sent' = [c \in Client |-> IF c \in to THEN sent[c] \o ms ELSE sent[c]]

\* Any message but Hello refreshes its sender's last_seen.
Heard(u) == silence' = [silence EXCEPT ![u] = Fresh]

\* An action id is minted once, and who mints it sends it once: that the
\* senders do is the concern of SessionLan.
Unlogged(r) == \A i \in DOMAIN records : records[i].action_id # r.action_id
-----------------------------------------------------------------------------
Init ==
  /\ records = <<>>
  /\ roster \in [{Host} -> Name]
  /\ cursors = [c \in {} |-> NoCursor]
  /\ silence = [c \in {} |-> Fresh]
  /\ sent = [c \in Client |-> <<>>]
  /\ snapshot = 0
  /\ ended = FALSE

\* Mutant: the log is counted but not replayed.
JoinStreamUnreplayed(R) ==
  <<[type |-> "welcome", snapshot |-> snapshot,
     log_length |-> Len(records), roster |-> R]>>

\* The messages that a joiner finds in its new queue: the Welcome and then
\* the whole log, from its first record.
JoinStream(R) ==
  <<[type |-> "welcome", snapshot |-> snapshot,
     log_length |-> Len(records), roster |-> R]>>
    \o [i \in 1 .. Len(records) |-> RecordMsg(records[i])]

\* What the others learn of a join: the loss of the ghost it replaced, if
\* there was one, and then the roster with the joiner.
JoinNews(u, R) ==
  (IF IsConnected(u) THEN <<RosterMsg(Without(roster, {u}))>> ELSE <<>>)
    \o <<RosterMsg(R)>>

\* Mutants: no check of the joined identity, no check of the end.
AdmitsAnyone(u) == ~ended
AdmitsLate(u) == IsConnected(u) => silence[u] >= Silent

\* Hello is refused once the session ended, for another protocol version, for
\* the host's own identity (no client has it), and for a joined identity that
\* was heard from within the eviction window.
Admits(u) == ~ended /\ (IsConnected(u) => silence[u] >= Silent)

\* The arm of Hello that succeeds.
HandleHello(u, n) ==
  LET R == With(roster, u, n) IN
  /\ Admits(u)
  /\ roster' = R
  /\ cursors' = With(cursors, u, NoCursor)
  /\ silence' = With(silence, u, Fresh)
  /\ sent' = [c \in Client |->
                IF c = u THEN JoinStream(R)
                ELSE IF c \in clients THEN sent[c] \o JoinNews(u, R)
                ELSE sent[c]]
  /\ UNCHANGED <<records, snapshot, ended>>

Hello(u, n) ==
  /\ Room(2)
  /\ Len(records) < MaxStream
  /\ HandleHello(u, n)

\* Mutant: the record is echoed to its author.
HandleActionEcho(u, r) ==
  /\ IsConnected(u)
  /\ records' = Append(records, r)
  /\ Heard(u)
  /\ Broadcast(clients, <<RecordMsg(r)>>)
  /\ UNCHANGED <<roster, cursors, snapshot, ended>>

\* A joined client's record enters the log and goes to every other client.
HandleAction(u, r) ==
  /\ IsConnected(u)
  /\ records' = Append(records, r)
  /\ Heard(u)
  /\ Broadcast(clients \ {u}, <<RecordMsg(r)>>)
  /\ UNCHANGED <<roster, cursors, snapshot, ended>>

Action(u, r) ==
  /\ Room(1)
  /\ r.user_id = u
  /\ Unlogged(r)
  /\ HandleAction(u, r)

Presence(u, p) ==
  /\ IsConnected(u)
  /\ Room(1)
  /\ cursors' = [cursors EXCEPT ![u] = p]
  /\ Heard(u)
  /\ Broadcast(clients \ {u}, <<[type |-> "presence", user |-> u, cursor |-> p]>>)
  /\ UNCHANGED <<records, roster, snapshot, ended>>

\* A client renames itself; the renamer learns it from the broadcast too.
Rename(u, n) ==
  /\ IsConnected(u)
  /\ Room(1)
  /\ roster' = With(roster, u, n)
  /\ Heard(u)
  /\ Broadcast(clients, <<RosterMsg(With(roster, u, n))>>)
  /\ UNCHANGED <<records, cursors, snapshot, ended>>

Ping(u) ==
  /\ IsConnected(u)
  /\ Room(1)
  /\ Heard(u)
  /\ Broadcast({u}, <<PongMsg>>)
  /\ UNCHANGED <<records, roster, cursors, snapshot, ended>>

\* Mutants: the survivors are told nothing; the cursor of the leaver stays.
DropClientsSilently(S) ==
  /\ roster' = Without(roster, S)
  /\ cursors' = Without(cursors, S)
  /\ silence' = Without(silence, S)
  /\ sent' = [c \in Client |-> IF c \in S THEN <<>> ELSE sent[c]]
  /\ UNCHANGED <<records, snapshot, ended>>

DropClientsKeepCursor(S) ==
  /\ roster' = Without(roster, S)
  /\ silence' = Without(silence, S)
  /\ Broadcast(clients \ S, <<RosterMsg(Without(roster, S))>>)
  /\ UNCHANGED <<records, cursors, snapshot, ended>>

\* disconnect, for a set of identities: the roster shrinks, presence and the
\* queues are dropped, the survivors learn the new roster.  An identity that
\* is not joined is no error, and the broadcast happens all the same.
DropClients(S) ==
  /\ roster' = Without(roster, S)
  /\ cursors' = Without(cursors, S)
  /\ silence' = Without(silence, S)
  /\ sent' = [c \in Client |->
                IF c \in S THEN <<>>
                ELSE IF c \in clients
                     THEN Append(sent[c], RosterMsg(Without(roster, S)))
                ELSE sent[c]]
  /\ UNCHANGED <<records, snapshot, ended>>

Disconnect(u) == Room(1) /\ DropClients({u})

Bye(u) == IsConnected(u) /\ Disconnect(u)

\* prune_stale_clients.  The survivors get one roster for each pruned client;
\* those that the next one supersedes under the same lock are left out.
StaleClients == {c \in clients : silence[c] = Stale}

PruneStale ==
  /\ StaleClients # {}
  /\ Room(1)
  /\ DropClients(StaleClients)

EndSession ==
  /\ Room(1)
  /\ ended' = TRUE
  /\ Broadcast(clients, <<EndedMsg>>)
  /\ UNCHANGED <<records, roster, cursors, silence, snapshot>>

\* apply_local_record: the hosting app's own edit reaches every client.
HandleLocal(r) ==
  /\ records' = Append(records, r)
  /\ Broadcast(clients, <<RecordMsg(r)>>)
  /\ UNCHANGED <<roster, cursors, silence, snapshot, ended>>

ApplyLocalRecord(r) ==
  /\ Room(1)
  /\ r.user_id = Host
  /\ Unlogged(r)
  /\ HandleLocal(r)

SetHostDisplayName(n) ==
  /\ Room(1)
  /\ roster' = With(roster, Host, n)
  /\ Broadcast(clients, <<RosterMsg(With(roster, Host, n))>>)
  /\ UNCHANGED <<records, cursors, silence, snapshot, ended>>

\* Mutant: the log is replaced under the joined clients.
ReseedUnevicted(seed) ==
  /\ snapshot < MaxDocs
  /\ snapshot' = snapshot + 1
  /\ records' = seed
  /\ UNCHANGED <<roster, cursors, silence, sent, ended>>

\* The three calls SessionNet::reseed_host makes under one host lock:
\* set_snapshot_source, seed_log and evict_clients (which tells nobody).
Reseed(seed) ==
  /\ snapshot < MaxDocs
  /\ snapshot' = snapshot + 1
  /\ records' = seed
  /\ roster' = Without(roster, clients)
  /\ cursors' = Without(cursors, clients)
  /\ silence' = Without(silence, clients)
  /\ sent' = [c \in Client |-> <<>>]
  /\ UNCHANGED ended

\* Time passes without a message from a joined client.
Age(u) ==
  /\ IsConnected(u)
  /\ silence[u] < Stale
  /\ silence' = [silence EXCEPT ![u] = @ + 1]
  /\ UNCHANGED <<records, roster, cursors, sent, snapshot, ended>>

\* A seed is the history of another document: records minted before, any
\* author, no action id twice.
NoDuplicateIds(s) ==
  \A i, j \in DOMAIN s : s[i].action_id = s[j].action_id => i = j

Seeds == {s \in UNION {[1 .. n -> Record] : n \in 0 .. MaxSeed} : NoDuplicateIds(s)}

Next ==
  \/ \E u \in Client :
       \/ \E n \in Name : Hello(u, n) \/ Rename(u, n)
       \/ \E r \in Record : Action(u, r)
       \/ \E p \in Cursor \cup {NoCursor} : Presence(u, p)
       \/ Ping(u) \/ Bye(u) \/ Disconnect(u) \/ Age(u)
  \/ \E r \in Record : ApplyLocalRecord(r)
  \/ \E n \in Name : SetHostDisplayName(n)
  \/ \E s \in Seeds : Reseed(s)
  \/ PruneStale
  \/ EndSession

Spec == Init /\ [][Next]_hostVars
-----------------------------------------------------------------------------
TypeOK ==
  /\ records \in Seq(Record)
  /\ Host \in DOMAIN roster
  /\ roster \in Rosters
  /\ cursors \in [clients -> Cursor \cup {NoCursor}]
  /\ silence \in [clients -> Fresh .. Stale]
  /\ sent \in [Client -> Seq(HostMessage)]
  /\ snapshot \in Nat
  /\ ended \in BOOLEAN

\* A joiner's stream starts with the Welcome and then replays the log the
\* Welcome counted, record by record: nothing a broadcast queues can get in
\* between ("Full-log replay" in handle_client_message).
Base(c) == sent[c][1].log_length

JoinerReplay ==
  \A c \in clients :
    /\ Len(sent[c]) > 0
    /\ sent[c][1].type = "welcome"
    /\ sent[c][1].snapshot = snapshot
    /\ Base(c) <= Len(records)
    /\ Base(c) < Len(sent[c])
    /\ \A i \in 1 .. Base(c) : sent[c][i + 1] = RecordMsg(records[i])

\* Each joined client is sent exactly the log entries it lacks: the replay,
\* and after it every record of another author and none of its own, which
\* would be applied twice (broadcast_others, apply_local_record).
Lacks(c, i) == i <= Base(c) \/ records[i].user_id # c

StreamComplete ==
  \A c \in clients, i \in DOMAIN records :
    Lacks(c, i) <=> \E j \in DOMAIN sent[c] : sent[c][j] = RecordMsg(records[i])

\* Every record in a stream is an entry of the log, and a stream holds its
\* entries in the log's order, each once: "arrival order is the sync order",
\* whatever joins, leaves and renames the messages are interleaved with.
StreamOrdered ==
  \A c \in clients :
    /\ \A j \in DOMAIN sent[c] :
         sent[c][j].type = "record" =>
           \E i \in DOMAIN records : records[i] = sent[c][j].record
    /\ \A j, k \in DOMAIN sent[c], i, l \in DOMAIN records :
         /\ j < k
         /\ sent[c][j] = RecordMsg(records[i])
         /\ sent[c][k] = RecordMsg(records[l])
         => i < l

\* What a joined client has been sent is its snapshot and the log it lacks, in the
\* log's order and each record once.  (And all is well-typed.)
StreamsWhole == TypeOK /\ JoinerReplay /\ StreamComplete /\ StreamOrdered

\* The last roster a joined client was sent is the host's roster now: no
\* join, leave, rename, eviction or prune goes unannounced to a survivor.
TellsRoster(m) == m.type \in {"welcome", "roster"}

RosterCurrent ==
  \A c \in clients :
    \E j \in DOMAIN sent[c] :
      /\ TellsRoster(sent[c][j])
      /\ sent[c][j].roster = roster
      /\ \A k \in DOMAIN sent[c] : k > j => ~TellsRoster(sent[c][k])

\* Once the host ended the session, whoever is still joined has been sent
\* Ended: a Hello that raced end_session is either told or refused.
EndReachesAll ==
  ended => \A c \in clients : \E j \in DOMAIN sent[c] : sent[c][j] = EndedMsg

\* Whoever is joined knows who else is, and whether the session goes on.
EveryoneTold == RosterCurrent /\ EndReachesAll

\* No step shortens or rewrites the log under a joined client: teardown,
\* eviction and the end of the session leave it "untouched - no record loss".
LogKept ==
  [][\/ clients' = {}
     \/ /\ Len(records) <= Len(records')
        /\ \A i \in DOMAIN records : records'[i] = records[i]]_hostVars

\* The stream of a client that was heard from within the eviction window is
\* never restarted under it: a duplicate Hello "would fork ownership".
NoTakeover ==
  [][\A c \in clients \cap clients' :
       silence[c] = Fresh =>
         /\ Len(sent[c]) <= Len(sent'[c])
         /\ \A j \in DOMAIN sent[c] : sent'[c][j] = sent[c][j]]_hostVars

\* Neither the log of a joined client nor the stream of one that is alive is ever
\* rewritten.
NothingRewritten == LogKept /\ NoTakeover

\* The log as its readers see it: the records in each client's stream.
RecordsIn(s) ==
  LET upTo[n \in 0 .. Len(s)] ==
        IF n = 0 THEN <<>>
        ELSE IF s[n].type = "record" THEN Append(upTo[n - 1], s[n].record)
        ELSE upTo[n - 1]
  IN  upTo[Len(s)]

TheLog == INSTANCE SharedLog WITH
            Reader <- Client, log <- records, document <- snapshot,
            view <- [c \in clients |-> RecordsIn(sent[c])]

\* The host core is an ordered log with readers: whatever joins, rejoins over
\* a ghost, leaves, is pruned or evicted, and whatever rosters and cursors are
\* queued in between, a step is a step of the log or invisible to its readers
\* ("arrival order is the sync order").
ImplementsLog == TheLog!LogSpec
=============================================================================
