--------------------------- MODULE RelayLaneProofs ---------------------------
(***************************************************************************)
(* Proofs about RelayLane, for any clients, connections and bounds.        *)
(*                                                                         *)
(* The members (LaneInOrder, MembersAgreeCorrect): the relay's room, the   *)
(* bridge and the host core agree on who is a member.  What ties the three *)
(* together is the one queue in which the lines of the joiners and the     *)
(* notices of their departures reach the bridge: whoever is known behind   *)
(* the relay's back has a notice under way, and a notice stands between    *)
(* the connections of a user.                                              *)
(*                                                                         *)
(* The records (RecordsInPlace): a record on its way from its author to    *)
(* the log is in one place, so that the log holds none twice.              *)
(*                                                                         *)
(* The runtimes (RelayConvergedCorrect, under Prompt): for every client    *)
(* the messages that wait for it, on its connection, in the bridge's       *)
(* outbound queue and undrained in the core, read to their end bring it to *)
(* the log of the host, and none of them is a record it has (Informed).    *)
(* From "What a step does to what waits for a client" on there is a lemma  *)
(* per action that it leaves every client informed.                        *)
(***************************************************************************)
EXTENDS RelayLane, SessionHostProofs, FiniteSetTheorems

-----------------------------------------------------------------------------
(* Types.                                                                  *)

\* What a joiner writes, what it is written, and what waits at the two ends of
\* the host's link.
Lines == {HelloMsg} \cup [type : {"record"}, record : Record]
Answers == HostMessage \cup {DeniedMsg, ByeMsg, ClosedMsg}
Notices == [type : {"line"}, conn : Conn, msg : Lines]
             \cup [type : {"left"}, conn : Conn, msg : {ByeMsg}]
Frames == [to : Client \cup {None}, msg : Answers]

Modes == {"solo", "joining", "live", "lost", "rejoining", "ended"}
Apps == [mode : Modes, conn : Conn \cup {None}, runtime : Seq(Record), doc : Nat,
         published : Nat, consumed : Nat, base : Nat, known : SUBSET ActionId]

\* The relay's side of the lane.
RoomTyped ==
  /\ room \in BOOLEAN
  /\ DOMAIN members \subseteq Client
  /\ members \in [DOMAIN members -> Conn]
  /\ thread \in [Conn -> {"claiming", "routing", "ended"}]
  /\ who \in [Conn -> Client \cup {None}]
  /\ link \in [Conn -> {"open", "shut", "half"}]
  /\ up \in [Conn -> Seq(Lines)]
  /\ down \in [Conn -> Seq(Answers)]

\* The bridge's side.
BridgeTyped ==
  /\ bridge \in BOOLEAN
  /\ toHost \in Seq(Notices)
  /\ fromHost \in Seq(Frames)
  /\ relay_users \in SUBSET Client /\ IsFiniteSet(relay_users)
  /\ taken \in [Client -> Nat]
  /\ \A u \in Client : taken[u] <= Len(sent[u])
  /\ via \in [Client -> Conn \cup {None}]

\* The clients': one that holds a connection holds a slot.
Holding == {"joining", "rejoining", "live"}

AppsTyped ==
  /\ app \in [Client -> Apps]
  /\ \A u \in Client : app[u].mode \in Holding => app[u].conn \in Conn

LaneTyped == TypeOK /\ RoomTyped /\ BridgeTyped /\ AppsTyped
-----------------------------------------------------------------------------
(* The queue of the host, in which lines and notices share one order.      *)

Left(m, k) == m.type = "left" /\ m.conn = k

\* The queue q tells that k left.
Tells(q, k) == \E j \in DOMAIN q : Left(q[j], k)

\* The relay routes for k.
Routed(k) == who[k] \in DOMAIN members /\ members[who[k]] = k

\* A connection that claims or routes does so for a user; and the members are
\* the users of the connections that route.
Seated ==
  /\ \A k \in Conn : thread[k] # "ended" => who[k] \in Client
  /\ room => \A k \in Conn : thread[k] = "routing" => Routed(k)
  /\ \A u \in DOMAIN members : thread[members[u]] = "routing" /\ who[members[u]] = u
  /\ bridge => room
  /\ ~room => DOMAIN members = {}

\* Whatever is queued is of a user; and of a connection that routes, or behind
\* it waits the notice that it left.
Accounted ==
  \A i \in DOMAIN toHost :
    /\ who[toHost[i].conn] \in Client
    /\ room => \/ Routed(toHost[i].conn)
               \/ \E j \in DOMAIN toHost : j >= i /\ Left(toHost[j], toHost[i].conn)

\* Between the entries of two connections of one user there is the notice that
\* the first one left.
InTurn ==
  \A i, j \in DOMAIN toHost :
    /\ i < j
    /\ who[toHost[i].conn] = who[toHost[j].conn]
    /\ toHost[i].conn # toHost[j].conn
    => \E m \in DOMAIN toHost : i <= m /\ m < j /\ Left(toHost[m], toHost[i].conn)

\* A client of the core came over a connection that routes, or the queue tells
\* that it left; and what another connection of that user queued is behind that
\* notice.
CameBy ==
  \A u \in clients :
    /\ room => /\ via[u] \in Conn /\ who[via[u]] = u
               /\ Routed(via[u]) \/ Tells(toHost, via[u])
    /\ \A i \in DOMAIN toHost :
         who[toHost[i].conn] = u /\ toHost[i].conn # via[u] =>
           \E j \in DOMAIN toHost : j < i /\ Left(toHost[j], via[u])

\* A user that the bridge drains is a member, or the queue tells that a
\* connection of it left.
Drained ==
  room => \A u \in relay_users :
    u \in DOMAIN members \/ \E k \in Conn : who[k] = u /\ Tells(toHost, k)

LaneInv == LaneTyped /\ Seated /\ Accounted /\ InTurn /\ CameBy /\ Drained
-----------------------------------------------------------------------------
(* Recursive definitions.                                                  *)

\* A function whose values stay in V.
LEMMA StaysIn ==
  ASSUME NEW V, NEW N \in Nat, NEW g, g = [i \in 0 .. N |-> g[i]], g[0] \in V,
         \A i \in 1 .. N : g[i - 1] \in V => g[i] \in V
  PROVE  g \in [0 .. N -> V]
<1> DEFINE Good == {i \in 0 .. N : g[i] \in V}
<1>1. 0 \in Good
  OBVIOUS
<1>2. \A i \in 0 .. N : i < N /\ i \in Good => i + 1 \in Good
  <2>1. \A i \in 0 .. N : i < N => i + 1 \in 1 .. N /\ (i + 1) - 1 = i /\ i + 1 \in 0 .. N
    OBVIOUS
  <2>. QED
    BY <2>1
<1>3. \A i \in 0 .. N : i \in Good
  <2> HIDE DEF Good
  <2>. QED
    BY <1>1, <1>2, Reaches
<1>. QED
  BY <1>3

\* Undrained, one message at a time: g[i] is what is read of the first i.
Reads(g, u, s, n) ==
  /\ g[0] = <<>>
  /\ \A i \in 1 .. Len(s) :
       g[i] = IF i > n /\ Relevant(s[i]) THEN Append(g[i - 1], [to |-> u, msg |-> s[i]])
              ELSE g[i - 1]
  /\ Undrained(u, s, n) = g[Len(s)]

\* The recursive definition in Undrained defines a function.
LEMMA UndrainedIs ==
  ASSUME NEW u \in Client, NEW s \in Seq(HostMessage), NEW n \in Nat
  PROVE  \E g \in [0 .. Len(s) -> Seq(Frames)] : Reads(g, u, s, n)
<1> DEFINE N == Len(s)
           V == Seq(Frames)
           Read(v, i) == IF i > n /\ Relevant(s[i]) THEN Append(v, [to |-> u, msg |-> s[i]]) ELSE v
           G == [p \in V \X (1 .. N) |-> Read(p[1], p[2])]
           Is(f) == f = [i \in 0 .. N |->
                     IF i = 0 THEN <<>>
                     ELSE IF i > n /\ Relevant(s[i]) THEN Append(f[i - 1], [to |-> u, msg |-> s[i]])
                     ELSE f[i - 1]]
           g == CHOOSE f : Is(f)
<1>1. N \in Nat /\ <<>> \in V /\ \A i \in 1 .. N : [to |-> u, msg |-> s[i]] \in Frames
  BY DEF Frames, Answers
<1>2. G \in [V \X (1 .. N) -> V]
  <2>1. \A v \in V, i \in 1 .. N : Read(v, i) \in V
    BY <1>1, AppendProperties
  <2>. QED
    BY <2>1
<1> HIDE DEF V
<1>3. PICK f \in [0 .. N -> V] : f[0] = <<>> /\ \A i \in 1 .. N : f[i] = G[<<f[i - 1], i>>]
  <2> HIDE DEF G, N
  <2>1. PICK f \in [0 .. N -> V] : Iterates(f, <<>>, G, N)
    BY <1>1, <1>2, RecursionExists
  <2>. QED
    BY <2>1 DEF Iterates
<1>4. \A i \in 1 .. N : f[i] = Read(f[i - 1], i)
  <2>1. TAKE i \in 1 .. N
  <2>2. i - 1 \in 0 .. N
    BY <1>1
  <2>3. <<f[i - 1], i>> \in V \X (1 .. N)
    BY <1>3, <2>2
  <2>. QED
    BY <1>3, <2>3
<1>5. Is(f)
  <2>1. \A i \in 0 .. N : i # 0 => i \in 1 .. N
    BY <1>1
  <2>. QED
    BY <1>3, <1>4, <2>1
<1>6. Is(g)
  <2> HIDE DEF Is
  <2>. QED
    BY <1>5
<1>7. Undrained(u, s, n) = g[N]
  BY Zenon DEF Undrained
<1> HIDE DEF g
<1>8. g[0] = <<>> /\ \A i \in 1 .. N : g[i] = Read(g[i - 1], i)
  <2>1. \A i \in 0 .. N : g[i] = IF i = 0 THEN <<>> ELSE Read(g[i - 1], i)
    BY <1>6
  <2>2. \A i \in 1 .. N : i \in 0 .. N /\ i # 0
    BY <1>1
  <2>. QED
    BY <1>1, <2>1, <2>2
<1>9. g \in [0 .. N -> V]
  <2>1. g = [i \in 0 .. N |-> g[i]]
    BY <1>6
  <2>2. \A v \in V, i \in 1 .. N : Read(v, i) \in V
    BY <1>1, AppendProperties DEF V
  <2>3. g[0] \in V /\ \A i \in 1 .. N : g[i - 1] \in V => g[i] \in V
    BY <1>1, <1>8, <2>2
  <2> HIDE DEF Read, N
  <2>. QED
    BY <1>1, <2>1, <2>3, StaysIn
<1>. QED
  BY <1>7, <1>8, <1>9 DEF Reads, V

\* Outbound, one record at a time: g[n] is what is sent of the first n.
Sends(g, s, me) ==
  /\ g[0] = <<>>
  /\ \A n \in 1 .. Len(s.runtime) :
       g[n] = IF /\ n > s.published
                 /\ s.runtime[n].user_id = me /\ s.runtime[n].action_id \notin s.known
              THEN Append(g[n - 1], RecordMsg(s.runtime[n]))
              ELSE g[n - 1]
  /\ Outbound(s, me) = g[Len(s.runtime)]

\* The recursive definition in Outbound defines a function.
LEMMA OutboundIs ==
  ASSUME NEW s \in Apps, NEW me \in Client
  PROVE  \E g \in [0 .. Len(s.runtime) -> Seq(Lines)] : Sends(g, s, me)
<1> DEFINE N == Len(s.runtime)
           V == Seq(Lines)
           Due(n) == /\ n > s.published
                     /\ s.runtime[n].user_id = me /\ s.runtime[n].action_id \notin s.known
           Sent(v, n) == IF Due(n) THEN Append(v, RecordMsg(s.runtime[n])) ELSE v
           G == [p \in V \X (1 .. N) |-> Sent(p[1], p[2])]
           Is(f) == f = [n \in 0 .. N |->
                     IF n = 0 THEN <<>>
                     ELSE IF /\ n > s.published
                             /\ s.runtime[n].user_id = me /\ s.runtime[n].action_id \notin s.known
                     THEN Append(f[n - 1], RecordMsg(s.runtime[n]))
                     ELSE f[n - 1]]
           g == CHOOSE f : Is(f)
<1>1. N \in Nat /\ <<>> \in V /\ \A n \in 1 .. N : RecordMsg(s.runtime[n]) \in Lines
  <2>1. s.runtime \in Seq(Record)
    BY DEF Apps
  <2>2. \A n \in 1 .. N : s.runtime[n] \in Record
    BY <2>1
  <2>. QED
    BY <2>1, <2>2 DEF Lines, RecordMsg
<1>2. \A v \in V, n \in 1 .. N : Sent(v, n) \in V
  BY <1>1, AppendProperties
<1>3. G \in [V \X (1 .. N) -> V]
  BY <1>2
<1> HIDE DEF V
<1>4. PICK f \in [0 .. N -> V] : f[0] = <<>> /\ \A n \in 1 .. N : f[n] = G[<<f[n - 1], n>>]
  <2> HIDE DEF G, N
  <2>1. PICK f \in [0 .. N -> V] : Iterates(f, <<>>, G, N)
    BY <1>1, <1>3, RecursionExists
  <2>. QED
    BY <2>1 DEF Iterates
<1>5. \A n \in 1 .. N : f[n] = Sent(f[n - 1], n)
  <2>1. TAKE n \in 1 .. N
  <2>2. n - 1 \in 0 .. N
    BY <1>1
  <2>3. <<f[n - 1], n>> \in V \X (1 .. N)
    BY <1>4, <2>2
  <2>. QED
    BY <1>4, <2>3
<1>6. Is(f)
  <2>1. \A n \in 0 .. N : n # 0 => n \in 1 .. N
    BY <1>1
  <2>. QED
    BY <1>4, <1>5, <2>1
<1>7. Is(g)
  <2> HIDE DEF Is
  <2>. QED
    BY <1>6
<1>8. Outbound(s, me) = g[N]
  BY Zenon DEF Outbound
<1> HIDE DEF g
<1>9. g[0] = <<>> /\ \A n \in 1 .. N : g[n] = Sent(g[n - 1], n)
  <2>1. \A n \in 0 .. N : g[n] = IF n = 0 THEN <<>> ELSE Sent(g[n - 1], n)
    BY <1>7
  <2>2. 0 \in 0 .. N /\ \A n \in 1 .. N : n \in 0 .. N /\ n # 0
    BY <1>1
  <2>. QED
    BY <2>1, <2>2
<1>10. g \in [0 .. N -> V]
  <2>1. g = [n \in 0 .. N |-> g[n]]
    BY <1>7
  <2>2. g[0] \in V /\ \A n \in 1 .. N : g[n - 1] \in V => g[n] \in V
    BY <1>1, <1>2, <1>9
  <2> HIDE DEF Sent, N
  <2>. QED
    BY <1>1, <2>1, <2>2, StaysIn
<1>. QED
  BY <1>8, <1>9, <1>10 DEF Sends, V

\* How much of each queue a drain passes over.
Begun(fresh) == [u \in Client |-> IF u \in fresh THEN 0 ELSE taken[u]]

\* A drain, one queue at a time, in the order us: g[i] is what waits for the
\* relay after the first i.
Drains(g, us, q, start) ==
  /\ g[0] = q
  /\ \A i \in 1 .. Len(us) : g[i] = g[i - 1] \o Undrained(us[i], sent'[us[i]], start[us[i]])

\* The recursive definition in Drain defines a function.
LEMMA DrainIs ==
  ASSUME TypeOK', BridgeTyped, NEW fresh \in SUBSET Client,
         NEW users \in SUBSET Client, IsFiniteSet(users), Drain(fresh, users)
  PROVE  \E us \in SetToSeqs(users) :
           /\ us \in Seq(users)
           /\ \E g \in [0 .. Len(us) -> Seq(Frames)] :
                /\ Drains(g, us, fromHost, Begun(fresh))
                /\ fromHost' = g[Len(us)]
<1> DEFINE start == Begun(fresh)
           V == Seq(Frames)
<1>1. PICK us \in SetToSeqs(users) :
        fromHost' = LET upTo[i \in 0 .. Len(us)] ==
                          IF i = 0 THEN fromHost
                          ELSE upTo[i - 1] \o Undrained(us[i], sent'[us[i]], start[us[i]])
                    IN  upTo[Len(us)]
  BY DEF Drain, Begun
<1>2. us \in Seq(users)
  <2>1. Cardinality(users) \in Nat
    BY FS_CardinalityType
  <2>2. us \in [1 .. Cardinality(users) -> users]
    BY <1>1 DEF SetToSeqs
  <2>. QED
    BY <2>1, <2>2, SeqDef
<1> DEFINE N == Len(us)
           More(i) == Undrained(us[i], sent'[us[i]], start[us[i]])
           G == [p \in V \X (1 .. N) |-> p[1] \o More(p[2])]
           Is(f) == f = [i \in 0 .. N |->
                     IF i = 0 THEN fromHost
                     ELSE f[i - 1] \o Undrained(us[i], sent'[us[i]], start[us[i]])]
           g == CHOOSE f : Is(f)
<1>3. N \in Nat /\ fromHost \in V /\ \A i \in 1 .. N : More(i) \in V
  <2>1. \A i \in 1 .. N : us[i] \in Client
    BY <1>2
  <2>2. \A u \in Client : sent'[u] \in Seq(HostMessage) /\ start[u] \in Nat
    BY DEF TypeOK, BridgeTyped, Begun
  <2>3. ASSUME NEW u \in Client
        PROVE  Undrained(u, sent'[u], start[u]) \in Seq(Frames)
    <3>1. Len(sent'[u]) \in Nat
      BY <2>2
    <3>2. PICK h \in [0 .. Len(sent'[u]) -> Seq(Frames)] : Reads(h, u, sent'[u], start[u])
      BY <2>2, UndrainedIs
    <3>. QED
      BY <3>1, <3>2 DEF Reads
  <2>. QED
    BY <1>2, <2>1, <2>3 DEF BridgeTyped
<1> HIDE DEF More
<1>4. \A v \in V, i \in 1 .. N : v \o More(i) \in V
  BY <1>3, ConcatProperties
<1>5. G \in [V \X (1 .. N) -> V]
  BY <1>4
<1> HIDE DEF V
<1>6. PICK f \in [0 .. N -> V] : f[0] = fromHost /\ \A i \in 1 .. N : f[i] = G[<<f[i - 1], i>>]
  <2> HIDE DEF G, N
  <2>1. PICK f \in [0 .. N -> V] : Iterates(f, fromHost, G, N)
    BY <1>3, <1>5, RecursionExists
  <2>. QED
    BY <2>1 DEF Iterates
<1>7. \A i \in 1 .. N : f[i] = f[i - 1] \o More(i)
  <2>1. TAKE i \in 1 .. N
  <2>2. i - 1 \in 0 .. N
    BY <1>3
  <2>3. <<f[i - 1], i>> \in V \X (1 .. N)
    BY <1>6, <2>2
  <2>. QED
    BY <1>6, <2>3
<1>8. Is(f)
  <2>1. \A i \in 0 .. N : i # 0 => i \in 1 .. N
    BY <1>3
  <2>2. f = [i \in 0 .. N |-> IF i = 0 THEN fromHost ELSE f[i - 1] \o More(i)]
    BY <1>6, <1>7, <2>1
  <2>. QED
    BY <2>2 DEF More
<1>9. Is(g)
  <2> HIDE DEF Is
  <2>. QED
    BY <1>8
<1>10. fromHost' = g[N]
  BY <1>1, Zenon
<1> HIDE DEF g
<1>11. g = [i \in 0 .. N |-> IF i = 0 THEN fromHost ELSE g[i - 1] \o More(i)]
  BY <1>9 DEF More
<1>12. g[0] = fromHost /\ \A i \in 1 .. N : g[i] = g[i - 1] \o More(i)
  <2>1. \A i \in 0 .. N : g[i] = IF i = 0 THEN fromHost ELSE g[i - 1] \o More(i)
    BY <1>11
  <2>2. 0 \in 0 .. N /\ \A i \in 1 .. N : i \in 0 .. N /\ i # 0
    BY <1>3
  <2>. QED
    BY <2>1, <2>2
<1>13. g \in [0 .. N -> V]
  <2>1. g = [i \in 0 .. N |-> g[i]]
    BY <1>11
  <2>2. g[0] \in V /\ \A i \in 1 .. N : g[i - 1] \in V => g[i] \in V
    BY <1>3, <1>4, <1>12
  <2> HIDE DEF N
  <2>. QED
    BY <1>3, <2>1, <2>2, StaysIn
<1>. QED
  BY <1>1, <1>2, <1>10, <1>12, <1>13 DEF Drains, V, More
-----------------------------------------------------------------------------
(* Types of the parts of a step.                                           *)

\* No queue but those of fresh users became shorter.
Longer(fresh) == \A c \in Client \ fresh : Len(sent[c]) <= Len(sent'[c])

\* What waits for the relay, and how much of each queue was taken.
Taking == /\ fromHost' \in Seq(Frames)
          /\ taken' \in [Client -> Nat]
          /\ \A u \in Client : taken'[u] <= Len(sent'[u])

\* A drain takes what is there, and no more.
LEMMA DrainTyped ==
  ASSUME TypeOK, TypeOK', BridgeTyped, NEW fresh \in SUBSET Client, Longer(fresh),
         NEW users \in SUBSET Client, IsFiniteSet(users), Drain(fresh, users)
  PROVE  Taking
<1>1. PICK us \in SetToSeqs(users) :
         /\ us \in Seq(users)
         /\ \E g \in [0 .. Len(us) -> Seq(Frames)] :
              /\ Drains(g, us, fromHost, Begun(fresh))
              /\ fromHost' = g[Len(us)]
  BY DrainIs
<1>2. Len(us) \in 0 .. Len(us)
  BY <1>1
<1>3. fromHost' \in Seq(Frames)
  BY <1>1, <1>2
<1>4. \A u \in Client : Len(sent[u]) \in Nat /\ Len(sent'[u]) \in Nat
  BY DEF TypeOK
<1>5. taken' = [u \in Client |-> IF u \in users THEN Len(sent'[u])
                                 ELSE IF u \in fresh THEN 0 ELSE taken[u]]
  BY DEF Drain
<1>6. \A u \in Client \ fresh : taken[u] \in Nat /\ taken[u] <= Len(sent'[u])
  BY <1>4 DEF BridgeTyped, Longer
<1>. QED
  BY <1>3, <1>4, <1>5, <1>6 DEF Taking, BridgeTyped

\* The queues after a step of the core.
LEMMA QueuesGrow ==
  ASSUME TypeOK
  PROVE  /\ \A S \in SUBSET Client : DropClients(S) => Longer(S)
         /\ \A u \in Client, n \in Name : HandleHello(u, n) => Longer({u})
         /\ \A to \in SUBSET Client, m \in HostMessage : Broadcast(to, <<m>>) => Longer({})
<1>1. \A c \in Client : sent[c] \in Seq(HostMessage) /\ Len(sent[c]) \in Nat
  BY DEF TypeOK
<1>2. \A c \in Client : \A m : Len(Append(sent[c], m)) = Len(sent[c]) + 1
  BY <1>1
<1>3. ASSUME NEW S \in SUBSET Client, DropClients(S)
      PROVE  Longer(S)
  BY <1>1, <1>2, <1>3 DEF DropClients, Longer
<1>4. ASSUME NEW u \in Client, NEW n \in Name, HandleHello(u, n)
      PROVE  Longer({u})
  <2>1. With(roster, u, n) \in Rosters
    BY RosterTyping DEF TypeOK, User
  <2> DEFINE t == JoinNews(u, With(roster, u, n))
  <2>2. t \in Seq(HostMessage)
    BY <2>1, JoinNewsShape
  <2> HIDE DEF t
  <2>3. Len(t) \in Nat /\ \A c \in Client : Len(sent[c] \o t) = Len(sent[c]) + Len(t)
    BY <1>1, <2>2, ConcatProperties
  <2>4. \A c \in Client : c # u => sent'[c] = sent[c] \o t \/ sent'[c] = sent[c]
    BY <1>4 DEF HandleHello, t
  <2>. QED
    BY <1>1, <2>3, <2>4 DEF Longer
<1>5. ASSUME NEW to \in SUBSET Client, NEW m \in HostMessage, Broadcast(to, <<m>>)
      PROVE  Longer({})
  <2>1. \A c \in Client : sent'[c] = IF c \in to THEN Append(sent[c], m) ELSE sent[c]
    BY <1>5, BroadcastShape
  <2>2. ASSUME NEW c \in Client
        PROVE  Len(sent[c]) <= Len(sent'[c])
    <3>1. CASE c \in to
      <4>1. sent'[c] = Append(sent[c], m) /\ sent[c] \in Seq(HostMessage)
        BY <1>1, <2>1, <3>1
      <4>2. Len(sent'[c]) = Len(sent[c]) + 1
        BY <1>5, <4>1, AppendProperties
      <4>. QED
        BY <1>1, <4>2
    <3>2. CASE c \notin to
      <4>1. sent'[c] = sent[c]
        BY <2>1, <3>2
      <4>. QED
        BY <1>1, <4>1
    <3>. QED
      BY <3>1, <3>2
  <2>. QED
    BY <2>2 DEF Longer
<1>. QED
  BY <1>3, <1>4, <1>5

\* Parts that a step leaves alone keep their types.
LEMMA PartsStay ==
  /\ TypeOK /\ UNCHANGED hostVars => TypeOK'
  /\ RoomTyped /\ UNCHANGED relayVars => RoomTyped'
  /\ BridgeTyped /\ UNCHANGED <<bridgeVars, sent>> => BridgeTyped'
  /\ AppsTyped /\ UNCHANGED app => AppsTyped'
BY DEF TypeOK, hostVars, clients, RoomTyped, relayVars, BridgeTyped, bridgeVars, AppsTyped

\* What the messages are made of.
LEMMA MessagesTyped ==
  /\ HelloMsg \in Lines /\ ByeMsg \in Answers /\ DeniedMsg \in Answers /\ ClosedMsg \in Answers
  /\ EndedMsg \in HostMessage /\ HostMessage \subseteq Answers
  /\ \A m \in Lines : m # HelloMsg => m.type = "record" /\ m.record \in Record
  /\ \A m \in Lines : m.type = "record" => m.record \in Record
  /\ \A m \in Answers : m.type = "record" => m.record \in Record
  /\ \A m \in Answers : m.type = "welcome" => m.snapshot \in Nat /\ m.log_length \in Nat
  /\ \A n \in Notices : n.conn \in Conn /\ n.type \in {"line", "left"}
  /\ \A n \in Notices : n.type # "left" => n.msg \in Lines
  /\ \A k \in Conn, m \in Lines : LineMsg(k, m) \in Notices
  /\ \A k \in Conn : LeftMsg(k) \in Notices
  /\ KickMsg \in Frames /\ \A u \in Client : [to |-> u, msg |-> DeniedMsg] \in Frames
  /\ \A f \in Frames : f.msg \in Answers
<1>1. \A m \in Answers : m.type = "record" => m.record \in Record
  BY DEF Answers, HostMessage, DeniedMsg, ByeMsg, ClosedMsg
<1>2. \A m \in Answers : m.type = "welcome" => m.snapshot \in Nat /\ m.log_length \in Nat
  BY DEF Answers, HostMessage, DeniedMsg, ByeMsg, ClosedMsg
<1>3. /\ \A m \in Lines : m # HelloMsg => m.type = "record" /\ m.record \in Record
      /\ \A m \in Lines : m.type = "record" => m.record \in Record
  BY DEF Lines, HelloMsg
<1>4. HelloMsg \in Lines /\ ByeMsg \in Answers /\ DeniedMsg \in Answers /\ ClosedMsg \in Answers
  BY DEF Lines, Answers
<1>5. EndedMsg \in HostMessage /\ HostMessage \subseteq Answers
  BY MessageTyping DEF Answers
<1>6. /\ \A n \in Notices : n.conn \in Conn /\ n.type \in {"line", "left"}
      /\ \A n \in Notices : n.type # "left" => n.msg \in Lines
  BY DEF Notices
<1>7. /\ \A k \in Conn, m \in Lines : LineMsg(k, m) \in Notices
      /\ \A k \in Conn : LeftMsg(k) \in Notices
  BY DEF Notices, LineMsg, LeftMsg
<1>8. /\ KickMsg \in Frames /\ \A u \in Client : [to |-> u, msg |-> DeniedMsg] \in Frames
      /\ \A f \in Frames : f.msg \in Answers
  BY <1>4 DEF Frames, KickMsg
<1>. QED
  BY <1>1, <1>2, <1>3, <1>4, <1>5, <1>6, <1>7, <1>8

\* What a client becomes.
LEMMA AppTyped ==
  /\ Solo \in Apps
  /\ \A s \in Apps, m \in Answers : m.type = "welcome" => Welcomed(s, m) \in Apps
  /\ \A s \in Apps, u \in Client, m \in Answers : Received(s, u, m) \in Apps
<1>1. Solo \in Apps
  BY EmptySeq DEF Solo, Apps, Modes
<1>2. ASSUME NEW s \in Apps, NEW m \in Answers, m.type = "welcome"
      PROVE  Welcomed(s, m) \in Apps
  <2>1. m.snapshot \in Nat /\ m.log_length \in Nat
    BY <1>2, MessagesTyped
  <2>. QED
    BY <2>1, EmptySeq DEF Welcomed, Solo, Apps, Modes
<1>3. ASSUME NEW s \in Apps, NEW u \in Client, NEW m \in Answers
      PROVE  Received(s, u, m) \in Apps
  <2>1. CASE m.type = "record"
    <3>1. m.record \in Record /\ m.record.action_id \in ActionId
      BY <2>1, MessagesTyped DEF Record
    <3>2. s.runtime \in Seq(Record) /\ Append(s.runtime, m.record) \in Seq(Record)
      BY <3>1, AppendProperties DEF Apps
    <3>3. s.known \cup {m.record.action_id} \in SUBSET ActionId /\ s.consumed + 1 \in Nat
      BY <3>1 DEF Apps
    <3> DEFINE longer == IF m.record.user_id # u \/ s.consumed < s.base
                         THEN Append(s.runtime, m.record) ELSE s.runtime
    <3>4. longer \in Seq(Record)
      BY <3>2
    <3>5. Received(s, u, m) = [s EXCEPT !.known = s.known \cup {m.record.action_id},
                                        !.consumed = s.consumed + 1, !.runtime = longer]
      BY <2>1 DEF Received, DeniedMsg
    <3> HIDE DEF longer
    <3>. QED
      BY <3>3, <3>4, <3>5 DEF Apps
  <2>2. CASE m.type = "ended"
    <3>1. Received(s, u, m) = [s EXCEPT !.mode = "ended"]
      BY <2>2 DEF Received, DeniedMsg
    <3>. QED
      BY <3>1 DEF Apps, Modes
  <2>3. CASE m = DeniedMsg
    <3>1. Received(s, u, m) = [s EXCEPT !.mode = "lost"]
      BY <2>3 DEF Received, DeniedMsg
    <3>. QED
      BY <3>1 DEF Apps, Modes
  <2>4. CASE m.type # "record" /\ m.type # "ended" /\ m # DeniedMsg
    BY <2>4 DEF Received
  <2>. QED
    BY <2>1, <2>2, <2>3, <2>4
<1>. QED
  BY <1>1, <1>2, <1>3

\* The clients after one of them changed, or gave its connection up.
LEMMA OneAppTyped ==
  ASSUME AppsTyped, NEW u \in Client
  PROVE  /\ \A s \in Apps : (s.mode \in Holding => s.conn \in Conn) /\ app' = [app EXCEPT ![u] = s]
                              => AppsTyped'
         /\ app' = Lose(u) => AppsTyped'
<1>1. ASSUME NEW s \in Apps, s.mode \in Holding => s.conn \in Conn, app' = [app EXCEPT ![u] = s]
      PROVE  AppsTyped'
  BY <1>1 DEF AppsTyped
<1>2. ASSUME app' = Lose(u)
      PROVE  AppsTyped'
  <2> DEFINE s == [app[u] EXCEPT !.mode = Failed(@), !.conn = None]
  <2>1. app[u] \in Apps
    BY DEF AppsTyped
  <2>2. s \in Apps /\ s.mode \notin Holding
    BY <2>1 DEF Apps, Failed, Holding, Modes
  <2>3. app' = [app EXCEPT ![u] = s]
    <3>1. app \in [Client -> Apps]
      BY DEF AppsTyped
    <3>. QED
      BY <1>2, <2>1, <3>1 DEF Lose, Apps
  <2> HIDE DEF s
  <2>. QED
    BY <1>1, <2>2, <2>3
<1>. QED
  BY <1>1, <1>2
-----------------------------------------------------------------------------
(* Types: the relay and its connections.                                   *)

\* The first element of a queue and the rest.
LEMMA QueueParts ==
  ASSUME NEW S, NEW q \in Seq(S), q # <<>>
  PROVE  /\ Head(q) \in S /\ Head(q) = q[1] /\ Tail(q) \in Seq(S)
         /\ Len(q) \in Nat /\ Len(q) > 0 /\ DOMAIN q = 1 .. Len(q)
         /\ DOMAIN Tail(q) = 1 .. Len(q) - 1
         /\ \A i \in 1 .. Len(q) - 1 : Tail(q)[i] = q[i + 1]
BY HeadTailProperties

\* A queue and what comes last.
LEMMA QueueAppended ==
  ASSUME NEW S, NEW q \in Seq(S), NEW m \in S
  PROVE  /\ Append(q, m) \in Seq(S)
         /\ Len(q) \in Nat /\ DOMAIN q = 1 .. Len(q)
         /\ DOMAIN Append(q, m) = 1 .. Len(q) + 1
         /\ \A i \in 1 .. Len(q) : Append(q, m)[i] = q[i]
         /\ Append(q, m)[Len(q) + 1] = m
BY AppendProperties

\* A slot whose link changes, and what is written to one.
LEMMA SlotsTyped ==
  ASSUME RoomTyped
  PROVE  /\ \A k \in Conn : Shut(k) \in [Conn -> {"open", "shut", "half"}]
         /\ \A k \in Conn, m \in Answers : Push(k, m) => down' \in [Conn -> Seq(Answers)]
<1>1. \A k \in Conn : Shut(k) \in [Conn -> {"open", "shut", "half"}]
  BY DEF RoomTyped, Shut
<1>2. ASSUME NEW k \in Conn, NEW m \in Answers, Push(k, m)
      PROVE  down' \in [Conn -> Seq(Answers)]
  <2>1. down \in [Conn -> Seq(Answers)] /\ down[k] \in Seq(Answers)
    BY DEF RoomTyped
  <2>2. Append(down[k], m) \in Seq(Answers)
    BY <2>1, AppendProperties
  <2>. QED
    BY <1>2, <2>1, <2>2 DEF Push
<1>. QED
  BY <1>1, <1>2

\* A claim.
LEMMA ClaimTyped ==
  ASSUME LaneTyped, Seated, NEW k \in Conn, Claim(k)
  PROVE  LaneTyped'
<1>1. who[k] \in Client /\ UNCHANGED hostVars /\ UNCHANGED <<bridgeVars, sent>>
  BY DEF Seated, Claim, hostVars
<1>2. RoomTyped'
  <2>1. DOMAIN With(members, who[k], k) = DOMAIN members \cup {who[k]}
    BY DEF With
  <2>2. members' \in [DOMAIN members' -> Conn] /\ DOMAIN members' \subseteq Client
    <3>1. members \in [DOMAIN members -> Conn] /\ DOMAIN members \subseteq Client
      BY DEF LaneTyped, RoomTyped
    <3>2. members' = members \/ members' = With(members, who[k], k)
      BY DEF Claim
    <3>3. With(members, who[k], k) \in [DOMAIN members \cup {who[k]} -> Conn]
      BY <3>1 DEF With
    <3>. QED
      BY <1>1, <2>1, <3>1, <3>2, <3>3
  <2>3. up' \in [Conn -> Seq(Lines)]
    <3>1. up \in [Conn -> Seq(Lines)] /\ <<>> \in Seq(Lines)
      BY EmptySeq DEF LaneTyped, RoomTyped
    <3>2. up' = up \/ up' = [up EXCEPT ![k] = <<>>]
      BY DEF Claim
    <3>. QED
      BY <3>1, <3>2
  <2>. QED
    BY <2>2, <2>3 DEF LaneTyped, RoomTyped, Claim
<1>3. AppsTyped'
  <2>1. AppsTyped
    BY DEF LaneTyped
  <2>2. UNCHANGED app \/ app' = Lose(who[k])
    BY DEF Claim
  <2>. QED
    BY <1>1, <2>1, <2>2, OneAppTyped, PartsStay
<1>. QED
  BY <1>1, <1>2, <1>3, PartsStay DEF LaneTyped

\* A line on its way up.
LEMMA RouteUpTyped ==
  ASSUME LaneTyped, NEW k \in Conn, RouteUp(k)
  PROVE  LaneTyped'
<1>1. UNCHANGED <<hostVars, sent, app>>
  BY DEF RouteUp, hostVars
<1>2. up \in [Conn -> Seq(Lines)] /\ up[k] \in Seq(Lines) /\ up[k] # <<>>
  BY DEF LaneTyped, RoomTyped, RouteUp
<1>3. Head(up[k]) \in Lines /\ Tail(up[k]) \in Seq(Lines) /\ <<>> \in Seq(Lines)
  BY <1>2, QueueParts
<1>4. RoomTyped'
  <2>1. up' = [up EXCEPT ![k] = Tail(up[k])] \/ up' = [up EXCEPT ![k] = <<>>]
    BY <1>2 DEF RouteUp
  <2>2. up' \in [Conn -> Seq(Lines)]
    BY <1>2, <1>3, <2>1
  <2>3. link' = link \/ link' = [link EXCEPT ![k] = "shut"]
    BY DEF RouteUp
  <2>. QED
    BY <2>2, <2>3 DEF LaneTyped, RoomTyped, RouteUp
<1>5. BridgeTyped'
  <2>1. toHost \in Seq(Notices) /\ LineMsg(k, Head(up[k])) \in Notices
    BY <1>3, MessagesTyped DEF LaneTyped, BridgeTyped
  <2>2. Append(toHost, LineMsg(k, Head(up[k]))) \in Seq(Notices)
    BY <2>1, AppendProperties
  <2>3. toHost' \in Seq(Notices)
    BY <2>1, <2>2 DEF RouteUp
  <2>. QED
    BY <1>1, <2>3 DEF LaneTyped, BridgeTyped, RouteUp
<1>. QED
  BY <1>1, <1>4, <1>5, PartsStay DEF LaneTyped

\* The end of a joiner's link.
LEMMA CleanupTyped ==
  ASSUME LaneTyped, NEW k \in Conn, Cleanup(k)
  PROVE  LaneTyped'
<1>1. UNCHANGED <<hostVars, sent, app>>
  BY DEF Cleanup, hostVars
<1>2. RoomTyped'
  <2>1. members' = [w \in DOMAIN members \ {who[k]} |-> members[w]]
    BY DEF Cleanup, Without
  <2>. QED
    BY <2>1 DEF LaneTyped, RoomTyped, Cleanup
<1>3. BridgeTyped'
  <2>1. toHost \in Seq(Notices) /\ LeftMsg(k) \in Notices
    BY MessagesTyped DEF LaneTyped, BridgeTyped
  <2>2. Append(toHost, LeftMsg(k)) \in Seq(Notices)
    BY <2>1, AppendProperties
  <2>3. toHost' \in Seq(Notices)
    BY <2>1, <2>2 DEF Cleanup
  <2>. QED
    BY <1>1, <2>3 DEF LaneTyped, BridgeTyped, Cleanup
<1>. QED
  BY <1>1, <1>2, <1>3, PartsStay DEF LaneTyped

\* A frame on its way down, and the end of the room.
LEMMA RouteDownTyped ==
  ASSUME LaneTyped, RouteDown
  PROVE  LaneTyped'
<1>1. UNCHANGED <<hostVars, sent, app>>
  BY DEF RouteDown, hostVars
<1>2. fromHost \in Seq(Frames) /\ fromHost # <<>>
  BY DEF LaneTyped, BridgeTyped, RouteDown
<1>3. Head(fromHost) \in Frames /\ Tail(fromHost) \in Seq(Frames)
  BY <1>2, QueueParts
<1>4. BridgeTyped'
  BY <1>1, <1>3 DEF LaneTyped, BridgeTyped, RouteDown
<1>5. link' \in [Conn -> {"open", "shut", "half"}]
  BY DEF RouteDown, LaneTyped, RoomTyped
<1>6. down' \in [Conn -> Seq(Answers)]
  <2>1. \/ UNCHANGED down
        \/ /\ Head(fromHost).to \in DOMAIN members
           /\ Push(members[Head(fromHost).to], Head(fromHost).msg)
    BY DEF RouteDown
  <2>2. CASE UNCHANGED down
    BY <2>2 DEF LaneTyped, RoomTyped
  <2>3. CASE /\ Head(fromHost).to \in DOMAIN members
             /\ Push(members[Head(fromHost).to], Head(fromHost).msg)
    <3>1. members[Head(fromHost).to] \in Conn /\ Head(fromHost).msg \in Answers
      BY <1>3, <2>3, MessagesTyped DEF LaneTyped, RoomTyped
    <3>. QED
      BY <2>3, <3>1, SlotsTyped DEF LaneTyped
  <2>. QED
    BY <2>1, <2>2, <2>3
<1>7. RoomTyped'
  BY <1>5, <1>6 DEF LaneTyped, RoomTyped, RouteDown
<1>. QED
  BY <1>1, <1>4, <1>7, PartsStay DEF LaneTyped

\* The end of the room.
LEMMA RoomClosesTyped ==
  ASSUME LaneTyped, RoomCloses
  PROVE  LaneTyped'
<1>1. UNCHANGED <<hostVars, sent, app>> /\ UNCHANGED bridgeVars
  BY DEF RoomCloses, hostVars
<1>2. \A k \in Conn : Append(down[k], ClosedMsg) \in Seq(Answers)
  BY AppendProperties, MessagesTyped DEF LaneTyped, RoomTyped
<1>3. down' \in [Conn -> Seq(Answers)]
  BY <1>2 DEF LaneTyped, RoomTyped, RoomCloses
<1>4. members' = [w \in {} |-> members[w]]
  BY DEF RoomCloses, Without
<1>5. RoomTyped'
  BY <1>3, <1>4 DEF LaneTyped, RoomTyped, RoomCloses
<1>. QED
  BY <1>1, <1>5, PartsStay DEF LaneTyped

\* Links that break.
LEMMA BreakTyped ==
  ASSUME LaneTyped, NEW k \in Conn, Break(k) \/ HalfOpenEnds(k)
  PROVE  LaneTyped'
<1>1. UNCHANGED <<hostVars, sent, app>> /\ UNCHANGED bridgeVars
  BY DEF Break, HalfOpenEnds, hostVars
<1>2. RoomTyped'
  <2>1. CASE Break(k)
    <3>1. link' \in [Conn -> {"open", "shut", "half"}]
      <4>1. \A w \in {"open", "shut", "half"} :
              [link EXCEPT ![k] = w] \in [Conn -> {"open", "shut", "half"}]
        BY DEF LaneTyped, RoomTyped
      <4>2. \E w \in {"shut", "half"} : link' = [link EXCEPT ![k] = w]
        BY <2>1 DEF Break
      <4>. QED
        BY <4>1, <4>2
    <3>2. PICK n \in 0 .. Len(up[k]) : up' = [up EXCEPT ![k] = SubSeq(up[k], 1, n)]
      BY <2>1 DEF Break, LaneTyped, RoomTyped
    <3>3. up[k] \in Seq(Lines) /\ up \in [Conn -> Seq(Lines)] /\ Len(up[k]) \in Nat
      BY DEF LaneTyped, RoomTyped
    <3>4. SubSeq(up[k], 1, n) \in Seq(Lines)
      BY <3>2, <3>3, SubSeqProperties
    <3>5. up' \in [Conn -> Seq(Lines)] /\ down' \in [Conn -> Seq(Answers)]
      BY <2>1, <3>2, <3>3, <3>4, EmptySeq DEF Break, LaneTyped, RoomTyped
    <3>. QED
      BY <2>1, <3>1, <3>5 DEF Break, LaneTyped, RoomTyped
  <2>2. CASE HalfOpenEnds(k)
    BY <2>2 DEF HalfOpenEnds, LaneTyped, RoomTyped
  <2>. QED
    BY <2>1, <2>2
<1>. QED
  BY <1>1, <1>2, PartsStay DEF LaneTyped
-----------------------------------------------------------------------------
(* Types: the host bridge.                                                 *)

\* The bridge after a step of the core and its drain.
LEMMA BridgeStep ==
  ASSUME TypeOK, TypeOK', BridgeTyped, NEW fresh \in SUBSET Client, Longer(fresh),
         NEW users \in SUBSET Client, IsFiniteSet(users), Drain(fresh, users),
         relay_users' = users, toHost' \in Seq(Notices), bridge' \in BOOLEAN,
         via' \in [Client -> Conn \cup {None}]
  PROVE  BridgeTyped'
BY DrainTyped DEF Taking, BridgeTyped

\* The users of the bridge are finitely many, one more or one less.
LEMMA UsersFinite ==
  ASSUME BridgeTyped, NEW u \in Client
  PROVE  /\ relay_users \cup {u} \in SUBSET Client /\ IsFiniteSet(relay_users \cup {u})
         /\ relay_users \ {u} \in SUBSET Client /\ IsFiniteSet(relay_users \ {u})
BY FS_AddElement, FS_RemoveElement DEF BridgeTyped

\* The notice of a departure.
LEMMA LeaveBridgeTyped ==
  ASSUME LaneTyped, NEW u \in Client, LeaveBridge(u), toHost' \in Seq(Notices), UNCHANGED bridge
  PROVE  TypeOK' /\ BridgeTyped'
<1>1. TypeOK /\ BridgeTyped /\ {u} \in SUBSET Client /\ DropClients({u})
  BY DEF LaneTyped, LeaveBridge
<1>2. TypeOK' /\ Longer({u})
  BY <1>1, DropTyped, QueuesGrow
<1> DEFINE users == relay_users \ {u}
<1>3. users \in SUBSET Client /\ IsFiniteSet(users)
  BY <1>1, UsersFinite
<1>4. relay_users' = users /\ Drain({u}, users) /\ bridge' \in BOOLEAN
      /\ via' \in [Client -> Conn \cup {None}]
  BY DEF LeaveBridge, LaneTyped, BridgeTyped
<1> HIDE DEF users
<1>. QED
  BY <1>1, <1>2, <1>3, <1>4, BridgeStep

\* A line of a joiner.
LEMMA HandleLineTyped ==
  ASSUME LaneTyped, NEW k \in Conn, NEW u \in Client, NEW m \in Lines, HandleLine(k, u, m),
         toHost' \in Seq(Notices), UNCHANGED bridge
  PROVE  TypeOK' /\ BridgeTyped'
<1>1. TypeOK /\ BridgeTyped /\ bridge' \in BOOLEAN
  BY DEF LaneTyped, BridgeTyped
<1> DEFINE users == relay_users \cup {u}
<1>2. users \in SUBSET Client /\ IsFiniteSet(users)
  BY <1>1, UsersFinite
<1>3. relay_users' = users
  BY DEF HandleLine
<1>4. ASSUME NEW n \in Name, HandleHello(u, n), Drain({u}, relay_users'), via' = [via EXCEPT ![u] = k]
      PROVE  TypeOK' /\ BridgeTyped'
  <2>1. TypeOK' /\ Longer({u}) /\ {u} \in SUBSET Client
    BY <1>1, <1>4, HelloTyped, QueuesGrow
  <2>2. via' \in [Client -> Conn \cup {None}] /\ Drain({u}, users)
    BY <1>1, <1>3, <1>4 DEF BridgeTyped
  <2> HIDE DEF users
  <2>. QED
    BY <1>1, <1>2, <1>3, <2>1, <2>2, BridgeStep
<1>5. ASSUME m.type = "record", HandleAction(u, m.record), Drain({}, relay_users'), UNCHANGED via
      PROVE  TypeOK' /\ BridgeTyped'
  <2>1. m.record \in Record
    BY <1>5, MessagesTyped
  <2>2. TypeOK'
    BY <1>1, <1>5, <2>1, ActionTyped
  <2>3. Longer({})
    <3>1. clients \ {u} \in SUBSET Client /\ RecordMsg(m.record) \in HostMessage
      BY <1>1, <2>1, ClientsFacts, MessageTyping
    <3>2. Broadcast(clients \ {u}, <<RecordMsg(m.record)>>)
      BY <1>5 DEF HandleAction
    <3>. QED
      BY <1>1, <3>1, <3>2, QueuesGrow
  <2>4. via' \in [Client -> Conn \cup {None}] /\ Drain({}, users) /\ {} \in SUBSET Client
    BY <1>1, <1>3, <1>5 DEF BridgeTyped
  <2> HIDE DEF users
  <2>. QED
    BY <1>1, <1>2, <1>3, <2>2, <2>3, <2>4, BridgeStep
<1>6. ASSUME fromHost' = Append(fromHost, [to |-> u, msg |-> DeniedMsg]),
             UNCHANGED <<hostVars, taken, via>>
      PROVE  TypeOK' /\ BridgeTyped'
  <2>1. fromHost' \in Seq(Frames)
    BY <1>1, <1>6, MessagesTyped, AppendProperties DEF BridgeTyped
  <2>2. TypeOK' /\ sent' = sent
    BY <1>1, <1>6, PartsStay DEF hostVars
  <2>. QED
    BY <1>1, <1>2, <1>3, <1>6, <2>1, <2>2 DEF BridgeTyped
<1>. QED
  BY <1>4, <1>5, <1>6 DEF HandleLine

\* One turn of the bridge's route loop.
LEMMA HostReadTyped ==
  ASSUME LaneTyped, Accounted, HostRead
  PROVE  LaneTyped'
<1> DEFINE f == Head(toHost)
<1>1. toHost \in Seq(Notices) /\ toHost # <<>>
  BY DEF LaneTyped, BridgeTyped, HostRead
<1>2. f \in Notices /\ f = toHost[1] /\ Tail(toHost) \in Seq(Notices) /\ 1 \in DOMAIN toHost
  BY <1>1, QueueParts
<1>3. who[f.conn] \in Client /\ f.conn \in Conn /\ (f.type # "left" => f.msg \in Lines)
  BY <1>2, MessagesTyped DEF Accounted
<1>4. toHost' \in Seq(Notices) /\ UNCHANGED bridge /\ UNCHANGED relayVars /\ UNCHANGED app
  BY <1>2 DEF HostRead
<1>5. TypeOK' /\ BridgeTyped'
  <2>1. CASE f.type = "left"
    <3>1. LeaveBridge(who[f.conn])
      BY <2>1 DEF HostRead
    <3> HIDE DEF f
    <3>. QED
      BY <1>3, <1>4, <3>1, LeaveBridgeTyped
  <2>2. CASE f.type # "left"
    <3>1. HandleLine(f.conn, who[f.conn], f.msg)
      BY <2>2 DEF HostRead
    <3> HIDE DEF f
    <3>. QED
      BY <1>3, <1>4, <2>2, <3>1, HandleLineTyped
  <2>. QED
    BY <2>1, <2>2
<1>. QED
  BY <1>4, <1>5, PartsStay DEF LaneTyped

\* The refusal of a ping.
LEMMA PingRefusedTyped ==
  ASSUME LaneTyped, Seated, NEW k \in Conn, PingRefused(k)
  PROVE  LaneTyped'
<1>1. who[k] \in Client /\ BridgeTyped
  BY DEF Seated, PingRefused, LaneTyped
<1>2. relay_users' \in SUBSET Client /\ IsFiniteSet(relay_users')
  BY <1>1, UsersFinite DEF PingRefused
<1>3. fromHost' \in Seq(Frames)
  <2>1. [to |-> who[k], msg |-> DeniedMsg] \in Frames /\ fromHost \in Seq(Frames)
    BY <1>1, MessagesTyped DEF BridgeTyped
  <2>2. fromHost' = Append(fromHost, [to |-> who[k], msg |-> DeniedMsg])
    BY DEF PingRefused
  <2>. QED
    BY <2>1, <2>2, AppendProperties
<1>4. BridgeTyped'
  BY <1>1, <1>2, <1>3 DEF PingRefused, BridgeTyped, hostVars
<1>5. UNCHANGED hostVars /\ UNCHANGED relayVars /\ UNCHANGED app
  BY DEF PingRefused
<1>. QED
  BY <1>4, <1>5, PartsStay DEF LaneTyped

\* One turn of the bridge's pump.
LEMMA PumpTyped ==
  ASSUME LaneTyped, Pump
  PROVE  LaneTyped'
<1>1. TypeOK /\ BridgeTyped /\ UNCHANGED <<relayVars, bridge, toHost, relay_users, via, app>>
  BY DEF LaneTyped, Pump
<1>2. /\ relay_users' = relay_users /\ relay_users \in SUBSET Client /\ IsFiniteSet(relay_users)
      /\ toHost' \in Seq(Notices) /\ bridge' \in BOOLEAN /\ via' \in [Client -> Conn \cup {None}]
  BY <1>1 DEF BridgeTyped
<1>3. TypeOK' /\ BridgeTyped'
  <2>1. CASE DropClients(StaleClients) /\ Drain(StaleClients, relay_users)
    <3>1. StaleClients \in SUBSET Client
      BY <1>1, ClientsFacts DEF StaleClients
    <3>2. TypeOK' /\ Longer(StaleClients)
      BY <1>1, <2>1, <3>1, DropTyped, QueuesGrow
    <3>. QED
      BY <1>1, <1>2, <2>1, <3>1, <3>2, BridgeStep
  <2>2. CASE UNCHANGED hostVars /\ Drain({}, relay_users)
    <3>1. TypeOK' /\ sent' = sent
      BY <1>1, <2>2, PartsStay DEF hostVars
    <3>2. Longer({}) /\ {} \in SUBSET Client
      BY <1>1, <3>1 DEF Longer, TypeOK
    <3>. QED
      BY <1>1, <1>2, <2>2, <3>1, <3>2, BridgeStep
  <2>. QED
    BY <2>1, <2>2 DEF Pump
<1>. QED
  BY <1>1, <1>3, PartsStay DEF LaneTyped, relayVars

\* What was taken stays within queues that grow.
LEMMA UndrainedStep ==
  ASSUME TypeOK, TypeOK', BridgeTyped, Longer({}), UNCHANGED <<taken, relay_users, toHost, via>>,
         fromHost' \in Seq(Frames), bridge' \in BOOLEAN
  PROVE  BridgeTyped'
<1>1. \A u \in Client : /\ taken[u] \in Nat /\ taken[u] <= Len(sent[u]) /\ Len(sent[u]) <= Len(sent'[u])
                        /\ Len(sent[u]) \in Nat /\ Len(sent'[u]) \in Nat
  BY DEF TypeOK, BridgeTyped, Longer
<1>2. \A u \in Client : taken[u] <= Len(sent'[u])
  BY <1>1
<1>. QED
  BY <1>2 DEF BridgeTyped

\* An edit of the host.
LEMMA HostEditTyped ==
  ASSUME LaneTyped, HostEdit
  PROVE  LaneTyped'
<1>1. TypeOK /\ BridgeTyped
  BY DEF LaneTyped
<1>2. Mint(Host) \in Record /\ HandleLocal(Mint(Host))
  BY DEF HostEdit, Mint, Record, User
<1>3. TypeOK'
  BY <1>1, <1>2, LocalTyped
<1>4. Longer({})
  <2>1. clients \in SUBSET Client /\ RecordMsg(Mint(Host)) \in HostMessage
    BY <1>1, <1>2, ClientsFacts, MessageTyping
  <2>2. Broadcast(clients, <<RecordMsg(Mint(Host))>>)
    BY <1>2 DEF HandleLocal
  <2>. QED
    BY <1>1, <2>1, <2>2, QueuesGrow
<1>5. BridgeTyped'
  <2>1. UNCHANGED <<taken, relay_users, toHost, via>> /\ fromHost' \in Seq(Frames) /\ bridge' \in BOOLEAN
    BY <1>1 DEF HostEdit, bridgeVars, BridgeTyped
  <2>. QED
    BY <1>1, <1>3, <1>4, <2>1, UndrainedStep
<1>. QED
  BY <1>3, <1>5, PartsStay DEF LaneTyped, HostEdit

\* The host opens another document.
LEMMA SwapTyped ==
  ASSUME LaneTyped, SwapDocument
  PROVE  LaneTyped'
<1>1. TypeOK /\ BridgeTyped /\ <<>> \in Seq(Record) /\ Reseed(<<>>)
  BY EmptySeq DEF LaneTyped, SwapDocument
<1>2. TypeOK'
  BY <1>1, ReseedTyped
<1>3. BridgeTyped'
  <2>1. fromHost' \in Seq(Frames)
    BY <1>1, MessagesTyped, AppendProperties DEF SwapDocument, BridgeTyped
  <2>2. \A u \in Client : Len(sent'[u]) \in Nat /\ taken'[u] = 0
    BY <1>2 DEF TypeOK, SwapDocument
  <2>. QED
    BY <1>1, <2>1, <2>2 DEF SwapDocument, BridgeTyped
<1>. QED
  BY <1>2, <1>3, PartsStay DEF LaneTyped, SwapDocument

\* The host ends the session.
LEMMA HostLeaveTyped ==
  ASSUME LaneTyped, HostLeave
  PROVE  LaneTyped'
<1>1. TypeOK /\ BridgeTyped
  BY DEF LaneTyped
<1>2. clients \in SUBSET Client /\ EndedMsg \in HostMessage /\ Broadcast(clients, <<EndedMsg>>)
  BY <1>1, ClientsFacts, MessageTyping DEF HostLeave
<1>3. sent' \in [Client -> Seq(HostMessage)] /\ Longer({})
  BY <1>1, <1>2, BroadcastShape, QueuesGrow
<1>4. TypeOK'
  <2>1. clients' = clients
    BY DEF HostLeave, clients
  <2>. QED
    BY <1>1, <1>3, <2>1 DEF HostLeave, TypeOK
<1>5. BridgeTyped'
  <2>1. /\ UNCHANGED <<relay_users, toHost, via>> /\ bridge' \in BOOLEAN /\ {} \in SUBSET Client
        /\ relay_users \in SUBSET Client /\ IsFiniteSet(relay_users) /\ relay_users' = relay_users
        /\ toHost' \in Seq(Notices) /\ via' \in [Client -> Conn \cup {None}]
    BY <1>1 DEF HostLeave, BridgeTyped
  <2>2. CASE Drain({}, relay_users)
    BY <1>1, <1>3, <1>4, <2>1, <2>2, BridgeStep
  <2>3. CASE UNCHANGED <<fromHost, taken>>
    <3>1. fromHost' \in Seq(Frames)
      BY <1>1, <2>3 DEF BridgeTyped
    <3>. QED
      BY <1>1, <1>3, <1>4, <2>1, <2>3, <3>1, UndrainedStep
  <2>. QED
    BY <2>2, <2>3 DEF HostLeave
<1>. QED
  BY <1>4, <1>5, PartsStay DEF LaneTyped, HostLeave

\* The host's link breaks.
LEMMA HostLinkTyped ==
  ASSUME LaneTyped, HostLinkBreaks
  PROVE  LaneTyped'
<1>1. fromHost \in Seq(Frames) /\ Len(fromHost) \in Nat
  BY DEF LaneTyped, BridgeTyped
<1>2. PICK n \in 0 .. Len(fromHost) : fromHost' = SubSeq(fromHost, 1, n)
  BY DEF HostLinkBreaks
<1>3. fromHost' \in Seq(Frames)
  BY <1>1, <1>2, SubSeqProperties
<1>4. BridgeTyped'
  BY <1>3 DEF HostLinkBreaks, LaneTyped, BridgeTyped, hostVars
<1>. QED
  BY <1>4, PartsStay DEF LaneTyped, HostLinkBreaks
-----------------------------------------------------------------------------
(* Types: the clients.                                                     *)

\* A client dials.
LEMMA DialTyped ==
  ASSUME LaneTyped, NEW u \in Client, Dial(u)
  PROVE  LaneTyped'
<1>1. PICK k \in Conn :
        /\ app' = [app EXCEPT ![u].conn = k,
                     ![u].mode = IF @ = "solo" THEN "joining" ELSE "rejoining"]
        /\ who' = [who EXCEPT ![k] = u]
        /\ link' = [link EXCEPT ![k] = "open"]
        /\ thread' = [thread EXCEPT ![k] = "claiming"]
        /\ up' = [up EXCEPT ![k] = <<HelloMsg>>]
        /\ down' = [down EXCEPT ![k] = <<>>]
  BY DEF Dial
<1>2. AppsTyped'
  <2>1. app \in [Client -> Apps] /\ app[u] \in Apps
    BY DEF LaneTyped, AppsTyped
  <2> DEFINE s == [app[u] EXCEPT !.conn = k,
                     !.mode = IF @ = "solo" THEN "joining" ELSE "rejoining"]
  <2>2. s \in Apps /\ s.conn \in Conn
    BY <2>1 DEF Apps, Modes
  <2>3. app' = [app EXCEPT ![u] = s]
    BY <1>1, <2>1 DEF Apps
  <2> HIDE DEF s
  <2>. QED
    BY <2>2, <2>3, OneAppTyped DEF LaneTyped
<1>3. RoomTyped'
  <2>1. <<HelloMsg>> \in Seq(Lines) /\ <<>> \in Seq(Answers)
    BY MessagesTyped, EmptySeq
  <2>2. up' \in [Conn -> Seq(Lines)] /\ down' \in [Conn -> Seq(Answers)]
    BY <1>1, <2>1 DEF LaneTyped, RoomTyped
  <2>. QED
    BY <1>1, <2>2 DEF LaneTyped, RoomTyped, Dial
<1>4. UNCHANGED hostVars /\ UNCHANGED <<bridgeVars, sent>>
  BY DEF Dial, hostVars
<1>. QED
  BY <1>2, <1>3, <1>4, PartsStay DEF LaneTyped

\* A client reads one message.
LEMMA ReadDownTyped ==
  ASSUME LaneTyped, NEW u \in Client, ReadDown(u)
  PROVE  LaneTyped'
<1> DEFINE k == app[u].conn
           m == Head(down[k])
           s == app[u]
<1>1. app \in [Client -> Apps] /\ s \in Apps /\ k \in Conn /\ s.mode \in Holding
  BY DEF LaneTyped, AppsTyped, ReadDown, Holding
<1>2. down \in [Conn -> Seq(Answers)] /\ down[k] \in Seq(Answers) /\ down[k] # <<>>
  BY <1>1 DEF LaneTyped, RoomTyped, ReadDown
<1>3. m \in Answers /\ Tail(down[k]) \in Seq(Answers)
  BY <1>2, QueueParts
<1>4. RoomTyped'
  <2>1. down' = [down EXCEPT ![k] = Tail(down[k])]
    BY <1>2 DEF ReadDown
  <2>2. down' \in [Conn -> Seq(Answers)]
    BY <1>2, <1>3, <2>1
  <2>3. link' = link \/ link' = Shut(k)
    BY DEF ReadDown
  <2>4. link' \in [Conn -> {"open", "shut", "half"}]
    BY <1>1, <2>3, SlotsTyped DEF LaneTyped, RoomTyped
  <2>. QED
    BY <2>2, <2>4 DEF ReadDown, LaneTyped, RoomTyped
<1>5. AppsTyped'
  <2>1. AppsTyped
    BY DEF LaneTyped
  <2>2. CASE m = ClosedMsg \/ (m = DeniedMsg /\ s.mode # "live")
    <3>1. app' = Lose(u)
      BY <2>2 DEF ReadDown
    <3>. QED
      BY <2>1, <3>1, OneAppTyped
  <2>3. CASE ~ (m = ClosedMsg \/ (m = DeniedMsg /\ s.mode # "live"))
    <3> DEFINE t == IF s.mode = "live" THEN Received(s, u, m)
                    ELSE IF m.type = "welcome" THEN Welcomed(s, m) ELSE s
    <3>1. app' = [app EXCEPT ![u] = t]
      BY <2>3 DEF ReadDown
    <3>2. t \in Apps
      BY <1>1, <1>3, AppTyped
    <3>3. t.conn = k
      <4>1. Received(s, u, m).conn = s.conn
        BY <1>1 DEF Received, Apps, DeniedMsg
      <4>2. Welcomed(s, m).conn = s.conn
        BY DEF Welcomed, Solo
      <4>. QED
        BY <4>1, <4>2
    <3> HIDE DEF t, k
    <3>. QED
      BY <1>1, <2>1, <3>1, <3>2, <3>3, OneAppTyped
  <2>. QED
    BY <2>2, <2>3
<1>6. UNCHANGED hostVars /\ UNCHANGED <<bridgeVars, sent>>
  BY DEF ReadDown, hostVars
<1>. QED
  BY <1>4, <1>5, <1>6, PartsStay DEF LaneTyped

\* A client loses its connection, gives it up, or goes solo.
LEMMA AppLeavesTyped ==
  ASSUME LaneTyped, NEW u \in Client, LinkLost(u) \/ HandshakeTimeout(u) \/ AfterEnd(u)
  PROVE  LaneTyped'
<1>1. UNCHANGED hostVars /\ UNCHANGED <<bridgeVars, sent>>
  BY DEF LinkLost, HandshakeTimeout, AfterEnd, hostVars
<1>2. RoomTyped'
  <2>1. CASE HandshakeTimeout(u)
    <3>1. app[u].conn \in Conn
      BY <2>1 DEF HandshakeTimeout, LaneTyped, AppsTyped, Holding
    <3>. QED
      BY <2>1, <3>1, SlotsTyped DEF HandshakeTimeout, LaneTyped, RoomTyped
  <2>2. CASE LinkLost(u) \/ AfterEnd(u)
    BY <2>2, PartsStay DEF LinkLost, AfterEnd, LaneTyped
  <2>. QED
    BY <2>1, <2>2
<1>3. AppsTyped'
  <2>1. CASE app' = Lose(u)
    BY <2>1, OneAppTyped DEF LaneTyped
  <2>2. CASE app' = [app EXCEPT ![u] = Solo]
    <3>1. Solo \in Apps /\ Solo.mode \notin Holding
      BY AppTyped DEF Solo, Holding
    <3>. QED
      BY <2>2, <3>1, OneAppTyped DEF LaneTyped
  <2>. QED
    BY <2>1, <2>2 DEF LinkLost, HandshakeTimeout, AfterEnd
<1>. QED
  BY <1>1, <1>2, <1>3, PartsStay DEF LaneTyped

\* An edit of the app, and its publication.
LEMMA AppEditsTyped ==
  ASSUME LaneTyped, NEW u \in Client, Edit(u) \/ Publish(u)
  PROVE  LaneTyped'
<1>1. UNCHANGED hostVars /\ UNCHANGED <<bridgeVars, sent>>
  BY DEF Edit, Publish, hostVars
<1>2. AppsTyped /\ app \in [Client -> Apps] /\ app[u] \in Apps /\ app[u].runtime \in Seq(Record)
  BY DEF LaneTyped, AppsTyped, Apps
<1>3. CASE Edit(u)
  <2> DEFINE t == [app[u] EXCEPT !.runtime = Append(@, Mint(u))]
  <2>1. Mint(u) \in Record
    BY <1>3 DEF Edit, Mint, Record, User
  <2>2. Append(app[u].runtime, Mint(u)) \in Seq(Record)
    BY <1>2, <2>1, AppendProperties
  <2>3. t \in Apps /\ t.mode = app[u].mode /\ t.conn = app[u].conn
    BY <1>2, <2>2 DEF Apps
  <2>4. app' = [app EXCEPT ![u] = t]
    BY <1>2, <1>3 DEF Edit, Apps
  <2>5. t.mode \in Holding => t.conn \in Conn
    BY <1>2, <2>3 DEF AppsTyped
  <2> HIDE DEF t
  <2>6. AppsTyped'
    BY <1>2, <2>3, <2>4, <2>5, OneAppTyped
  <2>. QED
    BY <1>1, <1>3, <2>6, PartsStay DEF LaneTyped, Edit
<1>4. CASE Publish(u)
  <2> DEFINE t == [app[u] EXCEPT !.published = Len(app[u].runtime)]
             k == app[u].conn
  <2>0. Len(app[u].runtime) \in Nat
    BY <1>2
  <2>1. t \in Apps /\ t.mode = app[u].mode /\ t.conn = app[u].conn
    BY <1>2, <2>0 DEF Apps
  <2>2. app' = [app EXCEPT ![u] = t]
    BY <1>2, <1>4 DEF Publish, Apps
  <2>3. t.mode \in Holding => t.conn \in Conn
    BY <1>2, <2>1 DEF AppsTyped
  <2> HIDE DEF t
  <2>4. AppsTyped'
    BY <1>2, <2>1, <2>2, <2>3, OneAppTyped
  <2>5. k \in Conn /\ up \in [Conn -> Seq(Lines)] /\ up[k] \in Seq(Lines)
    BY <1>4 DEF Publish, LaneTyped, AppsTyped, Holding, RoomTyped
  <2>6. Outbound(app[u], u) \in Seq(Lines)
    <3>1. PICK g \in [0 .. Len(app[u].runtime) -> Seq(Lines)] : Sends(g, app[u], u)
      BY <1>2, OutboundIs
    <3>2. Len(app[u].runtime) \in 0 .. Len(app[u].runtime)
      BY <1>2
    <3>. QED
      BY <3>1, <3>2 DEF Sends
  <2>7. up[k] \o Outbound(app[u], u) \in Seq(Lines)
    BY <2>5, <2>6, ConcatProperties
  <2>8. up' = [up EXCEPT ![k] = up[k] \o Outbound(app[u], u)]
    BY <1>4, <2>5 DEF Publish
  <2> HIDE DEF k
  <2>9. up' \in [Conn -> Seq(Lines)]
    BY <2>5, <2>7, <2>8
  <2>10. RoomTyped'
    BY <1>4, <2>9 DEF Publish, LaneTyped, RoomTyped
  <2>. QED
    BY <1>1, <2>4, <2>10, PartsStay DEF LaneTyped
<1>. QED
  BY <1>3, <1>4

\* Time passes.
LEMMA SilenceTyped ==
  ASSUME LaneTyped, NEW u \in Client, Silence(u)
  PROVE  LaneTyped'
<1>1. TypeOK'
  BY AgeTyped DEF LaneTyped, Silence
<1>2. sent' = sent
  BY DEF Silence, Age
<1>. QED
  BY <1>1, <1>2, PartsStay DEF LaneTyped, Silence

\* Every step keeps the types.
LEMMA LaneTypedStep ==
  ASSUME LaneTyped, Seated, Accounted, RelayNext
  PROVE  LaneTyped'
<1>1. CASE RouteDown \/ RoomCloses
  BY <1>1, RouteDownTyped, RoomClosesTyped
<1>2. CASE HostRead \/ Pump \/ HostEdit \/ SwapDocument \/ HostLeave \/ HostLinkBreaks
  BY <1>2, HostReadTyped, PumpTyped, HostEditTyped, SwapTyped, HostLeaveTyped, HostLinkTyped
<1>3. ASSUME NEW k \in Conn, Claim(k) \/ RouteUp(k) \/ Cleanup(k) \/ PingRefused(k)
                             \/ Break(k) \/ HalfOpenEnds(k)
      PROVE  LaneTyped'
  BY <1>3, ClaimTyped, RouteUpTyped, CleanupTyped, PingRefusedTyped, BreakTyped
<1>4. ASSUME NEW u \in Client, Dial(u) \/ ReadDown(u) \/ LinkLost(u) \/ HandshakeTimeout(u)
                               \/ Edit(u) \/ Publish(u) \/ AfterEnd(u) \/ Silence(u)
      PROVE  LaneTyped'
  BY <1>4, DialTyped, ReadDownTyped, AppLeavesTyped, AppEditsTyped, SilenceTyped
<1>. QED
  BY <1>1, <1>2, <1>3, <1>4 DEF RelayNext
-----------------------------------------------------------------------------
(* The queue of the host.                                                  *)

QueueInv == Seated /\ Accounted /\ InTurn /\ CameBy /\ Drained

\* Steps that leave the room, the queue and what the bridge knows alone, and
\* let nobody in.
Steady ==
  /\ UNCHANGED <<room, members, thread, who, toHost, relay_users, via>>
  /\ clients' \subseteq clients
  /\ bridge' = bridge \/ bridge' = FALSE

\* Such a step keeps the queue in order.
LEMMA SteadyKeeps ==
  ASSUME QueueInv, Steady
  PROVE  QueueInv'
<1>1. Seated' /\ Accounted' /\ InTurn' /\ Drained'
  BY DEF QueueInv, Steady, Seated, Accounted, InTurn, Drained, Routed, Tells
<1>2. CameBy'
  BY DEF QueueInv, Steady, CameBy, Routed, Tells
<1>. QED
  BY <1>1, <1>2 DEF QueueInv

\* The clients of the core after its steps: only a Hello lets one in.
LEMMA ClientsAfter ==
  ASSUME TypeOK
  PROVE  /\ UNCHANGED roster => clients' = clients
         /\ \A S \in SUBSET Client : DropClients(S) => clients' = clients \ S
         /\ \A u \in Client, n \in Name : HandleHello(u, n) => clients' = clients \cup {u}
         /\ \A seed : Reseed(seed) => clients' = {}
<1>1. ASSUME NEW seed, Reseed(seed)
      PROVE  clients' = {}
  BY <1>1, ClientsFacts, ClientsPrime DEF Reseed
<1>. QED
  BY <1>1, ClientsPrime DEF DropClients, HandleHello

\* The steps that are steady.
LEMMA SteadySteps ==
  ASSUME TypeOK,
         \/ RouteDown \/ Pump \/ HostEdit \/ SwapDocument \/ HostLeave \/ HostLinkBreaks
         \/ \E k \in Conn : Break(k) \/ HalfOpenEnds(k)
         \/ \E u \in Client : ReadDown(u) \/ LinkLost(u) \/ HandshakeTimeout(u) \/ Edit(u)
                              \/ Publish(u) \/ AfterEnd(u) \/ Silence(u)
  PROVE  Steady
<1>1. CASE Pump
  <2>1. StaleClients \in SUBSET Client
    BY ClientsFacts DEF StaleClients
  <2>2. clients' \subseteq clients
    BY <1>1, <2>1, ClientsAfter DEF Pump, hostVars
  <2>. QED
    BY <1>1, <2>2 DEF Pump, Steady, relayVars
<1>2. CASE SwapDocument
  BY <1>2, ClientsAfter DEF SwapDocument, Steady, relayVars
<1>3. CASE HostEdit \/ HostLeave
  BY <1>3, ClientsAfter DEF HostEdit, HandleLocal, HostLeave, Steady, relayVars, bridgeVars
<1>4. CASE RouteDown \/ HostLinkBreaks
  BY <1>4, ClientsAfter DEF RouteDown, HostLinkBreaks, Steady, relayVars, hostVars
<1>5. ASSUME NEW k \in Conn, Break(k) \/ HalfOpenEnds(k)
      PROVE  Steady
  BY <1>5, ClientsAfter DEF Break, HalfOpenEnds, Steady, bridgeVars, hostVars
<1>6. ASSUME NEW u \in Client, ReadDown(u) \/ LinkLost(u) \/ HandshakeTimeout(u) \/ Edit(u)
                               \/ Publish(u) \/ AfterEnd(u)
      PROVE  Steady
  BY <1>6, ClientsAfter DEF ReadDown, LinkLost, HandshakeTimeout, Edit, Publish, AfterEnd,
                            Steady, relayVars, bridgeVars, hostVars
<1>7. ASSUME NEW u \in Client, Silence(u)
      PROVE  Steady
  BY <1>7, ClientsAfter DEF Silence, Age, Steady, relayVars, bridgeVars
<1>. QED
  BY <1>1, <1>2, <1>3, <1>4, <1>5, <1>6, <1>7

\* A claim seats a user that was not there, or ends the connection.
LEMMA ClaimQueue ==
  ASSUME LaneTyped, QueueInv, NEW k \in Conn, Claim(k)
  PROVE  QueueInv'
<1>1. /\ UNCHANGED <<room, who, toHost, relay_users, via, bridge>> /\ clients' = clients
      /\ who[k] \in Client /\ thread \in [Conn -> {"claiming", "routing", "ended"}]
  BY DEF Claim, LaneTyped, RoomTyped, QueueInv, Seated, bridgeVars, hostVars, clients
<1>2. CASE members' = With(members, who[k], k) /\ thread' = [thread EXCEPT ![k] = "routing"]
           /\ MayJoin(who[k])
  <2>1. room /\ who[k] \notin DOMAIN members
    BY <1>2 DEF MayJoin
  <2>2. /\ DOMAIN members' = DOMAIN members \cup {who[k]} /\ members'[who[k]] = k
        /\ \A u \in DOMAIN members : members'[u] = members[u]
    BY <1>2, <2>1 DEF With
  <2>3. \A c \in Conn : Routed(c) => Routed(c)'
    BY <1>1, <2>2 DEF Routed
  <2>4. Seated'
    <3>1. Routed(k)' /\ thread'[k] = "routing" /\ \A c \in Conn : c # k => thread'[c] = thread[c]
      BY <1>1, <1>2, <2>2 DEF Routed
    <3>2. \A u \in DOMAIN members : members[u] # k
      BY <1>1, <2>1 DEF QueueInv, Seated
    <3>. QED
      BY <1>1, <2>1, <2>2, <2>3, <3>1, <3>2 DEF QueueInv, Seated, LaneTyped, RoomTyped
  <2>5. Accounted' /\ InTurn' /\ CameBy' /\ Drained'
    <3>1. Accounted'
      <4>1. \A i \in DOMAIN toHost : toHost[i].conn \in Conn
        BY MessagesTyped DEF LaneTyped, BridgeTyped
      <4>. QED
        BY <1>1, <2>3, <4>1 DEF QueueInv, Accounted
    <3>2. InTurn'
      BY <1>1 DEF QueueInv, InTurn
    <3>3. CameBy'
      BY <1>1, <2>3 DEF QueueInv, CameBy, Tells
    <3>4. Drained'
      BY <1>1, <2>2 DEF QueueInv, Drained, Tells
    <3>. QED
      BY <3>1, <3>2, <3>3, <3>4
  <2>. QED
    BY <2>4, <2>5 DEF QueueInv
<1>3. CASE UNCHANGED members /\ thread' = [thread EXCEPT ![k] = "ended"]
  <2>1. thread[k] = "claiming"
    BY DEF Claim
  <2>2. Seated'
    BY <1>1, <1>3, <2>1 DEF QueueInv, Seated, Routed, LaneTyped, RoomTyped
  <2>3. Accounted' /\ InTurn' /\ CameBy' /\ Drained'
    BY <1>1, <1>3 DEF QueueInv, Accounted, InTurn, CameBy, Drained, Routed, Tells
  <2>. QED
    BY <2>2, <2>3 DEF QueueInv
<1>. QED
  BY <1>2, <1>3 DEF Claim

\* The end of the room leaves nobody to account for.
LEMMA RoomClosesQueue ==
  ASSUME QueueInv, RoomCloses
  PROVE  QueueInv'
<1>1. /\ room' = FALSE /\ ~bridge /\ DOMAIN members' = {} /\ clients' = clients
      /\ UNCHANGED <<thread, who, toHost, relay_users, via, bridge>>
  BY DEF RoomCloses, Without, bridgeVars, hostVars, clients
<1>2. Seated' /\ Accounted' /\ InTurn' /\ Drained'
  BY <1>1 DEF QueueInv, Seated, Accounted, InTurn, Drained
<1>3. CameBy'
  BY <1>1 DEF QueueInv, CameBy
<1>. QED
  BY <1>2, <1>3 DEF QueueInv

\* A refused ping comes from a user that is seated.
LEMMA PingRefusedQueue ==
  ASSUME LaneTyped, QueueInv, NEW k \in Conn, PingRefused(k)
  PROVE  QueueInv'
<1>1. /\ UNCHANGED <<room, members, thread, who, toHost, via, bridge>> /\ clients' = clients
      /\ relay_users' = relay_users \cup {who[k]} /\ bridge /\ thread[k] = "routing"
  BY DEF PingRefused, relayVars, hostVars, clients
<1>2. who[k] \in DOMAIN members
  BY <1>1 DEF QueueInv, Seated, Routed
<1>3. Seated' /\ Accounted' /\ InTurn' /\ CameBy'
  BY <1>1 DEF QueueInv, Seated, Accounted, InTurn, CameBy, Routed, Tells
<1>4. Drained'
  BY <1>1, <1>2 DEF QueueInv, Drained, Tells
<1>. QED
  BY <1>3, <1>4 DEF QueueInv

\* A slot that is taken again has nothing in the queue.
LEMMA DialQueue ==
  ASSUME LaneTyped, QueueInv, NEW u \in Client, Dial(u)
  PROVE  QueueInv'
<1>1. PICK k \in Conn :
        /\ thread[k] = "ended"
        /\ \A i \in DOMAIN toHost : toHost[i].conn # k
        /\ who' = [who EXCEPT ![k] = u]
        /\ thread' = [thread EXCEPT ![k] = "claiming"]
  BY DEF Dial
<1>2. UNCHANGED <<room, members, toHost, relay_users, via, bridge>> /\ clients' = clients
  BY DEF Dial, hostVars, clients, bridgeVars
<1>3. /\ who \in [Conn -> Client \cup {None}]
      /\ thread \in [Conn -> {"claiming", "routing", "ended"}]
      /\ \A c \in Conn : c # k => who'[c] = who[c] /\ thread'[c] = thread[c]
      /\ who'[k] = u /\ thread'[k] = "claiming"
      /\ \A i \in DOMAIN toHost : toHost[i].conn \in Conn
  BY <1>1, MessagesTyped DEF LaneTyped, RoomTyped, BridgeTyped
<1>4. ~Tells(toHost, k)
  BY <1>1 DEF Tells, Left
<1>5. \A v \in DOMAIN members : members[v] # k
  BY <1>1 DEF QueueInv, Seated
<1>6. \A v \in DOMAIN members : members[v] \in Conn
  BY DEF LaneTyped, RoomTyped
<1>7. \A c \in Conn : c # k => (Routed(c) <=> Routed(c)')
  BY <1>2, <1>3 DEF Routed
<1>8. room => ~Routed(k)
  BY <1>5 DEF Routed
<1>9. Seated'
  BY <1>2, <1>3, <1>5, <1>6, <1>7 DEF QueueInv, Seated
<1>10. Accounted'
  BY <1>1, <1>2, <1>3, <1>7 DEF QueueInv, Accounted
<1>11. InTurn'
  BY <1>1, <1>2, <1>3 DEF QueueInv, InTurn
<1>12. CameBy'
  <2>1. ASSUME NEW v \in clients, room
        PROVE  \E c \in Conn : c = via[v] /\ who'[c] = v /\ (Routed(c)' \/ Tells(toHost, c))
    <3>1. PICK c \in Conn : c = via[v] /\ who[c] = v /\ (Routed(c) \/ Tells(toHost, c))
      BY <2>1 DEF QueueInv, CameBy
    <3>2. c # k
      BY <1>4, <1>8, <2>1, <3>1
    <3>. QED
      BY <1>3, <1>7, <3>1, <3>2
  <2>2. ASSUME NEW v \in clients, room
        PROVE  /\ via'[v] \in Conn /\ who'[via'[v]] = v
               /\ Routed(via[v])' \/ Tells(toHost, via[v])'
    BY <1>2, <2>1, <2>2 DEF Routed, Tells
  <2>3. ASSUME NEW v \in clients, NEW i \in DOMAIN toHost,
               who'[toHost[i].conn] = v, toHost[i].conn # via[v]
        PROVE  \E j \in DOMAIN toHost : j < i /\ Left(toHost[j], via[v])
    BY <1>1, <1>3, <2>3 DEF QueueInv, CameBy
  <2>. QED
    BY <1>2, <2>2, <2>3 DEF CameBy
<1>13. Drained'
  BY <1>2, <1>3, <1>4 DEF QueueInv, Drained, Tells
<1>. QED
  BY <1>9, <1>10, <1>11, <1>12, <1>13 DEF QueueInv

\* The queue after one entry m of connection k, which routes.
Queued(k, m) ==
  /\ room /\ thread[k] = "routing"
  /\ m \in Notices /\ m.conn = k /\ toHost' = Append(toHost, m)
  /\ UNCHANGED <<who, via>> /\ clients' = clients

\* What was queued stays in its place.
LEMMA QueuedParts ==
  ASSUME LaneTyped, NEW k \in Conn, NEW m, Queued(k, m)
  PROVE  /\ Len(toHost) \in Nat /\ DOMAIN toHost = 1 .. Len(toHost)
         /\ DOMAIN toHost' = 1 .. Len(toHost) + 1
         /\ \A i \in 1 .. Len(toHost) : toHost'[i] = toHost[i] /\ toHost[i].conn \in Conn
         /\ toHost'[Len(toHost) + 1] = m /\ m.conn = k
         /\ \A c : Tells(toHost, c) => Tells(toHost', c)
<1>1. toHost \in Seq(Notices) /\ m \in Notices /\ toHost' = Append(toHost, m) /\ m.conn = k
  BY DEF LaneTyped, BridgeTyped, Queued
<1>2. /\ Len(toHost) \in Nat /\ DOMAIN toHost = 1 .. Len(toHost)
      /\ DOMAIN toHost' = 1 .. Len(toHost) + 1
      /\ \A i \in 1 .. Len(toHost) : toHost'[i] = toHost[i]
      /\ toHost'[Len(toHost) + 1] = m
  BY <1>1, QueueAppended
<1>3. \A i \in 1 .. Len(toHost) : toHost[i].conn \in Conn
  BY <1>1, <1>2, MessagesTyped
<1>4. \A c : Tells(toHost, c) => Tells(toHost', c)
  BY <1>2 DEF Tells
<1>. QED
  BY <1>1, <1>2, <1>3, <1>4

\* An entry of a connection that routes comes in its turn: the other ones of
\* its user have left.
LEMMA QueuedInTurn ==
  ASSUME LaneTyped, QueueInv, NEW k \in Conn, NEW m, Queued(k, m)
  PROVE  /\ InTurn'
         /\ \A v \in clients : \A i \in DOMAIN toHost' :
              who[toHost'[i].conn] = v /\ toHost'[i].conn # via[v] =>
                \E j \in DOMAIN toHost' : j < i /\ Left(toHost'[j], via[v])
<1> DEFINE N == Len(toHost)
<1>1. /\ N \in Nat /\ DOMAIN toHost = 1 .. N /\ DOMAIN toHost' = 1 .. N + 1
      /\ \A i \in 1 .. N : toHost'[i] = toHost[i] /\ toHost[i].conn \in Conn
      /\ toHost'[N + 1] = m /\ m.conn = k
  BY QueuedParts
<1> HIDE DEF N
<1>2. room /\ Routed(k) /\ who' = who
  BY DEF Queued, QueueInv, Seated
<1>3. \A c \in Conn : who[c] = who[k] /\ c # k => ~Routed(c)
  BY <1>2 DEF Routed
<1>4. InTurn'
  <2>1. SUFFICES ASSUME NEW i \in 1 .. N + 1, NEW j \in 1 .. N + 1, i < j,
                        who[toHost'[i].conn] = who[toHost'[j].conn],
                        toHost'[i].conn # toHost'[j].conn
                 PROVE  \E h \in 1 .. N + 1 : i <= h /\ h < j /\ Left(toHost'[h], toHost'[i].conn)
    BY <1>1, <1>2 DEF InTurn
  <2>2. i \in 1 .. N
    BY <1>1, <2>1
  <2>3. CASE j = N + 1
    <3>1. toHost[i].conn \in Conn /\ who[toHost[i].conn] = who[k] /\ toHost[i].conn # k
      BY <1>1, <2>1, <2>2, <2>3
    <3>2. \E h \in 1 .. N : h >= i /\ Left(toHost[h], toHost[i].conn)
      BY <1>1, <1>2, <1>3, <2>2, <3>1 DEF QueueInv, Accounted
    <3>. QED
      BY <1>1, <2>2, <2>3, <3>2
  <2>4. CASE j \in 1 .. N
    <3>1. \E h \in 1 .. N : i <= h /\ h < j /\ Left(toHost[h], toHost[i].conn)
      BY <1>1, <2>1, <2>2, <2>4 DEF QueueInv, InTurn
    <3>. QED
      BY <1>1, <2>2, <3>1
  <2>. QED
    BY <1>1, <2>1, <2>3, <2>4
<1>5. ASSUME NEW v \in clients, NEW i \in 1 .. N + 1, who[toHost'[i].conn] = v, toHost'[i].conn # via[v]
      PROVE  \E j \in 1 .. N + 1 : j < i /\ Left(toHost'[j], via[v])
  <2>1. CASE i = N + 1
    <3>1. who[k] = v /\ via[v] # k /\ via[v] \in Conn /\ who[via[v]] = v
      BY <1>1, <1>2, <1>5, <2>1 DEF QueueInv, CameBy
    <3>2. Tells(toHost, via[v])
      BY <1>2, <1>3, <3>1 DEF QueueInv, CameBy
    <3>. QED
      BY <1>1, <2>1, <3>2 DEF Tells
  <2>2. CASE i \in 1 .. N
    <3>1. \E j \in 1 .. N : j < i /\ Left(toHost[j], via[v])
      BY <1>1, <1>5, <2>2 DEF QueueInv, CameBy
    <3>. QED
      BY <1>1, <3>1
  <2>. QED
    BY <1>1, <2>1, <2>2
<1>. QED
  BY <1>1, <1>4, <1>5

\* A line of a seated user.
LEMMA RouteUpQueue ==
  ASSUME LaneTyped, QueueInv, NEW k \in Conn, RouteUp(k)
  PROVE  QueueInv'
<1>1. /\ UNCHANGED <<room, members, thread, who, relay_users, via, bridge>> /\ clients' = clients
      /\ thread[k] = "routing"
  BY DEF RouteUp, hostVars, clients
<1>2. CASE ~room
  <2>1. Steady
    BY <1>1, <1>2 DEF RouteUp, Steady
  <2>. QED
    BY <2>1, SteadyKeeps
<1>3. CASE room
  <2> DEFINE m == LineMsg(k, Head(up[k]))
             N == Len(toHost)
  <2>1. Queued(k, m)
    <3>1. up[k] \in Seq(Lines) /\ up[k] # <<>>
      BY DEF LaneTyped, RoomTyped, RouteUp
    <3>2. m \in Notices /\ m.conn = k
      BY <3>1, QueueParts, MessagesTyped DEF LineMsg
    <3>3. toHost' = Append(toHost, m)
      BY <1>3 DEF RouteUp
    <3>. QED
      BY <1>1, <1>3, <3>2, <3>3 DEF Queued
  <2> HIDE DEF m
  <2>2. /\ N \in Nat /\ DOMAIN toHost = 1 .. N /\ DOMAIN toHost' = 1 .. N + 1
        /\ \A i \in 1 .. N : toHost'[i] = toHost[i] /\ toHost[i].conn \in Conn
        /\ toHost'[N + 1] = m /\ m.conn = k
        /\ \A c : Tells(toHost, c) => Tells(toHost', c)
    BY <2>1, QueuedParts
  <2> HIDE DEF N
  <2>3. Routed(k) /\ who[k] \in Client
    BY <1>1, <1>3 DEF QueueInv, Seated
  <2>4. Seated'
    BY <1>1 DEF QueueInv, Seated, Routed
  <2>5. Accounted'
    <3>1. ASSUME NEW i \in 1 .. N + 1
          PROVE  /\ who[toHost'[i].conn] \in Client
                 /\ \/ Routed(toHost'[i].conn)
                    \/ \E j \in 1 .. N + 1 : j >= i /\ Left(toHost'[j], toHost'[i].conn)
      <4>1. CASE i = N + 1
        BY <2>2, <2>3, <4>1
      <4>2. CASE i \in 1 .. N
        BY <1>3, <2>2, <4>2 DEF QueueInv, Accounted
      <4>. QED
        BY <2>2, <4>1, <4>2
    <3>. QED
      BY <1>1, <2>2, <3>1 DEF Accounted, Routed
  <2>6. InTurn' /\ CameBy'
    BY <1>1, <2>1, <2>2, QueuedInTurn DEF QueueInv, CameBy, Routed
  <2>7. Drained'
    BY <1>1, <2>2 DEF QueueInv, Drained
  <2>. QED
    BY <2>4, <2>5, <2>6, <2>7 DEF QueueInv
<1>. QED
  BY <1>2, <1>3

\* A user leaves its seat, and the notice takes its place.
LEMMA CleanupQueue ==
  ASSUME LaneTyped, QueueInv, NEW k \in Conn, Cleanup(k)
  PROVE  QueueInv'
<1>1. /\ UNCHANGED <<room, who, relay_users, via, bridge>> /\ clients' = clients
      /\ thread[k] = "routing" /\ thread' = [thread EXCEPT ![k] = "ended"]
      /\ DOMAIN members' = DOMAIN members \ {who[k]}
      /\ \A u \in DOMAIN members' : members'[u] = members[u]
      /\ thread \in [Conn -> {"claiming", "routing", "ended"}]
  BY DEF Cleanup, hostVars, clients, Without, LaneTyped, RoomTyped
<1>2. Seated'
  <2>1. ASSUME NEW c \in Conn, room, thread'[c] = "routing"
        PROVE  Routed(c)'
    <3>1. c # k /\ Routed(c) /\ Routed(k)
      BY <1>1, <2>1 DEF QueueInv, Seated
    <3>2. who[c] # who[k]
      BY <3>1 DEF Routed
    <3>. QED
      BY <1>1, <3>1, <3>2 DEF Routed
  <2>2. ASSUME NEW u \in DOMAIN members'
        PROVE  thread'[members'[u]] = "routing" /\ who'[members'[u]] = u
    <3>1. thread[members[u]] = "routing" /\ who[members[u]] = u /\ members[u] # k
      BY <1>1, <2>2 DEF QueueInv, Seated
    <3>. QED
      BY <1>1, <2>2, <3>1
  <2>. QED
    BY <1>1, <2>1, <2>2 DEF QueueInv, Seated
<1>3. CASE ~room
  <2>1. DOMAIN members = {} /\ toHost' = toHost
    BY <1>3 DEF Cleanup, QueueInv, Seated
  <2>2. Accounted' /\ InTurn' /\ CameBy' /\ Drained'
    BY <1>1, <1>3, <2>1 DEF QueueInv, Accounted, InTurn, CameBy, Drained, Tells
  <2>. QED
    BY <1>2, <2>2 DEF QueueInv
<1>4. CASE room
  <2> DEFINE m == LeftMsg(k)
             N == Len(toHost)
  <2>1. Routed(k) /\ who[k] \in Client
    BY <1>1, <1>4 DEF QueueInv, Seated
  <2>2. Queued(k, m)
    <3>1. m \in Notices /\ m.conn = k
      BY MessagesTyped DEF LeftMsg
    <3>2. toHost' = Append(toHost, m)
      BY <2>1 DEF Cleanup, Routed
    <3>. QED
      BY <1>1, <1>4, <3>1, <3>2 DEF Queued
  <2>3. Left(m, k)
    BY DEF Left, LeftMsg
  <2> HIDE DEF m
  <2>4. /\ N \in Nat /\ DOMAIN toHost = 1 .. N /\ DOMAIN toHost' = 1 .. N + 1
        /\ \A i \in 1 .. N : toHost'[i] = toHost[i] /\ toHost[i].conn \in Conn
        /\ toHost'[N + 1] = m /\ m.conn = k
        /\ \A c : Tells(toHost, c) => Tells(toHost', c)
    BY <2>2, QueuedParts
  <2>5. N + 1 \in DOMAIN toHost' /\ Tells(toHost', k)
    BY <2>3, <2>4 DEF Tells
  <2> HIDE DEF N
  <2>6. ASSUME NEW c \in Conn, Routed(c), c # k
        PROVE  Routed(c)'
    <3>1. who[c] # who[k]
      BY <2>1, <2>6 DEF Routed
    <3>. QED
      BY <1>1, <2>6, <3>1 DEF Routed
  <2>7. Accounted'
    <3>1. ASSUME NEW i \in 1 .. N + 1
          PROVE  /\ who'[toHost'[i].conn] \in Client
                 /\ \/ Routed(toHost[i].conn)'
                    \/ \E j \in 1 .. N + 1 : j >= i /\ Left(toHost'[j], toHost'[i].conn)
      <4>1. PICK c \in Conn : c = toHost'[i].conn
        BY <2>4
      <4>2. CASE c = k
        BY <1>1, <2>1, <2>3, <2>4, <4>1, <4>2
      <4>3. CASE c # k
        <5>1. i \in 1 .. N /\ c = toHost[i].conn
          BY <2>4, <4>1, <4>3
        <5>2. who[c] \in Client /\ (Routed(c) \/ \E j \in 1 .. N : j >= i /\ Left(toHost[j], c))
          BY <1>4, <2>4, <5>1 DEF QueueInv, Accounted
        <5>3. Routed(c)' \/ \E j \in 1 .. N + 1 : j >= i /\ Left(toHost'[j], c)
          BY <2>4, <2>6, <4>3, <5>2
        <5>. QED
          BY <1>1, <4>1, <5>2, <5>3 DEF Routed
      <4>. QED
        BY <4>2, <4>3
    <3>. QED
      BY <2>4, <3>1 DEF Accounted, Routed
  <2>8. CameBy'
    <3>1. ASSUME NEW v \in clients
          PROVE  /\ via'[v] \in Conn /\ who'[via'[v]] = v
                 /\ Routed(via[v])' \/ Tells(toHost', via'[v])
      <4>1. PICK c \in Conn : c = via[v] /\ who[c] = v /\ (Routed(c) \/ Tells(toHost, c))
        BY <1>4 DEF QueueInv, CameBy
      <4>2. Routed(c)' \/ Tells(toHost', c)
        BY <2>4, <2>5, <2>6, <4>1
      <4>. QED
        BY <1>1, <4>1, <4>2 DEF Routed
    <3>. QED
      BY <1>1, <2>2, <3>1, QueuedInTurn DEF CameBy
  <2>9. InTurn'
    BY <2>2, QueuedInTurn
  <2>10. Drained'
    <3>1. ASSUME NEW u \in relay_users
          PROVE  u \in DOMAIN members' \/ \E c \in Conn : who'[c] = u /\ Tells(toHost', c)
      <4>1. CASE u = who[k]
        BY <1>1, <2>5, <4>1
      <4>2. CASE u # who[k]
        BY <1>1, <1>4, <2>4, <4>2 DEF QueueInv, Drained
      <4>. QED
        BY <4>1, <4>2
    <3>. QED
      BY <1>1, <3>1 DEF Drained
  <2>. QED
    BY <1>2, <2>7, <2>8, <2>9, <2>10 DEF QueueInv
<1>. QED
  BY <1>3, <1>4

\* The bridge reads the first entry f, of connection k of user u.
Heads(f, k, u) ==
  /\ bridge /\ toHost # <<>> /\ f = Head(toHost) /\ k = f.conn /\ u = who[k]
  /\ toHost' = Tail(toHost)
  /\ UNCHANGED <<room, members, thread, who, bridge>>

\* A notice of a connection other than one that f tells of is still to come,
\* one place earlier.
Ahead(f, c) ==
  /\ Tells(toHost, c) => Tells(toHost', c)
  /\ \A i \in DOMAIN toHost' :
       (\E j \in DOMAIN toHost : j < i + 1 /\ Left(toHost[j], c)) =>
         \E j \in DOMAIN toHost' : j < i /\ Left(toHost'[j], c)

\* The queue without its first entry.
LEMMA HeadsParts ==
  ASSUME LaneTyped, QueueInv, NEW f, NEW k, NEW u, Heads(f, k, u)
  PROVE  /\ Len(toHost) \in Nat /\ Len(toHost) > 0 /\ DOMAIN toHost = 1 .. Len(toHost)
         /\ DOMAIN toHost' = 1 .. Len(toHost) - 1
         /\ \A i \in 1 .. Len(toHost) - 1 : toHost'[i] = toHost[i + 1] /\ toHost[i + 1].conn \in Conn
         /\ f = toHost[1] /\ k \in Conn /\ u \in Client /\ f \in Notices
         /\ \A c : ~Left(f, c) => Ahead(f, c)
<1> DEFINE N == Len(toHost)
<1>1. toHost \in Seq(Notices) /\ toHost # <<>>
  BY DEF LaneTyped, BridgeTyped, Heads
<1>2. /\ N \in Nat /\ N > 0 /\ DOMAIN toHost = 1 .. N /\ DOMAIN toHost' = 1 .. N - 1
      /\ \A i \in 1 .. N - 1 : toHost'[i] = toHost[i + 1]
      /\ f = toHost[1] /\ f \in Notices
  BY <1>1, QueueParts DEF Heads
<1>3. \A i \in 1 .. N : toHost[i].conn \in Conn
  BY <1>1, <1>2, MessagesTyped
<1> HIDE DEF N
<1>4. 1 \in 1 .. N /\ \A i \in 1 .. N - 1 : i + 1 \in 1 .. N
  BY <1>2
<1>5. k \in Conn /\ u \in Client
  BY <1>2, <1>3, <1>4 DEF Heads, QueueInv, Accounted
<1>6. ASSUME NEW c, ~Left(f, c)
      PROVE  Ahead(f, c)
  <2>1. ASSUME NEW j \in 1 .. N, Left(toHost[j], c)
        PROVE  j - 1 \in 1 .. N - 1 /\ Left(toHost'[j - 1], c)
    <3>1. j # 1
      BY <1>2, <1>6, <2>1
    <3>2. j - 1 \in 1 .. N - 1 /\ (j - 1) + 1 = j
      BY <1>2, <3>1
    <3>. QED
      BY <1>2, <2>1, <3>2
  <2>2. Tells(toHost, c) => Tells(toHost', c)
    BY <1>2, <2>1 DEF Tells
  <2>3. ASSUME NEW i \in 1 .. N - 1, NEW j \in 1 .. N, j < i + 1, Left(toHost[j], c)
        PROVE  \E h \in 1 .. N - 1 : h < i /\ Left(toHost'[h], c)
    <3>1. j - 1 \in 1 .. N - 1 /\ Left(toHost'[j - 1], c) /\ j - 1 < i
      BY <1>2, <2>1, <2>3
    <3>. QED
      BY <3>1
  <2>. QED
    BY <1>2, <2>2, <2>3 DEF Ahead
<1>. QED
  BY <1>2, <1>3, <1>4, <1>5, <1>6

\* What stays in the queue stays in order.
LEMMA HeadsInOrder ==
  ASSUME LaneTyped, QueueInv, NEW f, NEW k, NEW u, Heads(f, k, u)
  PROVE  Seated' /\ Accounted' /\ InTurn'
<1> DEFINE N == Len(toHost)
<1>1. /\ N \in Nat /\ N > 0 /\ DOMAIN toHost = 1 .. N /\ DOMAIN toHost' = 1 .. N - 1
      /\ \A i \in 1 .. N - 1 : toHost'[i] = toHost[i + 1]
  BY HeadsParts
<1> HIDE DEF N
<1>2. \A i \in 1 .. N - 1 : i + 1 \in 1 .. N
  BY <1>1
<1>3. Seated'
  BY DEF Heads, QueueInv, Seated, Routed
<1>4. Accounted'
  <2>1. ASSUME NEW i \in 1 .. N - 1
        PROVE  /\ who[toHost'[i].conn] \in Client
               /\ room => \/ Routed(toHost'[i].conn)
                          \/ \E j \in 1 .. N - 1 : j >= i /\ Left(toHost'[j], toHost'[i].conn)
    <3>1. /\ who[toHost[i + 1].conn] \in Client
          /\ room => \/ Routed(toHost[i + 1].conn)
                     \/ \E j \in 1 .. N : j >= i + 1 /\ Left(toHost[j], toHost[i + 1].conn)
      BY <1>1, <1>2 DEF QueueInv, Accounted
    <3>2. ASSUME NEW j \in 1 .. N, j >= i + 1, Left(toHost[j], toHost[i + 1].conn)
          PROVE  j - 1 \in 1 .. N - 1 /\ j - 1 >= i /\ Left(toHost'[j - 1], toHost'[i].conn)
      <4>1. j - 1 \in 1 .. N - 1 /\ j - 1 >= i /\ (j - 1) + 1 = j
        BY <1>1, <3>2
      <4>. QED
        BY <1>1, <3>2, <4>1
    <3>. QED
      BY <1>1, <3>1, <3>2
  <2>. QED
    BY <1>1, <2>1 DEF Accounted, Heads, Routed
<1>5. InTurn'
  <2>1. SUFFICES ASSUME NEW i \in 1 .. N - 1, NEW j \in 1 .. N - 1, i < j,
                        who[toHost'[i].conn] = who[toHost'[j].conn],
                        toHost'[i].conn # toHost'[j].conn
                 PROVE  \E h \in 1 .. N - 1 : i <= h /\ h < j /\ Left(toHost'[h], toHost'[i].conn)
    BY <1>1 DEF InTurn, Heads
  <2>2. PICK m \in 1 .. N : i + 1 <= m /\ m < j + 1 /\ Left(toHost[m], toHost[i + 1].conn)
    <3>1. i + 1 \in 1 .. N /\ j + 1 \in 1 .. N /\ i + 1 < j + 1
      BY <1>1, <1>2, <2>1
    <3>. QED
      BY <1>1, <2>1, <3>1 DEF QueueInv, InTurn
  <2>3. m - 1 \in 1 .. N - 1 /\ i <= m - 1 /\ m - 1 < j /\ (m - 1) + 1 = m
    BY <1>1, <2>2
  <2>. QED
    BY <1>1, <2>2, <2>3
<1>. QED
  BY <1>3, <1>4, <1>5

\* The others of the core came as they did.
LEMMA HeadsOthers ==
  ASSUME LaneTyped, QueueInv, NEW f, NEW k, NEW u, Heads(f, k, u),
         NEW v \in clients, ~Left(f, via[v])
  PROVE  /\ via[v] \in Conn /\ who[via[v]] = v
         /\ Routed(via[v]) \/ Tells(toHost', via[v])
         /\ \A i \in DOMAIN toHost' :
              who[toHost'[i].conn] = v /\ toHost'[i].conn # via[v] =>
                \E j \in DOMAIN toHost' : j < i /\ Left(toHost'[j], via[v])
<1> DEFINE N == Len(toHost)
<1>1. /\ N \in Nat /\ N > 0 /\ DOMAIN toHost = 1 .. N /\ DOMAIN toHost' = 1 .. N - 1
      /\ \A i \in 1 .. N - 1 : toHost'[i] = toHost[i + 1]
      /\ Ahead(f, via[v])
  BY HeadsParts
<1> HIDE DEF N
<1>2. \A i \in 1 .. N - 1 : i + 1 \in 1 .. N
  BY <1>1
<1>3. room
  BY DEF Heads, QueueInv, Seated
<1>4. ASSUME NEW i \in 1 .. N - 1, who[toHost'[i].conn] = v, toHost'[i].conn # via[v]
      PROVE  \E j \in 1 .. N - 1 : j < i /\ Left(toHost'[j], via[v])
  <2>1. \E j \in 1 .. N : j < i + 1 /\ Left(toHost[j], via[v])
    BY <1>1, <1>2, <1>4 DEF QueueInv, CameBy
  <2>. QED
    BY <1>1, <2>1 DEF Ahead
<1>. QED
  BY <1>1, <1>3, <1>4 DEF QueueInv, CameBy, Ahead

\* The user of a line that is read: its connection routes, or the rest of the
\* queue tells that it left.
LEMMA HeadsReader ==
  ASSUME LaneTyped, QueueInv, NEW f, NEW k, NEW u, Heads(f, k, u), f.type # "left"
  PROVE  /\ Routed(k) \/ Tells(toHost', k)
         /\ \A i \in DOMAIN toHost' :
              who[toHost'[i].conn] = u /\ toHost'[i].conn # k =>
                \E j \in DOMAIN toHost' : j < i /\ Left(toHost'[j], k)
<1> DEFINE N == Len(toHost)
<1>1. ~Left(f, k)
  BY DEF Left
<1>2. /\ N \in Nat /\ N > 0 /\ DOMAIN toHost = 1 .. N /\ DOMAIN toHost' = 1 .. N - 1
      /\ \A i \in 1 .. N - 1 : toHost'[i] = toHost[i + 1]
      /\ f = toHost[1] /\ Ahead(f, k)
  BY <1>1, HeadsParts
<1> HIDE DEF N
<1>3. 1 \in 1 .. N /\ \A i \in 1 .. N - 1 : i + 1 \in 1 .. N /\ 1 < i + 1
  BY <1>2
<1>4. toHost[1].conn = k /\ who[k] = u /\ room
  BY <1>2 DEF Heads, QueueInv, Seated
<1>5. Routed(k) \/ Tells(toHost, k)
  BY <1>2, <1>3, <1>4 DEF QueueInv, Accounted, Tells
<1>6. ASSUME NEW i \in 1 .. N - 1, who[toHost'[i].conn] = u, toHost'[i].conn # k
      PROVE  \E j \in 1 .. N - 1 : j < i /\ Left(toHost'[j], k)
  <2>1. who[toHost[i + 1].conn] = who[toHost[1].conn] /\ toHost[i + 1].conn # toHost[1].conn
    BY <1>2, <1>4, <1>6
  <2>2. \E m \in 1 .. N : 1 <= m /\ m < i + 1 /\ Left(toHost[m], toHost[1].conn)
    BY <1>2, <1>3, <2>1 DEF QueueInv, InTurn
  <2>. QED
    BY <1>2, <1>4, <2>2 DEF Ahead
<1>. QED
  BY <1>2, <1>5, <1>6 DEF Ahead

\* Those who know of a user, after its notice or its line.
LEMMA HeadsKnown ==
  ASSUME LaneTyped, QueueInv, NEW f, NEW k, NEW u, Heads(f, k, u),
         \/ f.type = "left" /\ relay_users' \subseteq relay_users \ {u}
         \/ f.type # "left" /\ relay_users' \subseteq relay_users \cup {u}
  PROVE  Drained'
<1>1. room /\ k \in Conn /\ who[k] = u /\ (\A c : ~Left(f, c) => Ahead(f, c)) /\ k = f.conn
  BY HeadsParts DEF Heads, QueueInv, Seated
<1>2. ASSUME NEW v \in relay_users, f.type = "left" => v # u
      PROVE  v \in DOMAIN members \/ \E c \in Conn : who[c] = v /\ Tells(toHost', c)
  <2>1. \A c : who[c] = v /\ Left(f, c) => FALSE
    BY <1>1, <1>2 DEF Left
  <2>. QED
    BY <1>1, <1>2, <2>1 DEF QueueInv, Drained, Ahead
<1>3. f.type # "left" => u \in DOMAIN members \/ \E c \in Conn : who[c] = u /\ Tells(toHost', c)
  BY <1>1, HeadsReader DEF Routed
<1>4. ASSUME NEW v \in relay_users'
      PROVE  v \in DOMAIN members \/ \E c \in Conn : who[c] = v /\ Tells(toHost', c)
  BY <1>2, <1>3, <1>4
<1>. QED
  BY <1>4 DEF Drained, Heads

\* One turn of the bridge's route loop: a notice takes its user out of the
\* core, a Hello brings its user in, by the connection it came over.
LEMMA HostReadQueue ==
  ASSUME LaneTyped, QueueInv, HostRead
  PROVE  QueueInv'
<1> DEFINE f == Head(toHost)
           k == f.conn
           u == who[k]
<1>1. Heads(f, k, u)
  BY DEF Heads, HostRead, relayVars
<1>2. k \in Conn /\ u \in Client /\ f \in Notices
  BY <1>1, HeadsParts
<1>3. IF f.type = "left" THEN LeaveBridge(u) ELSE HandleLine(k, u, f.msg)
  BY DEF HostRead
<1> HIDE DEF f, k, u
<1>4. Seated' /\ Accounted' /\ InTurn'
  BY <1>1, HeadsInOrder
<1>5. u = who[k] /\ k = f.conn /\ UNCHANGED <<room, members, who>>
  BY <1>1 DEF Heads
<1>6. Drained'
  <2>1. \/ f.type = "left" /\ relay_users' \subseteq relay_users \ {u}
        \/ f.type # "left" /\ relay_users' \subseteq relay_users \cup {u}
    BY <1>3 DEF LeaveBridge, HandleLine
  <2>. QED
    BY <1>1, <2>1, HeadsKnown
<1>7. ASSUME NEW v \in clients, f.type = "left" => v # u, via'[v] = via[v]
      PROVE  /\ via'[v] \in Conn /\ who[via'[v]] = v
             /\ Routed(via'[v]) \/ Tells(toHost', via'[v])
             /\ \A i \in DOMAIN toHost' :
                  who[toHost'[i].conn] = v /\ toHost'[i].conn # via'[v] =>
                    \E j \in DOMAIN toHost' : j < i /\ Left(toHost'[j], via'[v])
  <2>1. who[via[v]] = v
    BY <1>1 DEF QueueInv, CameBy, Heads, Seated
  <2>2. ~Left(f, via[v])
    BY <1>5, <1>7, <2>1 DEF Left
  <2>. QED
    BY <1>1, <1>7, <2>2, HeadsOthers
<1>8. \/ UNCHANGED via /\ clients' \subseteq clients /\ (f.type = "left" => u \notin clients')
      \/ f.type # "left" /\ clients' = clients \cup {u} /\ via' = [via EXCEPT ![u] = k]
  <2>1. CASE f.type = "left"
    BY <1>2, <1>3, <2>1, ClientsAfter DEF LeaveBridge, LaneTyped
  <2>2. CASE f.type # "left"
    <3>1. HandleLine(k, u, f.msg)
      BY <1>3, <2>2
    <3>2. CASE \E n \in Name : HandleHello(u, n) /\ via' = [via EXCEPT ![u] = k]
      BY <1>2, <2>2, <3>2, ClientsAfter DEF LaneTyped
    <3>3. CASE UNCHANGED roster /\ UNCHANGED via
      BY <2>2, <3>3, ClientsAfter DEF LaneTyped
    <3>. QED
      BY <3>1, <3>2, <3>3 DEF HandleLine, HandleAction, hostVars
  <2>. QED
    BY <2>1, <2>2
<1>9. ASSUME NEW v \in clients'
      PROVE  /\ via'[v] \in Conn /\ who[via'[v]] = v
             /\ Routed(via'[v]) \/ Tells(toHost', via'[v])
             /\ \A i \in DOMAIN toHost' :
                  who[toHost'[i].conn] = v /\ toHost'[i].conn # via'[v] =>
                    \E j \in DOMAIN toHost' : j < i /\ Left(toHost'[j], via'[v])
  <2>1. CASE v \in clients /\ via'[v] = via[v] /\ (f.type = "left" => v # u)
    BY <1>7, <2>1
  <2>2. CASE f.type # "left" /\ v = u /\ via'[v] = k
    <3>1. /\ Routed(k) \/ Tells(toHost', k)
          /\ \A i \in DOMAIN toHost' :
               who[toHost'[i].conn] = u /\ toHost'[i].conn # k =>
                 \E j \in DOMAIN toHost' : j < i /\ Left(toHost'[j], k)
      BY <1>1, <2>2, HeadsReader
    <3>. QED
      BY <1>2, <1>5, <2>2, <3>1
  <2>3. via \in [Client -> Conn \cup {None}] /\ clients \subseteq Client
    BY ClientsFacts DEF LaneTyped, BridgeTyped
  <2>. QED
    BY <1>2, <1>8, <1>9, <2>1, <2>2, <2>3
<1>10. CameBy'
  <2>1. ASSUME NEW v \in clients'
        PROVE  Routed(via'[v]) => Routed(via[v])'
    BY <1>5 DEF Routed
  <2>. QED
    BY <1>5, <1>9, <2>1 DEF CameBy
<1>. QED
  BY <1>4, <1>6, <1>10 DEF QueueInv

\* Every step keeps the queue in order.
LEMMA QueueStep ==
  ASSUME LaneTyped, QueueInv, RelayNext
  PROVE  QueueInv'
<1>1. CASE RouteDown \/ Pump \/ HostEdit \/ SwapDocument \/ HostLeave \/ HostLinkBreaks
  <2>1. Steady
    BY <1>1, SteadySteps DEF LaneTyped
  <2>. QED
    BY <2>1, SteadyKeeps
<1>2. CASE RoomCloses \/ HostRead
  BY <1>2, RoomClosesQueue, HostReadQueue
<1>3. ASSUME NEW k \in Conn, Claim(k) \/ RouteUp(k) \/ Cleanup(k) \/ PingRefused(k)
      PROVE  QueueInv'
  BY <1>3, ClaimQueue, RouteUpQueue, CleanupQueue, PingRefusedQueue
<1>4. ASSUME NEW k \in Conn, Break(k) \/ HalfOpenEnds(k)
      PROVE  QueueInv'
  <2>1. Steady
    BY <1>4, SteadySteps DEF LaneTyped
  <2>. QED
    BY <2>1, SteadyKeeps
<1>5. ASSUME NEW u \in Client, ReadDown(u) \/ LinkLost(u) \/ HandshakeTimeout(u) \/ Edit(u)
                               \/ Publish(u) \/ AfterEnd(u) \/ Silence(u)
      PROVE  QueueInv'
  <2>1. Steady
    BY <1>5, SteadySteps DEF LaneTyped
  <2>. QED
    BY <2>1, SteadyKeeps
<1>6. ASSUME NEW u \in Client, Dial(u)
      PROVE  QueueInv'
  BY <1>6, DialQueue
<1>. QED
  BY <1>1, <1>2, <1>3, <1>4, <1>5, <1>6 DEF RelayNext
-----------------------------------------------------------------------------
(* The members.                                                            *)

\* At the start the room is empty and nothing is queued.
LEMMA LaneInvInit ==
  ASSUME RelayInit
  PROVE  LaneInv
<1>1. TypeOK
  BY TypeInit DEF RelayInit
<1>2. clients = {}
  BY DEF RelayInit, Init, clients
<1>3. RoomTyped
  BY DEF RelayInit, RoomTyped
<1>4. BridgeTyped
  <2>1. IsFiniteSet({})
    BY FS_EmptySet
  <2>2. \A u \in Client : taken[u] <= Len(sent[u])
    <3>1. ASSUME NEW u \in Client
          PROVE  taken[u] <= Len(sent[u])
      <4>1. taken[u] = 0 /\ sent[u] = <<>>
        BY DEF RelayInit, Init
      <4>2. Len(sent[u]) = 0
        BY <4>1, EmptySeq
      <4>. QED
        BY <4>1, <4>2
    <3>. QED
      BY <3>1
  <2>. QED
    BY <2>1, <2>2 DEF RelayInit, BridgeTyped
<1>5. AppsTyped
  <2>1. Solo \in Apps /\ Solo.mode \notin Holding
    BY DEF Solo, Apps, Modes, Holding
  <2>. QED
    BY <2>1 DEF RelayInit, AppsTyped
<1>6. Seated
  BY DEF RelayInit, Seated
<1>7. Accounted /\ InTurn /\ CameBy /\ Drained
  BY <1>2 DEF RelayInit, Accounted, InTurn, CameBy, Drained
<1>. QED
  BY <1>1, <1>3, <1>4, <1>5, <1>6, <1>7 DEF LaneInv, LaneTyped

\* What the order of the queue says of the members.
LEMMA LaneInvAgrees ==
  ASSUME LaneInv
  PROVE  MembersAgree
<1>1. RelayTypeOK
  <2>1. \A u \in Client : taken[u] \in 0 .. Len(sent[u])
    <3>1. ASSUME NEW u \in Client
          PROVE  taken[u] \in 0 .. Len(sent[u])
      <4>1. PICK n \in Nat : n = Len(sent[u])
        BY ClientsFacts, LenProperties DEF LaneInv, LaneTyped
      <4>2. taken[u] \in Nat /\ taken[u] <= Len(sent[u])
        BY DEF LaneInv, LaneTyped, BridgeTyped
      <4>. QED
        BY <4>1, <4>2
    <3>. QED
      BY <3>1
  <2>2. \A i \in DOMAIN toHost : toHost[i].conn \in Conn /\ toHost[i].type \in {"line", "left"}
    BY MessagesTyped DEF LaneInv, LaneTyped, BridgeTyped
  <2>3. \A u \in Client : /\ app[u].mode \in Modes
                          /\ app[u].conn \in Conn \cup {None}
    BY DEF LaneInv, LaneTyped, AppsTyped, Apps
  <2>. QED
    BY <2>1, <2>2, <2>3 DEF RelayTypeOK, LaneInv, LaneTyped, RoomTyped, BridgeTyped, Modes
<1>2. NoGhostMember
  <2>1. SUFFICES ASSUME room, bridge, toHost = <<>>
                 PROVE  clients \subseteq DOMAIN members /\ relay_users \subseteq DOMAIN members
    BY DEF NoGhostMember
  <2>2. \A k : ~Tells(toHost, k)
    BY <2>1 DEF Tells
  <2>. QED
    BY <2>1, <2>2 DEF LaneInv, CameBy, Drained, Routed
<1>3. LeftIsOwn
  <2> DEFINE f == Head(toHost)
  <2>1. SUFFICES ASSUME toHost # <<>>, f.type = "left", who[f.conn] \in clients
                 PROVE  via[who[f.conn]] = f.conn
    BY DEF LeftIsOwn, IsConnected
  <2>2. toHost \in Seq(Notices)
    BY DEF LaneInv, LaneTyped, BridgeTyped
  <2>3. f = toHost[1] /\ Len(toHost) \in Nat /\ DOMAIN toHost = 1 .. Len(toHost) /\ 1 \in DOMAIN toHost
    BY <2>1, <2>2, QueueParts
  <2>4. \A j \in DOMAIN toHost : ~(j < 1)
    BY <2>3
  <2>. QED
    BY <2>1, <2>3, <2>4 DEF LaneInv, CameBy
<1>. QED
  BY <1>1, <1>2, <1>3 DEF MembersAgree

\* On every run of the lane: the relay's seats, the order of the host's queue
\* and what the bridge and the core know fit together.
THEOREM LaneInOrder == RelaySpec => []LaneInv
<1>1. RelayInit => LaneInv
  BY LaneInvInit
<1>2. LaneInv /\ [RelayNext]_vars => LaneInv'
  <2>1. ASSUME LaneInv, RelayNext
        PROVE  LaneInv'
    BY <2>1, LaneTypedStep, QueueStep DEF LaneInv, QueueInv
  <2>2. ASSUME LaneInv, UNCHANGED vars
        PROVE  LaneInv'
    <3>1. UNCHANGED <<relayVars, bridgeVars, app>> /\ UNCHANGED hostVars
      BY <2>2 DEF vars
    <3>2. TypeOK' /\ RoomTyped' /\ AppsTyped' /\ BridgeTyped'
      BY <2>2, <3>1 DEF LaneInv, LaneTyped, TypeOK, RoomTyped, BridgeTyped, AppsTyped,
                        hostVars, relayVars, bridgeVars, clients
    <3>3. Steady
      BY <3>1, ClientsAfter DEF Steady, hostVars, relayVars, bridgeVars, clients
    <3>. QED
      BY <2>2, <3>2, <3>3, SteadyKeeps DEF LaneInv, LaneTyped, QueueInv
  <2>. QED
    BY <2>1, <2>2
<1>. QED
  BY <1>1, <1>2, PTL DEF RelaySpec

\* The relay's members, the bridge's users and the clients of the core: none of
\* the latter two is a ghost once the queue is read, and a late notice of a
\* departure never ends a later membership.
THEOREM MembersAgreeCorrect == RelaySpec => []MembersAgree
<1>1. LaneInv => MembersAgree
  BY LaneInvAgrees
<1>. QED
  BY <1>1, LaneInOrder, PTL

-----------------------------------------------------------------------------
(* Mail: what a queue of frames, or a queue of the core, holds for a user. *)

Addressed(fs, u) == [i \in DOMAIN fs |-> IF fs[i].to = u THEN <<fs[i].msg>> ELSE <<>>]
Mail(fs, u) == Flat(Addressed(fs, u))

ReadOf(s, n) == [i \in DOMAIN s |-> IF i > n /\ Relevant(s[i]) THEN <<s[i]>> ELSE <<>>]
Kept(s, n) == Flat(ReadOf(s, n))

\* The mail of two queues, and of one frame.
LEMMA MailIs ==
  ASSUME NEW u, NEW fs \in Seq(Frames)
  PROVE  /\ Mail(<<>>, u) = <<>>
         /\ Mail(fs, u) \in Seq(Answers)
         /\ \A gs \in Seq(Frames) : Mail(fs \o gs, u) = Mail(fs, u) \o Mail(gs, u)
         /\ \A f \in Frames : Mail(Append(fs, f), u) =
              IF f.to = u THEN Append(Mail(fs, u), f.msg) ELSE Mail(fs, u)
<1> DEFINE V == Seq(Answers)
<1>1. ASSUME NEW gs \in Seq(Frames)
      PROVE  Addressed(gs, u) \in Seq(V) /\ Len(Addressed(gs, u)) = Len(gs)
  <2>1. \A i \in 1 .. Len(gs) : gs[i] \in Frames
    OBVIOUS
  <2>2. \A f \in Frames : (IF f.to = u THEN <<f.msg>> ELSE <<>>) \in V
    BY DEF Frames
  <2>3. DOMAIN gs = 1 .. Len(gs) /\ Len(gs) \in Nat
    OBVIOUS
  <2> DEFINE e(i) == IF gs[i].to = u THEN <<gs[i].msg>> ELSE <<>>
  <2>4. \A i \in 1 .. Len(gs) : e(i) \in V
    BY <2>1, <2>2
  <2>5. Addressed(gs, u) = [i \in 1 .. Len(gs) |-> e(i)]
    BY <2>3 DEF Addressed
  <2> HIDE DEF V, e
  <2>. QED
    BY <2>3, <2>4, <2>5
<1>2. Mail(<<>>, u) = <<>>
  <2>1. Addressed(<<>>, u) = <<>>
    BY DEF Addressed
  <2>. QED
    BY <2>1, FlatConcat, EmptySeq DEF Mail
<1>3. Mail(fs, u) \in Seq(Answers)
  BY <1>1, FlatConcat, FlatAppend, EmptySeq DEF Mail
<1>4. ASSUME NEW gs \in Seq(Frames)
      PROVE  Mail(fs \o gs, u) = Mail(fs, u) \o Mail(gs, u)
  <2> DEFINE a == Addressed(fs, u) b == Addressed(gs, u) c == Addressed(fs \o gs, u)
  <2>1. a \in Seq(V) /\ b \in Seq(V) /\ c \in Seq(V) /\ Len(a) = Len(fs) /\ Len(b) = Len(gs)
        /\ Len(c) = Len(fs) + Len(gs)
    BY <1>1, ConcatProperties
  <2>2. /\ \A i \in 1 .. Len(fs) : a[i] = IF fs[i].to = u THEN <<fs[i].msg>> ELSE <<>>
        /\ \A i \in 1 .. Len(gs) : b[i] = IF gs[i].to = u THEN <<gs[i].msg>> ELSE <<>>
        /\ \A i \in 1 .. Len(fs) + Len(gs) :
             c[i] = IF (fs \o gs)[i].to = u THEN <<(fs \o gs)[i].msg>> ELSE <<>>
    BY JoinedPlaces DEF Addressed
  <2>3. /\ Len(fs) \in Nat /\ Len(gs) \in Nat
        /\ \A i \in 1 .. Len(fs) + Len(gs) :
             (fs \o gs)[i] = IF i <= Len(fs) THEN fs[i] ELSE gs[i - Len(fs)]
    BY ConcatProperties
  <2>4. PICK m \in Nat, n \in Nat : m = Len(fs) /\ n = Len(gs)
    BY <2>3
  <2> DEFINE d == a \o b h == fs \o gs
  <2> HIDE DEF a, b, c, V
  <2>5. d \in Seq(V) /\ Len(d) = m + n
        /\ \A i \in 1 .. m + n : d[i] = IF i <= m THEN a[i] ELSE b[i - m]
    <3>1. d \in Seq(V) /\ Len(d) = Len(a) + Len(b)
          /\ \A i \in 1 .. Len(a) + Len(b) : d[i] = IF i <= Len(a) THEN a[i] ELSE b[i - Len(a)]
      BY <2>1, ConcatProperties
    <3>. QED
      BY <2>1, <2>4, <3>1
  <2> HIDE DEF d, h
  <2>55. ASSUME NEW i \in 1 .. m + n
        PROVE  c[i] = d[i]
    <3>0. /\ c[i] = IF h[i].to = u THEN <<h[i].msg>> ELSE <<>>
          /\ h[i] = IF i <= m THEN fs[i] ELSE gs[i - m]
      BY <2>2, <2>3, <2>4 DEF h
    <3>1. CASE i <= m
      <4>1. i \in 1 .. m
        BY <3>1
      <4>2. a[i] = IF fs[i].to = u THEN <<fs[i].msg>> ELSE <<>>
        BY <2>2, <2>4, <4>1
      <4>. QED
        BY <2>5, <3>0, <3>1, <4>2
    <3>2. CASE i > m
      <4>1. i - m \in 1 .. n /\ ~(i <= m)
        BY <3>2
      <4>2. b[i - m] = IF gs[i - m].to = u THEN <<gs[i - m].msg>> ELSE <<>>
        BY <2>2, <2>4, <4>1
      <4>. QED
        BY <2>5, <3>0, <4>1, <4>2
    <3>. QED
      BY <3>1, <3>2
  <2>6. c = a \o b
    <3>1. Len(c) = m + n
      BY <2>1, <2>4
    <3>. QED
      BY <2>1, <2>5, <2>55, <3>1, SeqEqual DEF d
  <2>7. Flat(a \o b) = Flat(a) \o Flat(b)
    BY <2>1, FlatConcat DEF V
  <2>. QED
    BY <2>6, <2>7 DEF Mail, a, b, c
<1>5. ASSUME NEW f \in Frames
      PROVE  Mail(<<f>>, u) = IF f.to = u THEN <<f.msg>> ELSE <<>>
  <2> DEFINE x == IF f.to = u THEN <<f.msg>> ELSE <<>>
  <2>1. Addressed(<<f>>, u) = <<x>>
    BY DEF Addressed
  <2>2. x \in V
    BY DEF Frames
  <2>3. Append(<<>>, x) = <<x>> /\ <<>> \in Seq(V)
    OBVIOUS
  <2> HIDE DEF x
  <2>4. Flat(Append(<<>>, x)) = Flat(<<>>) \o x /\ Flat(<<>>) = <<>>
    BY <2>2, <2>3, FlatAppend, FlatConcat
  <2>5. <<>> \o x = x
    BY <2>2, ConcatEmptySeq
  <2>. QED
    BY <2>1, <2>3, <2>4, <2>5 DEF Mail, x
<1>6. ASSUME NEW f \in Frames
      PROVE  Mail(Append(fs, f), u) =
               IF f.to = u THEN Append(Mail(fs, u), f.msg) ELSE Mail(fs, u)
  <2>1. Append(fs, f) = fs \o <<f>> /\ <<f>> \in Seq(Frames)
    BY AppendIsConcat
  <2>2. Mail(Append(fs, f), u) = Mail(fs, u) \o Mail(<<f>>, u)
    BY <1>4, <2>1
  <2>3. Mail(fs, u) \o <<>> = Mail(fs, u)
    BY <1>3, ConcatEmptySeq
  <2>4. f.msg \in Answers
    BY DEF Frames
  <2>5. Mail(fs, u) \o <<f.msg>> = Append(Mail(fs, u), f.msg)
    BY <1>3, <2>4, AppendIsConcat
  <2>. QED
    BY <1>5, <2>2, <2>3, <2>5
<1>. QED
  BY <1>2, <1>3, <1>4, <1>6

\* A queue that holds no frame of a user holds no mail for it.
LEMMA NoMail ==
  ASSUME NEW u, NEW fs \in Seq(Frames), \A i \in DOMAIN fs : fs[i].to # u
  PROVE  Mail(fs, u) = <<>>
<1>1. Addressed(fs, u) = [i \in 1 .. Len(fs) |-> <<>>]
  BY DEF Addressed
<1>2. [i \in 1 .. Len(fs) |-> <<>>] \in Seq({<<>>})
  OBVIOUS
<1>. QED
  BY <1>1, <1>2, FlatNone DEF Mail

\* What is read of the first messages of a queue, and of one more.
LEMMA KeptIs ==
  ASSUME NEW s \in Seq(HostMessage), NEW n \in Nat
  PROVE  /\ Kept(<<>>, n) = <<>>
         /\ Kept(s, n) \in Seq(HostMessage)
         /\ \A m \in HostMessage : Kept(Append(s, m), n) =
              IF Len(s) + 1 > n /\ Relevant(m) THEN Append(Kept(s, n), m) ELSE Kept(s, n)
<1> DEFINE V == Seq(HostMessage)
           e(t, i) == IF i > n /\ Relevant(t[i]) THEN <<t[i]>> ELSE <<>>
<1>1. ASSUME NEW t \in Seq(HostMessage)
      PROVE  /\ ReadOf(t, n) \in Seq(V) /\ Len(ReadOf(t, n)) = Len(t)
             /\ ReadOf(t, n) = [i \in 1 .. Len(t) |-> e(t, i)]
  <2>1. \A i \in 1 .. Len(t) : e(t, i) \in V
    OBVIOUS
  <2>2. ReadOf(t, n) = [i \in 1 .. Len(t) |-> e(t, i)] /\ Len(t) \in Nat
    BY DEF ReadOf
  <2> HIDE DEF V, e
  <2>. QED
    BY <2>1, <2>2
<1>2. Kept(<<>>, n) = <<>>
  <2>1. ReadOf(<<>>, n) = <<>>
    BY DEF ReadOf
  <2>. QED
    BY <2>1, FlatConcat, EmptySeq DEF Kept
<1>3. Kept(s, n) \in Seq(HostMessage)
  BY <1>1, FlatAppend, EmptySeq DEF Kept
<1>4. ASSUME NEW m \in HostMessage
      PROVE  Kept(Append(s, m), n) =
              IF Len(s) + 1 > n /\ Relevant(m) THEN Append(Kept(s, n), m) ELSE Kept(s, n)
  <2> DEFINE t == Append(s, m) N == Len(s) x == e(t, N + 1)
  <2>1. t \in Seq(HostMessage) /\ Len(t) = N + 1 /\ t[N + 1] = m /\ N \in Nat
        /\ \A i \in 1 .. N : t[i] = s[i]
    BY AppendProperties
  <2>2. x = IF N + 1 > n /\ Relevant(m) THEN <<m>> ELSE <<>>
    BY <2>1
  <2>3. x \in V
    BY <2>2
  <2>4. \A i \in 1 .. N : e(t, i) = e(s, i)
    BY <2>1
  <2> HIDE DEF t, N, x, V
  <2>5. ReadOf(t, n) = [i \in 1 .. N + 1 |-> e(t, i)] /\ ReadOf(s, n) = [i \in 1 .. N |-> e(s, i)]
        /\ ReadOf(s, n) \in Seq(V) /\ ReadOf(t, n) \in Seq(V)
    BY <1>1, <2>1 DEF N
  <2>6. ReadOf(t, n) = Append(ReadOf(s, n), x)
    <3> DEFINE a == ReadOf(s, n) b == ReadOf(t, n) c == Append(a, x)
    <3>0. Len(a) = N /\ Len(b) = N + 1
      BY <1>1, <2>1 DEF N
    <3>1. /\ c \in Seq(V) /\ Len(c) = N + 1 /\ c[N + 1] = x
          /\ \A i \in 1 .. N : c[i] = a[i]
      <4> HIDE DEF a
      <4>1. a \in Seq(V)
        BY <2>5 DEF a
      <4>. QED
        BY <2>3, <3>0, <4>1, AppendProperties
    <3>2. \A i \in 1 .. N : a[i] = e(s, i) /\ b[i] = e(t, i)
      BY <2>1, <2>5
    <3>3. b[N + 1] = x
      BY <2>1, <2>5 DEF x
    <3> HIDE DEF a, b, c, e
    <3>4. \A i \in 1 .. N + 1 : i \in 1 .. N \/ i = N + 1
      BY <2>1
    <3>5. \A i \in 1 .. Len(b) : b[i] = c[i]
      BY <2>4, <3>0, <3>1, <3>2, <3>3, <3>4
    <3>6. b \in Seq(V)
      BY <2>5 DEF b
    <3>7. b = c
      BY <3>0, <3>1, <3>5, <3>6, SeqEqual
    <3>. QED
      BY <3>7 DEF a, b, c
  <2>7. Flat(Append(ReadOf(s, n), x)) = Flat(ReadOf(s, n)) \o x
    BY <2>3, <2>5, FlatAppend DEF V
  <2>8. Kept(t, n) = Kept(s, n) \o x
    BY <2>6, <2>7 DEF Kept
  <2>9. Kept(s, n) \o <<m>> = Append(Kept(s, n), m) /\ Kept(s, n) \o <<>> = Kept(s, n)
    BY <1>3, AppendIsConcat, ConcatEmptySeq
  <2>. QED
    BY <2>2, <2>8, <2>9 DEF t, N
<1>. QED
  BY <1>2, <1>3, <1>4

\* The first i messages of a queue, and one more.
LEMMA FirstAndNext ==
  ASSUME NEW X, NEW s \in Seq(X), NEW i \in 0 .. Len(s), i < Len(s)
  PROVE  /\ Len(s) \in Nat /\ i + 1 \in 1 .. Len(s) /\ s[i + 1] \in X
         /\ SubSeq(s, 1, i) \in Seq(X) /\ Len(SubSeq(s, 1, i)) = i
         /\ SubSeq(s, 1, i + 1) = Append(SubSeq(s, 1, i), s[i + 1])
         /\ SubSeq(s, 1, 0) = <<>> /\ SubSeq(s, 1, Len(s)) = s
<1>1. Len(s) \in Nat /\ i + 1 \in 1 .. Len(s) /\ s[i + 1] \in X /\ (i + 1) - 1 = i /\ 1 \in 1 .. Len(s)
  OBVIOUS
<1>2. SubSeq(s, 1, i) \in Seq(X) /\ Len(SubSeq(s, 1, i)) = i
  BY <1>1, SubSeqProperties
<1>3. SubSeq(s, 1, i + 1) = SubSeq(s, 1, i) \o <<s[i + 1]>>
  BY <1>1, SubSeqRecursiveSecond
<1>4. SubSeq(s, 1, i + 1) = Append(SubSeq(s, 1, i), s[i + 1])
  BY <1>1, <1>2, <1>3, AppendIsConcat
<1>. QED
  BY <1>1, <1>2, <1>4, SubSeqEmpty, SubSeqFull

\* A drained queue is the mail of its user, and of nobody else.
LEMMA UndrainedMail ==
  ASSUME NEW u \in Client, NEW s \in Seq(HostMessage), NEW n \in Nat, NEW v
  PROVE  /\ Undrained(u, s, n) \in Seq(Frames)
         /\ Mail(Undrained(u, s, n), v) = IF v = u THEN Kept(s, n) ELSE <<>>
<1> DEFINE P(i) == SubSeq(s, 1, i) N == Len(s)
<1>1. PICK g \in [0 .. N -> Seq(Frames)] : Reads(g, u, s, n)
  BY UndrainedIs
<1>2. N \in Nat
  OBVIOUS
<1> DEFINE Is(i) == Mail(g[i], v) = IF v = u THEN Kept(P(i), n) ELSE <<>>
           Good == {i \in 0 .. N : Is(i)}
<1>3. Is(0)
  <2>1. g[0] = <<>> /\ P(0) = <<>>
    BY <1>1, SubSeqEmpty DEF Reads
  <2>2. <<>> \in Seq(Frames) /\ <<>> \in Seq(HostMessage)
    OBVIOUS
  <2> HIDE DEF P
  <2>. QED
    BY <2>1, <2>2, MailIs, KeptIs
<1>4. ASSUME NEW i \in 0 .. N, i < N, Is(i)
      PROVE  Is(i + 1)
  <2> DEFINE m == s[i + 1] f == [to |-> u, msg |-> m] q == g[i] t == P(i)
  <2>1. /\ i + 1 \in 1 .. N /\ (i + 1) - 1 = i /\ m \in HostMessage
        /\ t \in Seq(HostMessage) /\ Len(t) = i /\ P(i + 1) = Append(t, m)
    BY <1>2, <1>4, FirstAndNext
  <2>2. g[i + 1] = IF i + 1 > n /\ Relevant(m) THEN Append(q, f) ELSE q
    BY <1>1, <2>1 DEF Reads
  <2>3. q \in Seq(Frames) /\ f \in Frames /\ f.to = u /\ f.msg = m
    BY <1>1, <2>1 DEF Frames, Answers
  <2>4. Mail(q, v) = IF v = u THEN Kept(t, n) ELSE <<>>
    BY <1>4
  <2> HIDE DEF m, f, q, t, P, N
  <2>5. Mail(Append(q, f), v) = IF u = v THEN Append(Mail(q, v), m) ELSE Mail(q, v)
    BY <2>3, MailIs
  <2>6. Kept(Append(t, m), n) = IF i + 1 > n /\ Relevant(m) THEN Append(Kept(t, n), m) ELSE Kept(t, n)
    BY <2>1, KeptIs
  <2>. QED
    BY <2>1, <2>2, <2>4, <2>5, <2>6
<1>5. Is(N)
  <2> HIDE DEF Is
  <2>1. 0 \in Good
    BY <1>2, <1>3
  <2>2. \A i \in 0 .. N : i < N /\ i \in Good => i + 1 \in Good
    <3>1. \A i \in 0 .. N : i < N => i + 1 \in 0 .. N
      BY <1>2
    <3>. QED
      BY <1>4, <3>1
  <2>3. \A i \in 0 .. N : i \in Good
    <3> HIDE DEF Good
    <3>. QED
      BY <1>2, <2>1, <2>2, Reaches
  <2>. QED
    BY <1>2, <2>3
<1>6. P(N) = s /\ Undrained(u, s, n) = g[N] /\ g[N] \in Seq(Frames)
  BY <1>1, <1>2, SubSeqFull DEF Reads
<1>. QED
  BY <1>5, <1>6

\* What is read of a queue that grew.
LEMMA KeptGrown ==
  ASSUME NEW s \in Seq(HostMessage), NEW t \in Seq(HostMessage), NEW n \in Nat, n <= Len(s)
  PROVE  Kept(s \o t, n) = Kept(s, n) \o Kept(t, 0) /\ Kept(s, Len(s)) = <<>>
<1> DEFINE P(i) == SubSeq(t, 1, i) N == Len(t)
           Is(i) == Kept(s \o P(i), n) = Kept(s, n) \o Kept(P(i), 0)
           Good == {i \in 0 .. N : Is(i)}
<1>1. N \in Nat /\ Len(s) \in Nat /\ Kept(s, n) \in Seq(HostMessage)
  <2>1. Kept(s, n) \in Seq(HostMessage)
    BY KeptIs
  <2>. QED
    BY <2>1
<1>2. Is(0)
  <2>1. P(0) = <<>> /\ <<>> \in Seq(HostMessage)
    BY SubSeqEmpty
  <2>2. s \o <<>> = s /\ Kept(s, n) \o <<>> = Kept(s, n)
    BY <1>1, ConcatEmptySeq
  <2> HIDE DEF P
  <2>. QED
    BY <2>1, <2>2, KeptIs
<1>3. ASSUME NEW i \in 0 .. N, i < N, Is(i)
      PROVE  Is(i + 1)
  <2> DEFINE m == t[i + 1] p == P(i) a == Kept(s, n) b == Kept(p, 0)
  <2>1. /\ m \in HostMessage /\ p \in Seq(HostMessage) /\ Len(p) = i /\ P(i + 1) = Append(p, m)
    BY <1>1, <1>3, FirstAndNext
  <2>2. Kept(s \o p, n) = a \o b
    BY <1>3
  <2> HIDE DEF m, p, P, N
  <2>3. /\ s \o p \in Seq(HostMessage) /\ Len(s \o p) = Len(s) + i
        /\ s \o Append(p, m) = Append(s \o p, m)
    <3>1. s \o p \in Seq(HostMessage) /\ Len(s \o p) = Len(s) + Len(p)
      BY <2>1, ConcatProperties, Zenon
    <3>2. AtEnd(HostMessage, p, m) /\ AtEnd(HostMessage, s \o p, m)
      BY <2>1, <3>1, OneAtEnd
    <3>3. InRow(HostMessage, s, p, <<m>>)
      BY <2>1, <3>2, InARow DEF AtEnd
    <3>4. s \o Append(p, m) = Append(s \o p, m)
      BY <3>2, <3>3, Zenon DEF AtEnd, InRow
    <3>. QED
      BY <2>1, <3>1, <3>4
  <2>4. Kept(Append(s \o p, m), n) = IF Relevant(m) THEN Append(a \o b, m) ELSE a \o b
    <3>1. Len(s) + i + 1 > n
      BY <1>1, <1>3
    <3>. QED
      BY <2>1, <2>2, <2>3, <3>1, KeptIs
  <2>5. Kept(Append(p, m), 0) = IF Relevant(m) THEN Append(b, m) ELSE b
    <3>1. i + 1 > 0
      BY <1>3
    <3>. QED
      BY <2>1, <3>1, KeptIs
  <2>6. a \o Append(b, m) = Append(a \o b, m)
    <3>1. a \in Seq(HostMessage) /\ b \in Seq(HostMessage)
      BY <1>1, <2>1, KeptIs
    <3> HIDE DEF a, b
    <3>2. AtEnd(HostMessage, b, m)
      BY <2>1, <3>1, OneAtEnd
    <3>3. InRow(HostMessage, a, b, <<m>>)
      BY <3>1, <3>2, InARow DEF AtEnd
    <3>4. AtEnd(HostMessage, a \o b, m)
      <4>1. a \o b \in Seq(HostMessage)
        BY <3>3 DEF InRow
      <4>. QED
        BY <2>1, <4>1, OneAtEnd
    <3>. QED
      BY <3>2, <3>3, <3>4, Zenon DEF AtEnd, InRow
  <2>. QED
    BY <2>1, <2>3, <2>4, <2>5, <2>6
<1>4. Is(N)
  <2> HIDE DEF Is
  <2>1. 0 \in Good
    BY <1>1, <1>2
  <2>2. \A i \in 0 .. N : i < N /\ i \in Good => i + 1 \in Good
    <3>1. \A i \in 0 .. N : i < N => i + 1 \in 0 .. N
      BY <1>1
    <3>. QED
      BY <1>3, <3>1
  <2>3. \A i \in 0 .. N : i \in Good
    <3> HIDE DEF Good
    <3>. QED
      BY <1>1, <2>1, <2>2, Reaches
  <2>. QED
    BY <1>1, <2>3
<1>5. P(N) = t
  BY SubSeqFull
<1>6. Kept(s, Len(s)) = <<>>
  <2>1. ReadOf(s, Len(s)) = [i \in 1 .. Len(s) |-> <<>>]
    BY <1>1 DEF ReadOf
  <2>2. [i \in 1 .. Len(s) |-> <<>>] \in Seq({<<>>})
    BY <1>1
  <2>. QED
    BY <2>1, <2>2, FlatNone DEF Kept
<1>. QED
  BY <1>4, <1>5, <1>6

\* Messages that matter to no client are not read; a queue of messages that
\* all matter is read as it is.
LEMMA KeptAll ==
  ASSUME NEW s \in Seq(HostMessage), NEW n \in Nat
  PROVE  /\ (\A i \in DOMAIN s : i > n => ~Relevant(s[i])) => Kept(s, n) = <<>>
         /\ (\A i \in DOMAIN s : Relevant(s[i])) => Kept(s, 0) = s
<1>1. ASSUME \A i \in DOMAIN s : i > n => ~Relevant(s[i])
      PROVE  Kept(s, n) = <<>>
  <2>1. ReadOf(s, n) = [i \in 1 .. Len(s) |-> <<>>] /\ Len(s) \in Nat
    BY <1>1 DEF ReadOf
  <2>2. [i \in 1 .. Len(s) |-> <<>>] \in Seq({<<>>})
    BY <2>1
  <2>. QED
    BY <2>1, <2>2, FlatNone DEF Kept
<1>2. ASSUME \A i \in DOMAIN s : Relevant(s[i])
      PROVE  Kept(s, 0) = s
  <2> DEFINE N == Len(s) P(i) == SubSeq(s, 1, i)
             Is(i) == Kept(P(i), 0) = P(i)
             Good == {i \in 0 .. N : Is(i)}
  <2>1. N \in Nat
    OBVIOUS
  <2>2. Is(0)
    <3>1. P(0) = <<>> /\ <<>> \in Seq(HostMessage)
      BY SubSeqEmpty
    <3> HIDE DEF P
    <3>. QED
      BY <3>1, KeptIs
  <2>3. ASSUME NEW i \in 0 .. N, i < N, Is(i)
        PROVE  Is(i + 1)
    <3> DEFINE m == s[i + 1] p == P(i)
    <3>1. /\ m \in HostMessage /\ p \in Seq(HostMessage) /\ Len(p) = i /\ P(i + 1) = Append(p, m)
      BY <2>1, <2>3, FirstAndNext
    <3>2. Relevant(m) /\ i + 1 > 0
      BY <1>2, <2>1, <2>3
    <3>3. Kept(p, 0) = p
      BY <2>3
    <3> HIDE DEF m, p, P, N
    <3>. QED
      BY <3>1, <3>2, <3>3, KeptIs
  <2>4. Is(N)
    <3> HIDE DEF Is
    <3>1. 0 \in Good
      BY <2>1, <2>2
    <3>2. \A i \in 0 .. N : i < N /\ i \in Good => i + 1 \in Good
      <4>1. \A i \in 0 .. N : i < N => i + 1 \in 0 .. N
        BY <2>1
      <4>. QED
        BY <2>3, <4>1
    <3>3. \A i \in 0 .. N : i \in Good
      <4> HIDE DEF Good
      <4>. QED
        BY <2>1, <3>1, <3>2, Reaches
    <3>. QED
      BY <2>1, <3>3
  <2>5. P(N) = s
    BY SubSeqFull
  <2>. QED
    BY <2>4, <2>5
<1>. QED
  BY <1>1, <1>2

\* Whatever is read of a queue is in it, behind what was taken.
LEMMA KeptFrom ==
  ASSUME NEW s \in Seq(HostMessage), NEW n \in Nat, NEW j \in DOMAIN Kept(s, n)
  PROVE  \E i \in DOMAIN s : i > n /\ Relevant(s[i]) /\ s[i] = Kept(s, n)[j]
<1> DEFINE Y == {s[i] : i \in {i \in DOMAIN s : i > n /\ Relevant(s[i])}}
           V == Seq(Y)
           e(i) == IF i > n /\ Relevant(s[i]) THEN <<s[i]>> ELSE <<>>
<1>1. \A i \in 1 .. Len(s) : e(i) \in V
  <2>1. ASSUME NEW i \in 1 .. Len(s)
        PROVE  e(i) \in V
    <3>1. CASE i > n /\ Relevant(s[i])
      <4>1. s[i] \in Y
        BY <3>1
      <4> HIDE DEF Y
      <4>. QED
        BY <3>1, <4>1
    <3>2. CASE ~(i > n /\ Relevant(s[i]))
      BY <3>2
    <3>. QED
      BY <3>1, <3>2
  <2>. QED
    BY <2>1
<1>2. ReadOf(s, n) = [i \in 1 .. Len(s) |-> e(i)] /\ Len(s) \in Nat
  BY DEF ReadOf
<1>3. ReadOf(s, n) \in Seq(V)
  <2> HIDE DEF V, e
  <2>. QED
    BY <1>1, <1>2
<1> HIDE DEF Y
<1>4. Kept(s, n) \in Seq(Y)
  BY <1>3, FlatAppend, EmptySeq DEF Kept
<1>5. Kept(s, n)[j] \in Y
  BY <1>4
<1>. QED
  BY <1>5 DEF Y

\* An order of the users names each of them once.
LEMMA OrderNames ==
  ASSUME NEW S, IsFiniteSet(S), NEW us \in SetToSeqs(S)
  PROVE  /\ Len(us) \in Nat /\ us \in [1 .. Len(us) -> S]
         /\ \A i, j \in 1 .. Len(us) : us[i] = us[j] => i = j
         /\ \A v \in S : \E i \in 1 .. Len(us) : us[i] = v
<1> DEFINE N == Cardinality(S)
<1>1. N \in Nat
  BY FS_CardinalityType
<1>2. us \in [1 .. N -> S] /\ \A i, j \in 1 .. N : i # j => us[i] # us[j]
  BY DEF SetToSeqs
<1>3. Len(us) = N
  BY <1>1, <1>2
<1>4. us \in Injection(1 .. N, S)
  BY <1>2 DEF Injection, IsInjective
<1>5. IsFiniteSet(1 .. N) /\ Cardinality(1 .. N) = N
  BY <1>1, FS_Interval
<1>6. us \in Surjection(1 .. N, S)
  BY <1>4, <1>5, FS_Injection
<1>. QED
  BY <1>1, <1>2, <1>3, <1>6 DEF Surjection

\* What a drain adds to the mail of a user: its queue, if it is drained.
LEMMA DrainMail ==
  ASSUME TypeOK', BridgeTyped, NEW fresh \in SUBSET Client,
         NEW users \in SUBSET Client, IsFiniteSet(users), Drain(fresh, users), NEW v \in Client
  PROVE  /\ fromHost' \in Seq(Frames)
         /\ Mail(fromHost', v) = Mail(fromHost, v) \o
              (IF v \in users THEN Kept(sent'[v], Begun(fresh)[v]) ELSE <<>>)
         /\ taken'[v] = IF v \in users THEN Len(sent'[v]) ELSE Begun(fresh)[v]
<1>1. PICK us \in SetToSeqs(users) :
           /\ us \in Seq(users)
           /\ \E g \in [0 .. Len(us) -> Seq(Frames)] :
                /\ Drains(g, us, fromHost, Begun(fresh))
                /\ fromHost' = g[Len(us)]
  BY DrainIs
<1>2. PICK g \in [0 .. Len(us) -> Seq(Frames)] :
                /\ Drains(g, us, fromHost, Begun(fresh))
                /\ fromHost' = g[Len(us)]
  BY <1>1
<1> DEFINE N == Len(us) s == sent'[v] b == Begun(fresh) K == Kept(s, b[v]) h == Mail(fromHost, v)
           More(i) == Undrained(us[i], sent'[us[i]], b[us[i]])
<1>3. /\ N \in Nat /\ us \in [1 .. N -> users]
      /\ \A i, j \in 1 .. N : us[i] = us[j] => i = j
      /\ \A w \in users : \E i \in 1 .. N : us[i] = w
  BY OrderNames
<1>4. \A w \in Client : sent'[w] \in Seq(HostMessage) /\ b[w] \in Nat
  BY DEF TypeOK, BridgeTyped, Begun
<1>5. \A i \in 1 .. N : More(i) \in Seq(Frames) /\ Mail(More(i), v) = IF us[i] = v THEN K ELSE <<>>
  <2>1. ASSUME NEW i \in 1 .. N
        PROVE  More(i) \in Seq(Frames) /\ Mail(More(i), v) = IF us[i] = v THEN K ELSE <<>>
    <3>1. us[i] \in Client
      BY <1>3
    <3> HIDE DEF b
    <3>. QED
      BY <1>4, <3>1, UndrainedMail
  <2>. QED
    BY <2>1
<1>6. h \in Seq(Answers) /\ fromHost \in Seq(Frames) /\ K \in Seq(Answers)
  <2>1. fromHost \in Seq(Frames)
    BY DEF BridgeTyped
  <2>2. K \in Seq(HostMessage)
    BY <1>4, KeptIs
  <2>3. HostMessage \subseteq Answers
    BY DEF Answers
  <2> HIDE DEF K
  <2>4. K \in Seq(Answers)
    BY <2>2, <2>3, SeqMonotonic
  <2>. QED
    BY <2>1, <2>4, MailIs
<1>7. g[0] = fromHost /\ \A i \in 1 .. N : g[i] = g[i - 1] \o More(i)
  BY <1>2 DEF Drains
<1> HIDE DEF More, K, h, b, N
<1> DEFINE Done(i) == \E j \in 1 .. i : us[j] = v
           Is(i) == Mail(g[i], v) = IF Done(i) THEN h \o K ELSE h
           Good == {i \in 0 .. N : Is(i)}
<1>8. Is(0)
  BY <1>7 DEF h
<1>9. ASSUME NEW i \in 0 .. N, i < N, Is(i)
      PROVE  Is(i + 1)
  <2>1. i + 1 \in 1 .. N /\ (i + 1) - 1 = i /\ i \in Nat
    BY <1>3, <1>9
  <2>2. g[i + 1] = g[i] \o More(i + 1) /\ g[i] \in Seq(Frames)
    BY <1>2, <1>7, <2>1 DEF N
  <2>3. Mail(g[i + 1], v) = Mail(g[i], v) \o Mail(More(i + 1), v) /\ Mail(g[i], v) \in Seq(Answers)
    BY <1>5, <2>1, <2>2, MailIs
  <2>4. CASE us[i + 1] = v
    <3>1. ~Done(i)
      <4>1. \A j \in 1 .. i : j \in 1 .. N /\ j # i + 1
        BY <1>3, <2>1
      <4>. QED
        BY <1>3, <2>1, <2>4, <4>1
    <3>2. Done(i + 1)
      <4>1. i + 1 \in 1 .. i + 1
        BY <2>1
      <4>. QED
        BY <2>4, <4>1
    <3>. QED
      BY <1>5, <1>9, <2>1, <2>3, <2>4, <3>1, <3>2
  <2>5. CASE us[i + 1] # v
    <3>1. Done(i + 1) <=> Done(i)
      <4>1. \A j \in 1 .. i + 1 : j \in 1 .. i \/ j = i + 1
        BY <2>1
      <4>2. \A j \in 1 .. i : j \in 1 .. i + 1
        BY <2>1
      <4>. QED
        BY <2>5, <4>1, <4>2
    <3>2. Mail(g[i + 1], v) = Mail(g[i], v)
      BY <1>5, <2>1, <2>3, <2>5, ConcatEmptySeq
    <3> HIDE DEF Done
    <3>. QED
      BY <1>9, <3>1, <3>2
  <2>. QED
    BY <2>4, <2>5
<1>10. Is(N)
  <2> HIDE DEF Is
  <2>1. 0 \in Good
    BY <1>3, <1>8
  <2>2. \A i \in 0 .. N : i < N /\ i \in Good => i + 1 \in Good
    <3>1. \A i \in 0 .. N : i < N => i + 1 \in 0 .. N
      BY <1>3
    <3>. QED
      BY <1>9, <3>1
  <2>3. \A i \in 0 .. N : i \in Good
    <3> HIDE DEF Good
    <3>. QED
      BY <1>3, <2>1, <2>2, Reaches
  <2>. QED
    BY <1>3, <2>3
<1>11. Done(N) <=> v \in users
  BY <1>3
<1>12. Mail(fromHost', v) = h \o (IF v \in users THEN K ELSE <<>>)
  <2>1. h \o <<>> = h
    BY <1>6, ConcatEmptySeq
  <2> HIDE DEF Done
  <2>. QED
    BY <1>2, <1>10, <1>11, <2>1 DEF N
<1>13. taken'[v] = IF v \in users THEN Len(sent'[v]) ELSE b[v]
  BY DEF Drain, Begun, b
<1>14. fromHost' \in Seq(Frames)
  <2>1. N \in 0 .. N
    BY <1>3
  <2>. QED
    BY <1>2, <2>1 DEF N
<1>. QED
  BY <1>12, <1>13, <1>14 DEF h, K, b

-----------------------------------------------------------------------------
(* What is under way to a client, and what the client makes of it.         *)

\* The relay routes to the connection of u; the core serves u over it; and the
\* way up is open as well.
Fed(u) ==
  app[u].mode \in Holding /\ link[app[u].conn] # "shut" /\ Routed(app[u].conn)
Served(u) == Fed(u) /\ bridge /\ u \in clients /\ via[u] = app[u].conn
Abreast(u) == Served(u) /\ link[app[u].conn] = "open"

\* What the relay, and behind it the core, has for u.
Stock(u) == Mail(fromHost, u) \o Kept(sent[u], taken[u])
Way(u) == IF Served(u) THEN Stock(u) ELSE IF Fed(u) THEN Mail(fromHost, u) ELSE <<>>
Inbox(u) == IF app[u].mode \in Holding THEN down[app[u].conn] \o Way(u) ELSE <<>>

\* The records of connection k that the core has yet to read, and whether its
\* Hello is one of the lines.
Pipe(k) == {r \in Record : Has(up[k], RecordMsg(r)) \/ Has(toHost, LineMsg(k, RecordMsg(r)))}
Pending(k) == Has(up[k], HelloMsg) \/ Has(toHost, LineMsg(k, HelloMsg))

\* a will read q without applying a record twice; a client that is served will
\* read the log, and one that is current all of it.
Law(a, me, q, served, current, log, pipe, doc) ==
  /\ ReadsWell(a, me, q)
  /\ served => ReadsLog(a, me, q, log)
  /\ current => ReadsAll(a, me, q, log, pipe, doc)

Starts(a, q) == \E p \in 0 .. Len(q) : BeginsAt(a, q, p)

ReadLaw(u) ==
  Law(app[u], u, Inbox(u), Served(u), Abreast(u), records, Pipe(app[u].conn), snapshot)

\* Whoever has a Welcome, read or under way, is a client of the core over the
\* connection it holds, if at all; and its Hello was read.
Wired(u) ==
  Starts(app[u], Inbox(u)) /\ bridge /\ Fed(u) /\ u \in clients => via[u] = app[u].conn
Unstarted(u) ==
  app[u].mode \in Holding /\ Pending(app[u].conn) => ~Starts(app[u], Inbox(u))

Informed(u) == ReadLaw(u) /\ Wired(u) /\ Unstarted(u)

\* Messages that are neither a record nor a Welcome.
Chat(q) == \A i \in DOMAIN q : q[i].type \notin {"record", "welcome"}

\* Nothing but chat was queued, and some of the end was lost.
LEMMA LawLoses ==
  ASSUME NEW X, Carries(X), NEW w \in Seq(X), NEW t \in Seq(X), NEW c \in Seq(X), Chat(c),
         NEW a, Runs(a), NEW me, NEW served, NEW current, NEW log, NEW pipe, NEW doc,
         Law(a, me, w \o t, served, current, log, pipe, doc),
         NEW log1, NEW pipe1, NEW doc1
  PROVE  /\ Law(a, me, w \o c, FALSE, FALSE, log1, pipe1, doc1)
         /\ Starts(a, w \o c) => Starts(a, w \o t)
<1>1. ReadsWell(a, me, w)
  BY CutReads DEF Law
<1>2. ReadsWell(a, me, w \o c)
  BY <1>1, ChatReads DEF Chat
<1>3. ASSUME NEW p \in 0 .. Len(w \o c), BeginsAt(a, w \o c, p)
      PROVE  p \in 0 .. Len(w \o t) /\ BeginsAt(a, w \o t, p)
  <2> DEFINE v == w \o c z == w \o t
  <2>1. z \in Seq(X) /\ v \in Seq(X) /\ \A i \in DOMAIN w : i \in DOMAIN z /\ z[i] = w[i] /\ v[i] = w[i]
    BY JoinedPlaces
  <2>2. \A i \in DOMAIN v : v[i].type = "welcome" => i \in DOMAIN w
    BY JoinedPlaces DEF Chat
  <2> HIDE DEF v, z
  <2>3. BeginsAt(a, v, p)
    BY <1>3 DEF v
  <2>4. BeginsAt(a, z, p)
    BY <2>1, <2>2, <2>3 DEF BeginsAt
  <2>5. p \in 0 .. Len(z)
    BY <2>1, <2>4, ReaderRuns
  <2>. QED
    BY <2>4, <2>5 DEF z
<1>. QED
  BY <1>2, <1>3 DEF Law, Starts

\* Chat was queued behind the rest.
LEMMA LawChats ==
  ASSUME NEW X, Carries(X), NEW w \in Seq(X), NEW c \in Seq(X), Chat(c),
         NEW a, Runs(a), NEW me, NEW served, NEW current, NEW log, NEW pipe, NEW doc,
         Law(a, me, w, served, current, log, pipe, doc),
         NEW served1, served1 => served, NEW current1, current1 => current,
         NEW log1, NEW pipe1, NEW doc1,
         served1 => log1 = log, current1 => log1 = log /\ pipe1 = pipe /\ doc1 = doc
  PROVE  /\ Law(a, me, w \o c, served1, current1, log1, pipe1, doc1)
         /\ Starts(a, w \o c) => Starts(a, w)
<1>1. /\ ReadsWell(a, me, w) => ReadsWell(a, me, w \o c)
      /\ ReadsLog(a, me, w, log) => ReadsLog(a, me, w \o c, log)
      /\ ReadsAll(a, me, w, log, pipe, doc) => ReadsAll(a, me, w \o c, log, pipe, doc)
  BY ChatReads DEF Chat
<1>2. ASSUME NEW p \in 0 .. Len(w \o c), BeginsAt(a, w \o c, p)
      PROVE  p \in 0 .. Len(w) /\ BeginsAt(a, w, p)
  <2> DEFINE v == w \o c
  <2>1. v \in Seq(X) /\ \A i \in DOMAIN w : v[i] = w[i]
    BY JoinedPlaces
  <2>2. \A i \in DOMAIN v : v[i].type = "welcome" => i \in DOMAIN w
    BY JoinedPlaces DEF Chat
  <2> HIDE DEF v
  <2>3. BeginsAt(a, v, p)
    BY <1>2 DEF v
  <2>4. BeginsAt(a, w, p)
    BY <2>1, <2>2, <2>3 DEF BeginsAt
  <2>5. p \in 0 .. Len(w)
    BY <2>4, ReaderRuns
  <2>. QED
    BY <2>4, <2>5
<1>. QED
  BY <1>1, <1>2 DEF Law, Starts

\* The front was lost.
LEMMA LawSkips ==
  ASSUME NEW X, Carries(X), NEW w \in Seq(X), NEW t \in Seq(X),
         NEW a, Runs(a), NEW me, NEW served, NEW current, NEW log, NEW pipe, NEW doc,
         Law(a, me, t \o w, served, current, log, pipe, doc)
  PROVE  /\ ReadsWell(a, me, w)
         /\ served => ReadsLog(a, me, w, log)
         /\ Starts(a, w) => Starts(a, t \o w)
<1>1. /\ ReadsWell(a, me, t \o w) => ReadsWell(a, me, w)
      /\ ReadsLog(a, me, t \o w, log) => ReadsLog(a, me, w, log)
  BY SkipReads
<1>2. ASSUME Starts(a, w)
      PROVE  Starts(a, t \o w)
  <2> DEFINE v == t \o w
  <2>1. v \in Seq(X) /\ \A i \in DOMAIN w : i + Len(t) \in DOMAIN v /\ v[i + Len(t)] = w[i]
    BY JoinedPlaces
  <2> HIDE DEF v
  <2>2. PICK p : BeginsAt(a, w, p)
    BY <1>2 DEF Starts
  <2>3. \E n : BeginsAt(a, v, n)
    <3>1. CASE p = 0 /\ a.mode = "live"
      BY <3>1 DEF BeginsAt
    <3>2. CASE p \in DOMAIN w /\ w[p].type = "welcome" /\ a.mode \in {"joining", "rejoining"}
      <4>1. BeginsAt(a, v, p + Len(t))
        BY <2>1, <3>2 DEF BeginsAt
      <4>. QED
        BY <4>1
    <3>. QED
      BY <2>2, <3>1, <3>2 DEF BeginsAt
  <2>4. \A n : BeginsAt(a, v, n) => n \in 0 .. Len(v)
    BY <2>1, ReaderRuns
  <2>. QED
    BY <2>3, <2>4 DEF Starts, v
<1>. QED
  BY <1>1, <1>2 DEF Law

-----------------------------------------------------------------------------
(* The same of the lane.                                                   *)

\* The messages of the lane are what they say they are, and its apps run.
LEMMA LaneReads ==
  ASSUME LaneTyped, NEW u \in Client
  PROVE  /\ Carries(Answers)
         /\ app[u] \in Apps /\ Runs(app[u])
         /\ app[u].mode \in Holding => app[u].conn \in Conn
         /\ sent[u] \in Seq(HostMessage) /\ taken[u] \in Nat /\ taken[u] <= Len(sent[u])
         /\ fromHost \in Seq(Frames)
         /\ Mail(fromHost, u) \in Seq(Answers)
         /\ Kept(sent[u], taken[u]) \in Seq(Answers)
         /\ Stock(u) \in Seq(Answers) /\ Way(u) \in Seq(Answers) /\ Inbox(u) \in Seq(Answers)
         /\ app[u].mode \in Holding => down[app[u].conn] \in Seq(Answers)
<1>1. Carries(Answers)
  <2>1. ASSUME NEW x \in Answers, x.type = "record"
        PROVE  x.record \in Record /\ x = RecordMsg(x.record)
    <3>1. x.record \in Record
      BY <2>1, MessagesTyped
    <3>2. x = RecordMsg(x.record)
      BY <2>1 DEF Answers, HostMessage, DeniedMsg, ByeMsg, ClosedMsg, RecordMsg
    <3>. QED
      BY <3>1, <3>2
  <2>2. \A x \in Answers : x.type = "welcome" => x.log_length \in Nat
    BY MessagesTyped
  <2>. QED
    BY <2>1, <2>2 DEF Carries
<1>2. /\ app[u] \in Apps /\ (app[u].mode \in Holding => app[u].conn \in Conn)
      /\ sent[u] \in Seq(HostMessage) /\ taken[u] \in Nat /\ taken[u] <= Len(sent[u])
      /\ fromHost \in Seq(Frames)
  BY DEF LaneTyped, AppsTyped, TypeOK, BridgeTyped
<1>3. Runs(app[u])
  BY <1>2 DEF Apps, Runs
<1>4. Mail(fromHost, u) \in Seq(Answers)
  BY <1>2, MailIs
<1>5. Kept(sent[u], taken[u]) \in Seq(Answers)
  <2>1. Kept(sent[u], taken[u]) \in Seq(HostMessage) /\ HostMessage \subseteq Answers
    BY <1>2, KeptIs, MessagesTyped
  <2> DEFINE q == Kept(sent[u], taken[u])
  <2> HIDE DEF q
  <2>2. q \in Seq(HostMessage)
    BY <2>1 DEF q
  <2>3. q \in Seq(Answers)
    BY <2>1, <2>2, SeqMonotonic
  <2>. QED
    BY <2>3 DEF q
<1>6. Stock(u) \in Seq(Answers) /\ Way(u) \in Seq(Answers)
  <2>1. Stock(u) \in Seq(Answers)
    BY <1>4, <1>5, JoinedPlaces DEF Stock
  <2>. QED
    BY <1>4, <2>1, EmptySeq DEF Way
<1>7. app[u].mode \in Holding => down[app[u].conn] \in Seq(Answers)
  BY <1>2 DEF LaneTyped, RoomTyped
<1>8. Inbox(u) \in Seq(Answers)
  BY <1>6, <1>7, EmptySeq, JoinedPlaces DEF Inbox
<1>. QED
  BY <1>1, <1>2, <1>3, <1>4, <1>5, <1>6, <1>7, <1>8

\* What u holds is no more than it was.
Stays(u) ==
  /\ app'[u].conn = app[u].conn
  /\ app'[u].mode \in Holding => app[u].mode \in Holding
  /\ Pending(app[u].conn)' => Pending(app[u].conn)
  /\ Fed(u)' => /\ Fed(u) /\ via'[u] = via[u]
                /\ bridge' => bridge
                /\ u \in clients' => u \in clients

\* A client that has not started has nothing to keep.
LEMMA InformedIdle ==
  ASSUME NEW u \in Client, ~Starts(app[u], Inbox(u))'
  PROVE  Informed(u)'
<1> DEFINE a == app'[u] q == Inbox(u)'
<1>1. \A p \in 0 .. Len(q) : ~BeginsAt(a, q, p)
  BY DEF Starts
<1> HIDE DEF a, q
<1>2. \A served, current, log, pipe, doc : Law(a, u, q, served, current, log, pipe, doc)
  BY <1>1, IdleReads DEF Law
<1>3. ReadLaw(u)'
  BY <1>2 DEF ReadLaw, a, q
<1>. QED
  BY <1>3 DEF Informed, Wired, Unstarted

\* One that started had done so before, if what it holds is no more than it was.
LEMMA InformedStays ==
  ASSUME NEW u \in Client, Informed(u), Stays(u), ReadLaw(u)',
         Starts(app[u], Inbox(u))' => Starts(app[u], Inbox(u))
  PROVE  Informed(u)'
<1>1. Wired(u)'
  BY DEF Informed, Wired, Stays
<1>2. Unstarted(u)'
  <2>1. SUFFICES ASSUME (app[u].mode \in Holding)', Pending(app[u].conn)', Starts(app[u], Inbox(u))'
                 PROVE  FALSE
    BY DEF Unstarted
  <2>2. Pending(app[u].conn)' <=> Has(up'[app'[u].conn], HelloMsg) \/ Has(toHost', LineMsg(app'[u].conn, HelloMsg))
    BY DEF Pending
  <2>3. app[u].mode \in Holding /\ Pending(app[u].conn)
    BY <2>1, <2>2 DEF Stays, Pending
  <2>. QED
    BY <2>1, <2>3 DEF Informed, Unstarted
<1>. QED
  BY <1>1, <1>2 DEF Informed

\* Nothing but chat was queued, some of the end was lost, and the core serves u
\* no more.
LEMMA InformedLoses ==
  ASSUME LaneTyped, NEW u \in Client, Informed(u), Stays(u), app'[u] = app[u], ~Served(u)',
         NEW w \in Seq(Answers), NEW t \in Seq(Answers), NEW c \in Seq(Answers), Chat(c),
         Inbox(u) = w \o t, Inbox(u)' = w \o c
  PROVE  Informed(u)'
<1>1. Carries(Answers) /\ Runs(app[u])
  BY LaneReads
<1>2. Law(app[u], u, w \o t, Served(u), Abreast(u), records, Pipe(app[u].conn), snapshot)
  BY DEF Informed, ReadLaw
<1>3. ASSUME NEW log1, NEW pipe1, NEW doc1
      PROVE  /\ Law(app[u], u, w \o c, FALSE, FALSE, log1, pipe1, doc1)
             /\ Starts(app[u], w \o c) => Starts(app[u], w \o t)
  <2> DEFINE served == Served(u) current == Abreast(u) a == app[u] pipe == Pipe(app[u].conn)
  <2> HIDE DEF served, current, a, pipe
  <2>1. Law(a, u, w \o t, served, current, records, pipe, snapshot)
    BY <1>2 DEF served, current, a, pipe
  <2>2. Carries(Answers) /\ Runs(a)
    BY <1>1 DEF a
  <2>. QED
    BY <2>1, <2>2, LawLoses DEF a
<1>4. ~Served(u)' /\ ~Abreast(u)'
  BY DEF Abreast
<1>5. \A s1, a1, log1, pipe1, doc1 : ~s1 /\ ~a1 => Law(app[u], u, w \o c, s1, a1, log1, pipe1, doc1)
  BY <1>3 DEF Law
<1>6. ReadLaw(u)'
  BY <1>4, <1>5 DEF ReadLaw
<1>. QED
  BY <1>3, <1>6, InformedStays

\* Chat was queued.
LEMMA InformedChats ==
  ASSUME LaneTyped, NEW u \in Client, Informed(u), Stays(u), app'[u] = app[u],
         NEW c \in Seq(Answers), Chat(c), Inbox(u)' = Inbox(u) \o c,
         Served(u)' => Served(u) /\ records' = records,
         Abreast(u)' => Abreast(u) /\ snapshot' = snapshot /\ Pipe(app[u].conn)' = Pipe(app[u].conn)
  PROVE  Informed(u)'
<1> DEFINE q == Inbox(u) pipe == Pipe(app[u].conn) pipe1 == Pipe(app[u].conn)'
<1>1. Carries(Answers) /\ Runs(app[u]) /\ q \in Seq(Answers)
  BY LaneReads
<1>2. Law(app[u], u, q, Served(u), Abreast(u), records, pipe, snapshot)
  BY DEF Informed, ReadLaw
<1>3. Abreast(u)' => Served(u)'
  BY DEF Abreast
<1>4. Abreast(u)' => pipe1 = pipe
  BY DEF Pipe
<1> HIDE DEF q, pipe, pipe1
<1>5. /\ Law(app[u], u, q \o c, Served(u)', Abreast(u)', records', pipe1, snapshot')
      /\ Starts(app[u], q \o c) => Starts(app[u], q)
  BY <1>1, <1>2, <1>3, <1>4, LawChats
<1>6. ReadLaw(u)'
  BY <1>5 DEF ReadLaw, q, pipe1
<1>. QED
  BY <1>5, <1>6, InformedStays DEF q

\* The queue is as it was.
LEMMA InformedSame ==
  ASSUME LaneTyped, NEW u \in Client, Informed(u), Stays(u), app'[u] = app[u],
         Inbox(u)' = Inbox(u),
         Served(u)' => Served(u) /\ records' = records,
         Abreast(u)' => Abreast(u) /\ snapshot' = snapshot /\ Pipe(app[u].conn)' = Pipe(app[u].conn)
  PROVE  Informed(u)'
<1>1. <<>> \in Seq(Answers) /\ Chat(<<>>)
  BY DEF Chat
<1>2. Inbox(u)' = Inbox(u) \o <<>>
  BY LaneReads, ConcatEmptySeq
<1> DEFINE c == <<>>
<1> HIDE DEF c
<1>. QED
  BY <1>1, <1>2, InformedChats DEF c

\* The front of the queue was lost, and with it the way up.
LEMMA InformedSkips ==
  ASSUME LaneTyped, NEW u \in Client, Informed(u), Stays(u), app'[u] = app[u], ~Abreast(u)',
         NEW t \in Seq(Answers), Inbox(u)' \in Seq(Answers), Inbox(u) = t \o Inbox(u)',
         Served(u)' => Served(u), records' = records
  PROVE  Informed(u)'
<1> DEFINE q == Inbox(u)' pipe == Pipe(app[u].conn) pipe1 == Pipe(app[u].conn)'
<1>1. Carries(Answers) /\ Runs(app[u])
  BY LaneReads
<1>2. Law(app[u], u, t \o q, Served(u), Abreast(u), records, pipe, snapshot)
  BY DEF Informed, ReadLaw
<1> HIDE DEF q, pipe, pipe1
<1>3. /\ Law(app[u], u, q, Served(u)', FALSE, records, pipe1, snapshot')
      /\ Starts(app[u], q) => Starts(app[u], t \o q)
  <2> DEFINE a == app[u] current == Abreast(u) served1 == Served(u)' served == Served(u)
             doc1 == snapshot'
  <2>0. q \in Seq(Answers)
    BY DEF q
  <2> HIDE DEF a, current, served1, served, doc1
  <2>1. Law(a, u, t \o q, served, current, records, pipe, snapshot)
    BY <1>2 DEF served, current, a
  <2>2. Carries(Answers) /\ Runs(a)
    BY <1>1 DEF a
  <2>3. served1 => served
    BY DEF served1, served
  <2>4. /\ ReadsWell(a, u, q) /\ (served => ReadsLog(a, u, q, records))
        /\ Starts(a, q) => Starts(a, t \o q)
    BY <2>0, <2>1, <2>2, LawSkips
  <2>. QED
    BY <2>3, <2>4 DEF a, served1, doc1, Law
<1>4. Law(app[u], u, q, Served(u)', Abreast(u)', records', pipe1, snapshot')
  BY <1>3 DEF Law
<1>5. ReadLaw(u)'
  BY <1>4 DEF ReadLaw, q, pipe1
<1>. QED
  BY <1>3, <1>5, InformedStays DEF q

-----------------------------------------------------------------------------
(* What a step leaves alone.                                               *)

\* The host's side of u.
Calm(u) ==
  /\ UNCHANGED <<records, snapshot, bridge>>
  /\ sent'[u] = sent[u] /\ taken'[u] = taken[u] /\ via'[u] = via[u]
  /\ u \in clients' <=> u \in clients
  /\ Mail(fromHost, u)' = Mail(fromHost, u)

\* The connection of u, but for what waits on the way down.
Steadfast(u) ==
  /\ app'[u] = app[u]
  /\ app[u].mode \in Holding =>
       /\ link'[app[u].conn] = link[app[u].conn]
       /\ Routed(app[u].conn)' <=> Routed(app[u].conn)
       /\ Pipe(app[u].conn)' = Pipe(app[u].conn)
       /\ Pending(app[u].conn)' => Pending(app[u].conn)

\* Whom the relay feeds.
LEMMA FedSame ==
  ASSUME NEW u \in Client, Steadfast(u)
  PROVE  Fed(u)' <=> Fed(u)
<1>1. Routed(app[u].conn)' <=> who'[app'[u].conn] \in DOMAIN members' /\ members'[who'[app'[u].conn]] = app'[u].conn
  BY DEF Routed
<1>. QED
  BY <1>1 DEF Fed, Steadfast, Routed

\* Then u is fed and served as it was.
LEMMA WaySame ==
  ASSUME NEW u \in Client, Calm(u), Steadfast(u)
  PROVE  /\ Fed(u)' <=> Fed(u)
         /\ Served(u)' <=> Served(u)
         /\ Abreast(u)' <=> Abreast(u)
         /\ Way(u)' = Way(u) /\ Stock(u)' = Stock(u)
<1>1. Fed(u)' <=> Fed(u)
  BY FedSame
<1>2. Served(u)' <=> Served(u)
  BY <1>1 DEF Served, Calm, Steadfast
<1>3. Abreast(u)' <=> Abreast(u)
  BY <1>2 DEF Abreast, Served, Fed, Steadfast
<1>4. Stock(u)' = Stock(u)
  BY DEF Stock, Calm
<1>5. Way(u)' = Way(u)
  BY <1>1, <1>2, <1>4 DEF Way, Calm
<1>. QED
  BY <1>1, <1>2, <1>3, <1>4, <1>5

-----------------------------------------------------------------------------
(* The slots and the Hellos.                                               *)

Line(m, k) == m.type = "line" /\ m.conn = k

\* Whoever holds a connection holds a slot of its own; one whose link works is
\* served by a thread.
Held ==
  \A u \in Client : app[u].mode \in Holding =>
    /\ who[app[u].conn] = u
    /\ link[app[u].conn] = "open" => thread[app[u].conn] # "ended"

\* A connection that claims has sent its Hello and nothing else.  As long as
\* the Hello is not read, it is the one line of its connection.
Greets ==
  /\ \A k \in Conn : thread[k] = "claiming" =>
       up[k] = <<HelloMsg>> /\ \A i \in DOMAIN toHost : toHost[i].conn # k
  /\ \A k \in Conn : Has(up[k], HelloMsg) =>
       Len(up[k]) = 1 /\ \A j \in DOMAIN toHost : ~Line(toHost[j], k)
  /\ \A i \in DOMAIN toHost : toHost[i].type = "line" /\ toHost[i].msg = HelloMsg =>
       /\ up[toHost[i].conn] = <<>>
       /\ \A j \in DOMAIN toHost : Line(toHost[j], toHost[i].conn) => j = i

\* The lines of a member are those of the connection it has its seat by.
OwnLines ==
  \A i \in DOMAIN toHost :
    toHost[i].type = "line" /\ who[toHost[i].conn] \in DOMAIN members =>
      members[who[toHost[i].conn]] = toHost[i].conn

\* As long as the Hello of a connection is not read, nobody is a client of the
\* core over it.
Unwired ==
  bridge => \A k \in Conn : Pending(k) /\ who[k] \in clients => via[who[k]] # k

SlotLaw == Held /\ Greets /\ OwnLines /\ Unwired

\* The apps after an edit, and after its publication.
LEMMA EditsApp ==
  ASSUME LaneTyped, NEW u \in Client
  PROVE  /\ Edit(u) => /\ \A v \in Client : v # u => app'[v] = app[v]
                       /\ app'[u].mode = app[u].mode /\ app'[u].conn = app[u].conn
                       /\ app'[u].runtime = Append(app[u].runtime, Mint(u))
                       /\ app'[u].doc = app[u].doc /\ app'[u].published = app[u].published
                       /\ app'[u].consumed = app[u].consumed /\ app'[u].base = app[u].base
                       /\ app'[u].known = app[u].known
         /\ Publish(u) => /\ \A v \in Client : v # u => app'[v] = app[v]
                          /\ app'[u].mode = app[u].mode /\ app'[u].conn = app[u].conn
                          /\ app'[u].runtime = app[u].runtime
                          /\ app'[u].doc = app[u].doc
                          /\ app'[u].published = Len(app[u].runtime)
                          /\ app'[u].consumed = app[u].consumed /\ app'[u].base = app[u].base
                          /\ app'[u].known = app[u].known
<1>1. app \in [Client -> Apps] /\ app[u] \in Apps
  BY DEF LaneTyped, AppsTyped
<1>2. ASSUME Edit(u), NEW v \in Client, v # u
      PROVE  app'[v] = app[v]
  BY <1>1, <1>2 DEF Edit
<1>3. ASSUME Publish(u), NEW v \in Client, v # u
      PROVE  app'[v] = app[v]
  BY <1>1, <1>3 DEF Publish
<1>4. ASSUME Edit(u)
      PROVE  app'[u] = [app[u] EXCEPT !.runtime = Append(app[u].runtime, Mint(u))]
  BY <1>1, <1>4 DEF Edit
<1>5. ASSUME Publish(u)
      PROVE  app'[u] = [app[u] EXCEPT !.published = Len(app[u].runtime)]
  BY <1>1, <1>5 DEF Publish
<1> DEFINE r == Append(app[u].runtime, Mint(u)) n == Len(app[u].runtime)
<1> HIDE DEF r, n
<1>6. Edit(u) => app'[u] = [app[u] EXCEPT !.runtime = r]
  BY <1>4 DEF r
<1>7. Publish(u) => app'[u] = [app[u] EXCEPT !.published = n]
  BY <1>5 DEF n
<1>. QED
  BY <1>1, <1>2, <1>3, <1>6, <1>7 DEF Apps, r, n

\* Who holds a connection after a step.
LEMMA HeldStep ==
  ASSUME LaneTyped, Held, RelayNext
  PROVE  Held'
<1> DEFINE Fewer == /\ who' = who
                    /\ \A u \in Client : app'[u].mode \in Holding =>
                         app[u].mode \in Holding /\ app'[u].conn = app[u].conn
                    /\ \A k \in Conn : link'[k] = "open" =>
                         link[k] = "open" /\ (thread'[k] = "ended" => thread[k] = "ended")
<1>0. /\ app \in [Client -> Apps]
      /\ link \in [Conn -> {"open", "shut", "half"}]
      /\ thread \in [Conn -> {"claiming", "routing", "ended"}]
      /\ who \in [Conn -> Client \cup {None}]
      /\ \A u \in Client : app[u].mode \in Holding => app[u].conn \in Conn
  BY DEF LaneTyped, AppsTyped, RoomTyped
<1>1. ASSUME Fewer
      PROVE  Held'
  BY <1>0, <1>1 DEF Held
<1>2. ASSUME NEW u \in Client, app' = Lose(u)
      PROVE  \A v \in Client : app'[v].mode \in Holding =>
                 app[v].mode \in Holding /\ app'[v].conn = app[v].conn
  <2>1. app' = [app EXCEPT ![u] = [app[u] EXCEPT !.mode = Failed(app[u].mode), !.conn = None]]
    BY <1>0, <1>2 DEF Lose
  <2>2. app'[u].mode \in {"solo", "lost"}
    BY <1>0, <2>1 DEF Apps, Failed
  <2>3. \A v \in Client : v # u => app'[v] = app[v]
    BY <1>0, <2>1
  <2>. QED
    BY <2>2, <2>3 DEF Holding
<1>3. ASSUME NEW u \in Client, NEW s, app' = [app EXCEPT ![u] = s],
             s.mode \in Holding => app[u].mode \in Holding /\ s.conn = app[u].conn
      PROVE  \A v \in Client : app'[v].mode \in Holding =>
                 app[v].mode \in Holding /\ app'[v].conn = app[v].conn
  BY <1>0, <1>3
<1>4. \A k \in Conn : link' = Shut(k) => \A c \in Conn : link'[c] = "open" => link[c] = "open"
  BY <1>0 DEF Shut
<1>5. ASSUME UNCHANGED <<who, app, thread>>, \A k \in Conn : link'[k] = "open" => link[k] = "open"
      PROVE  Fewer
  BY <1>5
<1> HIDE DEF Fewer
<1>6. CASE RouteDown \/ RoomCloses \/ HostRead \/ Pump \/ HostEdit \/ SwapDocument \/ HostLeave
           \/ HostLinkBreaks
  <2>1. CASE RouteDown
    <3>1. \A k \in Conn : link'[k] = "open" => link[k] = "open"
      BY <1>0, <2>1 DEF RouteDown
    <3>. QED
      BY <1>1, <1>5, <2>1, <3>1 DEF RouteDown
  <2>2. CASE UNCHANGED <<who, app, thread, link>>
    BY <1>1, <1>5, <2>2
  <2>. QED
    BY <1>6, <2>1, <2>2
    DEF RoomCloses, HostRead, Pump, HostEdit, SwapDocument, HostLeave, HostLinkBreaks, relayVars
<1>7. ASSUME NEW k \in Conn, Claim(k)
      PROVE  Held'
  <2>1. \A c \in Conn : link'[c] = "open" => link[c] = "open" /\ (thread'[c] = "ended" => thread[c] = "ended")
    BY <1>0, <1>7 DEF Claim
  <2>2. CASE app' = app
    BY <1>1, <1>7, <2>1, <2>2 DEF Claim, Fewer
  <2>3. CASE app' = Lose(who[k]) /\ app[who[k]].conn = k /\ app' # app
    <3>1. who[k] \in Client
      <4>1. who[k] \notin Client => app' = app
        BY <1>0, <2>3 DEF Lose
      <4>. QED
        BY <2>3, <4>1
    <3>. QED
      BY <1>1, <1>2, <1>7, <2>1, <2>3, <3>1 DEF Claim, Fewer
  <2>. QED
    BY <1>7, <2>2, <2>3 DEF Claim
<1>8. ASSUME NEW k \in Conn, RouteUp(k) \/ PingRefused(k) \/ Break(k) \/ HalfOpenEnds(k)
      PROVE  Held'
  <2>1. \A c \in Conn : link'[c] = "open" => link[c] = "open"
    BY <1>0, <1>8 DEF RouteUp, PingRefused, Break, HalfOpenEnds, relayVars
  <2>2. UNCHANGED <<who, app, thread>>
    BY <1>8 DEF RouteUp, PingRefused, Break, HalfOpenEnds, relayVars
  <2>. QED
    BY <1>1, <1>5, <2>1, <2>2
<1>9. ASSUME NEW k \in Conn, Cleanup(k)
      PROVE  Held'
  BY <1>0, <1>1, <1>9 DEF Cleanup, Fewer
<1>10. ASSUME NEW u \in Client, Dial(u)
       PROVE  Held'
  <2>1. PICK k \in Conn :
          /\ thread[k] = "ended" /\ (who[k] # None => app[who[k]].conn # k)
          /\ app' = [app EXCEPT ![u].conn = k,
                    ![u].mode = IF @ = "solo" THEN "joining" ELSE "rejoining"]
          /\ who' = [who EXCEPT ![k] = u]
          /\ link' = [link EXCEPT ![k] = "open"]
          /\ thread' = [thread EXCEPT ![k] = "claiming"]
    BY <1>10 DEF Dial
  <2>2. app'[u].conn = k /\ \A v \in Client : v # u => app'[v] = app[v]
    BY <1>0, <2>1 DEF Apps
  <2>3. who'[k] = u /\ thread'[k] = "claiming"
    BY <1>0, <2>1
  <2>4. ASSUME NEW v \in Client, v # u, app[v].mode \in Holding
        PROVE  app[v].conn # k
    BY <2>1, <2>4, RelayAssumption DEF Held
  <2>5. \A c \in Conn : c # k => who'[c] = who[c] /\ link'[c] = link[c] /\ thread'[c] = thread[c]
    BY <1>0, <2>1
  <2>6. ASSUME NEW v \in Client, app'[v].mode \in Holding
        PROVE  who'[app'[v].conn] = v
               /\ (link'[app'[v].conn] = "open" => thread'[app'[v].conn] # "ended")
    <3>1. CASE v = u
      BY <2>2, <2>3, <3>1
    <3>2. CASE v # u
      <4>1. app[v].mode \in Holding /\ app[v].conn \in Conn /\ app[v].conn # k /\ app'[v] = app[v]
        BY <1>0, <2>2, <2>4, <2>6, <3>2
      <4>. QED
        BY <2>5, <4>1 DEF Held
    <3>. QED
      BY <3>1, <3>2
  <2>. QED
    BY <2>6 DEF Held
<1>11. ASSUME NEW u \in Client, ReadDown(u)
       PROVE  Held'
  <2> DEFINE k == app[u].conn m == Head(down[k]) s == app[u]
             t == IF s.mode = "live" THEN Received(s, u, m)
                    ELSE IF m.type = "welcome" THEN Welcomed(s, m) ELSE s
  <2>1. s \in Apps /\ k \in Conn /\ s.mode \in Holding
    BY <1>0, <1>11 DEF ReadDown, Holding
  <2>2. app' = Lose(u) \/ app' = [app EXCEPT ![u] = t]
    BY <1>11 DEF ReadDown
  <2>3. t.conn = s.conn
    <3>1. Received(s, u, m).conn = s.conn
      BY <2>1 DEF Received, Apps, DeniedMsg
    <3>2. Welcomed(s, m).conn = s.conn
      BY DEF Welcomed, Solo
    <3>. QED
      BY <3>1, <3>2
  <2>4. \A c \in Conn : link'[c] = "open" => link[c] = "open"
    BY <1>4, <1>11, <2>1 DEF ReadDown
  <2> HIDE DEF t
  <2>5. \A v \in Client : app'[v].mode \in Holding =>
                 app[v].mode \in Holding /\ app'[v].conn = app[v].conn
    BY <1>2, <1>3, <2>1, <2>2, <2>3
  <2>. QED
    BY <1>1, <1>11, <2>4, <2>5 DEF ReadDown, Fewer
<1>12. ASSUME NEW u \in Client, LinkLost(u) \/ HandshakeTimeout(u) \/ AfterEnd(u)
       PROVE  Held'
  <2>1. \A c \in Conn : link'[c] = "open" => link[c] = "open"
    <3>1. HandshakeTimeout(u) => app[u].conn \in Conn
      BY <1>0 DEF HandshakeTimeout, Holding
    <3>. QED
      BY <1>4, <1>12, <3>1 DEF LinkLost, HandshakeTimeout, AfterEnd, relayVars
  <2>2. app' = Lose(u) \/ app' = [app EXCEPT ![u] = Solo]
    BY <1>12 DEF LinkLost, HandshakeTimeout, AfterEnd
  <2>3. Solo.mode \notin Holding
    BY DEF Solo, Holding
  <2>4. \A v \in Client : app'[v].mode \in Holding =>
                 app[v].mode \in Holding /\ app'[v].conn = app[v].conn
    BY <1>2, <1>3, <2>2, <2>3
  <2>. QED
    BY <1>1, <1>12, <2>1, <2>4 DEF LinkLost, HandshakeTimeout, AfterEnd, relayVars, Fewer
<1>13. ASSUME NEW u \in Client, Edit(u) \/ Publish(u) \/ Silence(u)
       PROVE  Held'
  <2>1. UNCHANGED <<who, thread, link>>
    BY <1>13 DEF Edit, Publish, Silence, relayVars
  <2>2. \A v \in Client : app'[v].mode = app[v].mode /\ app'[v].conn = app[v].conn
    <3>1. Silence(u) => app' = app
      BY DEF Silence
    <3>. QED
      BY <1>13, <3>1, EditsApp
  <2>. QED
    BY <1>1, <2>1, <2>2 DEF Fewer
<1>. QED
  BY <1>6, <1>7, <1>8, <1>9, <1>10, <1>11, <1>12, <1>13 DEF RelayNext

\* q holds the unsent ones of the first n records of s, each once: f[j] is the
\* place of q[j] in the runtime.
Picks(q, f, n, s, me) ==
  /\ f \in [1 .. Len(q) -> 1 .. n]
  /\ \A j \in 1 .. Len(q) : Unsent(s, me, f[j]) /\ q[j] = RecordMsg(s.runtime[f[j]])
  /\ \A i, j \in 1 .. Len(q) : f[i] = f[j] => i = j
  /\ \A m \in 1 .. n : Unsent(s, me, m) => \E j \in 1 .. Len(q) : f[j] = m

\* What a client publishes is what it has not sent.
LEMMA OutboundPicks ==
  ASSUME NEW s \in Apps, NEW me \in Client
  PROVE  /\ Outbound(s, me) \in Seq(Lines)
         /\ \E f : Picks(Outbound(s, me), f, Len(s.runtime), s, me)
<1> DEFINE N == Len(s.runtime)
<1>1. PICK g \in [0 .. N -> Seq(Lines)] : Sends(g, s, me)
  BY OutboundIs
<1>2. N \in Nat /\ \A n \in 1 .. N : RecordMsg(s.runtime[n]) \in Lines
  <2>1. s.runtime \in Seq(Record)
    BY DEF Apps
  <2>2. \A n \in 1 .. N : s.runtime[n] \in Record
    BY <2>1
  <2>. QED
    BY <2>1, <2>2 DEF Lines, RecordMsg
<1> DEFINE Is(n) == \E f : Picks(g[n], f, n, s, me)
           Good == {n \in 0 .. N : Is(n)}
<1>3. Is(0)
  <2>1. g[0] = <<>> /\ Len(<<>>) = 0
    BY <1>1 DEF Sends
  <2>2. Picks(<<>>, <<>>, 0, s, me)
    BY DEF Picks
  <2>. QED
    BY <2>1, <2>2
<1>4. ASSUME NEW n \in 0 .. N, n < N, Is(n)
      PROVE  Is(n + 1)
  <2>1. PICK f : Picks(g[n], f, n, s, me)
    BY <1>4
  <2> DEFINE q == g[n] L == Len(q) m == n + 1 r == RecordMsg(s.runtime[m])
  <2>2. q \in Seq(Lines) /\ L \in Nat /\ n \in Nat /\ m \in 1 .. N /\ m \in Nat /\ r \in Lines
    BY <1>1, <1>2, <1>4
  <2>3. g[m] = IF Unsent(s, me, m) THEN Append(q, r) ELSE q
    <3>1. m - 1 = n
      BY <2>2
    <3>. QED
      BY <1>1, <2>2, <3>1 DEF Sends, Unsent
  <2> HIDE DEF q, r, N
  <2>4. CASE ~Unsent(s, me, m)
    <3>1. g[m] = q
      BY <2>3, <2>4
    <3>2. Picks(q, f, m, s, me)
      <4>0. Picks(q, f, n, s, me)
        BY <2>1 DEF q
      <4>1. f \in [1 .. L -> 1 .. m]
        BY <2>2, <4>0 DEF Picks
      <4>2. \A i \in 1 .. m : i \in 1 .. n \/ i = m
        BY <2>2
      <4>. QED
        BY <2>4, <4>0, <4>1, <4>2 DEF Picks
    <3>. QED
      BY <3>1, <3>2
  <2>5. CASE Unsent(s, me, m)
    <3> DEFINE t == Append(q, r) h == [j \in 1 .. L + 1 |-> IF j = L + 1 THEN m ELSE f[j]]
    <3>0. Picks(q, f, n, s, me)
      BY <2>1 DEF q
    <3>1. Len(t) = L + 1 /\ t[L + 1] = r /\ \A j \in 1 .. L : t[j] = q[j]
      BY <2>2, AppendProperties
    <3>2. /\ \A j \in 1 .. L : h[j] = f[j] /\ f[j] \in 1 .. n /\ f[j] # m
          /\ h[L + 1] = m
      BY <2>2, <3>0 DEF Picks
    <3>3. h \in [1 .. L + 1 -> 1 .. m]
      <4>1. \A j \in 1 .. L + 1 : j = L + 1 \/ j \in 1 .. L
        BY <2>2
      <4>0. \A i \in 1 .. n : i \in 1 .. m
        BY <2>2
      <4>2. \A j \in 1 .. L : f[j] \in 1 .. m
        BY <3>2, <4>0
      <4>3. m \in 1 .. m
        BY <2>2
      <4>. QED
        BY <4>1, <4>2, <4>3
    <3>4. \A j \in 1 .. L + 1 : j \in 1 .. L \/ j = L + 1
      BY <2>2
    <3> HIDE DEF h, t
    <3>5. \A j \in 1 .. Len(t) : Unsent(s, me, h[j]) /\ t[j] = RecordMsg(s.runtime[h[j]])
      BY <2>5, <3>0, <3>1, <3>2, <3>4 DEF Picks, r
    <3>6. \A i, j \in 1 .. Len(t) : h[i] = h[j] => i = j
      BY <3>0, <3>1, <3>2, <3>4 DEF Picks
    <3>7. \A i \in 1 .. m : Unsent(s, me, i) => \E j \in 1 .. Len(t) : h[j] = i
      <4>1. \A i \in 1 .. m : i \in 1 .. n \/ i = m
        BY <2>2
      <4>2. L + 1 \in 1 .. L + 1 /\ \A j \in 1 .. L : j \in 1 .. L + 1
        BY <2>2
      <4>. QED
        BY <3>0, <3>1, <3>2, <4>1, <4>2 DEF Picks
    <3>8. Picks(t, h, m, s, me)
      BY <3>1, <3>3, <3>5, <3>6, <3>7 DEF Picks
    <3>. QED
      BY <2>3, <2>5, <3>8 DEF t
  <2>. QED
    BY <2>4, <2>5
<1>5. Is(N)
  <2> HIDE DEF Is
  <2>1. 0 \in Good
    BY <1>2, <1>3
  <2>2. \A n \in 0 .. N : n < N /\ n \in Good => n + 1 \in Good
    <3>1. \A n \in 0 .. N : n < N => n + 1 \in 0 .. N
      BY <1>2
    <3>. QED
      BY <1>4, <3>1
  <2>3. \A n \in 0 .. N : n \in Good
    <3> HIDE DEF Good
    <3>. QED
      BY <1>2, <2>1, <2>2, Reaches
  <2>. QED
    BY <1>2, <2>3
<1>6. Outbound(s, me) = g[N] /\ g[N] \in Seq(Lines)
  BY <1>1, <1>2 DEF Sends
<1>. QED
  BY <1>5, <1>6

\* What a queue holds that is one message longer, or shorter, or that is
\* another one's beginning.
LEMMA HasParts ==
  ASSUME NEW S, NEW q \in Seq(S)
  PROVE  /\ \A m : ~Has(<<>>, m)
         /\ \A m \in S : \A x : Has(Append(q, m), x) <=> Has(q, x) \/ x = m
         /\ q # <<>> => \A x : Has(q, x) <=> x = Head(q) \/ Has(Tail(q), x)
         /\ \A n \in 0 .. Len(q) : \A x : Has(SubSeq(q, 1, n), x) => Has(q, x)
         /\ \A t \in Seq(S) : \A x : Has(q \o t, x) <=> Has(q, x) \/ Has(t, x)
         /\ \A x : Has(q, x) => x \in S
<1>1. \A m : ~Has(<<>>, m)
  BY DEF Has
<1>2. ASSUME NEW m \in S, NEW x
      PROVE  Has(Append(q, m), x) <=> Has(q, x) \/ x = m
  <2> DEFINE t == Append(q, m)
  <2>1. /\ Len(q) \in Nat /\ DOMAIN q = 1 .. Len(q) /\ DOMAIN t = 1 .. Len(q) + 1
        /\ \A i \in 1 .. Len(q) : t[i] = q[i]
        /\ t[Len(q) + 1] = m
    BY QueueAppended
  <2> HIDE DEF t
  <2>2. /\ \A i \in DOMAIN q : i \in DOMAIN t /\ t[i] = q[i]
        /\ Len(q) + 1 \in DOMAIN t
        /\ \A i \in DOMAIN t : i \in DOMAIN q \/ i = Len(q) + 1
    BY <2>1
  <2>3. Has(t, x) <=> Has(q, x) \/ x = m
    BY <2>1, <2>2 DEF Has
  <2>. QED
    BY <2>3 DEF t
<1>3. ASSUME q # <<>>, NEW x
      PROVE  Has(q, x) <=> x = Head(q) \/ Has(Tail(q), x)
  <2>1. /\ Head(q) = q[1] /\ Len(q) \in Nat /\ Len(q) > 0 /\ DOMAIN q = 1 .. Len(q)
        /\ DOMAIN Tail(q) = 1 .. Len(q) - 1
        /\ \A i \in 1 .. Len(q) - 1 : Tail(q)[i] = q[i + 1]
    BY <1>3, QueueParts
  <2> DEFINE h == Head(q) t == Tail(q) n == Len(q)
  <2> HIDE DEF h, t, n
  <2>2. /\ 1 \in DOMAIN q /\ q[1] = h
        /\ \A i \in DOMAIN t : i + 1 \in DOMAIN q /\ t[i] = q[i + 1]
        /\ \A i \in DOMAIN q : i = 1 \/ (i - 1 \in DOMAIN t /\ t[i - 1] = q[i])
    <3>1. \A i \in 1 .. n : i = 1 \/ (i - 1 \in 1 .. n - 1 /\ (i - 1) + 1 = i)
      BY <2>1 DEF n
    <3>2. \A i \in 1 .. n - 1 : i + 1 \in 1 .. n
      BY <2>1 DEF n
    <3>3. 1 \in 1 .. n
      BY <2>1 DEF n
    <3>. QED
      BY <2>1, <3>1, <3>2, <3>3 DEF n, h, t
  <2>3. Has(q, x) <=> x = h \/ Has(t, x)
    BY <2>2 DEF Has
  <2>. QED
    BY <2>3 DEF h, t
<1>4. ASSUME NEW n \in 0 .. Len(q), NEW x, Has(SubSeq(q, 1, n), x)
      PROVE  Has(q, x)
  <2>1. DOMAIN SubSeq(q, 1, n) = 1 .. n /\ \A i \in 1 .. n : SubSeq(q, 1, n)[i] = q[i]
    OBVIOUS
  <2>2. \A i \in 1 .. n : i \in DOMAIN q
    OBVIOUS
  <2>. QED
    BY <1>4, <2>1, <2>2 DEF Has
<1>5. ASSUME NEW t \in Seq(S), NEW x
      PROVE  Has(q \o t, x) <=> Has(q, x) \/ Has(t, x)
  <2> DEFINE v == q \o t
  <2>1. /\ \A i \in DOMAIN q : i \in DOMAIN v /\ v[i] = q[i]
        /\ \A i \in DOMAIN t : i + Len(q) \in DOMAIN v /\ v[i + Len(q)] = t[i]
        /\ \A i \in DOMAIN v : i \in DOMAIN q \/ (i - Len(q) \in DOMAIN t /\ v[i] = t[i - Len(q)])
    BY JoinedPlaces
  <2> HIDE DEF v
  <2>2. Has(v, x) <=> Has(q, x) \/ Has(t, x)
    BY <2>1 DEF Has
  <2>. QED
    BY <2>2 DEF v
<1>6. \A x : Has(q, x) => x \in S
  BY DEF Has
<1>. QED
  BY <1>1, <1>2, <1>3, <1>4, <1>5, <1>6

\* What is published are records.
LEMMA OutboundHas ==
  ASSUME NEW s \in Apps, NEW me \in Client, NEW x
  PROVE  Has(Outbound(s, me), x) <=>
           \E n \in DOMAIN s.runtime : Unsent(s, me, n) /\ x = RecordMsg(s.runtime[n])
<1>1. PICK f : Picks(Outbound(s, me), f, Len(s.runtime), s, me)
  BY OutboundPicks
<1>2. Outbound(s, me) \in Seq(Lines) /\ s.runtime \in Seq(Record)
  BY OutboundPicks DEF Apps
<1> DEFINE q == Outbound(s, me) w == s.runtime
<1> HIDE DEF q, w
<1>3. DOMAIN q = 1 .. Len(q) /\ DOMAIN w = 1 .. Len(w)
  BY <1>2 DEF q, w
<1>4. /\ f \in [1 .. Len(q) -> 1 .. Len(w)]
      /\ \A j \in 1 .. Len(q) : Unsent(s, me, f[j]) /\ q[j] = RecordMsg(w[f[j]])
      /\ \A m \in 1 .. Len(w) : Unsent(s, me, m) => \E j \in 1 .. Len(q) : f[j] = m
  BY <1>1 DEF Picks, q, w
<1>5. Has(q, x) <=> \E n \in DOMAIN w : Unsent(s, me, n) /\ x = RecordMsg(w[n])
  BY <1>3, <1>4 DEF Has
<1>. QED
  BY <1>5 DEF q, w

\* An empty queue holds nothing.
LEMMA HasNone == \A m : ~Has(<<>>, m)
BY DEF Has

\* A queue of one message has no rest.
LEMMA TailOfOne ==
  ASSUME NEW S, NEW q \in Seq(S), Len(q) = 1
  PROVE  Tail(q) = <<>>
<1>1. q # <<>>
  OBVIOUS
<1>2. Tail(q) \in Seq(S) /\ Len(Tail(q)) = 0
  BY <1>1, HeadTailProperties
<1>. QED
  BY <1>2, EmptySeq

\* The laws of the slots but for who holds them.
Hellos == Greets /\ OwnLines /\ Unwired

\* What the queue holds as a line, and what is pending.
LEMMA LinesKnown ==
  ASSUME LaneTyped, NEW i \in DOMAIN toHost
  PROVE  /\ toHost[i].conn \in Conn
         /\ \A k : Line(toHost[i], k) => toHost[i] = LineMsg(k, toHost[i].msg) /\ toHost[i].msg \in Lines
<1>1. toHost[i] \in Notices
  BY DEF LaneTyped, BridgeTyped
<1>. QED
  BY <1>1 DEF Notices, Line, LineMsg

\* Lines were lost from some point on, and some connections claim no more.
LEMMA FewerLines ==
  ASSUME LaneTyped, Hellos, UNCHANGED <<toHost, who, via>>,
         clients' \subseteq clients, bridge' => bridge,
         members' = members \/ DOMAIN members' = {},
         \A k \in Conn : /\ thread'[k] = "claiming" => thread[k] = "claiming" /\ up'[k] = up[k]
                         /\ up'[k] = up[k] \/ \E n \in 0 .. Len(up[k]) : up'[k] = SubSeq(up[k], 1, n)
  PROVE  Hellos'
<1>1. ASSUME NEW k \in Conn
      PROVE  /\ Has(up'[k], HelloMsg) => Has(up[k], HelloMsg) /\ Len(up'[k]) = Len(up[k])
             /\ up[k] = <<>> => up'[k] = <<>>
  <2>1. up[k] \in Seq(Lines)
    BY DEF LaneTyped, RoomTyped
  <2>2. CASE up'[k] # up[k]
    <3>1. PICK n \in 0 .. Len(up[k]) : up'[k] = SubSeq(up[k], 1, n)
      BY <2>2
    <3> DEFINE q == up[k] w == SubSeq(q, 1, n)
    <3>2. q \in Seq(Lines) /\ Len(q) \in Nat /\ Len(w) = n
      BY <2>1
    <3>3. Has(w, HelloMsg) => Has(q, HelloMsg)
      BY <2>1, HasParts
    <3>4. n = 0 => w = <<>>
      BY <2>1, SubSeqEmpty
    <3>5. Has(w, HelloMsg) => n # 0
      BY <3>4, HasNone
    <3>6. Has(q, HelloMsg) => Len(q) = 1
      BY DEF Hellos, Greets
    <3>7. q = <<>> => n = 0
      BY <3>2
    <3>. QED
      BY <3>1, <3>2, <3>3, <3>4, <3>5, <3>6, <3>7
  <2>. QED
    BY <2>2
<1>2. \A i \in DOMAIN toHost : toHost[i].conn \in Conn
  BY LinesKnown
<1>3. Greets'
  BY <1>1, <1>2 DEF Hellos, Greets
<1>4. OwnLines'
  BY DEF Hellos, OwnLines
<1>5. \A k \in Conn : Pending(k)' => Pending(k)
  BY <1>1 DEF Pending
<1>6. Unwired'
  BY <1>5 DEF Hellos, Unwired
<1>. QED
  BY <1>3, <1>4, <1>6 DEF Hellos

\* A member's line is routed.
LEMMA RouteUpHellos ==
  ASSUME LaneTyped, Seated, Hellos, NEW k \in Conn, RouteUp(k)
  PROVE  Hellos'
<1>0. up \in [Conn -> Seq(Lines)] /\ up[k] # <<>> /\ thread[k] = "routing" /\ UNCHANGED clients
  BY DEF LaneTyped, RoomTyped, RouteUp, hostVars, clients
<1>1. CASE ~room
  <2>1. /\ up' = [up EXCEPT ![k] = <<>>]
        /\ UNCHANGED <<toHost, who, via, members, bridge, thread>>
    BY <1>1 DEF RouteUp
  <2>2. SubSeq(up[k], 1, 0) = <<>> /\ 0 \in 0 .. Len(up[k])
    BY <1>0, SubSeqEmpty
  <2>3. \A c \in Conn : up'[c] = IF c = k THEN <<>> ELSE up[c]
    BY <1>0, <2>1
  <2>. QED
    BY <1>0, <2>1, <2>2, <2>3, FewerLines
<1>2. CASE room
  <2> DEFINE m == Head(up[k]) l == LineMsg(k, m) N == Len(toHost)
  <2>1. /\ toHost' = Append(toHost, l) /\ up' = [up EXCEPT ![k] = Tail(@)]
        /\ UNCHANGED <<who, via, members, bridge, thread>>
    BY <1>2 DEF RouteUp
  <2>2. m \in Lines /\ l \in Notices /\ toHost \in Seq(Notices)
    BY <1>0, MessagesTyped, QueueParts DEF LaneTyped, BridgeTyped
  <2>3. /\ N \in Nat /\ DOMAIN toHost = 1 .. N /\ DOMAIN toHost' = 1 .. N + 1
        /\ \A i \in 1 .. N : toHost'[i] = toHost[i]
        /\ toHost'[N + 1] = l
    BY <2>1, <2>2, QueueAppended
  <2> DEFINE M == N + 1
  <2>4. \A i \in DOMAIN toHost' : (i \in DOMAIN toHost /\ toHost'[i] = toHost[i]) \/ (i = M /\ toHost'[i] = l)
    BY <2>3
  <2>5. \A i \in DOMAIN toHost : i # M
    BY <2>3
  <2>6. l.type = "line" /\ l.conn = k /\ l.msg = m
    BY DEF LineMsg
  <2>7. Has(up[k], HelloMsg) <=> HelloMsg = m \/ Has(Tail(up[k]), HelloMsg)
    BY <1>0, HasParts
  <2>8. Len(up[k]) = 1 => Tail(up[k]) = <<>>
    BY <1>0, TailOfOne
  <2>9. \A c \in Conn : up'[c] = IF c = k THEN Tail(up[k]) ELSE up[c]
    BY <1>0, <2>1
  <2>10. ~Has(<<>>, HelloMsg)
    BY HasNone
  <2>11. \A i \in DOMAIN toHost : toHost[i].conn \in Conn
    BY LinesKnown
  <2>12. members[who[k]] = k
    BY <1>0, <1>2 DEF Seated, Routed
  <2>13. \A x : Has(toHost', x) <=> Has(toHost, x) \/ x = l
    BY <2>1, <2>2, HasParts
  <2> HIDE DEF l, m, M, N
  <2>14. Greets'
    <3>1. ASSUME NEW c \in Conn, thread'[c] = "claiming"
          PROVE  up'[c] = <<HelloMsg>> /\ \A i \in DOMAIN toHost' : toHost'[i].conn # c
      BY <1>0, <2>1, <2>4, <2>6, <2>9, <3>1 DEF Hellos, Greets
    <3>2. ASSUME NEW c \in Conn, Has(up'[c], HelloMsg)
          PROVE  Len(up'[c]) = 1 /\ \A j \in DOMAIN toHost' : ~Line(toHost'[j], c)
      <4>1. c # k
        BY <2>7, <2>8, <2>9, <2>10, <3>2 DEF Hellos, Greets
      <4>. QED
        BY <2>4, <2>6, <2>9, <3>2, <4>1 DEF Hellos, Greets, Line
    <3>3. ASSUME NEW i \in DOMAIN toHost', toHost'[i].type = "line", toHost'[i].msg = HelloMsg
          PROVE  /\ up'[toHost'[i].conn] = <<>>
                 /\ \A j \in DOMAIN toHost' : Line(toHost'[j], toHost'[i].conn) => j = i
      <4>1. CASE i \in DOMAIN toHost /\ toHost'[i] = toHost[i]
        <5>1. up[toHost[i].conn] = <<>> /\ toHost[i].conn # k
          BY <1>0, <3>3, <4>1 DEF Hellos, Greets
        <5>2. \A j \in DOMAIN toHost : Line(toHost[j], toHost[i].conn) => j = i
          BY <3>3, <4>1 DEF Hellos, Greets
        <5>. QED
          BY <2>4, <2>6, <2>9, <2>11, <4>1, <5>1, <5>2 DEF Line
      <4>2. CASE i = M /\ toHost'[i] = l
        <5>1. Has(up[k], HelloMsg)
          BY <2>6, <2>7, <3>3, <4>2
        <5>2. Tail(up[k]) = <<>> /\ \A j \in DOMAIN toHost : ~Line(toHost[j], k)
          BY <2>8, <5>1 DEF Hellos, Greets
        <5>. QED
          BY <2>4, <2>6, <2>9, <4>2, <5>2
      <4>. QED
        BY <2>4, <4>1, <4>2
    <3>. QED
      BY <3>1, <3>2, <3>3 DEF Greets
  <2>15. OwnLines'
    BY <2>1, <2>4, <2>6, <2>12 DEF Hellos, OwnLines
  <2>16. \A c \in Conn : Pending(c)' => Pending(c)
    <3>1. \A c \in Conn : LineMsg(c, HelloMsg) = l => c = k /\ m = HelloMsg
      BY DEF LineMsg, l
    <3>. QED
      BY <2>7, <2>9, <2>13, <3>1 DEF Pending
  <2>17. Unwired'
    BY <1>0, <2>1, <2>16 DEF Hellos, Unwired
  <2>. QED
    BY <2>14, <2>15, <2>17 DEF Hellos
<1>. QED
  BY <1>1, <1>2

\* A notice takes its place behind the lines.
LEMMA CleanupHellos ==
  ASSUME LaneTyped, Hellos, NEW k \in Conn, Cleanup(k)
  PROVE  Hellos'
<1>0. /\ thread[k] = "routing" /\ UNCHANGED <<clients, up, who, via, bridge>>
      /\ thread' = [thread EXCEPT ![k] = "ended"]
      /\ members' = Without(members, {who[k]})
      /\ toHost' = toHost \/ toHost' = Append(toHost, LeftMsg(k))
  BY DEF Cleanup, hostVars, clients
<1>1. LeftMsg(k) \in Notices /\ toHost \in Seq(Notices)
  BY MessagesTyped DEF LaneTyped, BridgeTyped
<1> DEFINE l == LeftMsg(k) N == Len(toHost) M == N + 1
<1>2. \A i \in DOMAIN toHost' : (i \in DOMAIN toHost /\ toHost'[i] = toHost[i]) \/ toHost'[i] = l
  <2>1. CASE toHost' = toHost
    BY <2>1
  <2>2. CASE toHost' = Append(toHost, l)
    <3>1. /\ N \in Nat /\ DOMAIN toHost = 1 .. N /\ DOMAIN toHost' = 1 .. N + 1
          /\ \A i \in 1 .. N : toHost'[i] = toHost[i]
          /\ toHost'[N + 1] = l
      BY <1>1, <2>2, QueueAppended
    <3>2. \A i \in 1 .. N + 1 : i \in 1 .. N \/ i = N + 1
      BY <3>1
    <3> HIDE DEF N, l
    <3>. QED
      BY <3>1, <3>2
  <2>. QED
    BY <1>0, <2>1, <2>2
<1>3. l.type = "left" /\ l.conn = k
  BY DEF LeftMsg
<1>4. \A c \in Conn : LineMsg(c, HelloMsg).type = "line"
  BY DEF LineMsg
<1>5. \A c \in Conn : thread'[c] = "claiming" => thread[c] = "claiming" /\ c # k
  BY <1>0 DEF LaneTyped, RoomTyped
<1>6. \A u \in DOMAIN members' : u \in DOMAIN members /\ members'[u] = members[u]
  BY <1>0 DEF Without
<1> HIDE DEF l, N, M
<1>7. Greets'
  BY <1>0, <1>2, <1>3, <1>5 DEF Hellos, Greets, Line
<1>8. OwnLines'
  BY <1>0, <1>2, <1>3, <1>6 DEF Hellos, OwnLines
<1>9. \A c \in Conn : Pending(c)' => Pending(c)
  BY <1>0, <1>2, <1>3, <1>4 DEF Pending, Has
<1>10. Unwired'
  BY <1>0, <1>9 DEF Hellos, Unwired
<1>. QED
  BY <1>7, <1>8, <1>10 DEF Hellos

\* The bridge reads an entry: a Hello is the only line of its connection.
LEMMA HostReadHellos ==
  ASSUME LaneTyped, QueueInv, Hellos, HostRead
  PROVE  Hellos' /\ \A k \in Conn : Head(toHost) = LineMsg(k, HelloMsg) => ~Pending(k)'
<1> DEFINE f == Head(toHost) k == f.conn u == who[k] N == Len(toHost)
<1>1. /\ bridge /\ toHost # <<>> /\ toHost' = Tail(toHost)
      /\ UNCHANGED <<room, members, thread, who, bridge, up>>
      /\ IF f.type = "left" THEN LeaveBridge(u) ELSE HandleLine(k, u, f.msg)
  BY DEF HostRead, relayVars
<1>2. Heads(f, k, u)
  BY <1>1 DEF Heads
<1>3. /\ N \in Nat /\ N > 0 /\ DOMAIN toHost = 1 .. N /\ DOMAIN toHost' = 1 .. N - 1
      /\ \A i \in 1 .. N - 1 : toHost'[i] = toHost[i + 1]
      /\ f = toHost[1] /\ k \in Conn /\ u \in Client /\ f \in Notices
  BY <1>2, HeadsParts DEF QueueInv
<1>4. /\ \A i \in DOMAIN toHost' : i + 1 \in DOMAIN toHost /\ toHost'[i] = toHost[i + 1] /\ i + 1 # 1
      /\ \A i, j \in DOMAIN toHost' : i + 1 = j + 1 => i = j
      /\ 1 \in DOMAIN toHost
  BY <1>3
<1> HIDE DEF N, f, k, u
<1>5. Greets'
  <2>1. ASSUME NEW i \in DOMAIN toHost', toHost'[i].type = "line", toHost'[i].msg = HelloMsg
        PROVE  /\ up[toHost'[i].conn] = <<>>
               /\ \A j \in DOMAIN toHost' : Line(toHost'[j], toHost'[i].conn) => j = i
    BY <1>4, <2>1 DEF Hellos, Greets
  <2>2. \A c \in Conn : thread[c] = "claiming" =>
          up[c] = <<HelloMsg>> /\ \A i \in DOMAIN toHost' : toHost'[i].conn # c
    BY <1>4 DEF Hellos, Greets
  <2>3. \A c \in Conn : Has(up[c], HelloMsg) =>
          Len(up[c]) = 1 /\ \A j \in DOMAIN toHost' : ~Line(toHost'[j], c)
    BY <1>4 DEF Hellos, Greets
  <2>. QED
    BY <1>1, <2>1, <2>2, <2>3 DEF Greets
<1>6. OwnLines'
  BY <1>1, <1>4 DEF Hellos, OwnLines
<1>7. ASSUME NEW c \in Conn
      PROVE  /\ Pending(c)' => Pending(c)
             /\ f = LineMsg(c, HelloMsg) => ~Pending(c)'
  <2>1. Pending(c)' <=> Has(up[c], HelloMsg) \/ Has(toHost', LineMsg(c, HelloMsg))
    BY <1>1 DEF Pending
  <2>2. Has(toHost', LineMsg(c, HelloMsg)) => \E i \in DOMAIN toHost : i # 1 /\ toHost[i] = LineMsg(c, HelloMsg)
    BY <1>4 DEF Has
  <2>3. f = LineMsg(c, HelloMsg) => up[c] = <<>> /\ \A j \in DOMAIN toHost : Line(toHost[j], c) => j = 1
    <3>1. /\ LineMsg(c, HelloMsg).type = "line" /\ LineMsg(c, HelloMsg).conn = c
          /\ LineMsg(c, HelloMsg).msg = HelloMsg
      BY DEF LineMsg
    <3>2. ASSUME f = LineMsg(c, HelloMsg)
          PROVE  toHost[1].type = "line" /\ toHost[1].conn = c /\ toHost[1].msg = HelloMsg
      BY <1>3, <3>1, <3>2
    <3>. QED
      BY <1>4, <3>2 DEF Hellos, Greets
  <2>4. Line(LineMsg(c, HelloMsg), c)
    BY DEF Line, LineMsg
  <2>. QED
    BY <2>1, <2>2, <2>3, <2>4, HasNone DEF Pending, Has
<1>8. Unwired'
  <2>1. CASE f.type = "left"
    <3>1. clients' = clients \ {u} /\ via' = via
      BY <1>1, <1>3, <2>1, ClientsAfter DEF LeaveBridge, LaneTyped
    <3>. QED
      BY <1>1, <1>7, <3>1 DEF Hellos, Unwired
  <2>2. CASE f.type # "left"
    <3>1. CASE f.msg = HelloMsg /\ (\E n \in Name : HandleHello(u, n)) /\ via' = [via EXCEPT ![u] = k]
      <4>1. clients' = clients \cup {u}
        BY <1>3, <3>1, ClientsAfter DEF LaneTyped
      <4>2. f = LineMsg(k, HelloMsg)
        BY <1>3, <2>2, <3>1 DEF Notices, LineMsg, k
      <4>3. via'[u] = k /\ \A v \in Client : v # u => via'[v] = via[v]
        BY <1>3, <3>1 DEF LaneTyped, BridgeTyped
      <4>4. ASSUME NEW c \in Conn, Pending(c)', who[c] \in clients'
            PROVE  via'[who[c]] # c
        <5>1. Pending(c) /\ c # k
          BY <1>7, <4>2, <4>4
        <5>2. who[c] = u \/ (who[c] \in clients /\ who[c] # u /\ who[c] \in Client)
          BY <4>1, <4>4, <1>3, ClientsFacts DEF LaneTyped
        <5>. QED
          BY <1>1, <4>3, <5>1, <5>2 DEF Hellos, Unwired
      <4>. QED
        BY <1>1, <4>4 DEF Unwired
    <3>2. CASE via' = via /\ clients' = clients
      BY <1>1, <1>7, <3>2 DEF Hellos, Unwired
    <3>3. HandleLine(k, u, f.msg)
      BY <1>1, <2>2
    <3>4. (HandleAction(u, f.msg.record) \/ UNCHANGED hostVars) => clients' = clients
      BY DEF HandleAction, clients, hostVars
    <3>. QED
      BY <3>1, <3>2, <3>3, <3>4 DEF HandleLine
  <2>. QED
    BY <2>1, <2>2
<1>. QED
  BY <1>5, <1>6, <1>7, <1>8 DEF Hellos, f

\* A slot is taken anew: nothing of it is queued, and nobody is a client over it.
LEMMA DialHellos ==
  ASSUME LaneTyped, QueueInv, Hellos, NEW u \in Client, Dial(u)
  PROVE  Hellos'
<1>1. PICK k \in Conn :
        /\ thread[k] = "ended"
        /\ \A i \in DOMAIN toHost : toHost[i].conn # k
        /\ who' = [who EXCEPT ![k] = u]
        /\ thread' = [thread EXCEPT ![k] = "claiming"]
        /\ up' = [up EXCEPT ![k] = <<HelloMsg>>]
  BY DEF Dial
<1>2. UNCHANGED <<toHost, members, via, bridge, clients>>
  BY DEF Dial, hostVars, bridgeVars, clients
<1>3. /\ who'[k] = u /\ thread'[k] = "claiming" /\ up'[k] = <<HelloMsg>>
      /\ \A c \in Conn : c # k => who'[c] = who[c] /\ thread'[c] = thread[c] /\ up'[c] = up[c]
  BY <1>1 DEF LaneTyped, RoomTyped
<1>4. \A i \in DOMAIN toHost : toHost[i].conn \in Conn
  BY LinesKnown
<1>5. Len(<<HelloMsg>>) = 1
  OBVIOUS
<1>6. Greets'
  <2>1. ASSUME NEW c \in Conn
        PROVE  /\ thread'[c] = "claiming" =>
                    up'[c] = <<HelloMsg>> /\ \A i \in DOMAIN toHost : toHost[i].conn # c
               /\ Has(up'[c], HelloMsg) =>
                    Len(up'[c]) = 1 /\ \A j \in DOMAIN toHost : ~Line(toHost[j], c)
    BY <1>1, <1>3, <1>5 DEF Hellos, Greets, Line
  <2>2. ASSUME NEW i \in DOMAIN toHost, toHost[i].type = "line", toHost[i].msg = HelloMsg
        PROVE  /\ up'[toHost[i].conn] = <<>>
               /\ \A j \in DOMAIN toHost : Line(toHost[j], toHost[i].conn) => j = i
    BY <1>1, <1>3, <1>4, <2>2 DEF Hellos, Greets
  <2>. QED
    BY <1>2, <2>1, <2>2 DEF Greets
<1>7. OwnLines'
  BY <1>1, <1>2, <1>3, <1>4 DEF Hellos, OwnLines
<1>8. Unwired'
  <2>1. SUFFICES ASSUME bridge, NEW c \in Conn, Pending(c)', who'[c] \in clients
                 PROVE  via[who'[c]] # c
    BY <1>2 DEF Unwired
  <2>2. CASE c = k
    <3>1. SUFFICES ASSUME via[u] = k
                   PROVE  FALSE
      BY <1>3, <2>2
    <3>2. who[k] = u /\ (Routed(k) \/ Tells(toHost, k))
      BY <1>3, <2>1, <2>2, <3>1 DEF QueueInv, CameBy, Seated
    <3>3. ~Tells(toHost, k)
      BY <1>1 DEF Tells, Left
    <3>4. ~Routed(k)
      BY <1>1 DEF QueueInv, Seated, Routed
    <3>. QED
      BY <3>2, <3>3, <3>4
  <2>3. CASE c # k
    <3>1. Pending(c)
      BY <1>2, <1>3, <2>1, <2>3 DEF Pending
    <3>. QED
      BY <1>3, <2>1, <2>3, <3>1 DEF Hellos, Unwired
  <2>. QED
    BY <2>2, <2>3
<1>. QED
  BY <1>6, <1>7, <1>8 DEF Hellos

\* A live client has been greeted: what it publishes are records.
LEMMA PublishHellos ==
  ASSUME LaneTyped, SlotLaw, NEW u \in Client, Unstarted(u), Publish(u)
  PROVE  Hellos'
<1> DEFINE k == app[u].conn o == Outbound(app[u], u)
<1>1. /\ app[u].mode = "live" /\ link[k] = "open" /\ up' = [up EXCEPT ![k] = @ \o o]
      /\ UNCHANGED <<toHost, thread, who, members, via, bridge, clients>>
  BY DEF Publish, hostVars, bridgeVars, clients
<1>2. /\ app[u] \in Apps /\ k \in Conn /\ app[u].mode \in Holding
      /\ up \in [Conn -> Seq(Lines)] /\ o \in Seq(Lines) /\ Inbox(u) \in Seq(Answers)
  BY <1>1, OutboundPicks, LaneReads DEF LaneTyped, AppsTyped, RoomTyped, Holding
<1>3. ~Pending(k)
  <2>1. 0 \in 0 .. Len(Inbox(u)) /\ BeginsAt(app[u], Inbox(u), 0)
    BY <1>1, <1>2 DEF BeginsAt
  <2>2. Starts(app[u], Inbox(u))
    BY <2>1 DEF Starts
  <2>. QED
    BY <1>2, <2>2 DEF Unstarted
<1>4. ~Has(o, HelloMsg)
  <2>1. \A r : RecordMsg(r) # HelloMsg
    BY DEF RecordMsg, HelloMsg
  <2>. QED
    BY <1>2, <2>1, OutboundHas
<1> DEFINE w == up[k]
<1>5. /\ up'[k] = w \o o /\ w \in Seq(Lines)
      /\ \A c \in Conn : c # k => up'[c] = up[c]
  BY <1>1, <1>2
<1>6. ~Has(up'[k], HelloMsg)
  <2>1. ~Has(w, HelloMsg)
    BY <1>3 DEF Pending
  <2> HIDE DEF w, o
  <2>2. Has(w \o o, HelloMsg) <=> Has(w, HelloMsg) \/ Has(o, HelloMsg)
    BY <1>2, <1>5, HasParts
  <2>. QED
    BY <1>4, <1>5, <2>1, <2>2
<1>7. thread[k] # "claiming"
  <2>1. thread[k] = "claiming" => Has(up[k], HelloMsg)
    BY <1>2 DEF SlotLaw, Greets, Has
  <2>. QED
    BY <1>3, <2>1 DEF Pending
<1>8. \A i \in DOMAIN toHost : toHost[i].type = "line" /\ toHost[i].msg = HelloMsg =>
          toHost[i].conn \in Conn /\ toHost[i].conn # k
  BY <1>3, LinesKnown DEF Pending, Has, Line
<1> HIDE DEF k, o, w
<1>9. Greets'
  <2>1. \A c \in Conn : thread[c] = "claiming" =>
          up'[c] = <<HelloMsg>> /\ \A i \in DOMAIN toHost : toHost[i].conn # c
    BY <1>5, <1>7 DEF SlotLaw, Greets
  <2>2. \A c \in Conn : Has(up'[c], HelloMsg) =>
          Len(up'[c]) = 1 /\ \A j \in DOMAIN toHost : ~Line(toHost[j], c)
    BY <1>5, <1>6 DEF SlotLaw, Greets
  <2>3. \A i \in DOMAIN toHost : toHost[i].type = "line" /\ toHost[i].msg = HelloMsg =>
          /\ up'[toHost[i].conn] = <<>>
          /\ \A j \in DOMAIN toHost : Line(toHost[j], toHost[i].conn) => j = i
    BY <1>5, <1>8 DEF SlotLaw, Greets
  <2>. QED
    BY <1>1, <2>1, <2>2, <2>3 DEF Greets
<1>10. OwnLines'
  BY <1>1 DEF SlotLaw, OwnLines
<1>11. \A c \in Conn : Pending(c)' => Pending(c)
  BY <1>1, <1>5, <1>6 DEF Pending
<1>12. Unwired'
  BY <1>1, <1>11 DEF SlotLaw, Unwired
<1>. QED
  BY <1>9, <1>10, <1>12 DEF Hellos

\* A claim that succeeds finds no line of its user; one that does not ends the
\* connection.
LEMMA ClaimHellos ==
  ASSUME Prompt, LaneTyped, Hellos, NEW k \in Conn, Claim(k)
  PROVE  Hellos'
<1>0. UNCHANGED <<toHost, who, via, bridge, clients>>
  BY DEF Claim, hostVars, bridgeVars, clients
<1>1. CASE /\ ~Leftover(who[k]) /\ members' = With(members, who[k], k)
           /\ thread' = [thread EXCEPT ![k] = "routing"] /\ up' = up
  <2>1. \A c \in Conn : thread'[c] = "claiming" => thread[c] = "claiming"
    BY <1>1 DEF LaneTyped, RoomTyped
  <2>2. Greets'
    BY <1>0, <1>1, <2>1 DEF Hellos, Greets
  <2>3. OwnLines'
    BY <1>0, <1>1 DEF Hellos, OwnLines, Leftover, With
  <2>4. Unwired'
    BY <1>0, <1>1 DEF Hellos, Unwired, Pending
  <2>. QED
    BY <2>2, <2>3, <2>4 DEF Hellos
<1>2. CASE members' = members /\ thread' = [thread EXCEPT ![k] = "ended"] /\ up' = [up EXCEPT ![k] = <<>>]
  <2>1. up[k] \in Seq(Lines)
    BY DEF LaneTyped, RoomTyped
  <2>2. SubSeq(up[k], 1, 0) = <<>> /\ 0 \in 0 .. Len(up[k])
    BY <2>1, SubSeqEmpty
  <2>3. \A c \in Conn : up'[c] = IF c = k THEN <<>> ELSE up[c]
    BY <1>2 DEF LaneTyped, RoomTyped
  <2>4. \A c \in Conn : thread'[c] = "claiming" => thread[c] = "claiming" /\ c # k
    BY <1>2 DEF LaneTyped, RoomTyped
  <2>. QED
    BY <1>0, <1>2, <2>2, <2>3, <2>4, FewerLines
<1>. QED
  BY <1>1, <1>2 DEF Claim

\* Every step keeps the slots in order.
LEMMA SlotStep ==
  ASSUME Prompt, LaneInv, SlotLaw, \A u \in Client : Unstarted(u), RelayNext
  PROVE  SlotLaw'
<1>0. LaneTyped /\ QueueInv /\ TypeOK /\ Hellos /\ Seated
  BY DEF LaneInv, QueueInv, LaneTyped, SlotLaw, Hellos
<1>1. Held'
  BY <1>0, HeldStep DEF SlotLaw
<1> DEFINE Plain == /\ UNCHANGED <<toHost, who, via, up, thread>>
                    /\ clients' \subseteq clients /\ (bridge' => bridge)
                    /\ members' = members \/ DOMAIN members' = {}
<1>2. Plain => Hellos'
  BY <1>0, FewerLines
<1>3. ASSUME \/ RouteDown \/ Pump \/ HostEdit \/ SwapDocument \/ HostLeave \/ HostLinkBreaks
             \/ \E k \in Conn : HalfOpenEnds(k)
             \/ \E u \in Client : ReadDown(u) \/ LinkLost(u) \/ HandshakeTimeout(u) \/ Edit(u)
                                  \/ AfterEnd(u) \/ Silence(u)
      PROVE  Hellos'
  <2>1. Steady
    BY <1>0, <1>3, SteadySteps
  <2>2. up' = up
    BY <1>3 DEF RouteDown, Pump, HostEdit, SwapDocument, HostLeave, HostLinkBreaks, HalfOpenEnds,
                ReadDown, LinkLost, HandshakeTimeout, Edit, AfterEnd, Silence, relayVars
  <2>3. bridge' => bridge
    BY <2>1 DEF Steady
  <2>. QED
    BY <1>2, <2>1, <2>2, <2>3 DEF Steady
<1>4. ASSUME RoomCloses
      PROVE  Hellos'
  <2>1. DOMAIN members' = {}
    BY <1>4 DEF RoomCloses, Without
  <2>. QED
    BY <1>2, <1>4, <2>1 DEF RoomCloses, hostVars, bridgeVars, clients
<1>5. ASSUME \E k \in Conn : PingRefused(k)
      PROVE  Hellos'
  BY <1>2, <1>5 DEF PingRefused, hostVars, relayVars, clients
<1>6. ASSUME \E k \in Conn : Break(k)
      PROVE  Hellos'
  <2>0. PICK k \in Conn : Break(k)
    BY <1>6
  <2>1. PICK n \in 0 .. Len(up[k]) : up' = [up EXCEPT ![k] = SubSeq(@, 1, n)]
    BY <2>0 DEF Break
  <2>2. Steady
    BY <1>0, <2>0, SteadySteps
  <2>3. \A c \in Conn : up'[c] = IF c = k THEN SubSeq(up[k], 1, n) ELSE up[c]
    BY <1>0, <2>1 DEF LaneTyped, RoomTyped
  <2>4. \A c \in Conn : thread[c] = "claiming" => c # k
    BY <2>0 DEF Break
  <2>5. UNCHANGED <<toHost, who, via, thread, members, bridge>> /\ clients' \subseteq clients
    BY <2>0, <2>2 DEF Steady, Break, bridgeVars
  <2>6. \A c \in Conn :
          /\ thread'[c] = "claiming" => thread[c] = "claiming" /\ up'[c] = up[c]
          /\ up'[c] = up[c] \/ \E j \in 0 .. Len(up[c]) : up'[c] = SubSeq(up[c], 1, j)
    BY <2>3, <2>4, <2>5
  <2>. QED
    BY <1>0, <2>5, <2>6, FewerLines
<1>7. ASSUME \/ HostRead
             \/ \E k \in Conn : Claim(k) \/ RouteUp(k) \/ Cleanup(k)
             \/ \E u \in Client : Dial(u) \/ Publish(u)
      PROVE  Hellos'
  <2>1. ASSUME NEW k \in Conn, Claim(k) \/ RouteUp(k) \/ Cleanup(k)
        PROVE  Hellos'
    BY <1>0, <2>1, ClaimHellos, RouteUpHellos, CleanupHellos
  <2>2. ASSUME NEW u \in Client, Dial(u) \/ Publish(u)
        PROVE  Hellos'
    BY <1>0, <2>2, DialHellos, PublishHellos
  <2>. QED
    BY <1>0, <1>7, <2>1, <2>2, HostReadHellos
<1>8. Hellos'
  BY <1>3, <1>4, <1>5, <1>6, <1>7 DEF RelayNext
<1>. QED
  BY <1>1, <1>8 DEF SlotLaw, Hellos

-----------------------------------------------------------------------------
(* What the steps of the core and their drains do to what waits for u.     *)

\* The mail of one frame, and of a queue that loses its first frame or its end.
LEMMA MailParts ==
  ASSUME NEW u, NEW fs \in Seq(Frames)
  PROVE  /\ fs # <<>> => Mail(fs, u) = (IF Head(fs).to = u THEN <<Head(fs).msg>> ELSE <<>>) \o Mail(Tail(fs), u)
         /\ \A n \in 0 .. Len(fs) : \E y \in Seq(Answers) : Mail(fs, u) = Mail(SubSeq(fs, 1, n), u) \o y
<1>1. ASSUME fs # <<>>
      PROVE  Mail(fs, u) = (IF Head(fs).to = u THEN <<Head(fs).msg>> ELSE <<>>) \o Mail(Tail(fs), u)
  <2> DEFINE h == Head(fs) t == Tail(fs) e == <<>>
  <2>1. h \in Frames /\ t \in Seq(Frames) /\ <<h>> \in Seq(Frames) /\ fs = <<h>> \o t
    BY <1>1, HeadTailProperties
  <2>2. e \in Seq(Frames) /\ Append(e, h) = <<h>> /\ h.msg \in Answers
    BY <2>1, MessagesTyped
  <2>3. Mail(e, u) = e /\ Append(e, h.msg) = <<h.msg>>
    <3>1. Mail(<<>>, u) = <<>>
      BY MailIs
    <3>. QED
      BY <3>1
  <2> HIDE DEF h, t, e
  <2>4. Mail(<<h>>, u) = IF h.to = u THEN <<h.msg>> ELSE <<>>
    <3>1. Mail(Append(e, h), u) = IF h.to = u THEN Append(Mail(e, u), h.msg) ELSE Mail(e, u)
      BY <2>1, <2>2, MailIs
    <3>. QED
      BY <2>2, <2>3, <3>1 DEF e
  <2>5. Mail(<<h>> \o t, u) = Mail(<<h>>, u) \o Mail(t, u)
    BY <2>1, MailIs
  <2>. QED
    BY <2>1, <2>4, <2>5 DEF h, t
<1>2. ASSUME NEW n \in 0 .. Len(fs)
      PROVE  \E y \in Seq(Answers) : Mail(fs, u) = Mail(SubSeq(fs, 1, n), u) \o y
  <2> DEFINE w == SubSeq(fs, 1, n) t == SubSeq(fs, n + 1, Len(fs))
  <2>1. Len(fs) \in Nat /\ n \in Nat /\ n <= Len(fs)
    OBVIOUS
  <2>2. w \in Seq(Frames) /\ t \in Seq(Frames)
    <3>1. \A i \in 1 .. n : fs[i] \in Frames
      BY <2>1
    <3>2. \A i \in n + 1 .. Len(fs) : fs[i] \in Frames
      BY <2>1
    <3>. QED
      BY <2>1, <3>1, <3>2, SubSeqProperties
  <2>3. fs = w \o t
    <3>1. 1 \in 1 .. Len(fs) + 1 /\ n \in 1 - 1 .. Len(fs) /\ Len(fs) \in n .. Len(fs)
      BY <2>1
    <3>. QED
      BY <3>1, ConcatAdjacentSubSeq, SubSeqFull
  <2> HIDE DEF w, t
  <2>4. Mail(w \o t, u) = Mail(w, u) \o Mail(t, u) /\ Mail(t, u) \in Seq(Answers)
    BY <2>2, MailIs
  <2>. QED
    BY <2>3, <2>4 DEF w
<1>. QED
  BY <1>1, <1>2

\* Only rosters were queued to u, if anything was.
Gossip(u, t) ==
  /\ t \in Seq(HostMessage) /\ sent'[u] = sent[u] \o t
  /\ \A i \in DOMAIN t : t[i].type = "roster"
  /\ u \notin clients => t = <<>>

\* What a step of the core queues.
LEMMA CoreSends ==
  ASSUME TypeOK, NEW v \in Client
  PROVE  /\ sent'[v] = sent[v] => Gossip(v, <<>>)
         /\ \A S \in SUBSET Client : DropClients(S) =>
              IF v \in S THEN sent'[v] = <<>> ELSE \E t : Gossip(v, t)
         /\ \A u \in Client, n \in Name : HandleHello(u, n) =>
              IF v = u THEN \E R \in Rosters : sent'[v] = JoinStream(R)
                                               /\ UNCHANGED <<records, snapshot>>
              ELSE \E t : Gossip(v, t)
         /\ \A u \in Client, r \in Record : HandleAction(u, r) =>
              sent'[v] = sent[v] \o IF v \in clients \ {u} THEN <<RecordMsg(r)>> ELSE <<>>
         /\ \A r \in Record : HandleLocal(r) =>
              sent'[v] = sent[v] \o IF v \in clients THEN <<RecordMsg(r)>> ELSE <<>>
<1> DEFINE e == <<>>
<1>0. sent[v] \in Seq(HostMessage) /\ clients \subseteq Client
  BY ClientsFacts
<1>1. e \in Seq(HostMessage) /\ sent[v] \o e = sent[v] /\ \A i \in DOMAIN e : FALSE
  BY <1>0, ConcatEmptySeq
<1>2. ASSUME sent'[v] = sent[v]
      PROVE  Gossip(v, e)
  BY <1>1, <1>2 DEF Gossip
<1>3. ASSUME NEW S \in SUBSET Client, DropClients(S)
      PROVE  IF v \in S THEN sent'[v] = <<>> ELSE \E t : Gossip(v, t)
  <2>1. CASE v \notin S /\ v \in clients
    <3> DEFINE m == RosterMsg(Without(roster, S))
    <3>1. m \in HostMessage /\ m.type = "roster"
      <4>1. Host \in User
        BY DEF User
      <4>2. Without(roster, S) \in Rosters
        <5>1. PICK D \in SUBSET User : roster \in [D -> Name]
          BY DEF TypeOK, Rosters
        <5>2. Without(roster, S) \in [D \ S -> Name]
          BY <5>1 DEF Without
        <5>. QED
          BY <5>2 DEF Rosters
      <4>. QED
        BY <4>2, MessageTyping DEF RosterMsg
    <3>2. sent'[v] = Append(sent[v], m)
      BY <1>3, <2>1 DEF DropClients
    <3> HIDE DEF m
    <3> DEFINE t == <<m>>
    <3>3. t \in Seq(HostMessage) /\ Append(sent[v], m) = sent[v] \o t
      BY <1>0, <3>1, AppendIsConcat
    <3>4. \A i \in DOMAIN t : t[i].type = "roster"
      BY <3>1
    <3> HIDE DEF t
    <3>5. Gossip(v, t)
      BY <2>1, <3>2, <3>3, <3>4 DEF Gossip
    <3>. QED
      BY <2>1, <3>5
  <2>2. CASE v \notin S /\ v \notin clients
    <3>1. sent'[v] = sent[v]
      BY <1>3, <2>2 DEF DropClients
    <3>. QED
      BY <1>2, <2>2, <3>1
  <2>3. CASE v \in S
    BY <1>3, <2>3 DEF DropClients
  <2>. QED
    BY <2>1, <2>2, <2>3
<1>4. ASSUME NEW u \in Client, NEW n \in Name, HandleHello(u, n)
      PROVE  IF v = u THEN \E R \in Rosters : sent'[v] = JoinStream(R)
                                               /\ UNCHANGED <<records, snapshot>>
             ELSE \E t : Gossip(v, t)
  <2> DEFINE R == With(roster, u, n) t == JoinNews(u, R)
  <2>1. R \in Rosters
    BY RosterTyping DEF TypeOK, User
  <2>2. sent'[v] = IF v = u THEN JoinStream(R) ELSE IF v \in clients THEN sent[v] \o t ELSE sent[v]
    BY <1>4 DEF HandleHello
  <2>3. UNCHANGED <<records, snapshot>>
    BY <1>4 DEF HandleHello
  <2>4. t \in Seq(HostMessage) /\ \A i \in DOMAIN t : t[i].type = "roster"
    <3>1. t \in Seq(HostMessage) /\ \A j \in 1 .. Len(t) : t[j].type = "roster"
      BY <2>1, JoinNewsShape
    <3>. QED
      BY <3>1
  <2> HIDE DEF R, t
  <2>5. v # u /\ v \in clients => Gossip(v, t)
    BY <2>2, <2>4 DEF Gossip
  <2>6. v # u /\ v \notin clients => Gossip(v, e)
    BY <1>2, <2>2
  <2>. QED
    BY <2>1, <2>2, <2>3, <2>5, <2>6
<1>5. ASSUME NEW u \in Client, NEW r \in Record, HandleAction(u, r)
      PROVE  sent'[v] = sent[v] \o IF v \in clients \ {u} THEN <<RecordMsg(r)>> ELSE <<>>
  BY <1>1, <1>5 DEF HandleAction, Broadcast
<1>6. ASSUME NEW r \in Record, HandleLocal(r)
      PROVE  sent'[v] = sent[v] \o IF v \in clients THEN <<RecordMsg(r)>> ELSE <<>>
  BY <1>1, <1>6 DEF HandleLocal, Broadcast
<1>. QED
  BY <1>2, <1>3, <1>4, <1>5, <1>6

\* What waits for u when a step of the core was drained, or not.
LEMMA StockAfter ==
  ASSUME LaneTyped, TypeOK', NEW v \in Client, NEW fresh \in SUBSET Client, NEW users \in SUBSET Client,
         \/ Drain(fresh, users) /\ IsFiniteSet(users)
         \/ UNCHANGED <<fromHost, taken>> /\ fresh = {} /\ users = {}
  PROVE  /\ v \in fresh => Stock(v)' = Mail(fromHost, v) \o Kept(sent'[v], 0)
         /\ \A t \in Seq(HostMessage) : v \notin fresh /\ sent'[v] = sent[v] \o t =>
              Stock(v)' = Stock(v) \o Kept(t, 0)
         /\ fromHost' \in Seq(Frames)
         /\ taken'[v] = IF v \in users THEN Len(sent'[v]) ELSE Begun(fresh)[v]
         /\ Mail(fromHost', v) = Mail(fromHost, v) \o
              (IF v \in users THEN Kept(sent'[v], Begun(fresh)[v]) ELSE <<>>)
<1> DEFINE b == Begun(fresh)[v] s == sent[v] z == sent'[v] f == Mail(fromHost, v) g == Mail(fromHost', v)
           n == taken[v] e == <<>>
<1>1. /\ fromHost' \in Seq(Frames)
      /\ g = f \o (IF v \in users THEN Kept(z, b) ELSE e)
      /\ taken'[v] = IF v \in users THEN Len(z) ELSE b
  <2>1. CASE Drain(fresh, users) /\ IsFiniteSet(users)
    BY <2>1, DrainMail DEF LaneTyped
  <2>2. CASE UNCHANGED <<fromHost, taken>> /\ fresh = {} /\ users = {}
    <3>1. b = taken[v]
      BY <2>2 DEF Begun
    <3>2. f \o e = f
      BY LaneReads, ConcatEmptySeq
    <3>. QED
      BY <2>2, <3>1, <3>2, LaneReads
  <2>. QED
    BY <2>1, <2>2
<1>2. /\ b = IF v \in fresh THEN 0 ELSE n
      /\ n \in Nat /\ n <= Len(s) /\ s \in Seq(HostMessage) /\ z \in Seq(HostMessage)
      /\ f \in Seq(Answers) /\ Kept(s, n) \in Seq(Answers)
  BY LaneReads DEF Begun, TypeOK
<1>3. Stock(v)' = g \o Kept(z, taken'[v]) /\ Stock(v) = f \o Kept(s, n)
  BY DEF Stock
<1>4. Kept(z, b) \in Seq(HostMessage) /\ Kept(z, Len(z)) = e
  <2>1. z \o e = z /\ e \in Seq(HostMessage) /\ Len(z) \in Nat /\ Len(z) <= Len(z)
    BY <1>2, ConcatEmptySeq
  <2>2. b \in Nat
    BY <1>2
  <2> HIDE DEF z, b
  <2>3. Kept(z, Len(z)) = <<>>
    BY <1>2, <2>1, KeptGrown
  <2>. QED
    BY <1>2, <2>2, <2>3, KeptIs
<1> HIDE DEF b, s, z, f, g, n
<1>5. Stock(v)' = f \o Kept(z, b)
  <2>0. HostMessage \subseteq Answers /\ Kept(z, b) \in Seq(Answers)
    <3>1. HostMessage \subseteq Answers
      BY MessagesTyped
    <3>2. \A q \in Seq(HostMessage) : q \in Seq(Answers)
      BY <3>1, SeqMonotonic
    <3>. QED
      BY <1>4, <3>1, <3>2
  <2>1. CASE v \in users
    <3>1. g = f \o Kept(z, b) /\ taken'[v] = Len(z)
      BY <1>1, <2>1
    <3>2. f \o Kept(z, b) \in Seq(Answers)
      BY <1>2, <2>0, ConcatProperties
    <3>3. (f \o Kept(z, b)) \o e = f \o Kept(z, b)
      BY <3>2, ConcatEmptySeq
    <3>. QED
      BY <1>3, <1>4, <3>1, <3>3
  <2>2. CASE v \notin users
    <3>1. g = f \o e /\ taken'[v] = b
      BY <1>1, <2>2
    <3>2. f \o e = f
      BY <1>2, ConcatEmptySeq
    <3>. QED
      BY <1>3, <3>1, <3>2
  <2>. QED
    BY <2>1, <2>2
<1>6. ASSUME NEW t \in Seq(HostMessage), v \notin fresh, z = s \o t
      PROVE  Stock(v)' = Stock(v) \o Kept(t, 0)
  <2>1. Kept(s \o t, n) = Kept(s, n) \o Kept(t, 0)
    BY <1>2, KeptGrown
  <2>2. Kept(t, 0) \in Seq(Answers)
    <3>1. HostMessage \subseteq Answers
      BY MessagesTyped
    <3>2. \A q \in Seq(HostMessage) : q \in Seq(Answers)
      BY <3>1, SeqMonotonic
    <3>. QED
      BY <3>2, KeptIs
  <2> DEFINE x == Kept(s, n) y == Kept(t, 0)
  <2>3. x \in Seq(Answers) /\ y \in Seq(Answers) /\ f \in Seq(Answers)
    BY <1>2, <2>2
  <2> HIDE DEF x, y
  <2>4. (f \o x) \o y = f \o (x \o y)
    <3>1. InRow(Answers, f, x, y)
      BY <2>3, InARow
    <3>. QED
      BY <3>1 DEF InRow
  <2>. QED
    BY <1>2, <1>3, <1>5, <1>6, <2>1, <2>4 DEF x, y
<1>. QED
  BY <1>1, <1>2, <1>5, <1>6 DEF b, s, z, f, g

-----------------------------------------------------------------------------
(* The records of the lane.                                                *)

\* The record r is somewhere: in the log, under way, or in a runtime.
Around(r) ==
  \/ Has(records, r)
  \/ \E k \in Conn : \/ Has(up[k], RecordMsg(r)) \/ Has(down[k], RecordMsg(r))
                     \/ Has(toHost, LineMsg(k, RecordMsg(r)))
  \/ \E u \in Client : \/ Has(Mail(fromHost, u), RecordMsg(r)) \/ Has(sent[u], RecordMsg(r))
                       \/ Has(app[u].runtime, r)

\* Ids are minted one after the other, and name one record each.
Authored ==
  /\ minted \in Nat
  /\ \A r \in Record : Around(r) => r.action_id \in 1 .. minted
  /\ \A r, s \in Record : Around(r) /\ Around(s) /\ r.action_id = s.action_id => r = s

\* Where a step finds the record r.
Spreads(r) == Around(r)' => Around(r)

\* What is read of a queue is in it.
LEMMA KeptHas ==
  ASSUME NEW s \in Seq(HostMessage), NEW n \in Nat, NEW x, Has(Kept(s, n), x)
  PROVE  Has(s, x) /\ \E i \in DOMAIN s : i > n /\ s[i] = x
<1>1. PICK j \in DOMAIN Kept(s, n) : Kept(s, n)[j] = x
  BY DEF Has
<1>2. \E i \in DOMAIN s : i > n /\ Relevant(s[i]) /\ s[i] = Kept(s, n)[j]
  BY KeptFrom
<1>. QED
  BY <1>1, <1>2 DEF Has

\* The queues of the core spread what the log, or the host's queue, holds.
LEMMA CoreSpreads ==
  ASSUME LaneTyped, TypeOK', NEW fresh \in SUBSET Client, NEW users \in SUBSET Client,
         \/ Drain(fresh, users) /\ IsFiniteSet(users)
         \/ UNCHANGED <<fromHost, taken>> /\ fresh = {} /\ users = {},
         NEW r \in Record,
         UNCHANGED <<up, down, app>>,
         Has(records', r) => Around(r),
         \A k \in Conn : Has(toHost', LineMsg(k, RecordMsg(r))) => Has(toHost, LineMsg(k, RecordMsg(r))),
         \A v \in Client : Has(sent'[v], RecordMsg(r)) => Around(r)
  PROVE  Spreads(r)
<1>1. ASSUME NEW v \in Client, Has(Mail(fromHost, v)', RecordMsg(r))
      PROVE  Around(r)
  <2> DEFINE f == Mail(fromHost, v) b == Begun(fresh)[v] z == sent'[v]
             x == IF v \in users THEN Kept(z, b) ELSE <<>>
  <2>1. f \in Seq(Answers) /\ z \in Seq(HostMessage) /\ b \in Nat
    BY LaneReads DEF TypeOK, Begun
  <2>2. Mail(fromHost, v)' = f \o x
    BY StockAfter
  <2>3. x \in Seq(Answers)
    <3>1. HostMessage \subseteq Answers
      BY MessagesTyped
    <3>2. \A q \in Seq(HostMessage) : q \in Seq(Answers)
      BY <3>1, SeqMonotonic
    <3>3. Kept(z, b) \in Seq(HostMessage)
      <4> HIDE DEF z, b
      <4>. QED
        BY <2>1, KeptIs
    <3>. QED
      BY <3>2, <3>3, EmptySeq
  <2>4. Has(x, RecordMsg(r)) => Has(z, RecordMsg(r))
    <3>1. CASE v \in users
      <4> HIDE DEF z, b
      <4>. QED
        BY <2>1, <3>1, KeptHas
    <3>2. CASE v \notin users
      BY <3>2, HasNone
    <3>. QED
      BY <3>1, <3>2
  <2> HIDE DEF f, x, b
  <2>5. Has(f \o x, RecordMsg(r)) => Has(f, RecordMsg(r)) \/ Has(x, RecordMsg(r))
    BY <2>1, <2>3, HasParts
  <2>. QED
    BY <1>1, <2>2, <2>4, <2>5 DEF Around, f
<1>. QED
  BY <1>1 DEF Spreads, Around

\* What a queue of the core holds after a step that queued rosters, the log or
\* one record.
LEMMA SentSpreads ==
  ASSUME LaneTyped, NEW v \in Client, NEW r \in Record
  PROVE  /\ \A t : Gossip(v, t) => (Has(sent'[v], RecordMsg(r)) => Around(r))
         /\ \A R \in Rosters : sent'[v] = JoinStream(R) => (Has(sent'[v], RecordMsg(r)) => Around(r))
         /\ \A x \in Record, B \in BOOLEAN : sent'[v] = sent[v] \o (IF B THEN <<RecordMsg(x)>> ELSE <<>>) =>
              (Has(sent'[v], RecordMsg(r)) => Around(r) \/ r = x)
<1>0. sent[v] \in Seq(HostMessage) /\ (Has(sent[v], RecordMsg(r)) => Around(r)) /\ TypeOK
  BY LaneReads DEF Around, LaneTyped
<1>1. ASSUME NEW t, Gossip(v, t), Has(sent'[v], RecordMsg(r))
      PROVE  Around(r)
  <2>1. Has(sent[v] \o t, RecordMsg(r)) <=> Has(sent[v], RecordMsg(r)) \/ Has(t, RecordMsg(r))
    BY <1>0, <1>1, HasParts DEF Gossip
  <2>2. ~Has(t, RecordMsg(r))
    BY <1>1, RecordMsgFacts DEF Has, Gossip
  <2>. QED
    BY <1>0, <1>1, <2>1, <2>2 DEF Gossip
<1>2. ASSUME NEW R \in Rosters, sent'[v] = JoinStream(R), Has(sent'[v], RecordMsg(r))
      PROVE  Around(r)
  <2> DEFINE j == JoinStream(R) N == Len(records)
  <2>1. /\ j \in Seq(HostMessage) /\ Len(j) = N + 1 /\ j[1].type = "welcome"
        /\ \A i \in 1 .. N : j[i + 1] = RecordMsg(records[i])
        /\ records \in Seq(Record) /\ DOMAIN records = 1 .. N /\ N \in Nat
    <3>1. records \in Seq(Record)
      BY <1>0 DEF TypeOK
    <3>2. /\ j \in Seq(HostMessage) /\ Len(j) = N + 1
          /\ j[1] = [type |-> "welcome", snapshot |-> snapshot, log_length |-> N, roster |-> R]
          /\ \A i \in 1 .. N : j[i + 1] = RecordMsg(records[i])
      BY <1>0, JoinStreamShape
    <3> HIDE DEF j
    <3>. QED
      BY <3>1, <3>2
  <2> HIDE DEF j, N
  <2>2. DOMAIN j = 1 .. N + 1
    BY <2>1
  <2>3. \A i \in 1 .. N + 1 : i = 1 \/ (i - 1 \in 1 .. N /\ (i - 1) + 1 = i)
    BY <2>1
  <2>4. PICK i \in DOMAIN j : j[i] = RecordMsg(r)
    BY <1>2 DEF Has, j
  <2>5. i # 1
    BY <2>1, <2>4, RecordMsgFacts
  <2>6. records[i - 1] = r /\ i - 1 \in DOMAIN records
    <3>1. i - 1 \in 1 .. N /\ (i - 1) + 1 = i
      BY <2>2, <2>3, <2>5
    <3>2. j[i] = RecordMsg(records[i - 1])
      BY <2>1, <3>1
    <3>3. RecordMsg(records[i - 1]) = RecordMsg(r)
      BY <2>4, <3>2
    <3>4. records[i - 1] = r
      BY <3>3, RecordMsgFacts
    <3>. QED
      BY <2>1, <3>1, <3>4
  <2>. QED
    BY <2>6 DEF Around, Has
<1>3. ASSUME NEW x \in Record, NEW B \in BOOLEAN,
             sent'[v] = sent[v] \o (IF B THEN <<RecordMsg(x)>> ELSE <<>>),
             Has(sent'[v], RecordMsg(r))
      PROVE  Around(r) \/ r = x
  <2> DEFINE t == IF B THEN <<RecordMsg(x)>> ELSE <<>>
  <2>1. t \in Seq(HostMessage)
    BY MessageTyping, EmptySeq
  <2>2. Has(t, RecordMsg(r)) => RecordMsg(r) = RecordMsg(x)
    BY DEF Has
  <2> HIDE DEF t
  <2>3. Has(sent[v] \o t, RecordMsg(r)) <=> Has(sent[v], RecordMsg(r)) \/ Has(t, RecordMsg(r))
    BY <1>0, <2>1, HasParts
  <2>. QED
    BY <1>0, <1>3, <2>2, <2>3, RecordMsgFacts DEF t
<1>. QED
  BY <1>1, <1>2, <1>3

-----------------------------------------------------------------------------
(* Where the steps find a record.                                          *)

\* The steps of the bridge: nothing but what the log, the host's queue or the
\* core's queues hold.
LEMMA BridgeSpreads ==
  ASSUME LaneTyped, LaneTyped', QueueInv, NEW r \in Record,
         HostRead \/ Pump \/ SwapDocument \/ HostLeave
  PROVE  Spreads(r)
<1> DEFINE x == RecordMsg(r)
<1>0. TypeOK /\ TypeOK' /\ BridgeTyped
  BY DEF LaneTyped
<1>1. CASE HostRead
  <2> DEFINE f == Head(toHost) k == f.conn u == who[k] m == f.msg
  <2>1. /\ bridge /\ toHost # <<>> /\ toHost' = Tail(toHost)
        /\ UNCHANGED <<room, members, thread, who, bridge, up, down, app>>
        /\ IF f.type = "left" THEN LeaveBridge(u) ELSE HandleLine(k, u, m)
    BY <1>1 DEF HostRead, relayVars
  <2>2. Heads(f, k, u)
    BY <2>1 DEF Heads
  <2>3. k \in Conn /\ u \in Client /\ f \in Notices /\ toHost \in Seq(Notices)
    BY <2>2, HeadsParts DEF LaneTyped, BridgeTyped
  <2>4. \A y : Has(toHost, y) <=> y = f \/ Has(toHost', y)
    BY <2>1, <2>3, HasParts
  <2> HIDE DEF f, k, u, m
  <2>5. CASE LeaveBridge(u)
    <3>1. /\ DropClients({u}) /\ Drain({u}, relay_users') /\ relay_users' = relay_users \ {u}
          /\ {u} \in SUBSET Client
      BY <2>3, <2>5 DEF LeaveBridge
    <3>0. \A v \in Client : IF v \in {u} THEN sent'[v] = <<>> ELSE \E t : Gossip(v, t)
      <4> DEFINE S == {u}
      <4> HIDE DEF S
      <4>1. S \in SUBSET Client /\ DropClients(S)
        BY <3>1 DEF S
      <4>2. \A v \in Client : IF v \in S THEN sent'[v] = <<>> ELSE \E t : Gossip(v, t)
        BY <1>0, <4>1, CoreSends
      <4>. QED
        BY <4>2 DEF S
    <3>2. \A v \in Client : Has(sent'[v], x) => Around(r)
      <4>1. ASSUME NEW v \in Client, v \notin {u}
            PROVE  Has(sent'[v], x) => Around(r)
        <5>1. \E t : Gossip(v, t)
          BY <3>0, <4>1
        <5>. QED
          BY <5>1, SentSpreads
      <4>2. sent'[u] = <<>>
        BY <2>3, <3>0
      <4>. QED
        BY <4>1, <4>2, HasNone
    <3>3. records' = records /\ {u} \in SUBSET Client /\ relay_users' \in SUBSET Client
          /\ IsFiniteSet(relay_users')
      BY <1>0, <2>3, <3>1, UsersFinite DEF DropClients
    <3>4. Has(records, r) => Around(r)
      BY DEF Around
    <3>. QED
      BY <1>0, <2>1, <2>4, <3>1, <3>2, <3>3, <3>4, CoreSpreads
  <2>6. CASE f.type # "left" /\ HandleLine(k, u, m)
    <3>1. relay_users' = relay_users \cup {u} /\ relay_users' \in SUBSET Client
          /\ IsFiniteSet(relay_users') /\ {u} \in SUBSET Client /\ {} \in SUBSET Client
      BY <1>0, <2>3, <2>6, UsersFinite DEF HandleLine
    <3>2. Has(records, r) => Around(r)
      BY DEF Around
    <3>3. CASE (\E n \in Name : HandleHello(u, n)) /\ Drain({u}, relay_users')
      <4>1. ASSUME NEW v \in Client
            PROVE  Has(sent'[v], x) => Around(r)
        <5>1. CASE v = u
          <6>1. \E R \in Rosters : sent'[v] = JoinStream(R)
            BY <1>0, <2>3, <3>3, <5>1, CoreSends
          <6>. QED
            BY <6>1, SentSpreads
        <5>2. CASE v # u
          <6>1. \E t : Gossip(v, t)
            BY <1>0, <2>3, <3>3, <5>2, CoreSends
          <6>. QED
            BY <6>1, SentSpreads
        <5>. QED
          BY <5>1, <5>2
      <4>2. records' = records
        BY <3>3 DEF HandleHello
      <4>. QED
        BY <1>0, <2>1, <2>4, <3>1, <3>2, <3>3, <4>1, <4>2, CoreSpreads
    <3>4. CASE m.type = "record" /\ HandleAction(u, m.record) /\ Drain({}, relay_users')
      <4>1. m.record \in Record /\ f = LineMsg(k, RecordMsg(m.record))
        <5>1. f.type = "line" /\ f = LineMsg(k, m) /\ m \in Lines
          BY <2>3, <2>6 DEF Notices, LineMsg, k, m
        <5>2. m = RecordMsg(m.record) /\ m.record \in Record
          BY <3>4, <5>1 DEF Lines, HelloMsg, RecordMsg
        <5>. QED
          BY <5>1, <5>2
      <4>2. r = m.record => Around(r)
        BY <2>3, <2>4, <4>1 DEF Around
      <4>3. ASSUME NEW v \in Client
            PROVE  Has(sent'[v], x) => Around(r)
        <5> DEFINE B == v \in clients \ {u}
        <5>1. sent'[v] = sent[v] \o (IF v \in clients \ {u} THEN <<RecordMsg(m.record)>> ELSE <<>>)
          <6> DEFINE q == m.record
          <6>1. q \in Record /\ HandleAction(u, q)
            BY <3>4, <4>1
          <6> HIDE DEF q
          <6>2. sent'[v] = sent[v] \o IF v \in clients \ {u} THEN <<RecordMsg(q)>> ELSE <<>>
            BY <1>0, <2>3, <6>1, CoreSends
          <6>. QED
            BY <6>2 DEF q
        <5>2. B \in BOOLEAN
          OBVIOUS
        <5>3. sent'[v] = sent[v] \o (IF B THEN <<RecordMsg(m.record)>> ELSE <<>>)
          BY <5>1
        <5> HIDE DEF B
        <5>. QED
          BY <4>1, <4>2, <5>2, <5>3, SentSpreads
      <4>4. Has(records', r) => Around(r)
        <5>1. records' = Append(records, m.record) /\ records \in Seq(Record)
          BY <1>0, <3>4 DEF HandleAction, TypeOK
        <5>. QED
          BY <3>2, <4>1, <4>2, <5>1, HasAppended
      <4>. QED
        BY <1>0, <2>1, <2>4, <3>1, <3>4, <4>3, <4>4, CoreSpreads
    <3>5. CASE fromHost' = Append(fromHost, [to |-> u, msg |-> DeniedMsg]) /\ UNCHANGED hostVars
      <4> DEFINE d == [to |-> u, msg |-> DeniedMsg]
      <4>1. d \in Frames /\ fromHost \in Seq(Frames) /\ d.msg = DeniedMsg
        BY <1>0, <2>3, MessagesTyped DEF BridgeTyped
      <4> HIDE DEF d
      <4>2. ASSUME NEW v \in Client, Has(Mail(fromHost, v)', x)
            PROVE  Has(Mail(fromHost, v), x)
        <5>1. Mail(Append(fromHost, d), v) = IF d.to = v THEN Append(Mail(fromHost, v), d.msg) ELSE Mail(fromHost, v)
          BY <4>1, MailIs
        <5>2. Has(Append(Mail(fromHost, v), DeniedMsg), x) => Has(Mail(fromHost, v), x) \/ x = DeniedMsg
          BY LaneReads, MessagesTyped, HasParts
        <5>3. x # DeniedMsg
          BY DEF RecordMsg, DeniedMsg
        <5>. QED
          BY <3>5, <4>1, <4>2, <5>1, <5>2, <5>3 DEF d
      <4>. QED
        BY <2>1, <2>4, <3>5, <4>2 DEF Spreads, Around, hostVars
    <3>. QED
      BY <2>6, <3>3, <3>4, <3>5 DEF HandleLine
  <2>. QED
    BY <2>1, <2>5, <2>6
<1>2. CASE Pump
  <2>0. UNCHANGED <<up, down, app, toHost>> /\ relay_users \in SUBSET Client /\ IsFiniteSet(relay_users)
        /\ {} \in SUBSET Client /\ StaleClients \in SUBSET Client
        /\ (Has(records, r) => Around(r))
    BY <1>0, <1>2, ClientsFacts DEF Pump, relayVars, BridgeTyped, StaleClients, Around
  <2>1. CASE DropClients(StaleClients) /\ Drain(StaleClients, relay_users)
    <3>1. ASSUME NEW v \in Client
          PROVE  Has(sent'[v], x) => Around(r)
      <4>1. sent'[v] = <<>> \/ \E t : Gossip(v, t)
        BY <1>0, <2>0, <2>1, CoreSends
      <4>. QED
        BY <4>1, SentSpreads, HasNone
    <3>2. records' = records
      BY <2>1 DEF DropClients
    <3>. QED
      BY <1>0, <2>0, <2>1, <3>1, <3>2, CoreSpreads
  <2>2. CASE UNCHANGED hostVars /\ Drain({}, relay_users)
    <3>1. UNCHANGED <<records, sent>>
      BY <2>2 DEF hostVars
    <3>2. \A v \in Client : Has(sent'[v], x) => Around(r)
      BY <3>1 DEF Around
    <3>. QED
      BY <1>0, <2>0, <2>2, <3>1, <3>2, CoreSpreads
  <2>. QED
    BY <1>2, <2>1, <2>2 DEF Pump
<1>3. CASE SwapDocument
  <2>1. /\ UNCHANGED <<up, down, app, toHost>> /\ fromHost' = Append(fromHost, KickMsg)
        /\ records' = <<>> /\ \A v \in Client : sent'[v] = <<>>
    BY <1>3 DEF SwapDocument, relayVars, Reseed
  <2>2. ASSUME NEW v \in Client
        PROVE  Mail(fromHost, v)' = Mail(fromHost, v)
    <3>1. KickMsg \in Frames /\ fromHost \in Seq(Frames) /\ KickMsg.to # v
      BY <1>0, MessagesTyped, RelayAssumption DEF BridgeTyped, KickMsg
    <3>2. Mail(Append(fromHost, KickMsg), v) = Mail(fromHost, v)
      BY <3>1, MailIs
    <3>. QED
      BY <2>1, <3>2
  <2>. QED
    BY <2>1, <2>2, HasNone DEF Spreads, Around
<1>4. CASE HostLeave
  <2>0. UNCHANGED <<up, down, app, toHost, records>> /\ relay_users \in SUBSET Client /\ IsFiniteSet(relay_users)
        /\ {} \in SUBSET Client /\ clients \in SUBSET Client
        /\ (Has(records, r) => Around(r))
    BY <1>0, <1>4, ClientsFacts DEF HostLeave, relayVars, BridgeTyped, Around
  <2>1. \A v \in Client : Has(sent'[v], x) => Around(r)
    <3>1. ASSUME NEW v \in Client
          PROVE  sent[v] \in Seq(HostMessage)
                 /\ (sent'[v] = sent[v] \/ sent'[v] = Append(sent[v], EndedMsg))
      BY <1>0, <1>4, <2>0, BroadcastShape, MessageTyping, LaneReads DEF HostLeave
    <3>2. EndedMsg \in HostMessage /\ x # EndedMsg
      BY MessageTyping DEF EndedMsg, RecordMsg
    <3>3. ASSUME NEW v \in Client, Has(sent'[v], x)
          PROVE  Has(sent[v], x)
      <4>1. Has(Append(sent[v], EndedMsg), x) => Has(sent[v], x) \/ x = EndedMsg
        BY <3>1, <3>2, HasParts
      <4>. QED
        BY <3>1, <3>2, <3>3, <4>1
    <3>. QED
      BY <3>3 DEF Around
  <2>2. Drain({}, relay_users) \/ UNCHANGED <<fromHost, taken>>
    BY <1>4 DEF HostLeave
  <2>3. CASE Drain({}, relay_users)
    BY <1>0, <2>0, <2>1, <2>3, CoreSpreads
  <2>4. CASE UNCHANGED <<fromHost, taken>>
    <3>1. IsFiniteSet({}) /\ {} \in SUBSET Client
      BY FS_EmptySet
    <3>. QED
      BY <1>0, <2>0, <2>1, <2>4, <3>1, CoreSpreads
  <2>. QED
    BY <2>2, <2>3, <2>4
<1>. QED
  BY <1>1, <1>2, <1>3, <1>4

\* The steps of the relay and the network: a record moves, or is lost.
LEMMA RelaySpreads ==
  ASSUME LaneTyped, NEW r \in Record,
         \/ RouteDown \/ RoomCloses \/ HostLinkBreaks
         \/ \E k \in Conn : \/ Claim(k) \/ RouteUp(k) \/ Cleanup(k) \/ PingRefused(k)
                            \/ Break(k) \/ HalfOpenEnds(k)
  PROVE  Spreads(r)
<1> DEFINE x == RecordMsg(r)
<1>0. /\ up \in [Conn -> Seq(Lines)] /\ down \in [Conn -> Seq(Answers)]
      /\ fromHost \in Seq(Frames) /\ toHost \in Seq(Notices)
      /\ x # DeniedMsg /\ x # ClosedMsg
  BY DEF LaneTyped, RoomTyped, BridgeTyped, RecordMsg, DeniedMsg, ClosedMsg
<1>1. ASSUME NEW u, app' = Lose(u)
      PROVE  \A v \in Client : app'[v].runtime = app[v].runtime
  <2>1. app \in [Client -> Apps]
    BY DEF LaneTyped, AppsTyped
  <2>2. app' = [app EXCEPT ![u] = [app[u] EXCEPT !.mode = Failed(app[u].mode), !.conn = None]]
    BY <1>1 DEF Lose
  <2>. QED
    BY <2>1, <2>2 DEF Apps
<1>2. CASE RouteDown
  <2> DEFINE f == Head(fromHost)
  <2>1. /\ fromHost # <<>> /\ fromHost' = Tail(fromHost) /\ UNCHANGED <<records, sent, up, toHost, app>>
    BY <1>2 DEF RouteDown, hostVars
  <2>2. f \in Frames
    BY <1>0, <2>1, QueueParts
  <2> HIDE DEF f
  <2>3. ASSUME NEW v \in Client
        PROVE  /\ Has(Mail(fromHost, v)', x) => Has(Mail(fromHost, v), x)
               /\ f.to = v /\ f.msg = x => Has(Mail(fromHost, v), x)
    <3> DEFINE e == IF f.to = v THEN <<f.msg>> ELSE <<>> t == Mail(Tail(fromHost), v)
    <3>1. Mail(fromHost, v) = e \o t
      BY <1>0, <2>1, MailParts DEF f
    <3>2. t \in Seq(Answers)
      <4>1. Tail(fromHost) \in Seq(Frames)
        BY <1>0, <2>1, QueueParts
      <4>. QED
        BY <4>1, MailIs
    <3>3. e \in Seq(Answers)
      BY <2>2, MessagesTyped, EmptySeq
    <3>4. f.to = v /\ f.msg = x => Has(e, x)
      BY DEF Has
    <3> HIDE DEF e, t
    <3>5. Has(e \o t, x) <=> Has(e, x) \/ Has(t, x)
      BY <3>2, <3>3, HasParts
    <3>. QED
      BY <2>1, <3>1, <3>4, <3>5 DEF t
  <2>4. ASSUME NEW k \in Conn, Has(down'[k], x)
        PROVE  Around(r)
    <3>1. CASE down' = down
      BY <2>4, <3>1 DEF Around
    <3>2. CASE f.to \in DOMAIN members /\ Push(members[f.to], f.msg)
      <4>1. f.to \in Client /\ f.msg \in Answers
        BY <2>2, <3>2, MessagesTyped DEF LaneTyped, RoomTyped
      <4>2. down'[k] = down[k] \/ down'[k] = Append(down[k], f.msg)
        BY <1>0, <3>2 DEF Push
      <4>3. Has(Append(down[k], f.msg), x) <=> Has(down[k], x) \/ x = f.msg
        BY <1>0, <4>1, HasParts
      <4>. QED
        BY <2>3, <2>4, <4>1, <4>2, <4>3 DEF Around
    <3>. QED
      BY <1>2, <3>1, <3>2 DEF RouteDown, f
  <2>. QED
    BY <2>1, <2>3, <2>4 DEF Spreads, Around
<1>3. CASE RoomCloses
  <2>1. UNCHANGED <<records, sent, up, toHost, fromHost, app>>
    BY <1>3 DEF RoomCloses, hostVars, bridgeVars
  <2>2. ASSUME NEW k \in Conn, Has(down'[k], x)
        PROVE  Has(down[k], x)
    <3>1. down'[k] = down[k] \/ down'[k] = Append(down[k], ClosedMsg)
      BY <1>3 DEF RoomCloses
    <3>2. Has(Append(down[k], ClosedMsg), x) <=> Has(down[k], x) \/ x = ClosedMsg
      BY <1>0, MessagesTyped, HasParts
    <3>. QED
      BY <1>0, <2>2, <3>1, <3>2
  <2>. QED
    BY <2>1, <2>2 DEF Spreads, Around
<1>4. CASE HostLinkBreaks
  <2>1. UNCHANGED <<records, sent, up, down, toHost, app>>
    BY <1>4 DEF HostLinkBreaks, hostVars, relayVars
  <2>2. PICK n \in 0 .. Len(fromHost) : fromHost' = SubSeq(fromHost, 1, n)
    BY <1>4 DEF HostLinkBreaks
  <2>3. ASSUME NEW v \in Client, Has(Mail(fromHost, v)', x)
        PROVE  Has(Mail(fromHost, v), x)
    <3> DEFINE w == Mail(SubSeq(fromHost, 1, n), v)
    <3>1. PICK y \in Seq(Answers) : Mail(fromHost, v) = w \o y
      BY <1>0, MailParts
    <3>2. w \in Seq(Answers)
      <4>1. \A i \in 1 .. n : fromHost[i] \in Frames
        BY <1>0
      <4>2. SubSeq(fromHost, 1, n) \in Seq(Frames)
        BY <4>1, SubSeqProperties
      <4>. QED
        BY <4>2, MailIs
    <3> HIDE DEF w
    <3>3. Has(w \o y, x) <=> Has(w, x) \/ Has(y, x)
      BY <3>1, <3>2, HasParts
    <3>. QED
      BY <2>2, <2>3, <3>1, <3>3 DEF w
  <2>. QED
    BY <2>1, <2>3 DEF Spreads, Around
<1>5. ASSUME NEW k \in Conn, Claim(k)
      PROVE  Spreads(r)
  <2>1. UNCHANGED <<records, sent, down, toHost, fromHost>>
    BY <1>5 DEF Claim, hostVars, bridgeVars
  <2>2. \A c \in Conn : Has(up'[c], x) => Has(up[c], x)
    <3>1. up' = up \/ up' = [up EXCEPT ![k] = <<>>]
      BY <1>5 DEF Claim
    <3>2. up \in [Conn -> Seq(Lines)]
      BY <1>0
    <3>3. \A c \in Conn : up'[c] = up[c] \/ up'[c] = <<>>
      BY <3>1, <3>2
    <3>. QED
      BY <3>3, HasNone
  <2>3. \A v \in Client : app'[v].runtime = app[v].runtime
    BY <1>1, <1>5 DEF Claim
  <2>. QED
    BY <2>1, <2>2, <2>3 DEF Spreads, Around
<1>6. ASSUME NEW k \in Conn, RouteUp(k)
      PROVE  Spreads(r)
  <2> DEFINE q == up[k] m == Head(q) l == LineMsg(k, m)
  <2>1. UNCHANGED <<records, sent, down, fromHost, app>> /\ q # <<>> /\ q \in Seq(Lines)
    BY <1>0, <1>6 DEF RouteUp, hostVars
  <2>2. \A y : Has(q, y) <=> y = m \/ Has(Tail(q), y)
    BY <2>1, HasParts
  <2>3. \A c \in Conn : Has(up'[c], x) => Has(up[c], x)
    BY <1>0, <1>6, <2>2, HasNone DEF RouteUp
  <2>4. m \in Lines /\ l \in Notices
    BY <2>1, QueueParts, MessagesTyped
  <2> HIDE DEF l
  <2>5. toHost' = toHost \/ toHost' = Append(toHost, l)
    BY <1>6 DEF RouteUp, l
  <2>6. \A y : Has(Append(toHost, l), y) <=> Has(toHost, y) \/ y = l
    BY <1>0, <2>4, HasParts
  <2>7. \A c \in Conn : LineMsg(c, x) = l => c = k /\ x = m
    BY DEF LineMsg, l
  <2>8. ASSUME NEW c \in Conn, Has(toHost', LineMsg(c, x))
        PROVE  Around(r)
    <3>1. Has(toHost, LineMsg(c, x)) \/ LineMsg(c, x) = l
      BY <2>5, <2>6, <2>8
    <3>. QED
      BY <2>2, <2>7, <3>1 DEF Around
  <2>. QED
    BY <2>1, <2>3, <2>8 DEF Spreads, Around
<1>7. ASSUME NEW k \in Conn, Cleanup(k)
      PROVE  Spreads(r)
  <2>1. UNCHANGED <<records, sent, up, down, fromHost, app>>
        /\ (toHost' = toHost \/ toHost' = Append(toHost, LeftMsg(k)))
    BY <1>7 DEF Cleanup, hostVars
  <2>2. \A y : Has(Append(toHost, LeftMsg(k)), y) <=> Has(toHost, y) \/ y = LeftMsg(k)
    BY <1>0, MessagesTyped, HasParts
  <2>3. \A c \in Conn : LineMsg(c, x) # LeftMsg(k)
    BY DEF LineMsg, LeftMsg
  <2>4. \A c \in Conn : Has(toHost', LineMsg(c, x)) => Has(toHost, LineMsg(c, x))
    BY <2>1, <2>2, <2>3
  <2>. QED
    BY <2>1, <2>4 DEF Spreads, Around
<1>8. ASSUME NEW k \in Conn, PingRefused(k)
      PROVE  Spreads(r)
  <2> DEFINE d == [to |-> who[k], msg |-> DeniedMsg]
  <2>1. /\ UNCHANGED <<records, sent, up, down, toHost, app>> /\ fromHost' = Append(fromHost, d)
    BY <1>8 DEF PingRefused, hostVars, relayVars
  <2>2. d \in Frames /\ d.msg = DeniedMsg
    BY MessagesTyped DEF LaneTyped, RoomTyped, Frames
  <2> HIDE DEF d
  <2>3. ASSUME NEW v \in Client, Has(Mail(fromHost, v)', x)
        PROVE  Has(Mail(fromHost, v), x)
    <3>1. Mail(Append(fromHost, d), v) = IF d.to = v THEN Append(Mail(fromHost, v), d.msg) ELSE Mail(fromHost, v)
      BY <1>0, <2>2, MailIs
    <3>2. Has(Append(Mail(fromHost, v), DeniedMsg), x) => Has(Mail(fromHost, v), x) \/ x = DeniedMsg
      BY LaneReads, MessagesTyped, HasParts
    <3>. QED
      BY <1>0, <2>1, <2>2, <2>3, <3>1, <3>2
  <2>. QED
    BY <2>1, <2>3 DEF Spreads, Around
<1>9. ASSUME NEW k \in Conn, Break(k) \/ HalfOpenEnds(k)
      PROVE  Spreads(r)
  <2>1. UNCHANGED <<records, sent, toHost, fromHost, app>>
    BY <1>9 DEF Break, HalfOpenEnds, hostVars, bridgeVars
  <2>2. \A c \in Conn : Has(down'[c], x) => Has(down[c], x)
    BY <1>0, <1>9, HasNone DEF Break, HalfOpenEnds
  <2>3. \A c \in Conn : Has(up'[c], x) => Has(up[c], x)
    <3>1. CASE Break(k)
      <4>1. PICK n \in 0 .. Len(up[k]) : up' = [up EXCEPT ![k] = SubSeq(@, 1, n)]
        BY <3>1 DEF Break
      <4>2. Has(SubSeq(up[k], 1, n), x) => Has(up[k], x)
        BY <1>0, HasParts
      <4>. QED
        BY <1>0, <4>1, <4>2
    <3>2. CASE HalfOpenEnds(k)
      BY <3>2 DEF HalfOpenEnds
    <3>. QED
      BY <1>9, <3>1, <3>2
  <2>. QED
    BY <2>1, <2>2, <2>3 DEF Spreads, Around
<1>. QED
  BY <1>2, <1>3, <1>4, <1>5, <1>6, <1>7, <1>8, <1>9

\* A record is appended to the runtime of the app that reads it, or passed over.
LEMMA RecordRead ==
  ASSUME NEW s \in Apps, NEW u, NEW m, m.type = "record"
  PROVE  LET t == Received(s, u, m) IN
         t.runtime = s.runtime \/ t.runtime = Append(s.runtime, m.record)
<1> DEFINE w == IF m.record.user_id # u \/ s.consumed < s.base
                THEN Append(s.runtime, m.record) ELSE s.runtime
<1>1. Received(s, u, m) = [s EXCEPT !.known = @ \cup {m.record.action_id}, !.consumed = @ + 1, !.runtime = w]
  <2>1. m.type # "ended" /\ m # DeniedMsg
    BY DEF DeniedMsg
  <2>. QED
    BY <2>1 DEF Received
<1>2. w = s.runtime \/ w = Append(s.runtime, m.record)
  OBVIOUS
<1> HIDE DEF w
<1>3. Received(s, u, m).runtime = w
  BY <1>1 DEF Apps
<1>. QED
  BY <1>2, <1>3

\* The steps of the clients, but for their edits.
LEMMA AppSpreads ==
  ASSUME LaneTyped, NEW r \in Record, NEW u \in Client,
         \/ Dial(u) \/ ReadDown(u) \/ LinkLost(u) \/ HandshakeTimeout(u) \/ Publish(u)
         \/ AfterEnd(u) \/ Silence(u)
  PROVE  Spreads(r)
<1> DEFINE x == RecordMsg(r)
<1>0. /\ up \in [Conn -> Seq(Lines)] /\ down \in [Conn -> Seq(Answers)]
      /\ app \in [Client -> Apps] /\ app[u] \in Apps
      /\ x # HelloMsg
  BY DEF LaneTyped, RoomTyped, AppsTyped, RecordMsg, HelloMsg
<1>1. UNCHANGED <<records, sent, toHost, fromHost>>
  BY DEF Dial, ReadDown, LinkLost, HandshakeTimeout, Publish, AfterEnd, Silence, Age, hostVars,
         relayVars, bridgeVars
<1>2. ASSUME app' = Lose(u)
      PROVE  \A v \in Client : app'[v].runtime = app[v].runtime
  <2> DEFINE a == [app[u] EXCEPT !.mode = Failed(app[u].mode), !.conn = None]
  <2>1. app' = [app EXCEPT ![u] = a]
    BY <1>2 DEF Lose
  <2>2. a.runtime = app[u].runtime
    BY <1>0 DEF Apps
  <2> HIDE DEF a
  <2>. QED
    BY <1>0, <2>1, <2>2
<1>3. CASE Dial(u)
  <2>1. PICK k \in Conn :
          /\ app' = [app EXCEPT ![u].conn = k,
                       ![u].mode = IF @ = "solo" THEN "joining" ELSE "rejoining"]
          /\ up' = [up EXCEPT ![k] = <<HelloMsg>>]
          /\ down' = [down EXCEPT ![k] = <<>>]
    BY <1>3 DEF Dial
  <2>2. \A v \in Client : app'[v].runtime = app[v].runtime
    BY <1>0, <2>1 DEF Apps
  <2>3. ~Has(<<HelloMsg>>, x)
    BY <1>0 DEF Has
  <2>4. \A c \in Conn : (Has(up'[c], x) => Has(up[c], x)) /\ (Has(down'[c], x) => Has(down[c], x))
    BY <1>0, <2>1, <2>3, HasNone
  <2>. QED
    BY <1>1, <2>2, <2>4 DEF Spreads, Around
<1>4. CASE ReadDown(u)
  <2> DEFINE k == app[u].conn q == down[k] m == Head(q) s == app[u]
             t == IF s.mode = "live" THEN Received(s, u, m)
                    ELSE IF m.type = "welcome" THEN Welcomed(s, m) ELSE s
  <2>1. /\ s \in Apps /\ k \in Conn /\ q \in Seq(Answers) /\ q # <<>>
        /\ down' = [down EXCEPT ![k] = Tail(@)]
        /\ UNCHANGED up
        /\ app' = Lose(u) \/ app' = [app EXCEPT ![u] = t]
    BY <1>0, <1>4 DEF ReadDown, Holding, LaneTyped, AppsTyped
  <2>2. \A y : Has(q, y) <=> y = m \/ Has(Tail(q), y)
    BY <2>1, HasParts
  <2>3. \A c \in Conn : Has(down'[c], x) => Has(down[c], x)
    BY <1>0, <2>1, <2>2
  <2>4. Has(t.runtime, r) => Has(s.runtime, r) \/ Has(q, x)
    <3>1. m \in Answers
      BY <2>1, QueueParts
    <3>2. CASE s.mode = "live" /\ m.type = "record"
      <4>1. m.record \in Record /\ m = RecordMsg(m.record)
        BY <3>1, <3>2, LaneReads, CarriesRecord
      <4>2. t.runtime = s.runtime \/ t.runtime = Append(s.runtime, m.record)
        <5>1. t = Received(s, u, m)
          BY <3>2
        <5>. QED
          BY <2>1, <3>2, <5>1, RecordRead
      <4>3. s.runtime \in Seq(Record)
        BY <2>1 DEF Apps
      <4> HIDE DEF t
      <4>4. Has(Append(s.runtime, m.record), r) <=> Has(s.runtime, r) \/ r = m.record
        BY <4>1, <4>3, HasAppended
      <4>. QED
        BY <2>2, <4>1, <4>2, <4>4
    <3>3. CASE ~(s.mode = "live" /\ m.type = "record")
      <4>1. t.runtime = s.runtime \/ t.runtime = <<>>
        BY <2>1, <3>3 DEF Received, Welcomed, Solo, Apps, DeniedMsg
      <4>. QED
        BY <4>1, HasNone
    <3>. QED
      BY <3>2, <3>3
  <2> HIDE DEF t
  <2>5. \A v \in Client : Has(app'[v].runtime, r) => Has(app[v].runtime, r) \/ Has(q, x)
    BY <1>0, <1>2, <2>1, <2>4
  <2>6. Has(q, x) => Around(r)
    BY <2>1 DEF Around
  <2>. QED
    BY <1>1, <2>1, <2>3, <2>5, <2>6 DEF Spreads, Around
<1>5. CASE LinkLost(u) \/ HandshakeTimeout(u)
  BY <1>1, <1>2, <1>5 DEF LinkLost, HandshakeTimeout, relayVars, Spreads, Around
<1>6. CASE Publish(u)
  <2> DEFINE k == app[u].conn o == Outbound(app[u], u) w == up[k]
  <2>1. /\ UNCHANGED down /\ up' = [up EXCEPT ![k] = w \o o]
        /\ k \in Conn /\ w \in Seq(Lines) /\ o \in Seq(Lines)
    <3>1. k \in Conn
      BY <1>6 DEF Publish, LaneTyped, AppsTyped, Holding
    <3>. QED
      BY <1>0, <1>6, <3>1, OutboundPicks DEF Publish
  <2>2. \A v \in Client : app'[v].runtime = app[v].runtime
    BY <1>6, EditsApp
  <2>3. ASSUME Has(o, x)
        PROVE  Has(app[u].runtime, r)
    <3>1. PICK n \in DOMAIN app[u].runtime : Unsent(app[u], u, n) /\ x = RecordMsg(app[u].runtime[n])
      BY <1>0, <2>3, OutboundHas
    <3>2. r = app[u].runtime[n]
      BY <3>1, RecordMsgFacts
    <3>. QED
      BY <3>2 DEF Has
  <2> HIDE DEF o, w
  <2>4. Has(w \o o, x) <=> Has(w, x) \/ Has(o, x)
    BY <2>1, HasParts
  <2>5. \A c \in Conn : up'[c] = IF c = k THEN w \o o ELSE up[c]
    BY <1>0, <2>1
  <2>6. ASSUME NEW c \in Conn, Has(up'[c], x)
        PROVE  Around(r)
    BY <2>1, <2>3, <2>4, <2>5, <2>6 DEF Around, w
  <2>. QED
    BY <1>1, <2>1, <2>2, <2>6 DEF Spreads, Around
<1>7. CASE AfterEnd(u)
  <2>1. UNCHANGED <<up, down>> /\ app' = [app EXCEPT ![u] = Solo]
    BY <1>7 DEF AfterEnd, relayVars
  <2>2. \A v \in Client : Has(app'[v].runtime, r) => Has(app[v].runtime, r)
    BY <1>0, <2>1, HasNone DEF Solo
  <2>. QED
    BY <1>1, <2>1, <2>2 DEF Spreads, Around
<1>8. CASE Silence(u)
  BY <1>1, <1>8 DEF Silence, relayVars, Spreads, Around
<1>. QED
  BY <1>3, <1>4, <1>5, <1>6, <1>7, <1>8

\* An edit, of the host or of a client, mints one record.
LEMMA EditSpreads ==
  ASSUME LaneTyped, LaneTyped', NEW r \in Record
  PROVE  /\ HostEdit => Spreads(r) \/ r = Mint(Host)
         /\ \A u \in Client : Edit(u) => Spreads(r) \/ r = Mint(u)
<1> DEFINE x == RecordMsg(r)
<1>1. ASSUME HostEdit, r # Mint(Host)
      PROVE  Spreads(r)
  <2> DEFINE h == Mint(Host)
  <2>1. /\ HandleLocal(h) /\ UNCHANGED <<up, down, app, toHost, fromHost, taken>>
        /\ minted + 1 \in ActionId
    BY <1>1 DEF HostEdit, relayVars, bridgeVars
  <2>2. h \in Record /\ TypeOK /\ TypeOK' /\ records \in Seq(Record)
    BY <2>1 DEF Mint, Record, User, LaneTyped, TypeOK
  <2> HIDE DEF h
  <2>3. Has(records', r) => Around(r)
    <3>1. records' = Append(records, h)
      BY <2>1 DEF HandleLocal
    <3>. QED
      BY <1>1, <2>2, <3>1, HasAppended DEF Around, h
  <2>4. ASSUME NEW v \in Client
        PROVE  Has(sent'[v], x) => Around(r)
    <3> DEFINE B == v \in clients
    <3>1. sent'[v] = sent[v] \o (IF v \in clients THEN <<RecordMsg(h)>> ELSE <<>>)
      BY <2>1, <2>2, CoreSends
    <3>2. B \in BOOLEAN /\ sent'[v] = sent[v] \o (IF B THEN <<RecordMsg(h)>> ELSE <<>>)
      BY <3>1
    <3> HIDE DEF B
    <3>. QED
      BY <1>1, <2>2, <3>2, SentSpreads DEF h
  <2>5. IsFiniteSet({}) /\ {} \in SUBSET Client
    BY FS_EmptySet
  <2>. QED
    BY <2>1, <2>2, <2>3, <2>4, <2>5, CoreSpreads
<1>2. ASSUME NEW u \in Client, Edit(u), r # Mint(u)
      PROVE  Spreads(r)
  <2>1. UNCHANGED <<records, sent, up, down, toHost, fromHost>> /\ minted + 1 \in ActionId
    BY <1>2 DEF Edit, hostVars, relayVars, bridgeVars
  <2>2. /\ app'[u].runtime = Append(app[u].runtime, Mint(u))
        /\ \A v \in Client : v # u => app'[v] = app[v]
    BY <1>2, EditsApp
  <2>3. Mint(u) \in Record /\ app[u].runtime \in Seq(Record)
    BY <2>1, LaneReads DEF Mint, Record, User, Apps
  <2>4. ASSUME NEW v \in Client, Has(app'[v].runtime, r)
        PROVE  Has(app[v].runtime, r)
    <3>1. CASE v = u
      <4> DEFINE s == app[u].runtime h == Mint(u)
      <4>1. s \in Seq(Record) /\ h \in Record /\ r # h
        BY <1>2, <2>3
      <4> HIDE DEF s, h
      <4>2. Has(Append(s, h), r) => Has(s, r)
        BY <4>1, HasAppended
      <4>. QED
        BY <2>2, <2>4, <3>1, <4>2 DEF s, h
    <3>2. CASE v # u
      BY <2>2, <2>4, <3>2
    <3>. QED
      BY <3>1, <3>2
  <2>. QED
    BY <2>1, <2>4 DEF Spreads, Around
<1>. QED
  BY <1>1, <1>2

\* Ids stay in order.
LEMMA AuthoredStep ==
  ASSUME LaneTyped, LaneTyped', QueueInv, Authored, RelayNext
  PROVE  Authored'
<1> DEFINE Fresh1(w) == /\ minted' = minted + 1
                        /\ \A r \in Record : Around(r)' => Around(r) \/ r = Mint(w)
<1>1. ASSUME minted' = minted, \A r \in Record : Spreads(r)
      PROVE  Authored'
  BY <1>1 DEF Authored, Spreads
<1>2. ASSUME NEW w, minted' = minted + 1, \A r \in Record : Spreads(r) \/ r = Mint(w)
      PROVE  Authored'
  <2>1. minted \in Nat /\ Mint(w).action_id = minted + 1
    BY DEF Authored, Mint
  <2>2. \A r \in Record : Around(r)' => Around(r) \/ r = Mint(w)
    BY <1>2 DEF Spreads
  <2>3. \A n \in 1 .. minted : n \in 1 .. minted + 1 /\ n # minted + 1
    BY <2>1
  <2>4. minted + 1 \in 1 .. minted + 1 /\ minted + 1 \in Nat
    BY <2>1
  <2>5. \A r \in Record : Around(r) => r.action_id \in 1 .. minted
    BY DEF Authored
  <2>6. \A r \in Record : Around(r)' => r.action_id \in 1 .. minted + 1
    BY <2>1, <2>2, <2>3, <2>4, <2>5
  <2>7. \A r, s \in Record : Around(r)' /\ Around(s)' /\ r.action_id = s.action_id => r = s
    BY <2>1, <2>2, <2>3, <2>5 DEF Authored
  <2>. QED
    BY <1>2, <2>4, <2>6, <2>7 DEF Authored
<1>3. ASSUME \/ HostRead \/ Pump \/ SwapDocument \/ HostLeave
             \/ RouteDown \/ RoomCloses \/ HostLinkBreaks
             \/ \E k \in Conn : \/ Claim(k) \/ RouteUp(k) \/ Cleanup(k) \/ PingRefused(k)
                                \/ Break(k) \/ HalfOpenEnds(k)
      PROVE  Authored'
  <2>1. \A r \in Record : Spreads(r)
    BY <1>3, BridgeSpreads, RelaySpreads
  <2>2. minted' = minted
    BY <1>3 DEF HostRead, Pump, SwapDocument, HostLeave, RouteDown, RoomCloses, HostLinkBreaks,
                Claim, RouteUp, Cleanup, PingRefused, Break, HalfOpenEnds
  <2>. QED
    BY <1>1, <2>1, <2>2
<1>4. ASSUME NEW u \in Client, \/ Dial(u) \/ ReadDown(u) \/ LinkLost(u) \/ HandshakeTimeout(u)
                               \/ Publish(u) \/ AfterEnd(u) \/ Silence(u)
      PROVE  Authored'
  <2>1. \A r \in Record : Spreads(r)
    BY <1>4, AppSpreads
  <2>2. minted' = minted
    BY <1>4 DEF Dial, ReadDown, LinkLost, HandshakeTimeout, Publish, AfterEnd, Silence
  <2>. QED
    BY <1>1, <2>1, <2>2
<1>5. ASSUME NEW u \in Client, Edit(u)
      PROVE  Authored'
  <2>1. minted' = minted + 1
    BY <1>5 DEF Edit
  <2>2. \A r \in Record : Spreads(r) \/ r = Mint(u)
    BY <1>5, EditSpreads
  <2>. QED
    BY <1>2, <2>1, <2>2
<1>6. ASSUME HostEdit
      PROVE  Authored'
  <2>1. minted' = minted + 1
    BY <1>6 DEF HostEdit
  <2>2. \A r \in Record : Spreads(r) \/ r = Mint(Host)
    BY <1>6, EditSpreads
  <2>. QED
    BY <1>2, <2>1, <2>2
<1>. QED
  BY <1>3, <1>4, <1>5, <1>6 DEF RelayNext

-----------------------------------------------------------------------------
(* On its way from its author to the log, a record is in one place.        *)

InLog(n, r) == n \in DOMAIN records /\ records[n] = r
InUp(k, n, r) == n \in DOMAIN up[k] /\ up[k][n] = RecordMsg(r)
InHost(n, r) == n \in DOMAIN toHost /\ toHost[n].type = "line" /\ toHost[n].msg = RecordMsg(r)
InApp(u, n, r) ==
  app[u].mode = "live" /\ n \in DOMAIN app[u].runtime /\ Unsent(app[u], u, n) /\ app[u].runtime[n] = r

At(at, of, n, r) ==
  \/ at = "log" /\ of = None /\ InLog(n, r)
  \/ at = "up" /\ of \in Conn /\ InUp(of, n, r)
  \/ at = "in" /\ of = None /\ InHost(n, r)
  \/ at = "own" /\ of \in Client /\ InApp(of, n, r)

AtOne(r) ==
  \A a, b, c, d, m, n : At(a, c, m, r) /\ At(b, d, n, r) => a = b /\ c = d /\ m = n

OnePlace == \A r \in Record : AtOne(r)

\* A place that r has after a step it had before.
StaysPut(r) == \A a, c, n : At(a, c, n, r)' => At(a, c, n, r)

\* Then it is in one place still.
LEMMA StaysPutOne ==
  ASSUME NEW r, AtOne(r), StaysPut(r)
  PROVE  AtOne(r)'
BY DEF AtOne, StaysPut

\* The parts of it.
LEMMA StaysPutParts ==
  ASSUME NEW r,
         \A n : InLog(n, r)' => InLog(n, r),
         \A k \in Conn : \A n : InUp(k, n, r)' => InUp(k, n, r),
         \A n : InHost(n, r)' => InHost(n, r),
         \A u \in Client : \A n : InApp(u, n, r)' => InApp(u, n, r)
  PROVE  StaysPut(r)
BY DEF StaysPut, At

\* Whatever has a place is around.
LEMMA AtAround ==
  ASSUME LaneTyped, NEW r, NEW a, NEW c, NEW n, At(a, c, n, r)
  PROVE  Around(r)
<1>1. ASSUME InHost(n, r)
      PROVE  Around(r)
  <2> DEFINE k == toHost[n].conn
  <2>1. k \in Conn /\ toHost[n] = LineMsg(k, RecordMsg(r))
    BY <1>1, LinesKnown DEF InHost, Line
  <2>2. Has(toHost, LineMsg(k, RecordMsg(r)))
    BY <1>1, <2>1 DEF Has, InHost
  <2> HIDE DEF k
  <2>. QED
    BY <2>1, <2>2 DEF Around
<1>. QED
  BY <1>1 DEF At, InLog, InUp, InApp, Around, Has

\* The steps of the bridge but for what it reads, and those of the relay.
LEMMA OthersStayPut ==
  ASSUME LaneTyped, NEW r \in Record,
         \/ Pump \/ SwapDocument \/ HostLeave \/ RouteDown \/ RoomCloses \/ HostLinkBreaks
         \/ \E k \in Conn : \/ Claim(k) \/ Cleanup(k) \/ PingRefused(k) \/ Break(k) \/ HalfOpenEnds(k)
  PROVE  StaysPut(r)
<1>0. /\ TypeOK /\ up \in [Conn -> Seq(Lines)] /\ toHost \in Seq(Notices)
      /\ app \in [Client -> Apps]
  BY DEF LaneTyped, RoomTyped, BridgeTyped, AppsTyped
<1>1. \A n : InLog(n, r)' => InLog(n, r)
  <2>1. records' = records \/ records' = <<>>
    BY DEF Pump, SwapDocument, HostLeave, RouteDown, RoomCloses, HostLinkBreaks, Claim, Cleanup,
           PingRefused, Break, HalfOpenEnds, hostVars, DropClients, Reseed
  <2>. QED
    BY <2>1 DEF InLog
<1>2. \A k \in Conn : \A n : InUp(k, n, r)' => InUp(k, n, r)
  <2>1. CASE up' = up
    BY <2>1 DEF InUp
  <2>2. ASSUME NEW k \in Conn, Claim(k)
        PROVE  \A c \in Conn : up'[c] = up[c] \/ up'[c] = <<>>
    BY <1>0, <2>2 DEF Claim
  <2>3. ASSUME NEW k \in Conn, Break(k)
        PROVE  \A c \in Conn : \A n : InUp(c, n, r)' => InUp(c, n, r)
    <3>1. PICK j \in 0 .. Len(up[k]) : up' = [up EXCEPT ![k] = SubSeq(@, 1, j)]
      BY <2>3 DEF Break
    <3> DEFINE q == up[k]
    <3>2. q \in Seq(Lines) /\ DOMAIN SubSeq(q, 1, j) = 1 .. j
          /\ \A i \in 1 .. j : i \in DOMAIN q /\ SubSeq(q, 1, j)[i] = q[i]
      BY <1>0, <3>1
    <3> HIDE DEF q
    <3>3. \A c \in Conn : up'[c] = IF c = k THEN SubSeq(q, 1, j) ELSE up[c]
      BY <1>0, <3>1 DEF q
    <3>. QED
      BY <3>2, <3>3 DEF InUp, q
  <2>4. up' = up \/ \E k \in Conn : Claim(k) \/ Break(k)
    BY DEF Pump, SwapDocument, HostLeave, RouteDown, RoomCloses, HostLinkBreaks, Cleanup,
           PingRefused, HalfOpenEnds, relayVars
  <2>. QED
    BY <2>1, <2>2, <2>3, <2>4 DEF InUp
<1>3. \A n : InHost(n, r)' => InHost(n, r)
  <2>1. CASE toHost' = toHost
    BY <2>1 DEF InHost
  <2>2. ASSUME NEW k \in Conn, Cleanup(k), toHost' = Append(toHost, LeftMsg(k))
        PROVE  \A n : InHost(n, r)' => InHost(n, r)
    <3>1. /\ DOMAIN toHost = 1 .. Len(toHost) /\ Len(toHost) \in Nat
          /\ DOMAIN toHost' = 1 .. Len(toHost) + 1
          /\ \A i \in 1 .. Len(toHost) : toHost'[i] = toHost[i]
          /\ toHost'[Len(toHost) + 1] = LeftMsg(k)
      BY <1>0, <2>2, MessagesTyped, QueueAppended
    <3>2. \A i \in 1 .. Len(toHost) + 1 : i \in 1 .. Len(toHost) \/ i = Len(toHost) + 1
      BY <3>1
    <3>3. LeftMsg(k).type # "line"
      BY DEF LeftMsg
    <3>. QED
      BY <3>1, <3>2, <3>3 DEF InHost
  <2>3. toHost' = toHost \/ \E k \in Conn : Cleanup(k) /\ toHost' = Append(toHost, LeftMsg(k))
    BY DEF Pump, SwapDocument, HostLeave, RouteDown, RoomCloses, HostLinkBreaks, Cleanup, Claim,
           PingRefused, HalfOpenEnds, Break, bridgeVars
  <2>. QED
    BY <2>1, <2>2, <2>3
<1>4. \A u \in Client : \A n : InApp(u, n, r)' => InApp(u, n, r)
  <2>1. \A u \in Client : app'[u] = app[u] \/ app'[u].mode # "live"
    <3>1. ASSUME NEW v \in Client, app' = Lose(v)
          PROVE  \A u \in Client : app'[u] = app[u] \/ app'[u].mode # "live"
      <4>1. app' = [app EXCEPT ![v] = [app[v] EXCEPT !.mode = Failed(app[v].mode), !.conn = None]]
        BY <3>1 DEF Lose
      <4>. QED
        BY <1>0, <4>1 DEF Apps, Failed
    <3>2. ASSUME NEW k \in Conn, Claim(k)
          PROVE  app' = app \/ \E v \in Client : app' = Lose(v)
      <4>1. app' = app \/ (app' = Lose(who[k]) /\ app[who[k]].conn = k)
        BY <3>2 DEF Claim
      <4>2. CASE who[k] \in Client
        BY <4>1, <4>2
      <4>3. CASE who[k] \notin Client
        <5>1. Lose(who[k]) = app
          BY <1>0, <4>3 DEF Lose
        <5>. QED
          BY <4>1, <5>1
      <4>. QED
        BY <4>2, <4>3
    <3>3. app' = app \/ \E v \in Client : app' = Lose(v)
      BY <3>2 DEF Pump, SwapDocument, HostLeave, RouteDown, RoomCloses, HostLinkBreaks, Cleanup,
                  PingRefused, HalfOpenEnds, Break
    <3>. QED
      BY <3>1, <3>3
  <2>. QED
    BY <2>1 DEF InApp, Unsent
<1>. QED
  BY <1>1, <1>2, <1>3, <1>4, StaysPutParts

\* A client that reads, or dials, or leaves.
LEMMA AppsStayPut ==
  ASSUME LaneTyped, NEW r \in Record, NEW u \in Client,
         \/ Dial(u) \/ ReadDown(u) \/ LinkLost(u) \/ HandshakeTimeout(u) \/ AfterEnd(u) \/ Silence(u)
  PROVE  StaysPut(r)
<1>0. /\ up \in [Conn -> Seq(Lines)] /\ app \in [Client -> Apps] /\ app[u] \in Apps
  BY DEF LaneTyped, RoomTyped, AppsTyped
<1>1. UNCHANGED <<records, toHost>>
  BY DEF Dial, ReadDown, LinkLost, HandshakeTimeout, AfterEnd, Silence, Age, hostVars, relayVars, bridgeVars
<1>2. \A k \in Conn : \A n : InUp(k, n, r)' => InUp(k, n, r)
  <2>1. up' = up \/ \E k \in Conn : up' = [up EXCEPT ![k] = <<HelloMsg>>]
    BY DEF Dial, ReadDown, LinkLost, HandshakeTimeout, AfterEnd, Silence, relayVars
  <2>2. \A n \in DOMAIN <<HelloMsg>> : <<HelloMsg>>[n] # RecordMsg(r)
    BY DEF HelloMsg, RecordMsg
  <2>3. \A k \in Conn : up'[k] = up[k] \/ up'[k] = <<HelloMsg>>
    BY <1>0, <2>1
  <2>. QED
    BY <2>2, <2>3 DEF InUp
<1>3. ASSUME app'[u].mode # "live", \A v \in Client \ {u} : app'[v] = app[v]
      PROVE  \A v \in Client : \A n : InApp(v, n, r)' => InApp(v, n, r)
  BY <1>3 DEF InApp, Unsent
<1>4. ASSUME app' = Lose(u)
      PROVE  app'[u].mode # "live" /\ \A v \in Client \ {u} : app'[v] = app[v]
  <2>1. app' = [app EXCEPT ![u] = [app[u] EXCEPT !.mode = Failed(app[u].mode), !.conn = None]]
    BY <1>4 DEF Lose
  <2>. QED
    BY <1>0, <2>1 DEF Apps, Failed
<1>5. CASE LinkLost(u) \/ HandshakeTimeout(u)
  BY <1>1, <1>2, <1>3, <1>4, <1>5, StaysPutParts DEF LinkLost, HandshakeTimeout, InLog, InHost
<1>6. CASE Dial(u)
  <2>1. PICK k \in Conn : app' = [app EXCEPT ![u].conn = k,
                                  ![u].mode = IF @ = "solo" THEN "joining" ELSE "rejoining"]
    BY <1>6 DEF Dial
  <2>2. app'[u].mode # "live" /\ \A v \in Client \ {u} : app'[v] = app[v]
    BY <1>0, <2>1 DEF Apps
  <2>. QED
    BY <1>1, <1>2, <1>3, <2>2, StaysPutParts DEF InLog, InHost
<1>7. CASE AfterEnd(u)
  <2>1. app'[u].mode # "live" /\ \A v \in Client \ {u} : app'[v] = app[v]
    BY <1>0, <1>7 DEF AfterEnd, Solo
  <2>. QED
    BY <1>1, <1>2, <1>3, <2>1, StaysPutParts DEF InLog, InHost
<1>8. CASE Silence(u)
  BY <1>1, <1>2, <1>8, StaysPutParts DEF Silence, InLog, InHost, InApp, Unsent
<1>9. CASE ReadDown(u)
  <2> DEFINE k == app[u].conn q == down[k] m == Head(q) s == app[u]
             t == IF s.mode = "live" THEN Received(s, u, m)
                    ELSE IF m.type = "welcome" THEN Welcomed(s, m) ELSE s
  <2>1. /\ s \in Apps /\ q \in Seq(Answers) /\ q # <<>> /\ m \in Answers
        /\ app' = Lose(u) \/ app' = [app EXCEPT ![u] = t]
        /\ s.mode \in {"joining", "rejoining", "live"}
    <3>1. k \in Conn /\ down \in [Conn -> Seq(Answers)]
      BY <1>9 DEF ReadDown, Holding, LaneTyped, AppsTyped, RoomTyped
    <3>2. q \in Seq(Answers) /\ q # <<>>
      BY <1>9, <3>1 DEF ReadDown
    <3>. QED
      BY <1>0, <1>9, <3>2, QueueParts DEF ReadDown
  <2>2. ASSUME app' = [app EXCEPT ![u] = t]
        PROVE  \A v \in Client : \A n : InApp(v, n, r)' => InApp(v, n, r)
    <3>1. app'[u] = t /\ \A v \in Client \ {u} : app'[v] = app[v]
      BY <1>0, <2>2
    <3>2. ASSUME NEW n, t.mode = "live", n \in DOMAIN t.runtime, Unsent(t, u, n)
          PROVE  s.mode = "live" /\ n \in DOMAIN s.runtime /\ Unsent(s, u, n) /\ t.runtime[n] = s.runtime[n]
      <4>1. CASE s.mode # "live"
        <5>1. t = s \/ t.runtime = <<>>
          BY <4>1 DEF Welcomed, Solo
        <5>. QED
          BY <3>2, <4>1, <5>1
      <4>2. CASE s.mode = "live" /\ m.type = "record"
        <5>0. t = [s EXCEPT !.known = @ \cup {m.record.action_id},
                            !.consumed = @ + 1,
                            !.runtime = IF m.record.user_id # u \/ s.consumed < s.base
                                        THEN Append(@, m.record) ELSE @]
          BY <2>1, <4>2 DEF Received, Apps, DeniedMsg
        <5>1. /\ t.known = s.known \cup {m.record.action_id} /\ t.published = s.published
              /\ t.runtime = s.runtime \/ t.runtime = Append(s.runtime, m.record)
          <6> HIDE DEF t, m
          <6>. QED
            BY <2>1, <5>0 DEF Apps
        <5>2. m.record \in Record /\ s.runtime \in Seq(Record)
          BY <2>1, <4>2, MessagesTyped DEF Apps
        <5> HIDE DEF t, m
        <5>3. n \in DOMAIN s.runtime /\ t.runtime[n] = s.runtime[n]
          <6>1. CASE t.runtime = s.runtime
            BY <3>2, <6>1
          <6>2. CASE t.runtime = Append(s.runtime, m.record)
            <7>1. /\ \A i \in DOMAIN s.runtime : t.runtime[i] = s.runtime[i]
                  /\ t.runtime[Len(s.runtime) + 1] = m.record
                  /\ n \in DOMAIN s.runtime \/ n = Len(s.runtime) + 1
              BY <3>2, <5>2, <6>2, HasAppended
            <7>. QED
              BY <3>2, <5>1, <7>1 DEF Unsent
          <6>. QED
            BY <5>1, <6>1, <6>2
        <5>. QED
          BY <3>2, <4>2, <5>1, <5>3 DEF Unsent
      <4>3. CASE s.mode = "live" /\ m.type # "record"
        <5>1. t.runtime = s.runtime /\ t.known = s.known /\ t.published = s.published
          BY <2>1, <4>3 DEF Received, Apps, DeniedMsg
        <5>. QED
          BY <3>2, <4>3, <5>1 DEF Unsent
      <4>. QED
        BY <4>1, <4>2, <4>3
    <3> HIDE DEF t
    <3>. QED
      BY <3>1, <3>2 DEF InApp, Unsent
  <2>. QED
    BY <1>1, <1>2, <1>3, <1>4, <2>1, <2>2, StaysPutParts DEF InLog, InHost
<1>. QED
  BY <1>5, <1>6, <1>7, <1>8, <1>9

\* A line moves on to the host's queue.
LEMMA RouteUpPlace ==
  ASSUME LaneTyped, NEW r \in Record, AtOne(r), NEW k \in Conn, RouteUp(k)
  PROVE  AtOne(r)'
<1> DEFINE q == up[k] L == Len(toHost) l == LineMsg(k, Head(q))
<1>1. /\ UNCHANGED <<records, app>> /\ q # <<>> /\ q \in Seq(Lines) /\ toHost \in Seq(Notices)
      /\ up \in [Conn -> Seq(Lines)]
  BY DEF RouteUp, hostVars, LaneTyped, RoomTyped, BridgeTyped
<1>2. /\ Head(q) \in Lines /\ Head(q) = q[1] /\ l \in Notices
      /\ Len(q) \in Nat /\ Len(q) > 0 /\ DOMAIN q = 1 .. Len(q)
      /\ DOMAIN Tail(q) = 1 .. Len(q) - 1 /\ \A i \in 1 .. Len(q) - 1 : Tail(q)[i] = q[i + 1]
      /\ L \in Nat /\ DOMAIN toHost = 1 .. L
  BY <1>1, QueueParts, MessagesTyped
<1>3. \/ up' = [up EXCEPT ![k] = <<>>] /\ toHost' = toHost
      \/ up' = [up EXCEPT ![k] = Tail(@)] /\ toHost' = Append(toHost, l)
  BY DEF RouteUp
<1>4. CASE up' = [up EXCEPT ![k] = <<>>] /\ toHost' = toHost
  <2>1. \A c \in Conn : up'[c] = up[c] \/ up'[c] = <<>>
    BY <1>1, <1>4
  <2>2. StaysPut(r)
    BY <1>1, <1>4, <2>1, StaysPutParts DEF InLog, InUp, InHost, InApp, Unsent
  <2>. QED
    BY <2>2, StaysPutOne
<1>5. CASE up' = [up EXCEPT ![k] = Tail(@)] /\ toHost' = Append(toHost, l)
  <2>1. /\ DOMAIN toHost' = 1 .. L + 1 /\ toHost'[L + 1] = l
        /\ \A i \in 1 .. L : toHost'[i] = toHost[i]
    BY <1>1, <1>2, <1>5, QueueAppended
  <2>2. l.type = "line" /\ l.msg = q[1]
    BY <1>2 DEF LineMsg
  <2>3. up'[k] = Tail(q) /\ \A c \in Conn : c # k => up'[c] = up[c]
    BY <1>1, <1>5
  <2> HIDE DEF q, L, l
  <2>4. ASSUME NEW n, InUp(k, n, r)'
        PROVE  n \in Nat /\ n >= 1 /\ InUp(k, n + 1, r)
    <3>1. n \in 1 .. Len(q) - 1 /\ q[n + 1] = RecordMsg(r)
      BY <1>2, <2>3, <2>4 DEF InUp
    <3>2. n \in Nat /\ n >= 1 /\ n + 1 \in 1 .. Len(q)
      BY <1>2, <3>1
    <3>. QED
      BY <1>2, <3>1, <3>2 DEF InUp, q
  <2>5. ASSUME NEW n, InHost(n, r)'
        PROVE  InHost(n, r) \/ (n = L + 1 /\ InUp(k, 1, r))
    <3>1. n \in 1 .. L \/ n = L + 1
      BY <1>2, <2>1, <2>5 DEF InHost
    <3>2. 1 \in 1 .. Len(q)
      BY <1>2
    <3>. QED
      BY <1>2, <2>1, <2>2, <2>5, <3>1, <3>2 DEF InHost, InUp, q
  <2>6. ~InHost(L + 1, r)
    BY <1>2 DEF InHost
  <2>7. ASSUME NEW a, NEW c, NEW n, At(a, c, n, r)'
        PROVE  \/ At(a, c, n, r) /\ ~(a = "up" /\ c = k)
               \/ a = "up" /\ c = k /\ n \in Nat /\ n >= 1 /\ At("up", k, n + 1, r)
               \/ a = "in" /\ c = None /\ n = L + 1 /\ At("up", k, 1, r)
    <3>1. CASE a = "log" /\ c = None /\ InLog(n, r)'
      BY <1>1, <3>1 DEF At, InLog
    <3>2. CASE a = "up" /\ c \in Conn /\ InUp(c, n, r)'
      BY <2>3, <2>4, <3>2 DEF At, InUp
    <3>3. CASE a = "in" /\ c = None /\ InHost(n, r)'
      BY <2>5, <3>3 DEF At
    <3>4. CASE a = "own" /\ c \in Client /\ InApp(c, n, r)'
      BY <1>1, <3>4 DEF At, InApp, Unsent
    <3>. QED
      BY <2>7, <3>1, <3>2, <3>3, <3>4 DEF At
  <2>8. ASSUME NEW a, NEW b, NEW c, NEW d, NEW m, NEW n, At(a, c, m, r)', At(b, d, n, r)'
        PROVE  a = b /\ c = d /\ m = n
    BY <2>7, <2>8 DEF AtOne
  <2>. QED
    BY <2>8 DEF AtOne
<1>. QED
  BY <1>3, <1>4, <1>5

\* The record that the host reads enters the log.
LEMMA HostReadPlace ==
  ASSUME LaneTyped, NEW r \in Record, AtOne(r), HostRead
  PROVE  AtOne(r)'
<1> DEFINE N == Len(records) f == Head(toHost) x == f.msg.record
<1>1. /\ UNCHANGED <<up, app>> /\ toHost # <<>> /\ toHost \in Seq(Notices) /\ toHost' = Tail(toHost)
      /\ records \in Seq(Record)
  BY DEF HostRead, relayVars, LaneTyped, BridgeTyped, TypeOK
<1>2. /\ f \in Notices /\ f = toHost[1] /\ DOMAIN toHost = 1 .. Len(toHost) /\ Len(toHost) \in Nat
      /\ Len(toHost) > 0 /\ DOMAIN toHost' = 1 .. Len(toHost) - 1
      /\ \A i \in 1 .. Len(toHost) - 1 : toHost'[i] = toHost[i + 1]
  BY <1>1, QueueParts
<1>3. \/ records' = records
      \/ f.type = "line" /\ f.msg.type = "record" /\ records' = Append(records, x)
  BY <1>2 DEF HostRead, LeaveBridge, HandleLine, HandleHello, HandleAction, DropClients, hostVars, Notices
<1> HIDE DEF N, f, x
<1>4. ASSUME NEW n, InHost(n, r)'
      PROVE  n \in Nat /\ n >= 1 /\ InHost(n + 1, r)
  <2>1. n \in 1 .. Len(toHost) - 1 /\ n + 1 \in 1 .. Len(toHost) /\ n \in Nat /\ n >= 1
    BY <1>2, <1>4 DEF InHost
  <2>. QED
    BY <1>2, <1>4, <2>1 DEF InHost
<1>5. ASSUME NEW n, InLog(n, r)'
      PROVE  InLog(n, r) \/ (n = N + 1 /\ InHost(1, r))
  <2>1. CASE records' = records
    BY <1>5, <2>1 DEF InLog
  <2>2. CASE f.type = "line" /\ f.msg.type = "record" /\ records' = Append(records, x)
    <3>1. f.msg \in Lines /\ x \in Record /\ f.msg = RecordMsg(x)
      <4>1. f.msg \in Lines
        BY <1>2, <2>2 DEF Notices
      <4>. QED
        BY <2>2, <4>1 DEF Lines, HelloMsg, RecordMsg, x
    <3>2. /\ \A i \in DOMAIN records : records'[i] = records[i]
          /\ records'[N + 1] = x /\ \A i \in DOMAIN records' : i \in DOMAIN records \/ i = N + 1
      BY <1>1, <2>2, <3>1, HasAppended DEF N
    <3>3. 1 \in 1 .. Len(toHost)
      BY <1>2
    <3>. QED
      BY <1>2, <1>5, <2>2, <3>1, <3>2, <3>3 DEF InLog, InHost
  <2>. QED
    BY <1>3, <2>1, <2>2
<1>6. ~InLog(N + 1, r)
  <2>1. DOMAIN records = 1 .. N /\ N \in Nat
    BY <1>1 DEF N
  <2>. QED
    BY <2>1 DEF InLog
<1>7. ASSUME NEW a, NEW c, NEW n, At(a, c, n, r)'
      PROVE  \/ At(a, c, n, r) /\ a # "in"
             \/ a = "in" /\ c = None /\ n \in Nat /\ n >= 1 /\ At("in", None, n + 1, r)
             \/ a = "log" /\ c = None /\ n = N + 1 /\ At("in", None, 1, r)
  <2>1. CASE a = "log" /\ c = None /\ InLog(n, r)'
    BY <1>5, <2>1 DEF At
  <2>2. CASE a = "up" /\ c \in Conn /\ InUp(c, n, r)'
    BY <1>1, <2>2 DEF At, InUp
  <2>3. CASE a = "in" /\ c = None /\ InHost(n, r)'
    BY <1>4, <2>3 DEF At
  <2>4. CASE a = "own" /\ c \in Client /\ InApp(c, n, r)'
    BY <1>1, <2>4 DEF At, InApp, Unsent
  <2>. QED
    BY <1>7, <2>1, <2>2, <2>3, <2>4 DEF At
<1>8. ASSUME NEW a, NEW b, NEW c, NEW d, NEW m, NEW n, At(a, c, m, r)', At(b, d, n, r)'
      PROVE  a = b /\ c = d /\ m = n
  BY <1>7, <1>8 DEF AtOne
<1>. QED
  BY <1>8 DEF AtOne

\* What a client publishes leaves its runtime for its connection.
LEMMA PublishPlace ==
  ASSUME LaneTyped, NEW r \in Record, AtOne(r), NEW u \in Client, Publish(u)
  PROVE  AtOne(r)'
<1>0. PICK k : k = app[u].conn
  OBVIOUS
<1> DEFINE o == Outbound(app[u], u) w == up[k] L == Len(w) s == app[u]
<1>1. /\ UNCHANGED <<records, toHost>> /\ up' = [up EXCEPT ![k] = w \o o] /\ s.mode = "live"
      /\ k \in Conn /\ w \in Seq(Lines) /\ up \in [Conn -> Seq(Lines)] /\ s \in Apps
  BY <1>0 DEF Publish, hostVars, bridgeVars, LaneTyped, RoomTyped, AppsTyped, Holding
<1>2. PICK f : Picks(o, f, Len(s.runtime), s, u)
  BY <1>1, OutboundPicks
<1>3. /\ o \in Seq(Lines) /\ s.runtime \in Seq(Record)
      /\ DOMAIN s.runtime = 1 .. Len(s.runtime) /\ Len(s.runtime) \in Nat
  <2>1. o \in Seq(Lines)
    BY <1>1, OutboundPicks
  <2>2. s.runtime \in Seq(Record)
    <3> HIDE DEF s
    <3>. QED
      BY <1>1 DEF Apps
  <2> DEFINE x == s.runtime
  <2>3. x \in Seq(Record)
    BY <2>2
  <2> HIDE DEF x
  <2>4. DOMAIN x = 1 .. Len(x) /\ Len(x) \in Nat
    BY <2>3
  <2>. QED
    BY <2>1, <2>2, <2>4 DEF x
<1>4. /\ L \in Nat /\ Len(o) \in Nat /\ DOMAIN w = 1 .. L /\ DOMAIN o = 1 .. Len(o)
      /\ DOMAIN (w \o o) = 1 .. L + Len(o)
      /\ \A i \in DOMAIN w : (w \o o)[i] = w[i]
      /\ \A i \in DOMAIN (w \o o) :
           i \in DOMAIN w \/ (i > L /\ i - L \in DOMAIN o /\ (w \o o)[i] = o[i - L])
  <2> HIDE DEF o, w
  <2>. QED
    BY <1>1, <1>3, JoinedPlaces
<1>5. \A c \in Conn : up'[c] = IF c = k THEN w \o o ELSE up[c]
  BY <1>1
<1>6. \A v \in Client : v # u => app'[v] = app[v]
  BY EditsApp
<1>7. \A n : ~InApp(u, n, r)'
  <2>1. app'[u].published = Len(s.runtime) /\ app'[u].runtime = s.runtime
    BY EditsApp
  <2>2. \A n \in 1 .. Len(s.runtime) : ~(n > Len(s.runtime))
    BY <1>3
  <2>. QED
    BY <1>3, <2>1, <2>2 DEF InApp, Unsent
<1> HIDE DEF o, w, L, s
<1>8. ASSUME NEW n, InUp(k, n, r)'
      PROVE  \/ InUp(k, n, r)
             \/ \E j \in 1 .. Len(o) : n = L + j /\ n > L /\ InApp(u, f[j], r)
  <2>1. n \in DOMAIN (w \o o) /\ (w \o o)[n] = RecordMsg(r)
    BY <1>1, <1>5, <1>8 DEF InUp
  <2>2. CASE n \in DOMAIN w
    BY <1>4, <2>1, <2>2 DEF InUp, w
  <2>3. CASE n > L /\ n - L \in DOMAIN o /\ (w \o o)[n] = o[n - L]
    <3> DEFINE j == n - L
    <3>1. j \in 1 .. Len(o) /\ n = L + j
      BY <1>4, <2>1, <2>3
    <3> HIDE DEF j
    <3>2. f[j] \in 1 .. Len(s.runtime) /\ Unsent(s, u, f[j]) /\ o[j] = RecordMsg(s.runtime[f[j]])
      BY <1>2, <3>1 DEF Picks
    <3>3. s.runtime[f[j]] = r
      BY <2>1, <2>3, <3>2, RecordMsgFacts DEF j
    <3>4. InApp(u, f[j], r)
      BY <1>1, <1>3, <3>2, <3>3 DEF InApp, s
    <3>. QED
      BY <2>3, <3>1, <3>4
  <2>. QED
    BY <1>4, <2>1, <2>2, <2>3
<1>9. ASSUME NEW a, NEW c, NEW n, At(a, c, n, r)'
      PROVE  \/ At(a, c, n, r) /\ ~(a = "own" /\ c = u)
             \/ a = "up" /\ c = k /\ \E j \in 1 .. Len(o) : n = L + j /\ At("own", u, f[j], r)
  <2>1. CASE a = "log" /\ c = None /\ InLog(n, r)'
    BY <1>1, <2>1 DEF At, InLog
  <2>2. CASE a = "up" /\ c \in Conn /\ InUp(c, n, r)'
    <3>1. CASE c = k
      BY <1>1, <1>8, <2>2, <3>1 DEF At
    <3>2. CASE c # k
      BY <1>5, <2>2, <3>2 DEF At, InUp
    <3>. QED
      BY <3>1, <3>2
  <2>3. CASE a = "in" /\ c = None /\ InHost(n, r)'
    BY <1>1, <2>3 DEF At, InHost
  <2>4. CASE a = "own" /\ c \in Client /\ InApp(c, n, r)'
    BY <1>6, <1>7, <2>4 DEF At, InApp, Unsent
  <2>. QED
    BY <1>9, <2>1, <2>2, <2>3, <2>4 DEF At
<1>10. ASSUME NEW a, NEW b, NEW c, NEW d, NEW m, NEW n, At(a, c, m, r)', At(b, d, n, r)'
       PROVE  a = b /\ c = d /\ m = n
  <2>1. \A i, j \in 1 .. Len(o) : f[i] = f[j] => i = j
    BY <1>2 DEF Picks
  <2>2. CASE At(a, c, m, r) /\ ~(a = "own" /\ c = u) /\ At(b, d, n, r) /\ ~(b = "own" /\ d = u)
    BY <2>2 DEF AtOne
  <2>3. ASSUME NEW i \in 1 .. Len(o), At("own", u, f[i], r)
        PROVE  /\ At(a, c, m, r) => a = "own" /\ c = u
               /\ At(b, d, n, r) => b = "own" /\ d = u
               /\ \A j \in 1 .. Len(o) : At("own", u, f[j], r) => i = j
    BY <2>1, <2>3 DEF AtOne
  <2>4. \/ At(a, c, m, r) /\ ~(a = "own" /\ c = u)
        \/ a = "up" /\ c = k /\ \E j \in 1 .. Len(o) : m = L + j /\ At("own", u, f[j], r)
    BY <1>9, <1>10
  <2>5. \/ At(b, d, n, r) /\ ~(b = "own" /\ d = u)
        \/ b = "up" /\ d = k /\ \E j \in 1 .. Len(o) : n = L + j /\ At("own", u, f[j], r)
    BY <1>9, <1>10
  <2>. QED
    BY <2>2, <2>3, <2>4, <2>5
<1>. QED
  BY <1>10 DEF AtOne

\* An edit puts its record in one place.
LEMMA EditPlace ==
  ASSUME LaneTyped, Authored, NEW r \in Record, AtOne(r), HostEdit \/ \E u \in Client : Edit(u)
  PROVE  AtOne(r)'
<1>1. ASSUME NEW w, r = Mint(w)
      PROVE  \A a, c, n : ~At(a, c, n, r)
  <2>1. minted \in Nat /\ r.action_id = minted + 1
    BY <1>1 DEF Authored, Mint
  <2>2. r.action_id \notin 1 .. minted
    BY <2>1
  <2>3. ~Around(r)
    BY <2>2 DEF Authored
  <2>. QED
    BY <2>3, AtAround
<1>2. CASE HostEdit
  <2> DEFINE h == Mint(Host) N == Len(records)
  <2>1. /\ UNCHANGED <<up, app, toHost>> /\ records' = Append(records, h) /\ records \in Seq(Record)
        /\ h \in Record
    BY <1>2 DEF HostEdit, HandleLocal, relayVars, bridgeVars, LaneTyped, TypeOK, Mint, Record, User
  <2> HIDE DEF h, N
  <2>2. ASSUME NEW n, InLog(n, r)'
        PROVE  InLog(n, r) \/ (n = N + 1 /\ r = h)
    BY <2>1, <2>2, HasAppended DEF InLog, N
  <2>3. \A a, c, n : At(a, c, n, r)' => At(a, c, n, r) \/ (a = "log" /\ c = None /\ n = N + 1 /\ r = h)
    BY <2>1, <2>2 DEF At, InUp, InHost, InApp, Unsent
  <2>4. CASE r = h
    BY <1>1, <2>3, <2>4 DEF AtOne, h
  <2>5. CASE r # h
    BY <2>3, <2>5, StaysPutOne DEF StaysPut
  <2>. QED
    BY <2>4, <2>5
<1>3. ASSUME NEW u \in Client, Edit(u)
      PROVE  AtOne(r)'
  <2> DEFINE h == Mint(u) s == app[u].runtime N == Len(s)
  <2>1. /\ UNCHANGED <<up, records, toHost>> /\ s \in Seq(Record)
        /\ app'[u].runtime = Append(s, h) /\ h \in Record /\ app'[u].mode = app[u].mode
        /\ app'[u].published = app[u].published /\ app'[u].known = app[u].known
        /\ \A v \in Client : v # u => app'[v] = app[v]
    <3>1. h \in Record
      BY <1>3 DEF Edit, Mint, Record, User
    <3>2. s \in Seq(Record)
      BY LaneReads DEF Apps
    <3>. QED
      BY <1>3, <3>1, <3>2, EditsApp DEF Edit, hostVars, relayVars, bridgeVars
  <2> HIDE DEF h, N, s
  <2>2. ASSUME NEW n, InApp(u, n, r)'
        PROVE  InApp(u, n, r) \/ (n = N + 1 /\ r = h)
    BY <2>1, <2>2, HasAppended DEF InApp, N, s, Unsent
  <2>a. ASSUME NEW v \in Client, v # u, NEW n
        PROVE  InApp(v, n, r)' => InApp(v, n, r)
    <3>1. app'[v] = app[v]
      BY <2>1, <2>a
    <3>. QED
      BY <3>1 DEF InApp, Unsent
  <2>b. \A c, n : (InUp(c, n, r)' <=> InUp(c, n, r)) /\ (InHost(n, r)' <=> InHost(n, r))
                  /\ (InLog(n, r)' <=> InLog(n, r))
    BY <2>1 DEF InUp, InHost, InLog
  <2>3. \A a, c, n : At(a, c, n, r)' => At(a, c, n, r) \/ (a = "own" /\ c = u /\ n = N + 1 /\ r = h)
    BY <2>2, <2>a, <2>b DEF At
  <2>4. CASE r = h
    BY <1>1, <2>3, <2>4 DEF AtOne, h
  <2>5. CASE r # h
    BY <2>3, <2>5, StaysPutOne DEF StaysPut
  <2>. QED
    BY <2>4, <2>5
<1>. QED
  BY <1>2, <1>3

\* Every step leaves a record in one place.
LEMMA OnePlaceStep ==
  ASSUME LaneTyped, Authored, OnePlace, RelayNext
  PROVE  OnePlace'
<1>1. ASSUME NEW r \in Record
      PROVE  AtOne(r)'
  <2>1. AtOne(r)
    BY DEF OnePlace
  <2>2. ASSUME NEW k \in Conn, RouteUp(k)
        PROVE  AtOne(r)'
    BY <2>1, <2>2, RouteUpPlace
  <2>3. ASSUME NEW u \in Client, Publish(u)
        PROVE  AtOne(r)'
    BY <2>1, <2>3, PublishPlace
  <2>4. ASSUME NEW u \in Client, \/ Dial(u) \/ ReadDown(u) \/ LinkLost(u) \/ HandshakeTimeout(u)
                                 \/ AfterEnd(u) \/ Silence(u)
        PROVE  AtOne(r)'
    BY <2>1, <2>4, AppsStayPut, StaysPutOne
  <2>5. ASSUME \/ Pump \/ SwapDocument \/ HostLeave \/ RouteDown \/ RoomCloses \/ HostLinkBreaks
               \/ \E k \in Conn : \/ Claim(k) \/ Cleanup(k) \/ PingRefused(k) \/ Break(k)
                                  \/ HalfOpenEnds(k)
        PROVE  AtOne(r)'
    BY <2>1, <2>5, OthersStayPut, StaysPutOne
  <2>6. ASSUME HostEdit \/ \E u \in Client : Edit(u)
        PROVE  AtOne(r)'
    BY <2>1, <2>6, EditPlace
  <2>7. ASSUME HostRead
        PROVE  AtOne(r)'
    BY <2>1, <2>7, HostReadPlace
  <2>. QED
    BY <2>2, <2>3, <2>4, <2>5, <2>6, <2>7 DEF RelayNext
<1>. QED
  BY <1>1 DEF OnePlace

\* So the log holds no id twice, and a record that is on its way is not in it.
LEMMA PlacesApart ==
  ASSUME LaneTyped, Authored, OnePlace
  PROVE  /\ NoDuplicateIds(records)
         /\ \A r \in Record : \A k : Has(toHost, LineMsg(k, RecordMsg(r))) =>
              ~HasId(records, r.action_id)
<1>1. records \in Seq(Record)
  BY DEF LaneTyped, TypeOK
<1>2. \A i \in DOMAIN records : records[i] \in Record /\ Around(records[i])
                                /\ At("log", None, i, records[i])
  BY <1>1 DEF Around, Has, At, InLog
<1>3. NoDuplicateIds(records)
  <2>1. ASSUME NEW i \in DOMAIN records, NEW j \in DOMAIN records,
               records[i].action_id = records[j].action_id
        PROVE  i = j
    <3>1. records[i] = records[j] /\ AtOne(records[i])
      BY <1>2, <2>1 DEF Authored, OnePlace
    <3>2. At("log", None, i, records[i]) /\ At("log", None, j, records[i])
      BY <1>2, <3>1
    <3>. QED
      BY <3>1, <3>2 DEF AtOne
  <2>. QED
    BY <2>1 DEF NoDuplicateIds
<1>4. ASSUME NEW r \in Record, NEW k, Has(toHost, LineMsg(k, RecordMsg(r))), HasId(records, r.action_id)
      PROVE  FALSE
  <2>1. PICK n \in DOMAIN toHost : toHost[n] = LineMsg(k, RecordMsg(r))
    BY <1>4 DEF Has
  <2>2. PICK i \in DOMAIN records : records[i].action_id = r.action_id
    BY <1>4 DEF HasId
  <2>3. At("in", None, n, r)
    BY <2>1 DEF At, InHost, LineMsg
  <2>4. records[i] = r
    BY <1>2, <2>2, <2>3, AtAround DEF Authored
  <2>5. At("log", None, i, r)
    BY <1>2, <2>4
  <2>. QED
    BY <2>3, <2>5 DEF AtOne, OnePlace
<1>. QED
  BY <1>3, <1>4

-----------------------------------------------------------------------------
(* The way up of a connection.                                             *)

\* The line x of connection c is under way.
Under(c, x) == Has(up[c], x) \/ Has(toHost, LineMsg(c, x))

\* A connection whose lines did not move.
WayUpSame(c) == Pipe(c)' = Pipe(c) /\ (Pending(c)' <=> Pending(c))
WayUpFewer(c) == Pipe(c)' \subseteq Pipe(c) /\ (Pending(c)' => Pending(c))

\* The records and the Hello of a connection are lines under way.
LEMMA WayUpIs ==
  ASSUME NEW c
  PROVE  /\ (\A x \in Lines : Under(c, x)' => Under(c, x)) => WayUpFewer(c)
         /\ (\A x \in Lines : Under(c, x)' <=> Under(c, x)) => WayUpSame(c)
         /\ WayUpSame(c) => WayUpFewer(c)
         /\ up'[c] = up[c] /\ toHost' = toHost => WayUpSame(c)
         /\ \A r \in Record : r \in Pipe(c) <=> Under(c, RecordMsg(r))
<1>1. HelloMsg \in Lines /\ \A r \in Record : RecordMsg(r) \in Lines
  BY DEF Lines, RecordMsg
<1>. QED
  BY <1>1 DEF Under, WayUpSame, WayUpFewer, Pipe, Pending

\* A line is routed on.
LEMMA RouteUpWay ==
  ASSUME LaneTyped, NEW k \in Conn, RouteUp(k), NEW c \in Conn
  PROVE  WayUpFewer(c) /\ (room \/ c # k => WayUpSame(c))
<1> DEFINE q == up[k] m == Head(q) l == LineMsg(k, m)
<1>1. /\ q # <<>> /\ q \in Seq(Lines) /\ toHost \in Seq(Notices) /\ up \in [Conn -> Seq(Lines)]
  BY DEF RouteUp, LaneTyped, RoomTyped, BridgeTyped
<1>2. m \in Lines /\ l \in Notices
  BY <1>1, QueueParts, MessagesTyped
<1>3. \A y : Has(q, y) <=> y = m \/ Has(Tail(q), y)
  BY <1>1, HasParts
<1> HIDE DEF q, m, l
<1>4. \A y : Has(Append(toHost, l), y) <=> Has(toHost, y) \/ y = l
  BY <1>1, <1>2, HasParts
<1>5. \A x : LineMsg(c, x) = l <=> c = k /\ x = m
  BY DEF l, LineMsg
<1>6. CASE room
  <2>1. toHost' = Append(toHost, l) /\ up' = [up EXCEPT ![k] = Tail(@)]
    BY <1>6 DEF RouteUp, l, m, q
  <2>2. \A x \in Lines : Under(c, x)' <=> Under(c, x)
    <3>1. CASE c = k
      BY <1>1, <1>3, <1>4, <1>5, <2>1, <3>1 DEF Under, q
    <3>2. CASE c # k
      BY <1>1, <1>4, <1>5, <2>1, <3>2 DEF Under
    <3>. QED
      BY <3>1, <3>2
  <2>. QED
    BY <2>2, WayUpIs
<1>7. CASE ~room
  <2>1. toHost' = toHost /\ up' = [up EXCEPT ![k] = <<>>]
    BY <1>7 DEF RouteUp
  <2>2. c # k => up'[c] = up[c]
    BY <1>1, <2>1
  <2>3. \A x \in Lines : Under(c, x)' => Under(c, x)
    BY <1>1, <2>1, HasNone DEF Under
  <2>. QED
    BY <1>7, <2>1, <2>2, <2>3, WayUpIs
<1>. QED
  BY <1>6, <1>7

\* A notice is queued behind the lines.
LEMMA CleanupWay ==
  ASSUME LaneTyped, NEW k \in Conn, Cleanup(k), NEW c \in Conn
  PROVE  WayUpSame(c)
<1>1. toHost \in Seq(Notices) /\ LeftMsg(k) \in Notices /\ up' = up
      /\ (toHost' = toHost \/ toHost' = Append(toHost, LeftMsg(k)))
  BY MessagesTyped DEF Cleanup, LaneTyped, BridgeTyped
<1>2. \A y : Has(Append(toHost, LeftMsg(k)), y) <=> Has(toHost, y) \/ y = LeftMsg(k)
  BY <1>1, HasParts
<1>3. \A x : LineMsg(c, x) # LeftMsg(k)
  BY DEF LineMsg, LeftMsg
<1>4. \A x \in Lines : Under(c, x)' <=> Under(c, x)
  BY <1>1, <1>2, <1>3 DEF Under
<1>. QED
  BY <1>4, WayUpIs

\* An entry is read.
LEMMA HostReadWay ==
  ASSUME LaneTyped, HostRead, NEW c \in Conn
  PROVE  /\ WayUpFewer(c)
         /\ (\A x \in Lines : Head(toHost) # LineMsg(c, x)) => WayUpSame(c)
         /\ \A r \in Pipe(c) : r \in Pipe(c)' \/ Head(toHost) = LineMsg(c, RecordMsg(r))
<1>1. toHost \in Seq(Notices) /\ toHost # <<>> /\ toHost' = Tail(toHost) /\ up' = up
  BY DEF HostRead, relayVars, LaneTyped, BridgeTyped
<1>2. \A y : Has(toHost, y) <=> y = Head(toHost) \/ Has(Tail(toHost), y)
  BY <1>1, HasParts
<1>3. \A x : Under(c, x) <=> Under(c, x)' \/ Head(toHost) = LineMsg(c, x)
  BY <1>1, <1>2 DEF Under
<1>. QED
  BY <1>3, WayUpIs DEF Under, Pipe

\* A connection that breaks, or whose claim is denied.
LEMMA BreakWay ==
  ASSUME LaneTyped, NEW k \in Conn, Break(k) \/ Claim(k), NEW c \in Conn
  PROVE  WayUpFewer(c) /\ (c # k => WayUpSame(c)) /\ (up' = up => WayUpSame(c))
<1>1. up \in [Conn -> Seq(Lines)] /\ toHost' = toHost
  BY DEF Break, Claim, bridgeVars, LaneTyped, RoomTyped
<1>2. \/ up' = up \/ up' = [up EXCEPT ![k] = <<>>]
      \/ \E n \in 0 .. Len(up[k]) : up' = [up EXCEPT ![k] = SubSeq(@, 1, n)]
  BY DEF Break, Claim
<1>3. c # k => up'[c] = up[c]
  BY <1>1, <1>2
<1>4. \A x : Has(up'[c], x) => Has(up[c], x)
  <2>1. up'[c] = up[c] \/ up'[c] = <<>> \/ \E n \in 0 .. Len(up[c]) : up'[c] = SubSeq(up[c], 1, n)
    BY <1>1, <1>2
  <2>2. up[c] \in Seq(Lines)
    BY <1>1
  <2>3. \A n \in 0 .. Len(up[c]) : \A x : Has(SubSeq(up[c], 1, n), x) => Has(up[c], x)
    BY <2>2, HasParts
  <2>. QED
    BY <2>1, <2>3, HasNone
<1>5. \A x \in Lines : Under(c, x)' => Under(c, x)
  BY <1>1, <1>4 DEF Under
<1>. QED
  BY <1>1, <1>3, <1>5, WayUpIs

\* A slot that is taken anew.
LEMMA DialWay ==
  ASSUME LaneTyped, NEW u \in Client, Dial(u), NEW c \in Conn, app'[u].conn # c
  PROVE  WayUpSame(c)
<1>1. up \in [Conn -> Seq(Lines)] /\ toHost' = toHost /\ app \in [Client -> Apps] /\ app[u] \in Apps
  BY DEF Dial, bridgeVars, LaneTyped, RoomTyped, AppsTyped
<1>2. PICK k \in Conn : /\ up' = [up EXCEPT ![k] = <<HelloMsg>>]
                        /\ app' = [app EXCEPT ![u].conn = k,
                                     ![u].mode = IF @ = "solo" THEN "joining" ELSE "rejoining"]
  BY DEF Dial
<1>3. app'[u].conn = k
  BY <1>1, <1>2 DEF Apps
<1>. QED
  BY <1>1, <1>2, <1>3, WayUpIs

\* What a client publishes joins what is under way.
LEMMA PublishWay ==
  ASSUME LaneTyped, NEW u \in Client, Publish(u), NEW c \in Conn
  PROVE  /\ c # app[u].conn => WayUpSame(c)
         /\ Pending(c)' => Pending(c)
         /\ \A r \in Record : r \in Pipe(c)' <=>
              \/ r \in Pipe(c)
              \/ c = app[u].conn /\ \E n \in DOMAIN app[u].runtime :
                                       Unsent(app[u], u, n) /\ r = app[u].runtime[n]
<1>0. PICK k : k = app[u].conn
  OBVIOUS
<1> DEFINE o == Outbound(app[u], u)
<1>1. /\ toHost' = toHost /\ up' = [up EXCEPT ![k] = @ \o o]
      /\ k \in Conn /\ up \in [Conn -> Seq(Lines)] /\ up[k] \in Seq(Lines)
      /\ o \in Seq(Lines) /\ app[u] \in Apps
  <2>1. app[u] \in Apps /\ k \in Conn
    BY <1>0 DEF Publish, LaneTyped, AppsTyped, Holding
  <2>. QED
    BY <1>0, <2>1, OutboundPicks DEF Publish, bridgeVars, LaneTyped, RoomTyped
<1>2. \A x : Has(o, x) <=> \E n \in DOMAIN app[u].runtime :
                               Unsent(app[u], u, n) /\ x = RecordMsg(app[u].runtime[n])
  BY <1>1, OutboundHas
<1> HIDE DEF o
<1>3. \A x : Has(up[k] \o o, x) <=> Has(up[k], x) \/ Has(o, x)
  BY <1>1, HasParts
<1>4. CASE c # k
  <2>1. up'[c] = up[c]
    BY <1>1, <1>4
  <2>. QED
    BY <1>0, <1>1, <1>4, <2>1, WayUpIs DEF WayUpSame
<1>5. CASE c = k
  <2>1. \A x : Under(c, x)' <=> Under(c, x) \/ Has(o, x)
    BY <1>1, <1>3, <1>5 DEF Under
  <2>2. ~Has(o, HelloMsg)
    BY <1>2 DEF HelloMsg, RecordMsg
  <2>3. \A r : Has(o, RecordMsg(r)) <=> \E n \in DOMAIN app[u].runtime :
                               Unsent(app[u], u, n) /\ r = app[u].runtime[n]
    BY <1>2, RecordMsgFacts
  <2>4. Pending(c)' => Pending(c)
    BY <2>1, <2>2 DEF Pending, Under
  <2>5. \A r \in Record : r \in Pipe(c)' <=> Under(c, RecordMsg(r))'
    BY DEF Pipe, Under
  <2>. QED
    BY <1>0, <1>5, <2>1, <2>3, <2>4, <2>5, WayUpIs
<1>. QED
  BY <1>4, <1>5

-----------------------------------------------------------------------------
(* The records under way on a connection are those of its user.            *)

Signed == \A k \in Conn : \A r \in Pipe(k) : r.user_id = who[k]

\* Only a slot that is taken anew changes its user, and what is published is
\* the client's own.
LEMMA SignedStep ==
  ASSUME LaneTyped, Held, Signed, RelayNext
  PROVE  Signed'
<1>1. ASSUME \A k \in Conn : WayUpFewer(k), who' = who
      PROVE  Signed'
  BY <1>1 DEF Signed, WayUpFewer
<1>2. ASSUME UNCHANGED <<up, toHost, who>>
      PROVE  Signed'
  BY <1>1, <1>2, WayUpIs
<1>3. ASSUME NEW k \in Conn, RouteUp(k) \/ Cleanup(k) \/ Break(k) \/ Claim(k)
      PROVE  Signed'
  <2>1. who' = who
    BY <1>3 DEF RouteUp, Cleanup, Break, Claim
  <2>. QED
    BY <1>1, <1>3, <2>1, RouteUpWay, CleanupWay, BreakWay, WayUpIs
<1>4. ASSUME HostRead
      PROVE  Signed'
  BY <1>1, <1>4, HostReadWay DEF HostRead, relayVars
<1>5. ASSUME NEW u \in Client, Dial(u)
      PROVE  Signed'
  <2>0. who \in [Conn -> Client \cup {None}] /\ up \in [Conn -> Seq(Lines)] /\ app[u] \in Apps
        /\ app \in [Client -> Apps]
    BY DEF LaneTyped, RoomTyped, AppsTyped
  <2>1. PICK k \in Conn : /\ who' = [who EXCEPT ![k] = u] /\ up' = [up EXCEPT ![k] = <<HelloMsg>>]
                          /\ app' = [app EXCEPT ![u].conn = k,
                                       ![u].mode = IF @ = "solo" THEN "joining" ELSE "rejoining"]
                          /\ \A i \in DOMAIN toHost : toHost[i].conn # k
                          /\ toHost' = toHost
    BY <1>5 DEF Dial, bridgeVars
  <2>2. app'[u].conn = k
    BY <2>0, <2>1 DEF Apps
  <2>3. \A r \in Record : ~Under(k, RecordMsg(r))'
    BY <2>0, <2>1 DEF Under, Has, LineMsg, RecordMsg, HelloMsg
  <2>4. Pipe(k)' = {}
    BY <2>3 DEF Pipe, Under
  <2>5. ASSUME NEW c \in Conn, c # k
        PROVE  Pipe(c)' = Pipe(c) /\ who'[c] = who[c]
    BY <1>5, <2>0, <2>1, <2>2, <2>5, DialWay DEF WayUpSame
  <2>. QED
    BY <2>4, <2>5 DEF Signed
<1>6. ASSUME NEW u \in Client, Publish(u)
      PROVE  Signed'
  <2>1. who' = who /\ app[u].conn \in Conn /\ who[app[u].conn] = u
    BY <1>6 DEF Publish, Held, Holding, LaneTyped, AppsTyped
  <2>2. ASSUME NEW c \in Conn, NEW r, r \in Pipe(c)'
        PROVE  r.user_id = who[c]
    <3>1. r \in Record
      BY <2>2 DEF Pipe
    <3>. QED
      BY <1>6, <2>1, <2>2, <3>1, PublishWay DEF Signed, Unsent
  <2>. QED
    BY <2>1, <2>2 DEF Signed
<1>. QED
  <2>1. \/ RouteDown \/ RoomCloses \/ Pump \/ HostEdit \/ SwapDocument \/ HostLeave \/ HostLinkBreaks
        \/ \E k \in Conn : PingRefused(k) \/ HalfOpenEnds(k)
        \/ \E u \in Client : ReadDown(u) \/ LinkLost(u) \/ HandshakeTimeout(u) \/ Edit(u)
                               \/ AfterEnd(u) \/ Silence(u)
        => UNCHANGED <<up, toHost, who>>
    BY DEF RouteDown, RoomCloses, Pump, HostEdit, SwapDocument, HostLeave, HostLinkBreaks, PingRefused,
           HalfOpenEnds, ReadDown, LinkLost, HandshakeTimeout, Edit, AfterEnd, Silence,
           relayVars, bridgeVars
  <2>. QED
    BY <1>2, <1>3, <1>4, <1>5, <1>6, <2>1 DEF RelayNext

-----------------------------------------------------------------------------
(* The queues of the core.                                                 *)

\* A Welcome is drained by the step that queues it.
Taken(u) == \A i \in DOMAIN sent[u] : sent[u][i].type = "welcome" => i <= taken[u]
Welcomes == bridge => \A u \in Client : Taken(u)

\* Nothing is queued to a user that is no client.
NoQueue == \A u \in Client : u \notin clients => sent[u] = <<>>

\* A step of the core, drained for the users or not at all.
Turn(fresh, users) ==
  \/ Drain(fresh, users) /\ IsFiniteSet(users)
  \/ UNCHANGED <<fromHost, taken>> /\ fresh = {} /\ users = {}

\* A queue that is drained, or empty, or that grew by no Welcome.
LEMMA TakenStays ==
  ASSUME LaneTyped, TypeOK', NEW v \in Client, Taken(v),
         NEW fresh \in SUBSET Client, NEW users \in SUBSET Client, Turn(fresh, users),
         \/ v \in users
         \/ sent'[v] = <<>>
         \/ v \notin fresh /\ \E t \in Seq(HostMessage) :
              sent'[v] = sent[v] \o t /\ \A i \in DOMAIN t : t[i].type # "welcome"
  PROVE  Taken(v)'
<1>1. taken'[v] = IF v \in users THEN Len(sent'[v]) ELSE Begun(fresh)[v]
  BY StockAfter DEF Turn
<1>2. sent'[v] \in Seq(HostMessage) /\ sent[v] \in Seq(HostMessage)
  BY LaneReads DEF TypeOK
<1>3. CASE v \in users
  <2>1. \A i \in DOMAIN sent'[v] : i <= Len(sent'[v])
    BY <1>2
  <2>. QED
    BY <1>1, <1>3, <2>1 DEF Taken
<1>4. CASE sent'[v] = <<>>
  BY <1>4 DEF Taken
<1>5. ASSUME v \notin users, v \notin fresh, NEW t \in Seq(HostMessage),
             sent'[v] = sent[v] \o t, \A i \in DOMAIN t : t[i].type # "welcome"
      PROVE  Taken(v)'
  <2> DEFINE s == sent[v]
  <2>1. taken'[v] = taken[v]
    BY <1>1, <1>5 DEF Begun
  <2>2. s \in Seq(HostMessage)
    BY <1>2
  <2> HIDE DEF s
  <2>3. \A i \in DOMAIN (s \o t) :
          (i \in DOMAIN s /\ (s \o t)[i] = s[i]) \/ (i - Len(s) \in DOMAIN t /\ (s \o t)[i] = t[i - Len(s)])
    BY <1>5, <2>2, JoinedPlaces
  <2>. QED
    BY <1>5, <2>1, <2>3 DEF Taken, s
<1>. QED
  BY <1>3, <1>4, <1>5

\* Every step keeps the queues.
LEMMA QueuesStep ==
  ASSUME LaneTyped, LaneTyped', QueueInv, Welcomes, NoQueue, RelayNext
  PROVE  Welcomes' /\ NoQueue'
<1>0. TypeOK /\ TypeOK' /\ BridgeTyped /\ clients \subseteq Client /\ {} \in SUBSET Client
  BY ClientsFacts DEF LaneTyped
<1>1. ASSUME UNCHANGED <<sent, taken, roster>>, bridge' => bridge
      PROVE  Welcomes' /\ NoQueue'
  BY <1>1 DEF Welcomes, NoQueue, Taken, clients
<1>2. ASSUME \A v \in Client : sent'[v] = <<>>
      PROVE  Welcomes' /\ NoQueue'
  BY <1>2 DEF Welcomes, NoQueue, Taken
<1>3. ASSUME NEW t, NEW v \in Client, Gossip(v, t)
      PROVE  /\ t \in Seq(HostMessage) /\ sent'[v] = sent[v] \o t
             /\ \A i \in DOMAIN t : t[i].type # "welcome"
             /\ v \notin clients => sent'[v] = <<>>
  BY <1>3 DEF Gossip, NoQueue
<1>4. ASSUME NEW S \in SUBSET Client, DropClients(S), NEW users \in SUBSET Client, Turn(S, users), bridge' => bridge
      PROVE  Welcomes' /\ NoQueue'
  <2>1. clients' = clients \ S
    BY <1>0, <1>4, ClientsAfter
  <2>2. \A v \in Client : IF v \in S THEN sent'[v] = <<>> ELSE \E t : Gossip(v, t)
    BY <1>0, <1>4, CoreSends
  <2>3. \A v \in Client : bridge' => Taken(v)'
    BY <1>0, <1>3, <1>4, <2>2, TakenStays DEF Welcomes
  <2>4. NoQueue'
    BY <1>3, <2>1, <2>2 DEF NoQueue
  <2>. QED
    BY <2>3, <2>4 DEF Welcomes
<1>5. ASSUME HostRead
      PROVE  Welcomes' /\ NoQueue'
  <2> DEFINE f == Head(toHost) k == f.conn u == who[k] m == f.msg
  <2>1. /\ bridge /\ toHost # <<>> /\ toHost' = Tail(toHost)
        /\ UNCHANGED <<room, members, thread, who, bridge>>
        /\ IF f.type = "left" THEN LeaveBridge(u) ELSE HandleLine(k, u, m)
    BY <1>5 DEF HostRead, relayVars
  <2>2. Heads(f, k, u)
    BY <2>1 DEF Heads
  <2>3. k \in Conn /\ u \in Client /\ f \in Notices /\ {u} \in SUBSET Client
    BY <2>2, HeadsParts DEF LaneTyped, BridgeTyped
  <2> HIDE DEF f, k, u, m
  <2>4. CASE LeaveBridge(u)
    <3> DEFINE S == {u}
    <3>1. S \in SUBSET Client /\ DropClients(S) /\ relay_users' \in SUBSET Client /\ Turn(S, relay_users')
      BY <1>0, <2>3, <2>4, UsersFinite DEF LeaveBridge, Turn
    <3> HIDE DEF S
    <3>. QED
      BY <1>4, <2>1, <3>1
  <2>5. CASE f.type # "left" /\ HandleLine(k, u, m)
    <3>1. relay_users' = relay_users \cup {u} /\ relay_users' \in SUBSET Client
          /\ IsFiniteSet(relay_users') /\ u \in relay_users'
      BY <1>0, <2>3, <2>5, UsersFinite DEF HandleLine
    <3>2. CASE (\E n \in Name : HandleHello(u, n)) /\ Drain({u}, relay_users')
      <4>1. clients' = clients \cup {u}
        BY <1>0, <2>3, <3>2, ClientsAfter
      <4>2. \A v \in Client : v # u => \E t : Gossip(v, t)
        BY <1>0, <2>3, <3>2, CoreSends
      <4> DEFINE S == {u}
      <4>3. S \in SUBSET Client /\ Turn(S, relay_users') /\ u \in S /\ \A v : v # u => v \notin S
        BY <2>3, <3>1, <3>2 DEF Turn
      <4> HIDE DEF S
      <4>4. \A v \in Client : Taken(v)'
        <5>1. ASSUME NEW v \in Client, v # u
              PROVE  Taken(v)'
          BY <1>0, <1>3, <2>1, <3>1, <4>2, <4>3, <5>1, TakenStays DEF Welcomes
        <5>2. ASSUME NEW v \in Client, v = u
              PROVE  Taken(v)'
          BY <1>0, <2>1, <3>1, <4>3, <5>2, TakenStays DEF Welcomes
        <5>. QED
          BY <5>1, <5>2
      <4>5. NoQueue'
        BY <1>3, <4>1, <4>2 DEF NoQueue
      <4>. QED
        BY <4>4, <4>5 DEF Welcomes
    <3>3. CASE m.type = "record" /\ HandleAction(u, m.record) /\ Drain({}, relay_users')
      <4> DEFINE q == m.record
      <4>1. q \in Record
        <5>1. m \in Lines
          BY <2>3, <2>5 DEF Notices, m
        <5>. QED
          BY <3>3, <5>1, MessagesTyped
      <4>2. HandleAction(u, q) /\ Turn({}, relay_users') /\ clients' = clients
        BY <1>0, <3>1, <3>3, ClientsAfter DEF Turn, HandleAction
      <4> HIDE DEF q
      <4>3. ASSUME NEW v \in Client
            PROVE  Taken(v)' /\ (v \notin clients => sent'[v] = <<>>)
        <5> DEFINE t == IF v \in clients \ {u} THEN <<RecordMsg(q)>> ELSE <<>>
        <5>1. sent'[v] = sent[v] \o t
          BY <1>0, <2>3, <4>1, <4>2, CoreSends
        <5>2. t \in Seq(HostMessage) /\ \A i \in DOMAIN t : t[i].type # "welcome"
          BY <4>1, MessageTyping, EmptySeq DEF RecordMsg
        <5>3. v \notin clients => t = <<>> /\ sent[v] = <<>>
          BY DEF NoQueue
        <5> HIDE DEF t
        <5>4. Taken(v)'
          BY <1>0, <2>1, <3>1, <4>2, <5>1, <5>2, TakenStays DEF Welcomes
        <5>. QED
          BY <5>1, <5>3, <5>4
      <4>. QED
        BY <4>2, <4>3 DEF Welcomes, NoQueue
    <3>4. CASE UNCHANGED <<hostVars, taken>>
      BY <1>1, <2>1, <3>4 DEF hostVars
    <3>. QED
      BY <2>5, <3>2, <3>3, <3>4 DEF HandleLine
  <2>. QED
    BY <2>1, <2>4, <2>5
<1>6. ASSUME Pump
      PROVE  Welcomes' /\ NoQueue'
  <2>1. relay_users \in SUBSET Client /\ IsFiniteSet(relay_users) /\ bridge' = bridge
        /\ StaleClients \in SUBSET Client
    BY <1>0, <1>6 DEF BridgeTyped, Pump, StaleClients
  <2>2. CASE DropClients(StaleClients) /\ Drain(StaleClients, relay_users)
    BY <1>4, <2>1, <2>2 DEF Turn
  <2>3. CASE UNCHANGED hostVars /\ Drain({}, relay_users)
    <3>1. \A v \in Client : sent'[v] = sent[v] /\ Gossip(v, <<>>)
      BY <1>0, <2>3, CoreSends DEF hostVars
    <3>2. Turn({}, relay_users) /\ bridge
      BY <1>6, <2>1, <2>3 DEF Turn, Pump
    <3>3. \A v \in Client : Taken(v)'
      BY <1>0, <1>3, <2>1, <3>1, <3>2, TakenStays DEF Welcomes
    <3>. QED
      BY <2>3, <3>1, <3>3 DEF Welcomes, NoQueue, clients, hostVars
  <2>. QED
    BY <1>6, <2>2, <2>3 DEF Pump
<1>7. ASSUME HostEdit
      PROVE  Welcomes' /\ NoQueue'
  <2> DEFINE q == Mint(Host)
  <2>1. /\ HandleLocal(q) /\ q \in Record /\ bridge' = bridge /\ Turn({}, {})
    BY <1>7 DEF HostEdit, bridgeVars, Mint, Record, User, Turn
  <2> HIDE DEF q
  <2>2. clients' = clients
    BY <1>0, <2>1, ClientsAfter DEF HandleLocal
  <2>3. ASSUME NEW v \in Client
        PROVE  (bridge' => Taken(v)') /\ (v \notin clients => sent'[v] = <<>>)
    <3> DEFINE t == IF v \in clients THEN <<RecordMsg(q)>> ELSE <<>>
    <3>1. sent'[v] = sent[v] \o t
      BY <1>0, <2>1, CoreSends
    <3>2. t \in Seq(HostMessage) /\ \A i \in DOMAIN t : t[i].type # "welcome"
      BY <2>1, MessageTyping, EmptySeq DEF RecordMsg
    <3>3. v \notin clients => t = <<>> /\ sent[v] = <<>>
      BY DEF NoQueue
    <3> HIDE DEF t
    <3>4. bridge' => Taken(v)'
      BY <1>0, <2>1, <3>1, <3>2, TakenStays DEF Welcomes
    <3>. QED
      BY <3>1, <3>3, <3>4
  <2>. QED
    BY <2>2, <2>3 DEF Welcomes, NoQueue
<1>8. ASSUME HostLeave
      PROVE  Welcomes' /\ NoQueue'
  <2>1. bridge' = FALSE /\ clients' = clients
    BY <1>0, <1>8, ClientsAfter DEF HostLeave
  <2>2. \A v \in Client : sent'[v] = IF v \in clients THEN Append(sent[v], EndedMsg) ELSE sent[v]
    BY <1>0, <1>8, BroadcastShape, MessageTyping DEF HostLeave
  <2>. QED
    BY <2>1, <2>2 DEF Welcomes, NoQueue
<1>. QED
  <2>1. SwapDocument => \A v \in Client : sent'[v] = <<>>
    BY DEF SwapDocument, Reseed
  <2> DEFINE Same == UNCHANGED <<sent, taken, roster>> /\ (bridge' => bridge)
  <2>2. RouteDown \/ RoomCloses \/ HostLinkBreaks => Same
    BY DEF RouteDown, RoomCloses, HostLinkBreaks, hostVars, bridgeVars
  <2>3. \A k \in Conn : Claim(k) \/ RouteUp(k) \/ Cleanup(k) => Same
    BY DEF Claim, RouteUp, Cleanup, hostVars, bridgeVars
  <2>4. \A k \in Conn : PingRefused(k) \/ Break(k) \/ HalfOpenEnds(k) => Same
    BY DEF PingRefused, Break, HalfOpenEnds, hostVars, bridgeVars
  <2>5. \A u \in Client : Dial(u) \/ ReadDown(u) \/ LinkLost(u) \/ HandshakeTimeout(u) => Same
    BY DEF Dial, ReadDown, LinkLost, HandshakeTimeout, hostVars, bridgeVars
  <2>6. \A u \in Client : Edit(u) \/ Publish(u) \/ AfterEnd(u) \/ Silence(u) => Same
    <3>1. \A u \in Client : Edit(u) => Same
      BY DEF Edit, hostVars, bridgeVars
    <3>2. \A u \in Client : Publish(u) => Same
      BY DEF Publish, hostVars, bridgeVars
    <3>3. \A u \in Client : AfterEnd(u) => Same
      BY DEF AfterEnd, hostVars, bridgeVars
    <3>4. \A u \in Client : Silence(u) => Same
      BY DEF Silence, Age, bridgeVars
    <3>. QED
      BY <3>1, <3>2, <3>3, <3>4
  <2> HIDE DEF Same
  <2>7. Same => Welcomes' /\ NoQueue'
    BY <1>1 DEF Same
  <2>. QED
    BY <1>2, <1>5, <1>6, <1>7, <1>8, <2>1, <2>2, <2>3, <2>4, <2>5, <2>6, <2>7 DEF RelayNext

\* What a client reads first, and what is left.
LEMMA InboxHead ==
  ASSUME LaneTyped, NEW u \in Client, app[u].mode \in Holding, NEW q, q = down[app[u].conn], q # <<>>
  PROVE  /\ Head(q) \in Answers /\ Tail(q) \o Way(u) \in Seq(Answers)
         /\ Tail(q) \in Seq(Answers) /\ <<Head(q)>> \in Seq(Answers)
         /\ Inbox(u) = <<Head(q)>> \o (Tail(q) \o Way(u))
<1> DEFINE w == Way(u)
<1>1. q \in Seq(Answers) /\ w \in Seq(Answers)
  BY LaneReads
<1>2. Inbox(u) = q \o w
  BY DEF Inbox
<1> HIDE DEF w
<1>3. Head(q) \in Answers /\ Tail(q) \in Seq(Answers) /\ <<Head(q)>> \in Seq(Answers) /\ q = <<Head(q)>> \o Tail(q)
  BY <1>1, HeadTailProperties
<1> DEFINE h == <<Head(q)>> t == Tail(q)
<1>4. h \in Seq(Answers) /\ t \in Seq(Answers) /\ q = h \o t
  BY <1>3
<1> HIDE DEF h, t
<1>5. (h \o t) \o w = h \o (t \o w) /\ t \o w \in Seq(Answers)
  <2>1. InRow(Answers, h, t, w)
    BY <1>1, <1>4, InARow
  <2>. QED
    BY <2>1 DEF InRow
<1>6. Inbox(u) = h \o (t \o w)
  BY <1>2, <1>4, <1>5, Zenon
<1>. QED
  BY <1>3, <1>4, <1>5, <1>6, Zenon DEF h, t, w

-----------------------------------------------------------------------------
(* The runtimes.                                                           *)

\* A runtime holds no record twice, and what was published is part of it.
Single(s) == NoDuplicateIds(s.runtime) /\ s.published <= Len(s.runtime)
RunLaw == \A u \in Client : Single(app[u])

\* One record more, with an id that is new.
LEMMA SingleGrows ==
  ASSUME NEW s \in Apps, Single(s), NEW r \in Record, ~HasId(s.runtime, r.action_id),
         NEW t, t.runtime = Append(s.runtime, r), t.published = s.published
  PROVE  Single(t)
<1> DEFINE w == s.runtime
<1>1. w \in Seq(Record) /\ s.published \in Nat
  BY DEF Apps
<1>0. NoDuplicateIds(w) /\ s.published <= Len(w) /\ ~HasId(w, r.action_id)
      /\ t.runtime = Append(w, r)
  BY DEF Single
<1> HIDE DEF w
<1>2. /\ \A n \in DOMAIN w : Append(w, r)[n] = w[n]
      /\ Append(w, r)[Len(w) + 1] = r
      /\ \A n \in DOMAIN Append(w, r) : n \in DOMAIN w \/ n = Len(w) + 1
  BY <1>1, HasAppended
<1>3. NoDuplicateIds(Append(w, r))
  BY <1>0, <1>2 DEF NoDuplicateIds, HasId
<1>4. Len(Append(w, r)) = Len(w) + 1 /\ Len(w) \in Nat
  BY <1>1
<1>5. s.published <= Len(w) + 1
  BY <1>0, <1>1, <1>4
<1>. QED
  BY <1>0, <1>3, <1>4, <1>5 DEF Single

\* None, or as it was.
LEMMA SingleStays ==
  ASSUME NEW s, NEW t, Single(s),
         \/ t.runtime = s.runtime /\ t.published = s.published
         \/ t.runtime = <<>> /\ t.published = 0
  PROVE  Single(t)
<1>1. NoDuplicateIds(<<>>) /\ 0 <= Len(<<>>)
  BY DEF NoDuplicateIds
<1>. QED
  BY <1>1 DEF Single

\* Every step keeps the runtimes.
LEMMA RunStep ==
  ASSUME LaneTyped, Authored, \A u \in Client : ReadLaw(u), RunLaw, RelayNext
  PROVE  RunLaw'
<1>0. app \in [Client -> Apps]
  BY DEF LaneTyped, AppsTyped
<1>1. ASSUME app' = app
      PROVE  RunLaw'
  BY <1>1 DEF RunLaw, Single
<1>2. ASSUME NEW u \in Client, \A v \in Client : v # u => app'[v] = app[v], Single(app'[u])
      PROVE  RunLaw'
  BY <1>2 DEF RunLaw, Single
<1>3. ASSUME NEW u, app' = Lose(u)
      PROVE  RunLaw'
  <2>1. app' = [app EXCEPT ![u] = [app[u] EXCEPT !.mode = Failed(app[u].mode), !.conn = None]]
    BY <1>3 DEF Lose
  <2>2. CASE u \in Client
    <3>1. /\ \A v \in Client : v # u => app'[v] = app[v]
          /\ app'[u].runtime = app[u].runtime /\ app'[u].published = app[u].published
      BY <1>0, <2>1, <2>2 DEF Apps
    <3>. QED
      BY <1>2, <2>2, <3>1, SingleStays DEF RunLaw
  <2>3. CASE u \notin Client
    BY <1>0, <1>1, <2>1, <2>3
  <2>. QED
    BY <2>2, <2>3
<1>4. ASSUME NEW u \in Client, Dial(u)
      PROVE  RunLaw'
  <2>1. PICK k \in Conn : app' = [app EXCEPT ![u].conn = k,
                                  ![u].mode = IF @ = "solo" THEN "joining" ELSE "rejoining"]
    BY <1>4 DEF Dial
  <2>2. /\ \A v \in Client : v # u => app'[v] = app[v]
        /\ app'[u].runtime = app[u].runtime /\ app'[u].published = app[u].published
    BY <1>0, <2>1 DEF Apps
  <2>. QED
    BY <1>2, <2>2, SingleStays DEF RunLaw
<1>5. ASSUME NEW u \in Client, AfterEnd(u)
      PROVE  RunLaw'
  <2>1. /\ \A v \in Client : v # u => app'[v] = app[v]
        /\ app'[u].runtime = <<>> /\ app'[u].published = 0
    BY <1>0, <1>5 DEF AfterEnd, Solo
  <2>. QED
    BY <1>2, <2>1, SingleStays DEF RunLaw
<1>6. ASSUME NEW u \in Client, Edit(u)
      PROVE  RunLaw'
  <2> DEFINE s == app[u] h == Mint(u)
  <2>1. /\ s \in Apps /\ h \in Record /\ app'[u].runtime = Append(s.runtime, h)
        /\ app'[u].published = s.published /\ \A v \in Client : v # u => app'[v] = app[v]
        /\ h.action_id = minted + 1
    BY <1>0, <1>6, EditsApp DEF Edit, Mint, Record, User
  <2>2. ~HasId(s.runtime, h.action_id)
    <3>1. s.runtime \in Seq(Record)
      BY <2>1 DEF Apps
    <3>2. \A n \in DOMAIN s.runtime : s.runtime[n] \in Record /\ Around(s.runtime[n])
      BY <3>1 DEF Around, Has
    <3>3. minted \in Nat /\ \A n \in 1 .. minted : n # minted + 1
      BY DEF Authored
    <3>. QED
      BY <2>1, <3>2, <3>3 DEF Authored, HasId
  <2> HIDE DEF h
  <2>3. Single(app'[u])
    BY <2>1, <2>2, SingleGrows DEF RunLaw
  <2>. QED
    BY <1>2, <2>1, <2>3
<1>7. ASSUME NEW u \in Client, Publish(u)
      PROVE  RunLaw'
  <2>1. /\ \A v \in Client : v # u => app'[v] = app[v]
        /\ app'[u].runtime = app[u].runtime /\ app'[u].published = Len(app[u].runtime)
        /\ NoDuplicateIds(app[u].runtime) /\ app[u].runtime \in Seq(Record)
    BY <1>0, <1>7, EditsApp DEF RunLaw, Single, Apps
  <2>2. Single(app'[u])
    BY <2>1 DEF Single
  <2>. QED
    BY <1>2, <2>1, <2>2
<1>8. ASSUME NEW u \in Client, ReadDown(u)
      PROVE  RunLaw'
  <2> DEFINE k == app[u].conn q == down[k] m == Head(q) s == app[u]
             t == IF s.mode = "live" THEN Received(s, u, m)
                    ELSE IF m.type = "welcome" THEN Welcomed(s, m) ELSE s
  <2>1. /\ s \in Apps /\ s.mode \in Holding /\ q # <<>> /\ q = down[app[u].conn]
        /\ app' = Lose(u) \/ app' = [app EXCEPT ![u] = t]
    BY <1>0, <1>8 DEF ReadDown, Holding
  <2>2. /\ m \in Answers /\ Tail(q) \o Way(u) \in Seq(Answers)
        /\ Inbox(u) = <<m>> \o (Tail(q) \o Way(u))
        /\ Carries(Answers) /\ Runs(s)
    <3> HIDE DEF q
    <3>. QED
      BY <2>1, InboxHead, LaneReads
  <2>3. Single(t)
    <3>0. Single(s)
      BY DEF RunLaw
    <3>1. CASE s.mode = "live" /\ m.type = "record"
      <4>0. t = [s EXCEPT !.known = @ \cup {m.record.action_id},
                          !.consumed = @ + 1,
                          !.runtime = IF m.record.user_id # u \/ s.consumed < s.base
                                      THEN Append(@, m.record) ELSE @]
        BY <2>1, <3>1 DEF Received, Apps, DeniedMsg
      <4>1. ReadsWell(s, u, <<m>> \o (Tail(q) \o Way(u)))
        BY <2>2 DEF ReadLaw, Law
      <4> DEFINE w == Tail(q) \o Way(u)
      <4> HIDE DEF w, t, m, s
      <4>2. m.record \in Record /\ ~HasId(s.runtime, m.record.action_id)
            /\ (m.record.user_id # u \/ s.consumed < s.base)
        BY <2>2, <3>1, <4>1, FirstApplied DEF w
      <4>3. t.runtime = Append(s.runtime, m.record) /\ t.published = s.published
        BY <2>1, <4>0, <4>2 DEF Apps
      <4>. QED
        BY <2>1, <3>0, <4>2, <4>3, SingleGrows
    <3>2. CASE ~(s.mode = "live" /\ m.type = "record")
      <4>1. \/ t.runtime = s.runtime /\ t.published = s.published
            \/ t.runtime = <<>> /\ t.published = 0
        BY <2>1, <3>2 DEF Received, Welcomed, Solo, Apps, DeniedMsg
      <4> HIDE DEF t
      <4>. QED
        BY <3>0, <4>1, SingleStays
    <3>. QED
      BY <3>1, <3>2
  <2> HIDE DEF t
  <2>4. CASE app' = [app EXCEPT ![u] = t]
    <3>1. app'[u] = t /\ \A v \in Client : v # u => app'[v] = app[v]
      BY <1>0, <2>4
    <3>. QED
      BY <1>2, <2>3, <3>1
  <2>. QED
    BY <1>3, <2>1, <2>4
<1>. QED
  <2>1. \/ RouteDown \/ RoomCloses \/ HostRead \/ Pump \/ HostEdit \/ SwapDocument \/ HostLeave
        \/ HostLinkBreaks
        \/ \E k \in Conn : RouteUp(k) \/ Cleanup(k) \/ PingRefused(k) \/ Break(k) \/ HalfOpenEnds(k)
        \/ \E u \in Client : Silence(u)
        => app' = app
    BY DEF RouteDown, RoomCloses, HostRead, Pump, HostEdit, SwapDocument, HostLeave, HostLinkBreaks,
           RouteUp, Cleanup, PingRefused, Break, HalfOpenEnds, Silence
  <2>2. \A k \in Conn : Claim(k) => app' = app \/ app' = Lose(who[k])
    BY DEF Claim
  <2>3. \A u \in Client : LinkLost(u) \/ HandshakeTimeout(u) => app' = Lose(u)
    BY DEF LinkLost, HandshakeTimeout
  <2>4. ASSUME NEW k \in Conn, Claim(k)
        PROVE  RunLaw'
    <3> DEFINE w == who[k]
    <3>1. app' = app \/ app' = Lose(w)
      BY <2>2, <2>4
    <3> HIDE DEF w
    <3>. QED
      BY <1>1, <1>3, <3>1
  <2>. QED
    BY <1>1, <1>3, <1>4, <1>5, <1>6, <1>7, <1>8, <2>1, <2>3, <2>4 DEF RelayNext

-----------------------------------------------------------------------------
(* What a step does to what waits for a client.                            *)

\* Messages other than a Welcome start nobody.
LEMMA StartsStill ==
  ASSUME NEW X, NEW w \in Seq(X), NEW t \in Seq(X), NEW a, ~Starts(a, w),
         \A i \in DOMAIN t : t[i].type # "welcome"
  PROVE  ~Starts(a, w \o t)
<1> DEFINE q == w \o t
<1>1. SUFFICES ASSUME NEW p \in 0 .. Len(q), BeginsAt(a, q, p)
               PROVE  FALSE
  BY DEF Starts
<1>2. \A n \in 0 .. Len(w) : ~BeginsAt(a, w, n)
  BY DEF Starts
<1>3. /\ Len(w) \in Nat /\ DOMAIN w = 1 .. Len(w)
      /\ \A i \in DOMAIN q : (i \in DOMAIN w /\ q[i] = w[i]) \/ (i - Len(w) \in DOMAIN t /\ q[i] = t[i - Len(w)])
  BY JoinedPlaces
<1> HIDE DEF q
<1>4. CASE p = 0 /\ a.mode = "live"
  <2>1. 0 \in 0 .. Len(w)
    BY <1>3
  <2>. QED
    BY <1>2, <1>4, <2>1 DEF BeginsAt
<1>5. CASE p \in DOMAIN q /\ q[p].type = "welcome" /\ a.mode \in {"joining", "rejoining"}
  <2>1. p \in DOMAIN w /\ w[p].type = "welcome"
    BY <1>3, <1>5
  <2>2. p \in 0 .. Len(w)
    BY <1>3, <2>1
  <2>. QED
    BY <1>2, <1>5, <2>1, <2>2 DEF BeginsAt
<1>. QED
  BY <1>1, <1>4, <1>5 DEF BeginsAt

\* A client without a connection has not started.
LEMMA IdleModes ==
  ASSUME NEW u \in Client, app'[u].mode \notin Holding
  PROVE  Informed(u)'
<1>1. ~Starts(app[u], Inbox(u))'
  BY DEF Starts, BeginsAt, Holding
<1>. QED
  BY <1>1, InformedIdle

\* Nothing happens to u.
LEMMA Untouched ==
  ASSUME LaneTyped, NEW u \in Client, Informed(u), Calm(u), Steadfast(u),
         app[u].mode \in Holding => down'[app[u].conn] = down[app[u].conn]
  PROVE  Informed(u)'
<1>1. CASE app[u].mode \notin Holding
  BY <1>1, IdleModes DEF Steadfast
<1>2. CASE app[u].mode \in Holding
  <2>1. /\ Fed(u)' <=> Fed(u)
        /\ Served(u)' <=> Served(u)
        /\ Abreast(u)' <=> Abreast(u)
        /\ Way(u)' = Way(u)
    BY WaySame
  <2>2. Inbox(u)' = Inbox(u)
    BY <1>2, <2>1 DEF Inbox, Steadfast
  <2>3. Stays(u)
    BY <1>2, <2>1 DEF Stays, Steadfast, Calm
  <2>4. app'[u] = app[u] /\ records' = records /\ snapshot' = snapshot
        /\ Pipe(app[u].conn)' = Pipe(app[u].conn)
    BY <1>2 DEF Steadfast, Calm
  <2>. QED
    BY <2>1, <2>2, <2>3, <2>4, InformedSame
<1>. QED
  BY <1>1, <1>2

\* The core serves u no more.
LEMMA Deserted ==
  ASSUME LaneTyped, LaneTyped', NEW u \in Client, Informed(u), Stays(u), app'[u] = app[u], ~Served(u)',
         app[u].mode \in Holding => down'[app[u].conn] = down[app[u].conn],
         NEW y \in Seq(Answers), Mail(fromHost, u) = Mail(fromHost, u)' \o y
  PROVE  Informed(u)'
<1>1. CASE app[u].mode \notin Holding
  BY <1>1, IdleModes
<1>2. CASE app[u].mode \in Holding
  <2> DEFINE d == down[app[u].conn] f == Mail(fromHost, u) f1 == Mail(fromHost, u)'
             z == Kept(sent[u], taken[u])
  <2>1. d \in Seq(Answers) /\ f \in Seq(Answers) /\ z \in Seq(Answers) /\ Way(u) \in Seq(Answers)
    BY <1>2, LaneReads
  <2>2. f1 \in Seq(Answers)
    <3>1. fromHost' \in Seq(Frames) /\ f1 = Mail(fromHost', u)
      BY DEF LaneTyped, BridgeTyped, Mail, Addressed
    <3>. QED
      BY <3>1, MailIs
  <2>3. Inbox(u) = d \o Way(u)
    BY <1>2 DEF Inbox
  <2>4. Inbox(u)' = d \o (IF Fed(u)' THEN f1 ELSE <<>>)
    BY <1>2 DEF Inbox, Way
  <2>5. Way(u) = IF Served(u) THEN f \o z ELSE IF Fed(u) THEN f ELSE <<>>
    BY DEF Way, Stock
  <2>6. f = f1 \o y
    OBVIOUS
  <2>7. Fed(u)' => Fed(u)
    BY DEF Stays
  <2>8. Chat(<<>>) /\ <<>> \in Seq(Answers)
    BY DEF Chat
  <2> HIDE DEF d, f, f1, z
  <2>11. PICK g \in Seq(Answers) : g = f1
    BY <2>2
  <2>12. f = g \o y /\ Inbox(u)' = d \o (IF Fed(u)' THEN g ELSE <<>>)
    BY <2>4, <2>6, <2>11
  <2>9. CASE Fed(u)'
    <3> DEFINE x == IF Served(u) THEN y \o z ELSE y
    <3>1. x \in Seq(Answers) /\ Way(u) = g \o x
      <4>1. (g \o y) \o z = g \o (y \o z) /\ y \o z \in Seq(Answers)
        <5>1. InRow(Answers, g, y, z)
          BY <2>1, InARow
        <5>. QED
          BY <5>1 DEF InRow
      <4>. QED
        BY <2>5, <2>12, <2>7, <2>9, <4>1
    <3> HIDE DEF x
    <3>a. x \in Seq(Answers) /\ d \in Seq(Answers)
      BY <2>1, <3>1
    <3>b. InRow(Answers, d, g, x)
      BY <3>a, InARow
    <3>2. d \o (g \o x) = (d \o g) \o x /\ d \o g \in Seq(Answers)
      BY <3>b DEF InRow
    <3> DEFINE w == d \o g e == <<>>
    <3>3. w \in Seq(Answers) /\ Inbox(u) = w \o x
      BY <2>3, <3>1, <3>2
    <3> HIDE DEF w
    <3>4. Inbox(u)' = w \o e
      BY <2>12, <2>9, <3>3, ConcatEmptySeq DEF w
    <3>5. Chat(e) /\ e \in Seq(Answers)
      BY <2>8
    <3> HIDE DEF e
    <3>. QED
      BY <3>1, <3>3, <3>4, <3>5, InformedLoses
  <2>10. CASE ~Fed(u)'
    <3> DEFINE e == <<>>
    <3>4. Inbox(u)' = d \o e
      BY <2>12, <2>10
    <3>5. Chat(e) /\ e \in Seq(Answers)
      BY <2>8
    <3> HIDE DEF e
    <3>. QED
      BY <2>1, <2>3, <3>4, <3>5, InformedLoses
  <2>. QED
    BY <2>9, <2>10
<1>. QED
  BY <1>1, <1>2

\* A step of the core with the relay and the clients left alone.
Bridging ==
  /\ UNCHANGED <<room, members, thread, who, link, up, down, app>>
  /\ \A c \in Conn : WayUpFewer(c)
  /\ bridge' = bridge

\* It feeds whom it fed.
LEMMA BridgingFeeds ==
  ASSUME LaneTyped, Bridging, NEW v \in Client
  PROVE  /\ app'[v] = app[v] /\ (Fed(v)' <=> Fed(v))
         /\ app[v].mode \in Holding => down'[app[v].conn] = down[app[v].conn]
         /\ via'[v] = via[v] /\ (v \in clients' <=> v \in clients) =>
              /\ Served(v)' <=> Served(v)
              /\ Abreast(v)' <=> Abreast(v)
         /\ app[v].mode \in Holding /\ via'[v] = via[v] /\ (v \in clients' => v \in clients) => Stays(v)
<1>1. app'[v] = app[v] /\ (Fed(v)' <=> Fed(v))
  BY DEF Bridging, Fed, Routed
<1>2. via'[v] = via[v] /\ (v \in clients' <=> v \in clients) =>
              /\ Served(v)' <=> Served(v)
              /\ Abreast(v)' <=> Abreast(v)
  BY <1>1 DEF Bridging, Served, Abreast
<1>3. app[v].mode \in Holding => app[v].conn \in Conn
  BY LaneReads
<1>4. app[v].mode \in Holding => (Pending(app[v].conn)' => Pending(app[v].conn))
  BY <1>1, <1>3 DEF Bridging, WayUpFewer, Pending
<1>. QED
  BY <1>1, <1>2, <1>4 DEF Bridging, Stays

\* The Welcomes of a queue were drained, and no other is queued.
LEMMA NoneWelcomes ==
  ASSUME LaneTyped, bridge, Welcomes, NEW v \in Client, NEW t \in Seq(HostMessage),
         \A i \in DOMAIN t : t[i].type # "welcome"
  PROVE  /\ Kept(sent[v] \o t, taken[v]) \in Seq(Answers)
         /\ \A i \in DOMAIN Kept(sent[v] \o t, taken[v]) :
              Kept(sent[v] \o t, taken[v])[i].type # "welcome"
<1> DEFINE q == sent[v] \o t
<1>1. sent[v] \in Seq(HostMessage) /\ q \in Seq(HostMessage)
  <2>1. sent[v] \in Seq(HostMessage)
    BY LaneReads
  <2>. QED
    BY <2>1, ConcatProperties
<1>2. PICK n \in Nat : n = taken[v]
  BY LaneReads
<1>3. Kept(q, n) \in Seq(Answers)
  <2> HIDE DEF q
  <2>1. Kept(q, n) \in Seq(HostMessage)
    BY <1>1, KeptIs
  <2>. QED
    BY <2>1, MessagesTyped, SeqMonotonic
<1>4. ASSUME NEW i \in DOMAIN Kept(q, n), Kept(q, n)[i].type = "welcome"
      PROVE  FALSE
  <2>1. PICK j \in DOMAIN q : j > n /\ q[j] = Kept(q, n)[i]
    <3> HIDE DEF q
    <3>. QED
      BY <1>1, <1>4, KeptFrom
  <2>2. \A m \in DOMAIN sent[v] : sent[v][m].type = "welcome" => m <= n
    BY <1>2 DEF Welcomes, Taken
  <2>3. \/ j \in DOMAIN sent[v] /\ q[j] = sent[v][j]
        \/ j - Len(sent[v]) \in DOMAIN t /\ q[j] = t[j - Len(sent[v])]
    BY <1>1, JoinedPlaces
  <2>4. j \in Nat
    BY <1>1
  <2>. QED
    BY <1>4, <2>1, <2>2, <2>3, <2>4
<1>. QED
  BY <1>2, <1>3, <1>4

\* What waits for u after a step that queued t to it: t, if the core serves it;
\* or it has not started.
LEMMA CoreReads ==
  ASSUME LaneTyped, LaneTyped', Bridging, bridge, Welcomes, NoQueue,
         NEW v \in Client, Informed(v), app[v].mode \in Holding,
         NEW fresh \in SUBSET Client, NEW users \in SUBSET Client, Turn(fresh, users), v \notin fresh,
         via'[v] = via[v], v \in clients' <=> v \in clients,
         NEW t \in Seq(HostMessage), sent'[v] = sent[v] \o t,
         \A i \in DOMAIN t : t[i].type # "welcome", v \notin clients => t = <<>>
  PROVE  ~Starts(app[v], Inbox(v))' \/ Inbox(v)' = IF Served(v) THEN Inbox(v) \o Kept(t, 0) ELSE Inbox(v)
<1> DEFINE d == down[app[v].conn] f == Mail(fromHost, v) b == Begun(fresh)[v]
           x == IF v \in users THEN Kept(sent'[v], b) ELSE <<>> g == Kept(t, 0)
<1>1. d \in Seq(Answers) /\ f \in Seq(Answers) /\ Stock(v) \in Seq(Answers)
      /\ sent[v] \in Seq(HostMessage)
  BY LaneReads
<1>2. /\ Stock(v)' = Stock(v) \o g
      /\ Mail(fromHost, v)' = f \o x
      /\ b = taken[v] /\ b \in Nat
  <2>1. b = taken[v] /\ b \in Nat
    BY LaneReads DEF Begun
  <2>2. Stock(v)' = Stock(v) \o Kept(t, 0)
        /\ Mail(fromHost', v) = f \o (IF v \in users THEN Kept(sent'[v], Begun(fresh)[v]) ELSE <<>>)
    BY StockAfter DEF Turn, LaneTyped
  <2>3. Mail(fromHost, v)' = Mail(fromHost', v)
    BY DEF Mail, Addressed
  <2>. QED
    BY <2>1, <2>2, <2>3
<1>3. g \in Seq(Answers)
  <2>1. g \in Seq(HostMessage)
    BY KeptIs
  <2> HIDE DEF g
  <2>. QED
    BY <2>1, MessagesTyped, SeqMonotonic
<1>4. /\ app'[v] = app[v] /\ (Fed(v)' <=> Fed(v)) /\ (Served(v)' <=> Served(v))
      /\ down'[app[v].conn] = d
  BY BridgingFeeds
<1>5. Inbox(v) = d \o Way(v) /\ Inbox(v)' = d \o Way(v)'
  BY <1>4 DEF Inbox
<1>6. Way(v) = IF Served(v) THEN Stock(v) ELSE IF Fed(v) THEN f ELSE <<>>
  BY DEF Way
<1>7. Way(v)' = IF Served(v) THEN Stock(v) \o g ELSE IF Fed(v) THEN f \o x ELSE <<>>
  BY <1>2, <1>4 DEF Way
<1> HIDE DEF d, f, g, b
<1>8. CASE Served(v)
  <2>1. d \o (Stock(v) \o g) = (d \o Stock(v)) \o g
    <3>1. InRow(Answers, d, Stock(v), g)
      BY <1>1, <1>3, InARow
    <3>. QED
      BY <3>1 DEF InRow
  <2>. QED
    BY <1>5, <1>6, <1>7, <1>8, <2>1 DEF g
<1>9. CASE ~Served(v) /\ (~Fed(v) \/ x = <<>>)
  <2>1. f \o <<>> = f
    BY <1>1, ConcatEmptySeq
  <2>. QED
    BY <1>5, <1>6, <1>7, <1>9, <2>1
<1>10. CASE ~Served(v) /\ Fed(v) /\ x # <<>>
  <2>1. v \in clients
    <3>1. v \notin clients => sent'[v] = <<>>
      BY DEF NoQueue
    <3>2. Kept(<<>>, b) = <<>>
      BY <1>2, EmptySeq, KeptIs
    <3>. QED
      BY <1>10, <3>1, <3>2
  <2>2. ~Starts(app[v], Inbox(v))
    BY <1>10, <2>1 DEF Informed, Wired, Served
  <2>3. v \in users /\ x = Kept(sent'[v], b)
    BY <1>10
  <2>4. x = Kept(sent[v] \o t, taken[v])
    BY <1>2, <2>3
  <2>5. x \in Seq(Answers) /\ \A i \in DOMAIN x : x[i].type # "welcome"
    BY <2>4, NoneWelcomes
  <2> HIDE DEF x
  <2>7. d \o f \in Seq(Answers) /\ d \o (f \o x) = (d \o f) \o x
    <3>1. InRow(Answers, d, f, x)
      BY <1>1, <2>5, InARow
    <3>. QED
      BY <3>1 DEF InRow
  <2>8. Inbox(v) = d \o f /\ Inbox(v)' = (d \o f) \o x
    BY <1>5, <1>6, <1>7, <1>10, <2>7
  <2> DEFINE w == d \o f
  <2>9. w \in Seq(Answers) /\ Inbox(v) = w /\ Inbox(v)' = w \o x
    BY <2>7, <2>8
  <2> HIDE DEF w
  <2>10. ~Starts(app[v], w \o x)
    BY <2>2, <2>5, <2>9, StartsStill
  <2>11. Starts(app[v], Inbox(v))' <=> Starts(app'[v], Inbox(v)')
    BY DEF Starts, BeginsAt
  <2>. QED
    BY <1>4, <2>9, <2>10, <2>11
<1>. QED
  BY <1>8, <1>9, <1>10

-----------------------------------------------------------------------------
(* The steps of the clients.                                               *)

\* Nothing of the host's side changes.
LEMMA Calmly ==
  ASSUME NEW v, UNCHANGED <<records, snapshot, roster, sent, bridge, fromHost, taken, via>>
  PROVE  Calm(v)
<1>1. Mail(fromHost, v)' = Mail(fromHost, v)
  BY DEF Mail, Addressed
<1>2. v \in clients' <=> v \in clients
  BY DEF clients
<1>. QED
  BY <1>1, <1>2 DEF Calm

\* Nothing of a connection changes.
LEMMA Steadily ==
  ASSUME LaneTyped, NEW v \in Client, app'[v] = app[v], UNCHANGED <<who, members, toHost>>,
         app[v].mode \in Holding => link'[app[v].conn] = link[app[v].conn] /\ up'[app[v].conn] = up[app[v].conn]
  PROVE  Steadfast(v)
<1>1. SUFFICES ASSUME app[v].mode \in Holding
               PROVE  /\ Routed(app[v].conn)' <=> Routed(app[v].conn)
                      /\ WayUpSame(app[v].conn)
  BY DEF Steadfast, WayUpSame
<1>2. WayUpSame(app[v].conn)
  BY <1>1, WayUpIs DEF Pipe, Pending, WayUpSame
<1>. QED
  BY <1>2 DEF Routed

\* What a client does is nothing to another: they hold different slots.
LEMMA OthersUntouched ==
  ASSUME LaneTyped, Held, NEW u \in Client, NEW v \in Client, v # u, Informed(v),
         \/ ReadDown(u) \/ LinkLost(u) \/ HandshakeTimeout(u) \/ Edit(u) \/ Publish(u)
         \/ AfterEnd(u) \/ Silence(u)
  PROVE  Informed(v)'
<1>1. Calm(v)
  <2> DEFINE Same == UNCHANGED <<records, snapshot, roster, sent, bridge, fromHost, taken, via>>
  <2>1. ReadDown(u) \/ LinkLost(u) \/ HandshakeTimeout(u) => Same
    BY DEF ReadDown, LinkLost, HandshakeTimeout, hostVars, bridgeVars
  <2>2. Edit(u) \/ Publish(u) => Same
    BY DEF Edit, Publish, hostVars, bridgeVars
  <2>3. AfterEnd(u) \/ Silence(u) => Same
    BY DEF AfterEnd, Silence, Age, hostVars, bridgeVars
  <2>. QED
    BY <2>1, <2>2, <2>3, Calmly
<1>2. app'[v] = app[v]
  <2>1. app \in [Client -> Apps]
    BY DEF LaneTyped, AppsTyped
  <2>2. Edit(u) \/ Publish(u) => app'[v] = app[v]
    BY EditsApp
  <2>3. ReadDown(u) => app'[v] = app[v]
    BY <2>1 DEF ReadDown, Lose
  <2>4. LinkLost(u) \/ HandshakeTimeout(u) \/ AfterEnd(u) \/ Silence(u) => app'[v] = app[v]
    BY <2>1 DEF LinkLost, HandshakeTimeout, AfterEnd, Silence, Lose
  <2>. QED
    BY <2>2, <2>3, <2>4
<1>3. UNCHANGED <<who, members, toHost>>
  <2>1. ReadDown(u) \/ LinkLost(u) \/ HandshakeTimeout(u) => UNCHANGED <<who, members, toHost>>
    BY DEF ReadDown, LinkLost, HandshakeTimeout, relayVars, bridgeVars
  <2>2. Edit(u) \/ Publish(u) \/ AfterEnd(u) \/ Silence(u) => UNCHANGED <<who, members, toHost>>
    BY DEF Edit, Publish, AfterEnd, Silence, relayVars, bridgeVars
  <2>. QED
    BY <2>1, <2>2
<1>4. app[v].mode \in Holding =>
        /\ link'[app[v].conn] = link[app[v].conn] /\ up'[app[v].conn] = up[app[v].conn]
        /\ down'[app[v].conn] = down[app[v].conn]
  <2>1. SUFFICES ASSUME app[v].mode \in Holding, NEW c \in Conn, c = app[v].conn
                 PROVE  link'[c] = link[c] /\ up'[c] = up[c] /\ down'[c] = down[c]
    BY LaneReads
  <2>2. who[c] = v
    BY <2>1 DEF Held
  <2>3. app[u].mode \in Holding => app[u].conn # c
    BY <2>2 DEF Held
  <2>4. link \in [Conn -> {"open", "shut", "half"}] /\ up \in [Conn -> Seq(Lines)] /\ down \in [Conn -> Seq(Answers)]
    BY DEF LaneTyped, RoomTyped
  <2>5. CASE ReadDown(u)
    <3>1. app[u].mode \in Holding
      BY <2>5 DEF ReadDown, Holding
    <3>. QED
      BY <2>3, <2>4, <2>5, <3>1 DEF ReadDown, Shut
  <2>6. CASE HandshakeTimeout(u)
    <3>1. app[u].mode \in Holding
      BY <2>6 DEF HandshakeTimeout, Holding
    <3>. QED
      BY <2>3, <2>4, <2>6, <3>1 DEF HandshakeTimeout, Shut
  <2>7. CASE Publish(u)
    <3>1. app[u].mode \in Holding
      BY <2>7 DEF Publish, Holding
    <3>. QED
      BY <2>3, <2>4, <2>7, <3>1 DEF Publish
  <2>8. CASE LinkLost(u) \/ Edit(u) \/ AfterEnd(u) \/ Silence(u)
    BY <2>8 DEF LinkLost, Edit, AfterEnd, Silence, relayVars
  <2>. QED
    BY <2>5, <2>6, <2>7, <2>8
<1>5. Steadfast(v)
  BY <1>2, <1>3, <1>4, Steadily
<1>. QED
  BY <1>1, <1>4, <1>5, Untouched

\* A client that gives its connection up.
LEMMA GivesUp ==
  ASSUME LaneTyped, NEW u \in Client, LinkLost(u) \/ HandshakeTimeout(u) \/ AfterEnd(u)
  PROVE  Informed(u)'
<1>1. app \in [Client -> Apps]
  BY DEF LaneTyped, AppsTyped
<1>2. LinkLost(u) \/ HandshakeTimeout(u) => app'[u].mode \notin Holding
  <2>1. \A m : Failed(m) \notin Holding
    BY DEF Failed, Holding
  <2>2. app' = Lose(u) => app'[u].mode = Failed(app[u].mode)
    BY <1>1 DEF Lose, Apps
  <2>. QED
    BY <2>1, <2>2 DEF LinkLost, HandshakeTimeout
<1>3. AfterEnd(u) => app'[u].mode \notin Holding
  BY <1>1 DEF AfterEnd, Solo, Holding
<1>. QED
  BY <1>2, <1>3, IdleModes

\* What waits for a client is somewhere.
LEMMA InboxAround ==
  ASSUME LaneTyped, NEW u \in Client, NEW i \in DOMAIN Inbox(u), Inbox(u)[i].type = "record"
  PROVE  Inbox(u)[i].record \in Record /\ Around(Inbox(u)[i].record)
<1> DEFINE d == down[app[u].conn] f == Mail(fromHost, u) z == Kept(sent[u], taken[u]) q == Inbox(u)
<1>0. app[u].mode \in Holding
  BY DEF Inbox
<1>1. /\ d \in Seq(Answers) /\ f \in Seq(Answers) /\ z \in Seq(Answers) /\ q \in Seq(Answers)
      /\ Way(u) \in Seq(Answers) /\ app[u].conn \in Conn /\ Carries(Answers)
      /\ sent[u] \in Seq(HostMessage) /\ taken[u] \in Nat
  BY <1>0, LaneReads
<1>2. q = d \o Way(u)
  BY <1>0 DEF Inbox
<1>3. Way(u) = f \o z \/ Way(u) = f \/ Way(u) = <<>>
  BY DEF Way, Stock
<1>4. q[i] \in Answers /\ q[i].type = "record"
  BY <1>1
<1>5. PICK r \in Record : r = q[i].record /\ q[i] = RecordMsg(r)
  BY <1>1, <1>4, CarriesRecord
<1> DEFINE m == RecordMsg(r)
<1>6. Has(q, m)
  BY <1>5 DEF Has
<1> HIDE DEF d, f, z, q
<1> HIDE DEF m
<1>7. Has(d, m) \/ Has(Way(u), m)
  BY <1>1, <1>2, <1>6, HasParts
<1>8. Has(Way(u), m) => Has(f, m) \/ Has(z, m)
  <2>1. Has(f \o z, m) <=> Has(f, m) \/ Has(z, m)
    BY <1>1, HasParts
  <2>2. ~Has(<<>>, m)
    BY HasNone
  <2>. QED
    BY <1>3, <2>1, <2>2
<1>9. Has(z, m) => Has(sent[u], m)
  BY <1>1, KeptHas DEF z
<1>10. Around(r)
  BY <1>1, <1>7, <1>8, <1>9 DEF Around, d, f, m
<1>. QED
  BY <1>5, <1>10 DEF q

\* An edit, or its publication, leaves alone what waits for the client.
LEMMA EditWay ==
  ASSUME LaneTyped, NEW u \in Client, app[u].mode = "live", Edit(u) \/ Publish(u)
  PROVE  /\ app'[u].mode = "live" /\ app'[u].conn = app[u].conn /\ app[u].conn \in Conn
         /\ Inbox(u)' = Inbox(u) /\ records' = records /\ snapshot' = snapshot
         /\ (Served(u)' <=> Served(u)) /\ (Abreast(u)' <=> Abreast(u))
         /\ Stays(u)
         /\ Starts(app[u], Inbox(u))
<1>1. /\ app'[u].mode = app[u].mode /\ app'[u].conn = app[u].conn
      /\ app[u].mode \in Holding /\ app[u].conn \in Conn
  BY EditsApp, LaneReads DEF Holding
<1>2. UNCHANGED <<records, snapshot, roster, sent, bridge, fromHost, taken, via>>
      /\ UNCHANGED <<members, who, link, down>>
  BY DEF Edit, Publish, hostVars, bridgeVars, relayVars
<1>3. Calm(u)
  BY <1>2, Calmly
<1>4. Fed(u)' <=> Fed(u)
  BY <1>1, <1>2 DEF Fed, Routed
<1>5. (Served(u)' <=> Served(u)) /\ (Abreast(u)' <=> Abreast(u))
  BY <1>1, <1>2, <1>3, <1>4 DEF Served, Abreast, Calm
<1>6. Stock(u)' = Stock(u)
  BY <1>2, <1>3 DEF Stock, Calm, Kept, ReadOf
<1>7. Inbox(u)' = Inbox(u)
  BY <1>1, <1>2, <1>3, <1>4, <1>5, <1>6 DEF Inbox, Way, Calm
<1>8. Pending(app[u].conn)' => Pending(app[u].conn)
  <2>1. Edit(u) => up' = up /\ toHost' = toHost
    BY DEF Edit, relayVars, bridgeVars
  <2>2. Edit(u) => (Pending(app[u].conn)' => Pending(app[u].conn))
    BY <1>1, <2>1 DEF Pending
  <2>3. PICK c \in Conn : c = app[u].conn
    BY <1>1
  <2>4. Publish(u) => (Pending(c)' => Pending(c))
    BY PublishWay
  <2>. QED
    BY <1>1, <2>2, <2>3, <2>4
<1>9. Stays(u)
  BY <1>1, <1>2, <1>3, <1>4, <1>8 DEF Stays, Calm
<1>10. Starts(app[u], Inbox(u))
  <2>1. Inbox(u) \in Seq(Answers)
    BY LaneReads
  <2>2. 0 \in 0 .. Len(Inbox(u))
    BY <2>1, LenProperties
  <2>. QED
    BY <2>2 DEF Starts, BeginsAt
<1>. QED
  BY <1>1, <1>2, <1>5, <1>7, <1>9, <1>10

\* A live app's law, which holds from the first message on.
LEMMA LiveLaw ==
  ASSUME NEW a, NEW me, NEW q \in Seq(Answers), NEW served, NEW current, NEW log, NEW pipe, NEW doc,
         a.mode = "live"
  PROVE  Law(a, me, q, served, current, log, pipe, doc) <=>
           /\ Readable(a, me, q, 0)
           /\ served => Logged(a, me, q, 0, log)
           /\ current => Follows(a, me, q, 0, log, pipe, doc)
BY LiveReads DEF Law

\* An edit of a client.
LEMMA EditKeeps ==
  ASSUME LaneTyped, Authored, NEW u \in Client, Informed(u), Single(app[u]), Edit(u)
  PROVE  Informed(u)'
<1>1. CASE app[u].mode # "live"
  <2>1. app'[u].mode = app[u].mode
    BY EditsApp
  <2>2. app[u].mode = "lost"
    BY <1>1 DEF Edit
  <2>. QED
    BY <2>1, <2>2, IdleModes DEF Holding
<1>2. CASE app[u].mode = "live"
  <2> DEFINE q == Inbox(u) a == app[u] b == app'[u] r == Mint(u)
             served == Served(u) current == Abreast(u) pipe == Pipe(app[u].conn)
  <2>1. /\ b.mode = "live" /\ b.conn = a.conn
        /\ Inbox(u)' = q /\ records' = records /\ snapshot' = snapshot
        /\ (Served(u)' <=> served) /\ (Abreast(u)' <=> current)
        /\ Stays(u) /\ Starts(a, q)
    BY <1>2, EditWay
  <2>2. /\ b.runtime = Append(a.runtime, r) /\ b.doc = a.doc /\ b.published = a.published
        /\ b.consumed = a.consumed /\ b.base = a.base /\ b.known = a.known
    BY EditsApp
  <2>3. Pipe(app[u].conn)' = pipe
    <3>1. up' = up /\ toHost' = toHost
      BY DEF Edit, relayVars, bridgeVars
    <3>. QED
      BY <2>1, <3>1 DEF Pipe
  <2>4. a \in Apps /\ Runs(a) /\ q \in Seq(Answers)
    BY LaneReads
  <2>5. minted \in Nat /\ r.action_id = minted + 1 /\ r.user_id = u /\ r \in Record
    BY DEF Authored, Mint, Edit, Record, User
  <2>6. \A i \in DOMAIN q : q[i].type = "record" => q[i].record.action_id # r.action_id
    <3>1. SUFFICES ASSUME NEW i \in DOMAIN q, q[i].type = "record"
                   PROVE  q[i].record.action_id # r.action_id
      OBVIOUS
    <3>2. q[i].record \in Record /\ Around(q[i].record)
      BY <3>1, InboxAround
    <3>3. q[i].record.action_id \in 1 .. minted
      BY <3>2 DEF Authored
    <3>. QED
      BY <2>5, <3>3
  <2>7. ~HasId(records, r.action_id)
    <3>1. SUFFICES ASSUME NEW n \in DOMAIN records, records[n].action_id = r.action_id
                   PROVE  FALSE
      BY DEF HasId
    <3>2. records[n] \in Record /\ Around(records[n])
      BY DEF LaneTyped, TypeOK, Around, Has
    <3>3. records[n].action_id \in 1 .. minted
      BY <3>2 DEF Authored
    <3>. QED
      BY <2>5, <3>1, <3>3
  <2>8. a.published <= Len(a.runtime)
    BY DEF Single
  <2>9. Law(a, u, q, served, current, records, pipe, snapshot)
    BY DEF Informed, ReadLaw
  <2>10. a.mode = "live"
    BY <1>2
  <2>a. ReadLaw(u)' <=> Law(b, u, Inbox(u)', Served(u)', Abreast(u)', records', Pipe(app[u].conn)', snapshot')
    BY DEF ReadLaw
  <2> HIDE DEF q, a, b, r, served, current, pipe
  <2>11. /\ Readable(a, u, q, 0)
         /\ served => Logged(a, u, q, 0, records)
         /\ current => Follows(a, u, q, 0, records, pipe, snapshot)
    BY <2>4, <2>9, <2>10, LiveLaw
  <2>12. /\ Readable(b, u, q, 0)
         /\ served => Logged(b, u, q, 0, records)
         /\ current => Follows(b, u, q, 0, records, pipe, snapshot)
    BY <2>2, <2>4, <2>5, <2>6, <2>7, <2>8, <2>11, ReadEdit
  <2>13. Law(b, u, q, served, current, records, pipe, snapshot)
    BY <2>1, <2>4, <2>12, LiveLaw
  <2>14. ReadLaw(u)'
    BY <2>1, <2>3, <2>13, <2>a DEF Law
  <2>. QED
    BY <2>1, <2>14, InformedStays DEF a, q
<1>. QED
  BY <1>1, <1>2

\* A publication.
LEMMA PublishKeeps ==
  ASSUME LaneTyped, NEW u \in Client, Informed(u), Publish(u)
  PROVE  Informed(u)'
<1> DEFINE q == Inbox(u) a == app[u] b == app'[u]
           served == Served(u) current == Abreast(u) pipe == Pipe(app[u].conn)
<1>1. /\ b.mode = "live" /\ b.conn = a.conn /\ a.mode = "live"
      /\ Inbox(u)' = q /\ records' = records /\ snapshot' = snapshot
      /\ (Served(u)' <=> served) /\ (Abreast(u)' <=> current)
      /\ Stays(u) /\ Starts(a, q) /\ a.conn \in Conn
  BY EditWay DEF Publish
<1>2. /\ b.runtime = a.runtime /\ b.doc = a.doc
      /\ b.consumed = a.consumed /\ b.base = a.base /\ b.known = a.known
  BY EditsApp
<1>3. PICK more : /\ more = Pipe(app[u].conn)'
                  /\ \A r : r \in more <=>
                       r \in pipe \/ \E n \in DOMAIN a.runtime : Unsent(a, u, n) /\ r = a.runtime[n]
  <2>1. PICK c \in Conn : c = app[u].conn
    BY <1>1
  <2>2. \A r \in Record : r \in Pipe(c)' <=>
          r \in Pipe(c) \/ \E n \in DOMAIN app[u].runtime : Unsent(app[u], u, n) /\ r = app[u].runtime[n]
    BY <2>1, PublishWay
  <2>3. \A r \in Pipe(c) \cup Pipe(c)' : r \in Record
    BY DEF Pipe
  <2>4. \A n \in DOMAIN app[u].runtime : app[u].runtime[n] \in Record
    BY LaneReads DEF Apps
  <2>5. Pipe(app[u].conn)' = Pipe(c)'
    BY <1>1, <2>1 DEF Pipe
  <2>6. \A r : r \in Pipe(c)' <=>
          r \in Pipe(c) \/ \E n \in DOMAIN app[u].runtime : Unsent(app[u], u, n) /\ r = app[u].runtime[n]
    BY <2>2, <2>3, <2>4
  <2>. QED
    BY <2>1, <2>5, <2>6
<1>4. q \in Seq(Answers)
  BY LaneReads
<1>5. Law(a, u, q, served, current, records, pipe, snapshot)
  BY DEF Informed, ReadLaw
<1>6. ReadLaw(u)' <=> Law(b, u, Inbox(u)', Served(u)', Abreast(u)', records', Pipe(app[u].conn)', snapshot')
  BY DEF ReadLaw
<1> HIDE DEF q, a, b, served, current, pipe
<1>7. /\ Readable(a, u, q, 0)
      /\ served => Logged(a, u, q, 0, records)
      /\ current => Follows(a, u, q, 0, records, pipe, snapshot)
  BY <1>1, <1>4, <1>5, LiveLaw
<1>8. /\ Readable(b, u, q, 0)
      /\ served => Logged(b, u, q, 0, records)
      /\ current => Follows(b, u, q, 0, records, more, snapshot)
  <2>1. \A r : r \in more <=>
          r \in pipe \/ \E n \in DOMAIN a.runtime : Unsent(a, u, n) /\ r = a.runtime[n]
    BY <1>3
  <2>2. /\ Readable(a, u, q, 0) => Readable(b, u, q, 0)
        /\ Logged(a, u, q, 0, records) => Logged(b, u, q, 0, records)
        /\ Follows(a, u, q, 0, records, pipe, snapshot) => Follows(b, u, q, 0, records, more, snapshot)
    BY <1>2, <2>1, ReadPublish, Zenon
  <2>. QED
    BY <1>7, <2>2
<1>9. Law(b, u, q, served, current, records, more, snapshot)
  BY <1>1, <1>4, <1>8, LiveLaw
<1>10. ReadLaw(u)'
  BY <1>1, <1>3, <1>6, <1>9 DEF Law
<1>. QED
  BY <1>1, <1>10, InformedStays DEF a, q

\* The app b that the message m makes of a.
Takes(a, b, me, m) ==
  \/ /\ a.mode \in {"joining", "rejoining"} /\ m.type = "welcome"
     /\ b = Welcomed(a, m)
  \/ /\ a.mode = "live" /\ m.type # "record" /\ Alike(a, b)
  \/ /\ a.mode = "live" /\ m.type = "record"
     /\ b.runtime = IF m.record.user_id # me \/ a.consumed < a.base
                    THEN Append(a.runtime, m.record) ELSE a.runtime
     /\ b.consumed = a.consumed + 1
     /\ b.base = a.base /\ b.published = a.published
     /\ b.known = a.known \cup {m.record.action_id} /\ b.doc = a.doc

\* What a client that stays reads: a Welcome, or a message of the session, or
\* one that it passes over.
LEMMA ReadDownApp ==
  ASSUME LaneTyped, NEW u \in Client, ReadDown(u), app'[u].mode \in Holding
  PROVE  \E m \in Answers :
           /\ down[app[u].conn] # <<>> /\ m = Head(down[app[u].conn])
           /\ down'[app[u].conn] = Tail(down[app[u].conn])
           /\ app[u].mode \in Holding /\ app[u].conn \in Conn
           /\ app'[u].conn = app[u].conn /\ link' = link
           /\ \/ Takes(app[u], app'[u], u, m) /\ app'[u].mode = "live"
              \/ app[u].mode # "live" /\ app'[u] = app[u]
<1> DEFINE k == app[u].conn q == down[k] m == Head(q) s == app[u]
           t == IF s.mode = "live" THEN Received(s, u, m)
                  ELSE IF m.type = "welcome" THEN Welcomed(s, m) ELSE s
<1>0. app \in [Client -> Apps]
  BY DEF LaneTyped, AppsTyped
<1>1. /\ s \in Apps /\ s.mode \in Holding /\ q # <<>> /\ q = down[app[u].conn] /\ k \in Conn
      /\ app' = Lose(u) \/ app' = [app EXCEPT ![u] = t]
  BY <1>0, LaneReads DEF ReadDown, Holding
<1>2. app'[u] = t
  <2>1. app' = Lose(u) => app'[u].mode \notin Holding
    BY <1>0 DEF Lose, Apps, Failed, Holding
  <2>. QED
    BY <1>0, <1>1, <2>1
<1>3. down'[k] = Tail(q) /\ m \in Answers
  <2>1. down \in [Conn -> Seq(Answers)]
    BY DEF LaneTyped, RoomTyped
  <2>2. down' = [down EXCEPT ![k] = Tail(@)]
    BY DEF ReadDown
  <2>3. q \in Seq(Answers) /\ q # <<>>
    BY <1>1, <2>1
  <2> HIDE DEF q, m
  <2>4. Head(q) \in Answers
    BY <2>3, HeadTailProperties
  <2>. QED
    BY <1>1, <2>1, <2>2, <2>4 DEF q, m
<1>4. \/ Takes(s, t, u, m) /\ t.mode \in {"live", "ended", "lost"} /\ t.conn = s.conn
      \/ s.mode # "live" /\ t = s
  <2>1. CASE s.mode = "live" /\ m.type = "record"
    <3>0. t = [s EXCEPT !.known = @ \cup {m.record.action_id},
                        !.consumed = @ + 1,
                        !.runtime = IF m.record.user_id # u \/ s.consumed < s.base
                                    THEN Append(@, m.record) ELSE @]
      BY <1>1, <2>1 DEF Received, Apps, DeniedMsg
    <3> HIDE DEF t, m, s
    <3>. QED
      BY <1>1, <2>1, <3>0 DEF Apps, Takes
  <2>2. CASE s.mode = "live" /\ m.type # "record"
    <3>0. t = s \/ t = [s EXCEPT !.mode = "ended"] \/ t = [s EXCEPT !.mode = "lost"]
      BY <2>2 DEF Received
    <3> HIDE DEF t, m, s
    <3>1. Alike(s, t) /\ t.mode \in {"live", "ended", "lost"} /\ t.conn = s.conn
      BY <1>1, <2>2, <3>0 DEF Apps, Alike
    <3>. QED
      BY <2>2, <3>1 DEF Takes
  <2>3. CASE s.mode # "live" /\ m.type = "welcome"
    <3>0. t = Welcomed(s, m) /\ s.mode \in {"joining", "rejoining"}
      BY <1>1, <2>3 DEF Holding
    <3> HIDE DEF t, m, s
    <3>1. t.mode = "live" /\ t.conn = s.conn
      BY <3>0 DEF Welcomed, Solo
    <3>. QED
      BY <2>3, <3>0, <3>1 DEF Takes
  <2>4. CASE s.mode # "live" /\ m.type # "welcome"
    BY <2>4
  <2>. QED
    BY <2>1, <2>2, <2>3, <2>4
<1>5. app'[u].mode \in {"live", s.mode} => link' = link
  BY DEF ReadDown
<1> HIDE DEF t, m
<1>6. t.mode \in {"live", s.mode}
  BY <1>2, <1>4 DEF Holding
<1>. QED
  BY <1>1, <1>2, <1>3, <1>4, <1>5, <1>6 DEF m, Holding

\* What the law of an app and the first message say of the app that takes it.
LEMMA TakesLaw ==
  ASSUME NEW m \in Answers, NEW w \in Seq(Answers), Carries(Answers), NEW a, Runs(a), NEW b, NEW me,
         NEW served, NEW current, current => served, NEW log, NEW pipe, NEW doc,
         Law(a, me, <<m>> \o w, served, current, log, pipe, doc), Takes(a, b, me, m),
         b.mode = "live"
  PROVE  Law(b, me, w, served, current, log, pipe, doc)
<1> DEFINE q == <<m>> \o w
<1>1. /\ ReadsWell(a, me, q)
      /\ served => ReadsLog(a, me, q, log)
      /\ current => ReadsAll(a, me, q, log, pipe, doc)
  BY DEF Law
<1>2. \/ /\ a.mode \in {"joining", "rejoining"} /\ m.type = "welcome"
         /\ b = Welcomed(a, m)
      \/ /\ a.mode = "live" /\ m.type # "record" /\ Alike(a, b)
      \/ /\ a.mode = "live" /\ m.type = "record"
         /\ b.runtime = Append(a.runtime, m.record) /\ b.consumed = a.consumed + 1
         /\ b.base = a.base /\ b.published = a.published
         /\ b.known = a.known \cup {m.record.action_id} /\ b.doc = a.doc
  <2>1. a.mode = "live" /\ m.type = "record" => m.record.user_id # me \/ a.consumed < a.base
    BY <1>1, FirstApplied
  <2>. QED
    BY <2>1 DEF Takes
<1>3. /\ Readable(b, me, w, 0)
      /\ ReadsLog(a, me, q, log) => Logged(b, me, w, 0, log)
      /\ ReadsLog(a, me, q, log) /\ ReadsAll(a, me, q, log, pipe, doc) =>
           Follows(b, me, w, 0, log, pipe, doc)
  BY <1>1, <1>2, FirstRead
<1> HIDE DEF q
<1>. QED
  BY <1>1, <1>3, LiveLaw

\* A client reads a message.
LEMMA ReadDownKeeps ==
  ASSUME LaneTyped, NEW u \in Client, Informed(u), ReadDown(u)
  PROVE  Informed(u)'
<1>1. CASE app'[u].mode \notin Holding
  BY <1>1, IdleModes
<1>2. CASE app'[u].mode \in Holding
  <2>1. PICK m \in Answers :
           /\ down[app[u].conn] # <<>> /\ m = Head(down[app[u].conn])
           /\ down'[app[u].conn] = Tail(down[app[u].conn])
           /\ app[u].mode \in Holding /\ app[u].conn \in Conn
           /\ app'[u].conn = app[u].conn /\ link' = link
           /\ \/ Takes(app[u], app'[u], u, m) /\ app'[u].mode = "live"
              \/ app[u].mode # "live" /\ app'[u] = app[u]
    BY <1>2, ReadDownApp
  <2> DEFINE d == down[app[u].conn] w == Tail(d) \o Way(u) a == app[u] b == app'[u] q == Inbox(u)
             served == Served(u) current == Abreast(u) pipe == Pipe(app[u].conn)
  <2>2. UNCHANGED <<records, snapshot, roster, sent, bridge, fromHost, taken, via>>
        /\ UNCHANGED <<members, who, up, toHost>>
    BY DEF ReadDown, hostVars, bridgeVars
  <2>3. Calm(u)
    BY <2>2, Calmly
  <2>4. Fed(u)' <=> Fed(u)
    BY <1>2, <2>1, <2>2 DEF Fed, Routed
  <2>5. (Served(u)' <=> served) /\ (Abreast(u)' <=> current)
    BY <2>1, <2>2, <2>3, <2>4 DEF Served, Abreast, Calm
  <2>6. Way(u)' = Way(u)
    <3>1. Stock(u)' = Stock(u)
      BY <2>2, <2>3 DEF Stock, Calm, Kept, ReadOf
    <3>. QED
      BY <2>3, <2>4, <2>5, <3>1 DEF Way, Calm
  <2>7. Inbox(u)' = w
    BY <1>2, <2>1, <2>6 DEF Inbox
  <2>8. q = <<m>> \o w /\ w \in Seq(Answers) /\ <<m>> \in Seq(Answers)
    <3>1. d # <<>> /\ d = down[app[u].conn] /\ app[u].mode \in Holding
      BY <2>1
    <3> HIDE DEF d
    <3>2. /\ Inbox(u) = <<Head(d)>> \o (Tail(d) \o Way(u)) /\ Tail(d) \o Way(u) \in Seq(Answers)
          /\ <<Head(d)>> \in Seq(Answers)
      BY <3>1, InboxHead
    <3>3. m = Head(d)
      BY <2>1 DEF d
    <3>. QED
      BY <3>2, <3>3
  <2>9. pipe = Pipe(app[u].conn)' /\ (Pending(app[u].conn)' => Pending(app[u].conn))
    BY <2>1, <2>2 DEF Pipe, Pending
  <2>10. Stays(u)
    BY <2>1, <2>2, <2>3, <2>4, <2>9 DEF Stays, Calm
  <2>11. Law(a, u, q, served, current, records, pipe, snapshot) /\ (current => served)
    BY DEF Informed, ReadLaw, Abreast
  <2>12. ReadLaw(u)' <=> Law(b, u, Inbox(u)', Served(u)', Abreast(u)', records', Pipe(app[u].conn)', snapshot')
    BY <2>1 DEF ReadLaw, Pipe
  <2>13. Starts(app[u], Inbox(u))' <=> Starts(b, w)
    BY <2>7 DEF Starts, BeginsAt
  <2>14. Carries(Answers) /\ Runs(a) /\ q \in Seq(Answers)
    BY LaneReads
  <2>15. a.mode = "live" => Starts(a, q)
    <3>1. 0 \in 0 .. Len(q)
      BY <2>14, LenProperties
    <3>. QED
      BY <3>1 DEF Starts, BeginsAt
  <2> HIDE DEF d, w, a, b, q, served, current, pipe
  <2>16. CASE Takes(a, b, u, m) /\ b.mode = "live"
    <3>1. Law(b, u, w, served, current, records, pipe, snapshot)
      BY <2>8, <2>11, <2>14, <2>16, TakesLaw
    <3>2. ReadLaw(u)'
      BY <2>2, <2>5, <2>7, <2>9, <2>12, <3>1 DEF Law
    <3>3. Starts(a, q)
      <4>1. CASE a.mode = "live"
        BY <2>15, <4>1
      <4>2. CASE a.mode \in {"joining", "rejoining"} /\ m.type = "welcome"
        <5>1. 1 \in DOMAIN q /\ q[1] = m /\ DOMAIN q = 1 .. Len(q) /\ Len(q) \in Nat
          BY <2>8, <2>14, JoinedPlaces, LenProperties
        <5>2. 1 \in 0 .. Len(q)
          BY <5>1
        <5>. QED
          BY <4>2, <5>1, <5>2 DEF Starts, BeginsAt
      <4>. QED
        BY <2>16, <4>1, <4>2 DEF Takes
    <3>. QED
      BY <2>10, <3>2, <3>3, InformedStays DEF a, q
  <2>17. CASE a.mode # "live" /\ b = a
    <3>1. Law(a, u, <<m>> \o w, served, current, records, pipe, snapshot)
      BY <2>8, <2>11
    <3>2. /\ ReadsWell(a, u, w)
          /\ served => ReadsLog(a, u, w, records)
          /\ Starts(a, w) => Starts(a, <<m>> \o w)
      BY <2>8, <2>14, <3>1, LawSkips
    <3>3. ReadsAll(a, u, <<m>> \o w, records, pipe, snapshot) => ReadsAll(a, u, w, records, pipe, snapshot)
      BY <2>8, <2>14, <2>17, PassedOver
    <3>4. Law(a, u, w, served, current, records, pipe, snapshot)
      BY <3>1, <3>2, <3>3 DEF Law
    <3>5. ReadLaw(u)'
      BY <2>2, <2>5, <2>7, <2>9, <2>12, <2>17, <3>4 DEF Law
    <3>. QED
      BY <2>8, <2>10, <2>13, <2>17, <3>2, <3>5, InformedStays DEF a, q
  <2>. QED
    BY <2>1, <2>16, <2>17 DEF a, b
<1>. QED
  BY <1>1, <1>2

\* A client dials: nothing waits for it, and the slot it takes is nobody else's.
LEMMA DialKeeps ==
  ASSUME LaneTyped, Seated', Held, NEW u \in Client, Dial(u), NEW v \in Client, Informed(v)
  PROVE  Informed(v)'
<1>1. PICK k \in Conn :
         /\ thread[k] = "ended" /\ (who[k] # None => ~Leftover(who[k]) /\ app[who[k]].conn # k)
         /\ app' = [app EXCEPT ![u].conn = k,
                      ![u].mode = IF @ = "solo" THEN "joining" ELSE "rejoining"]
         /\ who' = [who EXCEPT ![k] = u]
         /\ link' = [link EXCEPT ![k] = "open"]
         /\ thread' = [thread EXCEPT ![k] = "claiming"]
         /\ up' = [up EXCEPT ![k] = <<HelloMsg>>]
         /\ down' = [down EXCEPT ![k] = <<>>]
  BY DEF Dial
<1>2. /\ app \in [Client -> Apps] /\ thread \in [Conn -> {"claiming", "routing", "ended"}]
      /\ who \in [Conn -> Client \cup {None}] /\ link \in [Conn -> {"open", "shut", "half"}]
      /\ up \in [Conn -> Seq(Lines)] /\ down \in [Conn -> Seq(Answers)]
  BY DEF LaneTyped, AppsTyped, RoomTyped
<1>3. UNCHANGED <<records, snapshot, roster, sent, bridge, fromHost, taken, via>>
      /\ UNCHANGED <<members, toHost>>
  BY DEF Dial, hostVars, bridgeVars
<1>4. app'[u].conn = k /\ app'[u].mode \in {"joining", "rejoining"}
      /\ (v # u => app'[v] = app[v])
  BY <1>1, <1>2 DEF Apps
<1>5. CASE v = u
  <2>1. ~Routed(k)'
    BY <1>1, <1>2 DEF Seated, Routed
  <2>2. ~Fed(u)'
    BY <1>4, <2>1 DEF Fed, Routed
  <2>3. Inbox(u)' = <<>>
    <3>1. Way(u)' = <<>>
      BY <2>2 DEF Way, Served
    <3>2. down'[app'[u].conn] = <<>>
      BY <1>1, <1>2, <1>4
    <3>. QED
      BY <3>1, <3>2 DEF Inbox
  <2>4. ~Starts(app[u], Inbox(u))'
    BY <1>4, <2>3 DEF Starts, BeginsAt
  <2>. QED
    BY <1>5, <2>4, InformedIdle
<1>6. CASE v # u
  <2>1. Calm(v)
    BY <1>3, Calmly
  <2>2. app[v].mode \in Holding =>
          /\ app[v].conn \in Conn /\ app[v].conn # k
          /\ link'[app[v].conn] = link[app[v].conn] /\ who'[app[v].conn] = who[app[v].conn]
          /\ down'[app[v].conn] = down[app[v].conn]
    <3>1. SUFFICES ASSUME app[v].mode \in Holding, NEW c \in Conn, c = app[v].conn
                   PROVE  c # k
      BY <1>1, <1>2, LaneReads
    <3>2. who[c] = v /\ v # None
      BY <3>1, RelayAssumption DEF Held
    <3>. QED
      BY <1>1, <3>1, <3>2
  <2>3. app[v].mode \in Holding => Pipe(app[v].conn)' = Pipe(app[v].conn) /\ (Pending(app[v].conn)' => Pending(app[v].conn))
    <3>1. SUFFICES ASSUME app[v].mode \in Holding, NEW c \in Conn, c = app[v].conn
                   PROVE  WayUpSame(c)
      <4>1. app[v].mode \in Holding => Pipe(app[v].conn)' = Pipe(app[v].conn) /\ (Pending(app[v].conn)' => Pending(app[v].conn))
        <5>1. SUFFICES ASSUME app[v].mode \in Holding
                       PROVE  Pipe(app[v].conn)' = Pipe(app[v].conn) /\ (Pending(app[v].conn)' => Pending(app[v].conn))
          OBVIOUS
        <5>2. PICK c \in Conn : c = app[v].conn
          BY <2>2, <5>1
        <5>3. WayUpSame(c)
          BY <3>1, <5>1, <5>2
        <5>4. app'[v].conn = c
          BY <1>4, <1>6, <5>2
        <5>. QED
          BY <5>2, <5>3, <5>4 DEF WayUpSame, Pipe, Pending
      <4>. QED
        BY <4>1
    <3>2. app'[u].conn # c
      BY <1>4, <2>2, <3>1
    <3>. QED
      BY <3>2, DialWay
  <2>4. Steadfast(v)
    BY <1>3, <1>4, <1>6, <2>2, <2>3 DEF Steadfast, Routed
  <2>. QED
    BY <2>1, <2>2, <2>4, Untouched
<1>. QED
  BY <1>5, <1>6

-----------------------------------------------------------------------------
(* The steps of the relay and the network.                                 *)

\* The slot c of v is as it was.
SlotSame(c) ==
  /\ link'[c] = link[c] /\ (Routed(c)' <=> Routed(c)) /\ WayUpSame(c) /\ down'[c] = down[c]

\* Nothing happens to v, nor to its slot.
LEMMA SlotUntouched ==
  ASSUME LaneTyped, NEW v \in Client, Informed(v), Calm(v), app'[v] = app[v],
         \A c \in Conn : app[v].mode \in Holding /\ c = app[v].conn => SlotSame(c)
  PROVE  Informed(v)'
<1>1. CASE app[v].mode \notin Holding
  BY <1>1, Untouched DEF Steadfast
<1>2. CASE app[v].mode \in Holding
  <2>1. PICK c \in Conn : c = app[v].conn /\ SlotSame(c)
    BY <1>2, LaneReads
  <2>2. app'[v].conn = c
    BY <2>1
  <2>3. Pipe(app[v].conn)' = Pipe(app[v].conn) /\ (Pending(app[v].conn)' => Pending(app[v].conn))
    BY <2>1, <2>2 DEF SlotSame, WayUpSame, Pipe, Pending
  <2>4. Routed(app[v].conn)' <=> Routed(app[v].conn)
    BY <2>1, <2>2 DEF SlotSame, Routed
  <2>5. link'[app[v].conn] = link[app[v].conn] /\ down'[app[v].conn] = down[app[v].conn]
    BY <2>1 DEF SlotSame
  <2>6. Steadfast(v)
    BY <2>3, <2>4, <2>5 DEF Steadfast
  <2>. QED
    BY <2>5, <2>6, Untouched
<1>. QED
  BY <1>1, <1>2

\* The connection of v is cut, and with it perhaps what was on the way down.
LEMMA Severed ==
  ASSUME LaneTyped, NEW v \in Client, Informed(v), app'[v] = app[v], ~Fed(v)',
         \A c \in Conn : app[v].mode \in Holding /\ c = app[v].conn =>
           WayUpFewer(c) /\ (down'[c] = down[c] \/ down'[c] = <<>>)
  PROVE  Informed(v)'
<1>1. CASE app[v].mode \notin Holding
  BY <1>1, IdleModes
<1>2. CASE app[v].mode \in Holding
  <2>1. PICK c \in Conn : c = app[v].conn /\ WayUpFewer(c) /\ (down'[c] = down[c] \/ down'[c] = <<>>)
    BY <1>2, LaneReads
  <2>2. app'[v].conn = c
    BY <2>1
  <2>3. Stays(v)
    BY <2>1, <2>2 DEF Stays, WayUpFewer, Pending
  <2>4. Way(v)' = <<>> /\ ~Served(v)'
    BY DEF Way, Served
  <2> DEFINE d == down[c] y == Way(v) e == <<>>
  <2>5. /\ Inbox(v) = d \o y /\ Inbox(v)' = down'[c] \o e
        /\ d \in Seq(Answers) /\ y \in Seq(Answers) /\ e \in Seq(Answers) /\ Chat(e)
    BY <1>2, <2>1, <2>2, <2>4, LaneReads DEF Inbox, Chat
  <2>6. CASE down'[c] = d
    <3> HIDE DEF d, y, e
    <3>. QED
      BY <2>3, <2>4, <2>5, <2>6, InformedLoses
  <2>7. CASE down'[c] = <<>>
    <3> DEFINE w == <<>> q == d \o y
    <3>1. w \in Seq(Answers) /\ q \in Seq(Answers) /\ w \o q = q
      <4> HIDE DEF d, y
      <4>1. q \in Seq(Answers)
        BY <2>5, ConcatProperties
      <4> HIDE DEF q
      <4>. QED
        BY <4>1, ConcatEmptySeq
    <3>2. Inbox(v) = w \o q /\ Inbox(v)' = w \o e
      BY <2>5, <2>7, <3>1
    <3> HIDE DEF w, q, e, d, y
    <3>. QED
      BY <2>3, <2>4, <2>5, <3>1, <3>2, InformedLoses
  <2>. QED
    BY <2>1, <2>6, <2>7
<1>. QED
  BY <1>1, <1>2

\* A link breaks, or is found to be broken.
LEMMA BreakKeeps ==
  ASSUME LaneTyped, NEW k \in Conn, Break(k) \/ HalfOpenEnds(k), NEW v \in Client, Informed(v)
  PROVE  Informed(v)'
<1>1. /\ UNCHANGED <<records, snapshot, roster, sent, bridge, fromHost, taken, via>>
      /\ UNCHANGED <<members, who, toHost, app>>
  BY DEF Break, HalfOpenEnds, hostVars, bridgeVars
<1>2. /\ link \in [Conn -> {"open", "shut", "half"}] /\ down \in [Conn -> Seq(Answers)]
      /\ up \in [Conn -> Seq(Lines)]
  BY DEF LaneTyped, RoomTyped
<1>3. \A c \in Conn : c # k => SlotSame(c)
  <2>1. SUFFICES ASSUME NEW c \in Conn, c # k
                 PROVE  SlotSame(c)
    OBVIOUS
  <2>2. CASE Break(k)
    <3>1. WayUpSame(c)
      BY <2>1, <2>2, BreakWay
    <3>. QED
      BY <1>1, <1>2, <2>1, <2>2, <3>1 DEF Break, SlotSame, Routed
  <2>3. CASE HalfOpenEnds(k)
    <3>1. WayUpSame(c)
      BY <1>1, <2>3, WayUpIs DEF HalfOpenEnds
    <3>. QED
      BY <1>1, <1>2, <2>1, <2>3, <3>1 DEF HalfOpenEnds, SlotSame, Routed
  <2>. QED
    BY <2>2, <2>3
<1>4. WayUpFewer(k)
  <2>1. Break(k) => WayUpFewer(k)
    BY BreakWay
  <2>2. HalfOpenEnds(k) => WayUpFewer(k)
    BY <1>1, WayUpIs DEF HalfOpenEnds
  <2>. QED
    BY <2>1, <2>2
<1>5. Calm(v)
  BY <1>1, Calmly
<1>6. CASE app[v].mode \notin Holding \/ app[v].conn # k
  BY <1>1, <1>3, <1>5, <1>6, SlotUntouched
<1>7. CASE app[v].mode \in Holding /\ app[v].conn = k /\ link'[k] = "shut"
  <2>1. ~Fed(v)'
    BY <1>1, <1>7 DEF Fed
  <2>2. down'[k] = down[k] \/ down'[k] = <<>>
    BY <1>2 DEF Break, HalfOpenEnds
  <2>. QED
    BY <1>1, <1>4, <1>7, <2>1, <2>2, Severed
<1>8. CASE app[v].mode \in Holding /\ app[v].conn = k /\ link'[k] # "shut"
  <2>1. Break(k) /\ link'[k] = "half" /\ link[k] = "open" /\ down'[k] = <<>>
    BY <1>2, <1>8 DEF Break, HalfOpenEnds
  <2>2. Fed(v)' <=> Fed(v)
    BY <1>1, <1>8, <2>1 DEF Fed, Routed
  <2>3. Served(v)' <=> Served(v)
    BY <1>1, <1>5, <2>2 DEF Served, Calm
  <2>4. Way(v)' = Way(v)
    <3>1. Stock(v)' = Stock(v)
      BY <1>1, <1>5 DEF Stock, Calm, Kept, ReadOf
    <3>. QED
      BY <1>5, <2>2, <2>3, <3>1 DEF Way, Calm
  <2> DEFINE d == down[k] y == Way(v)
  <2>5. Inbox(v) = d \o y /\ d \in Seq(Answers) /\ y \in Seq(Answers)
    BY <1>8, LaneReads DEF Inbox
  <2>6. Inbox(v)' = <<>> \o y
    BY <1>1, <1>8, <2>1, <2>4 DEF Inbox
  <2>7. <<>> \o y = y
    <3> HIDE DEF y
    <3>. QED
      BY <2>5, ConcatEmptySeq
  <2>8. app'[v] = app[v] /\ records' = records /\ ~Abreast(v)'
    BY <1>1, <1>8, <2>1 DEF Abreast
  <2>9. Stays(v)
    BY <1>1, <1>4, <1>5, <1>8, <2>2 DEF Stays, Calm, WayUpFewer, Pending
  <2>10. Inbox(v)' \in Seq(Answers) /\ Inbox(v) = d \o Inbox(v)'
    BY <2>5, <2>6, <2>7
  <2> HIDE DEF d, y
  <2>. QED
    BY <2>3, <2>5, <2>8, <2>9, <2>10, InformedSkips
<1>. QED
  BY <1>6, <1>7, <1>8

\* A line is routed, or the loop of its connection ends.
LEMMA RouteUpKeeps ==
  ASSUME LaneTyped, NEW k \in Conn, RouteUp(k), NEW v \in Client, Informed(v)
  PROVE  Informed(v)'
<1>1. /\ UNCHANGED <<records, snapshot, roster, sent, bridge, fromHost, taken, via>>
      /\ UNCHANGED <<members, who, down, app>>
  BY DEF RouteUp, hostVars, bridgeVars
<1>2. link \in [Conn -> {"open", "shut", "half"}]
  BY DEF LaneTyped, RoomTyped
<1>3. \A c \in Conn : WayUpFewer(c) /\ (room \/ c # k => WayUpSame(c))
  BY RouteUpWay
<1>4. \A c \in Conn : room \/ c # k => SlotSame(c)
  BY <1>1, <1>2, <1>3 DEF RouteUp, SlotSame, Routed
<1>5. Calm(v)
  BY <1>1, Calmly
<1>6. CASE app[v].mode \notin Holding \/ app[v].conn # k \/ room
  BY <1>1, <1>4, <1>5, <1>6, SlotUntouched
<1>7. CASE app[v].mode \in Holding /\ app[v].conn = k /\ ~room
  <2>1. link'[k] = "shut"
    BY <1>2, <1>7 DEF RouteUp
  <2>2. ~Fed(v)'
    BY <1>1, <1>7, <2>1 DEF Fed
  <2>. QED
    BY <1>1, <1>3, <1>7, <2>2, Severed
<1>. QED
  BY <1>6, <1>7

\* A connection is cleaned up: nobody was fed over it.
LEMMA CleanupKeeps ==
  ASSUME LaneTyped, Seated, Held, NEW k \in Conn, Cleanup(k), NEW v \in Client, Informed(v)
  PROVE  Informed(v)'
<1>1. /\ UNCHANGED <<records, snapshot, roster, sent, bridge, fromHost, taken, via>>
      /\ UNCHANGED <<who, down, link, app>>
      /\ members' = Without(members, {who[k]}) /\ link[k] = "shut" /\ thread[k] = "routing"
  BY DEF Cleanup, hostVars, bridgeVars
<1>2. \A c \in Conn : WayUpSame(c) /\ WayUpFewer(c)
  BY CleanupWay, WayUpIs
<1>3. CASE app[v].mode \notin Holding \/ app[v].conn # k
  <2>1. \A c \in Conn : app[v].mode \in Holding /\ c = app[v].conn => SlotSame(c)
    <3>1. SUFFICES ASSUME NEW c \in Conn, app[v].mode \in Holding, c = app[v].conn
                   PROVE  Routed(c)' <=> Routed(c)
      BY <1>1, <1>2 DEF SlotSame
    <3>2. who[c] = v /\ c # k
      BY <1>3, <3>1 DEF Held
    <3>3. who[k] = v => ~(v \in DOMAIN members /\ members[v] = c)
      BY <1>1, <3>2 DEF Seated, Routed
    <3>. QED
      BY <1>1, <3>2, <3>3 DEF Routed, Without
  <2>2. Calm(v)
    BY <1>1, Calmly
  <2>. QED
    BY <1>1, <2>1, <2>2, SlotUntouched
<1>4. CASE app[v].mode \in Holding /\ app[v].conn = k
  <2>1. ~Fed(v)'
    BY <1>1, <1>4 DEF Fed
  <2>. QED
    BY <1>1, <1>2, <2>1, Severed
<1>. QED
  BY <1>3, <1>4

\* A claim: whoever is let in has nothing waiting for it, and has not been
\* greeted; whoever is denied gives up.
LEMMA ClaimKeeps ==
  ASSUME Prompt, LaneTyped, SlotLaw, NEW k \in Conn, Claim(k), NEW v \in Client, Informed(v)
  PROVE  Informed(v)'
<1>1. /\ UNCHANGED <<records, snapshot, roster, sent, bridge, fromHost, taken, via>>
      /\ UNCHANGED <<who, down, toHost>> /\ thread[k] = "claiming"
  BY DEF Claim, hostVars, bridgeVars
<1>2. /\ app \in [Client -> Apps] /\ link \in [Conn -> {"open", "shut", "half"}]
      /\ up \in [Conn -> Seq(Lines)] /\ fromHost \in Seq(Frames)
  BY DEF LaneTyped, AppsTyped, RoomTyped, BridgeTyped
<1>3. Calm(v)
  BY <1>1, Calmly
<1>4. \A c \in Conn : app[v].mode \in Holding /\ c = app[v].conn => who[c] = v
  BY DEF SlotLaw, Held
<1>5. CASE ~MayJoin(who[k])
  <2>1. /\ link' = [link EXCEPT ![k] = "shut"]
        /\ up' = [up EXCEPT ![k] = <<>>]
        /\ app' = IF app[who[k]].conn = k THEN Lose(who[k]) ELSE app
        /\ UNCHANGED members
    BY <1>5 DEF Claim
  <2>2. CASE v = who[k] /\ app[v].conn = k
    <3>1. app'[v].mode \notin Holding
      BY <1>2, <2>1, <2>2 DEF Lose, Apps, Failed, Holding
    <3>. QED
      BY <3>1, IdleModes
  <2>3. CASE ~(v = who[k] /\ app[v].conn = k)
    <3>1. app'[v] = app[v]
      BY <1>2, <2>1, <2>3 DEF Lose
    <3>2. \A c \in Conn : c # k => WayUpSame(c)
      BY BreakWay
    <3>3. \A c \in Conn : app[v].mode \in Holding /\ c = app[v].conn => SlotSame(c)
      BY <1>1, <1>2, <1>4, <2>1, <2>3, <3>2 DEF SlotSame, Routed
    <3>. QED
      BY <1>3, <3>1, <3>3, SlotUntouched
  <2>. QED
    BY <2>2, <2>3
<1>6. CASE MayJoin(who[k])
  <2> DEFINE u == who[k]
  <2>1. /\ u \notin DOMAIN members /\ ~Leftover(u) /\ members' = With(members, u, k)
        /\ UNCHANGED <<link, up, app>>
    BY <1>6 DEF Claim, MayJoin
  <2>2. CASE app[v].mode \notin Holding \/ app[v].conn # k
    <3>1. \A c \in Conn : app[v].mode \in Holding /\ c = app[v].conn => SlotSame(c)
      <4>1. SUFFICES ASSUME NEW c \in Conn, app[v].mode \in Holding, c = app[v].conn
                     PROVE  SlotSame(c)
        OBVIOUS
      <4>2. WayUpSame(c)
        BY <2>2, <4>1, BreakWay
      <4>3. Routed(c)' <=> Routed(c)
        BY <1>1, <1>4, <2>1, <2>2, <4>1 DEF Routed, With
      <4>. QED
        BY <1>1, <2>1, <4>2, <4>3 DEF SlotSame
    <3>. QED
      BY <1>3, <2>1, <2>2, <3>1, SlotUntouched
  <2>3. CASE app[v].mode \in Holding /\ app[v].conn = k
    <3>1. v = u
      BY <1>4, <2>3
    <3>2. Pending(k)
      <4>1. up[k] = <<HelloMsg>>
        BY <1>1 DEF SlotLaw, Greets
      <4>. QED
        BY <4>1 DEF Pending, Has
    <3>3. ~Starts(app[v], Inbox(v))
      BY <2>3, <3>2 DEF Informed, Unstarted
    <3>4. ~Served(v)'
      BY <1>1, <2>1, <2>3, <3>1, <3>2 DEF SlotLaw, Unwired, Served, clients
    <3>5. Mail(fromHost, v)' = <<>>
      <4>1. \A i \in DOMAIN fromHost : fromHost[i].to # v
        BY <2>1, <3>1 DEF Leftover
      <4>2. Mail(fromHost, v) = <<>>
        BY <1>2, <4>1, NoMail
      <4>. QED
        BY <1>3, <4>2 DEF Calm
    <3>6. ~Fed(v)
      BY <2>1, <2>3, <3>1 DEF Fed, Routed
    <3>7. Way(v) = <<>> /\ Way(v)' = <<>>
      BY <3>4, <3>5, <3>6 DEF Way, Served
    <3>8. Inbox(v)' = Inbox(v)
      BY <1>1, <2>1, <3>7 DEF Inbox
    <3>9. ~Starts(app[v], Inbox(v))'
      BY <2>1, <3>3, <3>8 DEF Starts, BeginsAt
    <3>. QED
      BY <3>9, InformedIdle
  <2>. QED
    BY <2>2, <2>3
<1>. QED
  BY <1>5, <1>6

\* A refusal is written to a user whom the core does not serve.
LEMMA Refused ==
  ASSUME LaneTyped, NEW u \in Client, ~Served(u),
         UNCHANGED <<records, snapshot, roster, sent, bridge, taken, via>>,
         UNCHANGED <<members, who, link, down, app>>,
         \A c \in Conn : WayUpFewer(c) /\ (who[c] # u => WayUpSame(c)),
         fromHost' = Append(fromHost, [to |-> u, msg |-> DeniedMsg]),
         Held, NEW v \in Client, Informed(v)
  PROVE  Informed(v)'
<1>1. /\ fromHost \in Seq(Frames) /\ [to |-> u, msg |-> DeniedMsg] \in Frames
      /\ Mail(fromHost, v) \in Seq(Answers) /\ DeniedMsg \in Answers
  BY LaneReads, MessagesTyped
<1>2. Mail(fromHost, v)' = IF v = u THEN Append(Mail(fromHost, v), DeniedMsg) ELSE Mail(fromHost, v)
  <2>1. Mail(fromHost, v)' = Mail(fromHost', v)
    BY DEF Mail, Addressed
  <2>2. PICK f \in Frames : f = [to |-> u, msg |-> DeniedMsg]
    BY <1>1
  <2>3. f.to = u /\ f.msg = DeniedMsg
    BY <2>2
  <2>4. Mail(Append(fromHost, f), v) = IF f.to = v THEN Append(Mail(fromHost, v), f.msg) ELSE Mail(fromHost, v)
    BY <1>1, MailIs
  <2>. QED
    BY <2>1, <2>2, <2>3, <2>4
<1>3. CASE v # u
  <2>1. Calm(v)
    BY <1>2, <1>3 DEF Calm, clients
  <2>2. \A c \in Conn : app[v].mode \in Holding /\ c = app[v].conn => SlotSame(c)
    BY <1>3 DEF SlotSame, Routed, Held
  <2>. QED
    BY <2>1, <2>2, SlotUntouched
<1>4. CASE v = u /\ app[v].mode \notin Holding
  BY <1>4, IdleModes
<1>5. CASE v = u /\ app[v].mode \in Holding
  <2>1. PICK c \in Conn : c = app[v].conn
    BY <1>5, LaneReads
  <2>2. Fed(v)' <=> Fed(v)
    BY DEF Fed, Routed
  <2>3. ~Served(v) /\ ~Served(v)' /\ ~Abreast(v)'
    BY <1>5, <2>2 DEF Served, Abreast, clients
  <2>4. Stays(v)
    <3>1. Pending(c)' => Pending(c)
      BY DEF WayUpFewer
    <3>. QED
      BY <2>1, <2>2, <3>1 DEF Stays, Pending, clients
  <2> DEFINE d == down[c] f == Mail(fromHost, v) m == DeniedMsg
             e == IF Fed(v) THEN <<m>> ELSE <<>>
  <2>5. d \in Seq(Answers) /\ f \in Seq(Answers) /\ m \in Answers
    BY <1>1, <1>5, <2>1, LaneReads
  <2>6. m.type \notin {"record", "welcome"}
    BY DEF DeniedMsg
  <2>7. Inbox(v) = d \o (IF Fed(v) THEN f ELSE <<>>)
    BY <1>5, <2>1, <2>3 DEF Inbox, Way
  <2>8. Inbox(v)' = d \o (IF Fed(v) THEN Append(f, m) ELSE <<>>)
    BY <1>2, <1>5, <2>1, <2>2, <2>3 DEF Inbox, Way
  <2> HIDE DEF d, f, m
  <2>9. <<m>> \in Seq(Answers) /\ Append(f, m) = f \o <<m>>
    <3>1. AtEnd(Answers, f, m)
      BY <2>5, OneAtEnd
    <3>. QED
      BY <3>1 DEF AtEnd
  <2>10. d \o (f \o <<m>>) = (d \o f) \o <<m>> /\ d \o <<>> = d /\ d \o <<>> = (d \o <<>>) \o <<>>
    <3>1. d \o (f \o <<m>>) = (d \o f) \o <<m>>
      <4>1. InRow(Answers, d, f, <<m>>)
        BY <2>5, <2>9, InARow
      <4>. QED
        BY <4>1 DEF InRow
    <3>. QED
      BY <2>5, <3>1, ConcatEmptySeq
  <2>11. e \in Seq(Answers) /\ Chat(e)
    BY <2>6, <2>9 DEF Chat
  <2>12. Inbox(v)' = Inbox(v) \o e
    BY <2>7, <2>8, <2>9, <2>10
  <2> HIDE DEF e
  <2>. QED
    BY <2>3, <2>4, <2>11, <2>12, InformedChats
<1>. QED
  BY <1>3, <1>4, <1>5

\* A ping is refused.
LEMMA PingRefusedKeeps ==
  ASSUME LaneTyped, Seated, Held, NEW k \in Conn, PingRefused(k), NEW v \in Client, Informed(v)
  PROVE  Informed(v)'
<1>1. /\ UNCHANGED <<records, snapshot, roster, sent, bridge, taken, via>>
      /\ UNCHANGED <<members, who, link, down, app, up, toHost>>
      /\ fromHost' = Append(fromHost, [to |-> who[k], msg |-> DeniedMsg])
      /\ who[k] \notin clients /\ thread[k] = "routing"
  BY DEF PingRefused, hostVars, relayVars, IsConnected
<1>2. who[k] \in Client
  BY <1>1 DEF Seated
<1>3. PICK u \in Client : u = who[k]
  BY <1>2
<1>4. ~Served(u)
  BY <1>1, <1>3 DEF Served
<1>5. \A c \in Conn : WayUpFewer(c) /\ (who[c] # u => WayUpSame(c))
  BY <1>1, WayUpIs
<1>. QED
  BY <1>1, <1>3, <1>4, <1>5, Refused

\* A frame is routed: to its member, behind what it was written; to nobody; or
\* it is a kick, which closes the connections of all members.
LEMMA RouteDownKeeps ==
  ASSUME LaneTyped, Seated, Held, RouteDown, NEW v \in Client, Informed(v)
  PROVE  Informed(v)'
<1> DEFINE h == Head(fromHost) rest == Tail(fromHost)
<1>1. /\ UNCHANGED <<records, snapshot, roster, sent, bridge, taken, via>>
      /\ UNCHANGED <<members, who, app, up, toHost>>
      /\ fromHost # <<>> /\ fromHost' = rest
  BY DEF RouteDown, hostVars
<1>2. /\ app \in [Client -> Apps] /\ link \in [Conn -> {"open", "shut", "half"}]
      /\ down \in [Conn -> Seq(Answers)] /\ fromHost \in Seq(Frames)
  BY DEF LaneTyped, AppsTyped, RoomTyped, BridgeTyped
<1>3. h \in Frames /\ rest \in Seq(Frames)
  BY <1>1, <1>2, HeadTailProperties
<1>4. \A c \in Conn : WayUpSame(c) /\ WayUpFewer(c)
  BY <1>1, WayUpIs
<1>5. Mail(fromHost, v) = (IF h.to = v THEN <<h.msg>> ELSE <<>>) \o Mail(rest, v)
      /\ Mail(rest, v) \in Seq(Answers) /\ h.msg \in Answers
  <2>1. Mail(fromHost, v) = (IF h.to = v THEN <<h.msg>> ELSE <<>>) \o Mail(rest, v)
    BY <1>1, <1>2, MailParts
  <2>2. Mail(rest, v) \in Seq(Answers)
    BY <1>3, MailIs
  <2>3. h.msg \in Answers
    BY <1>3, MessagesTyped
  <2>. QED
    BY <2>1, <2>2, <2>3
<1>6. Mail(fromHost, v)' = Mail(rest, v)
  BY <1>1 DEF Mail, Addressed
<1>7. \A c \in Conn : Routed(c)' <=> Routed(c)
  BY <1>1 DEF Routed
<1>8. v # None
  BY RelayAssumption
<1>9. \/ /\ h = KickMsg
         /\ link' = [k \in Conn |-> IF \E u \in DOMAIN members : members[u] = k THEN "shut" ELSE link[k]]
         /\ UNCHANGED down
      \/ /\ h # KickMsg /\ h.to \in DOMAIN members /\ Push(members[h.to], h.msg) /\ UNCHANGED link
      \/ /\ h # KickMsg /\ h.to \notin DOMAIN members /\ UNCHANGED <<down, link>>
  BY DEF RouteDown
<1> HIDE DEF h, rest
<1>10. CASE h = KickMsg
  <2>1. ~Fed(v)'
    <3>1. SUFFICES ASSUME app[v].mode \in Holding, NEW c \in Conn, c = app[v].conn, Routed(c), link'[c] # "shut"
                   PROVE  FALSE
      BY <1>1, <1>7, LaneReads DEF Fed
    <3>. QED
      BY <1>9, <1>10, <3>1 DEF Routed
  <2>. QED
    BY <1>1, <1>4, <1>9, <1>10, <2>1, Severed
<1>11. CASE h # KickMsg /\ h.to # v
  <2>1. Mail(fromHost, v)' = Mail(fromHost, v)
    BY <1>5, <1>6, <1>11, ConcatEmptySeq
  <2>2. Calm(v)
    BY <1>1, <2>1 DEF Calm, clients
  <2>3. \A c \in Conn : app[v].mode \in Holding /\ c = app[v].conn => SlotSame(c)
    <3>1. SUFFICES ASSUME NEW c \in Conn, app[v].mode \in Holding, c = app[v].conn
                   PROVE  link'[c] = link[c] /\ down'[c] = down[c]
      BY <1>4, <1>7 DEF SlotSame
    <3>2. who[c] = v
      BY <3>1 DEF Held
    <3>3. h.to \in DOMAIN members => members[h.to] # c
      BY <1>11, <3>2 DEF Seated
    <3>. QED
      BY <1>2, <1>9, <1>11, <3>3 DEF Push
  <2>. QED
    BY <1>1, <2>2, <2>3, SlotUntouched
<1>12. CASE h # KickMsg /\ h.to = v /\ app[v].mode \notin Holding
  BY <1>1, <1>12, IdleModes
<1>13. CASE h # KickMsg /\ h.to = v /\ app[v].mode \in Holding
  <2>1. PICK c \in Conn : c = app[v].conn
    BY <1>13, LaneReads
  <2>2. link' = link
    BY <1>9, <1>13
  <2>3. (Fed(v)' <=> Fed(v))
    BY <1>1, <2>2 DEF Fed, Routed
  <2>4. (Served(v)' <=> Served(v)) /\ (Abreast(v)' <=> Abreast(v))
    BY <1>1, <2>2, <2>3 DEF Served, Abreast, clients
  <2> DEFINE d == down[c] f1 == Mail(rest, v) z == Kept(sent[v], taken[v]) m == h.msg
  <2>5. d \in Seq(Answers) /\ f1 \in Seq(Answers) /\ z \in Seq(Answers) /\ m \in Answers
    BY <1>5, <1>13, <2>1, LaneReads
  <2>6. Inbox(v) = d \o (IF Served(v) THEN (<<m>> \o f1) \o z ELSE IF Fed(v) THEN <<m>> \o f1 ELSE <<>>)
    BY <1>5, <1>13, <2>1 DEF Inbox, Way, Stock
  <2>7. Inbox(v)' = down'[c] \o (IF Served(v) THEN f1 \o z ELSE IF Fed(v) THEN f1 ELSE <<>>)
    <3>1. Kept(sent[v], taken[v])' = z
      BY <1>1 DEF Kept, ReadOf
    <3>. QED
      BY <1>1, <1>6, <1>13, <2>1, <2>3, <2>4, <3>1 DEF Inbox, Way, Stock
  <2>8. Fed(v) => down'[c] = Append(d, m)
    <3>1. SUFFICES ASSUME Fed(v)
                   PROVE  down'[c] = Append(d, m)
      OBVIOUS
    <3>2. Routed(c) /\ link[c] # "shut"
      BY <1>13, <2>1, <3>1 DEF Fed
    <3>3. v \in DOMAIN members /\ members[v] = c
      BY <1>13, <2>1, <3>2 DEF Routed, Held
    <3>4. Push(c, m)
      BY <1>9, <1>13, <3>3
    <3>. QED
      BY <1>2, <3>2, <3>4 DEF Push
  <2>9. ~Fed(v) => down'[c] = d
    <3>1. SUFFICES ASSUME ~Fed(v), v \in DOMAIN members, Push(members[v], h.msg)
                   PROVE  down'[c] = d
      BY <1>9, <1>13
    <3>2. members[v] # c \/ link[c] = "shut"
      BY <1>13, <2>1, <3>1 DEF Fed, Routed, Held
    <3>. QED
      BY <1>2, <3>1, <3>2 DEF Push
  <2> HIDE DEF d, f1, z, m
  <2>10. Inbox(v)' = Inbox(v)
    <3>1. CASE ~Fed(v)
      BY <2>6, <2>7, <2>9, <3>1 DEF Served
    <3>a. AtEnd(Answers, d, m)
      BY <2>5, OneAtEnd
    <3>b. InRow(Answers, <<m>>, f1, z) /\ InRow(Answers, d, <<m>>, f1)
      BY <2>5, <3>a, InARow DEF AtEnd
    <3>c. InRow(Answers, d, <<m>>, f1 \o z)
      <4>1. f1 \o z \in Seq(Answers) /\ <<m>> \in Seq(Answers)
        BY <3>a, <3>b DEF InRow, AtEnd
      <4>. QED
        BY <2>5, <4>1, InARow
    <3>2. Append(d, m) = d \o <<m>>
      BY <3>a DEF AtEnd
    <3>3. d \o (<<m>> \o f1) = (d \o <<m>>) \o f1
      BY <3>b, Zenon DEF InRow
    <3>4. (<<m>> \o f1) \o z = <<m>> \o (f1 \o z)
      BY <3>b, Zenon DEF InRow
    <3>5. d \o (<<m>> \o (f1 \o z)) = (d \o <<m>>) \o (f1 \o z)
      BY <3>c, Zenon DEF InRow
    <3>6. CASE Fed(v)
      BY <2>6, <2>7, <2>8, <3>2, <3>3, <3>4, <3>5, <3>6
    <3>. QED
      BY <3>1, <3>6
  <2>11. Stays(v) /\ Pipe(app[v].conn)' = Pipe(app[v].conn)
    <3>1. Pipe(c)' = Pipe(c) /\ (Pending(c)' => Pending(c))
      BY <1>4 DEF WayUpSame
    <3>. QED
      BY <1>1, <2>1, <2>3, <3>1 DEF Stays, Pending, Pipe, clients
  <2>. QED
    BY <1>1, <2>4, <2>10, <2>11, InformedSame
<1>. QED
  BY <1>10, <1>11, <1>12, <1>13

\* The room closes behind the host: what it had written is routed.
LEMMA RoomClosesKeeps ==
  ASSUME LaneTyped, RoomCloses, NEW v \in Client, Informed(v)
  PROVE  Informed(v)'
<1>1. /\ UNCHANGED <<records, snapshot, roster, sent, bridge, taken, via, fromHost>>
      /\ UNCHANGED <<who, app, up, toHost, link>>
      /\ fromHost = <<>> /\ ~bridge /\ members' = Without(members, DOMAIN members)
  BY DEF RoomCloses, hostVars, bridgeVars
<1>2. CASE app[v].mode \notin Holding
  BY <1>1, <1>2, IdleModes
<1>3. CASE app[v].mode \in Holding
  <2>1. PICK c \in Conn : c = app[v].conn
    BY <1>3, LaneReads
  <2>2. ~Fed(v)' /\ ~Served(v) /\ ~Served(v)' /\ ~Abreast(v)'
    BY <1>1 DEF Fed, Routed, Without, Served, Abreast
  <2>3. Way(v) = <<>> /\ Way(v)' = <<>>
    <3>1. Mail(fromHost, v) = <<>>
      BY <1>1, LaneReads, MailIs
    <3>. QED
      BY <2>2, <3>1 DEF Way
  <2>4. Stays(v)
    BY <1>1, <2>2 DEF Stays, Pending
  <2> DEFINE d == down[c] e == <<ClosedMsg>> o == <<>>
  <2>5. d \in Seq(Answers) /\ e \in Seq(Answers) /\ o \in Seq(Answers) /\ Chat(e) /\ Chat(o)
        /\ d \o o = d /\ Append(d, ClosedMsg) = d \o e
    <3>1. ClosedMsg \in Answers /\ d \in Seq(Answers)
      BY <1>3, <2>1, LaneReads, MessagesTyped
    <3>2. Chat(e) /\ Chat(o)
      BY DEF Chat, ClosedMsg
    <3> HIDE DEF d
    <3>. QED
      BY <3>1, <3>2, AppendIsConcat, ConcatEmptySeq
  <2>6. Inbox(v) = d \o o
    BY <1>3, <2>1, <2>3 DEF Inbox
  <2>7. down'[c] = d \/ down'[c] = Append(d, ClosedMsg)
    BY DEF RoomCloses
  <2>8. Inbox(v)' = down'[c] \o o
    BY <1>1, <1>3, <2>1, <2>3 DEF Inbox
  <2>9. Inbox(v)' = Inbox(v) \o e \/ Inbox(v)' = Inbox(v) \o o
    <3>1. (d \o e) \o o = d \o e
      <4>1. d \o e \in Seq(Answers)
        <5> HIDE DEF d, e
        <5>. QED
          BY <2>5, ConcatProperties
      <4> DEFINE q == d \o e
      <4> HIDE DEF q
      <4>2. q \in Seq(Answers)
        BY <4>1 DEF q
      <4>3. q \o o = q
        BY <4>2, ConcatEmptySeq
      <4>. QED
        BY <4>3 DEF q
    <3> HIDE DEF d, e, o
    <3>. QED
      BY <2>5, <2>6, <2>7, <2>8, <3>1
  <2> HIDE DEF d, e, o
  <2>10. CASE Inbox(v)' = Inbox(v) \o e
    BY <1>1, <2>2, <2>4, <2>5, <2>10, InformedChats
  <2>11. CASE Inbox(v)' = Inbox(v) \o o
    BY <1>1, <2>2, <2>4, <2>5, <2>11, InformedChats
  <2>. QED
    BY <2>9, <2>10, <2>11
<1>. QED
  BY <1>2, <1>3

\* The host's link breaks: the end of what it wrote is lost.
LEMMA HostLinkKeeps ==
  ASSUME LaneTyped, LaneTyped', HostLinkBreaks, NEW v \in Client, Informed(v)
  PROVE  Informed(v)'
<1>1. /\ UNCHANGED <<records, snapshot, roster, sent, taken, via>>
      /\ UNCHANGED <<who, app, up, toHost, link, down, members>> /\ ~bridge'
  BY DEF HostLinkBreaks, hostVars, relayVars
<1>2. PICK n \in 0 .. Len(fromHost) : fromHost' = SubSeq(fromHost, 1, n)
  BY DEF HostLinkBreaks
<1>3. PICK y \in Seq(Answers) : Mail(fromHost, v) = Mail(SubSeq(fromHost, 1, n), v) \o y
  BY MailParts DEF LaneTyped, BridgeTyped
<1>4. Mail(fromHost, v)' = Mail(SubSeq(fromHost, 1, n), v)
  BY <1>2 DEF Mail, Addressed
<1>5. Stays(v) /\ ~Served(v)'
  BY <1>1 DEF Stays, Served, Fed, Routed, Pending, clients
<1>. QED
  BY <1>1, <1>3, <1>4, <1>5, Deserted

-----------------------------------------------------------------------------
(* The steps of the core.                                                  *)

\* Gossip is not read: whoever is sent nothing else has waiting what it had.
LEMMA GossipKeeps ==
  ASSUME LaneTyped, LaneTyped', Bridging, bridge, Welcomes, NoQueue, Held,
         NEW v \in Client, Informed(v),
         NEW fresh \in SUBSET Client, NEW users \in SUBSET Client, Turn(fresh, users), v \notin fresh,
         via'[v] = via[v], v \in clients' <=> v \in clients,
         NEW t, Gossip(v, t), UNCHANGED <<records, snapshot>>,
         \A c \in Conn : who[c] = v => WayUpSame(c)
  PROVE  Informed(v)'
<1>0. app'[v] = app[v]
  BY DEF Bridging
<1>1. CASE app[v].mode \notin Holding
  BY <1>0, <1>1, IdleModes
<1>2. CASE app[v].mode \in Holding
  <2>1. /\ t \in Seq(HostMessage) /\ sent'[v] = sent[v] \o t /\ (v \notin clients => t = <<>>)
        /\ \A i \in DOMAIN t : t[i].type = "roster"
    BY DEF Gossip
  <2>2. \A i \in DOMAIN t : t[i].type # "welcome" /\ ~Relevant(t[i])
    BY <2>1 DEF Relevant
  <2>3. ~Starts(app[v], Inbox(v))' \/ Inbox(v)' = IF Served(v) THEN Inbox(v) \o Kept(t, 0) ELSE Inbox(v)
    BY <1>2, <2>1, <2>2, CoreReads
  <2>4. Kept(t, 0) = <<>>
    BY <2>1, <2>2, KeptAll
  <2>5. Inbox(v) \o <<>> = Inbox(v)
    BY LaneReads, ConcatEmptySeq
  <2>6. ~Starts(app[v], Inbox(v))' \/ Inbox(v)' = Inbox(v)
    BY <2>3, <2>4, <2>5
  <2>7. (Served(v)' <=> Served(v)) /\ (Abreast(v)' <=> Abreast(v)) /\ Stays(v)
    BY <1>2, BridgingFeeds
  <2>8. Pipe(app[v].conn)' = Pipe(app[v].conn)
    <3>1. PICK c \in Conn : c = app[v].conn
      BY <1>2, LaneReads
    <3>2. who[c] = v
      BY <1>2, <3>1 DEF Held
    <3>3. Pipe(c)' = Pipe(c)
      BY <3>2 DEF WayUpSame
    <3>. QED
      BY <1>0, <3>1, <3>3 DEF Pipe
  <2>. QED
    BY <1>0, <2>6, <2>7, <2>8, InformedIdle, InformedSame
<1>. QED
  BY <1>1, <1>2

\* A client that leaves the core has waiting what was written to it.
LEMMA DroppedKeeps ==
  ASSUME LaneTyped, LaneTyped', Bridging, NEW v \in Client, Informed(v),
         NEW fresh \in SUBSET Client, NEW users \in SUBSET Client, Turn(fresh, users), v \in fresh,
         via'[v] = via[v], v \notin clients', sent'[v] = <<>>
  PROVE  Informed(v)'
<1>1. Mail(fromHost, v)' = Mail(fromHost, v)
  <2>1. Begun(fresh)[v] = 0
    BY DEF Begun
  <2>2. Kept(<<>>, 0) = <<>>
    BY EmptySeq, KeptIs
  <2>3. Mail(fromHost', v) = Mail(fromHost, v) \o <<>>
    <3>1. Mail(fromHost', v) = Mail(fromHost, v) \o
              (IF v \in users THEN Kept(sent'[v], Begun(fresh)[v]) ELSE <<>>)
      BY StockAfter DEF Turn, LaneTyped
    <3>. QED
      BY <2>1, <2>2, <3>1
  <2>4. Mail(fromHost, v)' = Mail(fromHost', v)
    BY DEF Mail, Addressed
  <2>. QED
    BY <2>3, <2>4, LaneReads, ConcatEmptySeq
<1>2. ~Served(v)' /\ app'[v] = app[v] /\ (Fed(v)' <=> Fed(v))
      /\ (app[v].mode \in Holding => down'[app[v].conn] = down[app[v].conn])
  BY BridgingFeeds DEF Served
<1>3. CASE app[v].mode \notin Holding
  BY <1>2, <1>3, IdleModes
<1>4. CASE app[v].mode \in Holding
  <2>1. Stays(v)
    BY <1>4, BridgingFeeds
  <2>2. <<>> \in Seq(Answers) /\ Mail(fromHost, v) = Mail(fromHost, v)' \o <<>>
    BY <1>1, LaneReads, ConcatEmptySeq
  <2>. QED
    BY <1>2, <2>1, <2>2, Deserted
<1>. QED
  BY <1>3, <1>4

\* One turn of the bridge's pump.
LEMMA PumpKeeps ==
  ASSUME LaneTyped, LaneTyped', Welcomes, NoQueue, Held, Pump, NEW v \in Client, Informed(v)
  PROVE  Informed(v)'
<1>1. /\ bridge /\ UNCHANGED <<relayVars, bridge, toHost, relay_users, via, app>>
  BY DEF Pump
<1>2. \A c \in Conn : WayUpSame(c) /\ WayUpFewer(c)
  BY <1>1, WayUpIs DEF relayVars
<1>3. Bridging
  BY <1>1, <1>2 DEF Bridging, relayVars
<1>4. relay_users \in SUBSET Client /\ IsFiniteSet(relay_users) /\ TypeOK
  BY DEF LaneTyped, BridgeTyped
<1>5. CASE StaleClients # {}
  <2> DEFINE S == StaleClients
  <2>1. S \in SUBSET Client /\ DropClients(S) /\ Turn(S, relay_users)
    <3>1. S \subseteq clients /\ clients \subseteq Client
      BY <1>4, ClientsFacts DEF StaleClients
    <3>. QED
      BY <1>4, <1>5, <3>1 DEF Pump, Turn
  <2>2. clients' = clients \ S
    BY <1>4, <2>1, ClientsAfter
  <2>3. UNCHANGED <<records, snapshot>>
    BY <2>1 DEF DropClients
  <2> HIDE DEF S
  <2>4. CASE v \in S
    <3>1. sent'[v] = <<>>
      BY <1>4, <2>1, <2>4, CoreSends
    <3>. QED
      BY <1>1, <1>3, <1>4, <2>1, <2>2, <2>4, <3>1, DroppedKeeps
  <2>5. CASE v \notin S
    <3>1. PICK t : Gossip(v, t)
      BY <1>4, <2>1, <2>5, CoreSends
    <3>. QED
      BY <1>1, <1>2, <1>3, <1>4, <2>1, <2>2, <2>3, <2>5, <3>1, GossipKeeps
  <2>. QED
    BY <2>4, <2>5
<1>6. CASE StaleClients = {}
  <2>1. UNCHANGED hostVars /\ Turn({}, relay_users)
    BY <1>4, <1>6 DEF Pump, Turn
  <2>2. UNCHANGED <<records, snapshot, sent>> /\ (v \in clients' <=> v \in clients)
    BY <2>1 DEF hostVars, clients
  <2>3. Gossip(v, <<>>)
    BY <1>4, <2>2, CoreSends
  <2>. QED
    BY <1>1, <1>2, <1>3, <1>4, <2>1, <2>2, <2>3, GossipKeeps
<1>. QED
  BY <1>5, <1>6

\* The host opens another document: nobody is served any more.
LEMMA SwapKeeps ==
  ASSUME LaneTyped, LaneTyped', SwapDocument, NEW v \in Client, Informed(v)
  PROVE  Informed(v)'
<1>1. /\ UNCHANGED <<relayVars, bridge, toHost, via, app>>
      /\ fromHost' = Append(fromHost, KickMsg) /\ Reseed(<<>>)
  BY DEF SwapDocument
<1>2. clients' = {}
  BY <1>1, ClientsAfter DEF LaneTyped
<1>3. ~Served(v)' /\ app'[v] = app[v] /\ Stays(v)
      /\ (app[v].mode \in Holding => down'[app[v].conn] = down[app[v].conn])
  BY <1>1, <1>2 DEF Served, Stays, Fed, Routed, Pending, relayVars
<1>4. Mail(fromHost, v)' = Mail(fromHost, v)
  <2>1. KickMsg \in Frames /\ KickMsg.to # v
    BY MessagesTyped, RelayAssumption DEF KickMsg
  <2>2. Mail(Append(fromHost, KickMsg), v) = Mail(fromHost, v)
    BY <2>1, LaneReads, MailIs
  <2>. QED
    BY <1>1, <2>2 DEF Mail, Addressed
<1>5. <<>> \in Seq(Answers) /\ Mail(fromHost, v) = Mail(fromHost, v)' \o <<>>
  BY <1>4, LaneReads, ConcatEmptySeq
<1>. QED
  BY <1>3, <1>5, Deserted

\* The core logs a record of somebody else: whoever is served will read it.
LEMMA NewsKeeps ==
  ASSUME LaneTyped, LaneTyped', Bridging, bridge, Welcomes, NoQueue, Held,
         NEW v \in Client, Informed(v),
         NEW users \in SUBSET Client, Turn({}, users),
         via'[v] = via[v], v \in clients' <=> v \in clients,
         NEW r \in Record, sent'[v] = sent[v] \o (IF v \in clients THEN <<RecordMsg(r)>> ELSE <<>>),
         records' = Append(records, r), snapshot' = snapshot,
         r.user_id # v, ~HasId(records, r.action_id),
         \A n \in DOMAIN app[v].runtime :
           app[v].runtime[n].user_id = v => app[v].runtime[n].action_id # r.action_id,
         \A c \in Conn : who[c] = v => WayUpSame(c)
  PROVE  Informed(v)'
<1>0. app'[v] = app[v]
  BY DEF Bridging
<1>1. CASE app[v].mode \notin Holding
  BY <1>0, <1>1, IdleModes
<1>2. CASE app[v].mode \in Holding
  <2> DEFINE m == RecordMsg(r) t == IF v \in clients THEN <<m>> ELSE <<>>
  <2>1. m \in HostMessage /\ m \in Answers /\ m.type = "record" /\ <<m>> \in Seq(HostMessage)
    BY RecordMsgFacts, MessagesTyped DEF RecordMsg, HostMessage
  <2>2. /\ t \in Seq(HostMessage) /\ sent'[v] = sent[v] \o t /\ (v \notin clients => t = <<>>)
        /\ \A i \in DOMAIN t : t[i].type = "record"
    BY <2>1
  <2>3. \A i \in DOMAIN t : t[i].type # "welcome" /\ Relevant(t[i])
    BY <2>2 DEF Relevant
  <2>4. {} \in SUBSET Client /\ v \notin {}
    OBVIOUS
  <2> HIDE DEF t, m
  <2>5. ~Starts(app[v], Inbox(v))' \/ Inbox(v)' = IF Served(v) THEN Inbox(v) \o Kept(t, 0) ELSE Inbox(v)
    BY <1>2, <2>2, <2>3, <2>4, CoreReads
  <2>6. Kept(t, 0) = t
    BY <2>2, <2>3, KeptAll
  <2>7. (Served(v)' <=> Served(v)) /\ (Abreast(v)' <=> Abreast(v)) /\ Stays(v)
    BY <1>2, BridgingFeeds
  <2>8. Pipe(app[v].conn)' = Pipe(app[v].conn)
    <3>1. PICK c \in Conn : c = app[v].conn
      BY <1>2, LaneReads
    <3>2. who[c] = v
      BY <1>2, <3>1 DEF Held
    <3>3. Pipe(c)' = Pipe(c)
      BY <3>2 DEF WayUpSame
    <3>. QED
      BY <1>0, <3>1, <3>3 DEF Pipe
  <2>9. CASE ~Starts(app[v], Inbox(v))'
    BY <2>9, InformedIdle
  <2>10. CASE ~Served(v) /\ Inbox(v)' = Inbox(v)
    <3>1. ~Served(v)' /\ ~Abreast(v)'
      BY <2>7, <2>10 DEF Abreast
    <3>. QED
      BY <1>0, <2>7, <2>10, <3>1, InformedSame
  <2>11. CASE Served(v) /\ Inbox(v)' = Inbox(v) \o t
    <3> DEFINE q == Inbox(v) a == app[v] current == Abreast(v) pipe == Pipe(app[v].conn) log == records
    <3>1. t = <<m>>
      BY <2>11 DEF Served, t
    <3>2. q \in Seq(Answers) /\ Carries(Answers) /\ Runs(a) /\ log \in Seq(Record)
      BY LaneReads DEF LaneTyped, TypeOK
    <3>3. Inbox(v)' = Append(q, m)
      <4>1. Append(q, m) = q \o <<m>>
        <5> HIDE DEF q
        <5>. QED
          BY <2>1, <3>2, AppendIsConcat
      <4>. QED
        BY <2>11, <3>1, <4>1
    <3>4. /\ ReadsWell(a, v, q) /\ ReadsLog(a, v, q, log)
          /\ current => ReadsAll(a, v, q, log, pipe, snapshot)
      BY <2>11 DEF Informed, ReadLaw, Law
    <3>5. ReadLaw(v)' <=> Law(a, v, Inbox(v)', Served(v)', Abreast(v)', records', Pipe(app[v].conn)', snapshot')
      BY <1>0 DEF ReadLaw
    <3>6. Starts(app[v], Inbox(v))' => Starts(app[v], Inbox(v))
      <4>1. <<m>> \in Seq(Answers) /\ \A i \in DOMAIN <<m>> : <<m>>[i].type # "welcome"
        BY <2>1
      <4>2. ~Starts(a, q) => ~Starts(a, q \o <<m>>)
        <5> HIDE DEF q, a
        <5>. QED
          BY <3>2, <4>1, StartsStill
      <4>3. Starts(app[v], Inbox(v))' <=> Starts(a, Inbox(v)')
        BY <1>0 DEF Starts, BeginsAt
      <4>. QED
        BY <2>11, <3>1, <4>2, <4>3
    <3>7. /\ ReadsWell(a, v, Append(q, m))
          /\ ReadsLog(a, v, Append(q, m), Append(log, r))
          /\ current => ReadsAll(a, v, Append(q, m), Append(log, r), pipe, snapshot)
      <4>1. RecordMsg(r) \in Answers /\ ~HasId(log, r.action_id)
        BY <2>1 DEF m
      <4>2. \A n \in DOMAIN a.runtime : a.runtime[n].user_id = v => a.runtime[n].action_id # r.action_id
        OBVIOUS
      <4> HIDE DEF q, a, log, current, pipe
      <4>3. /\ ReadsWell(a, v, Append(q, RecordMsg(r)))
            /\ ReadsLog(a, v, Append(q, RecordMsg(r)), Append(log, r))
            /\ ReadsAll(a, v, q, log, pipe, snapshot) =>
                 ReadsAll(a, v, Append(q, RecordMsg(r)), Append(log, r), pipe, snapshot)
        BY <3>2, <3>4, <4>1, <4>2, ForeignReads
      <4>. QED
        BY <3>4, <4>3 DEF m
    <3>8. Law(a, v, Append(q, m), Served(v)', current, Append(log, r), pipe, snapshot)
      BY <3>7 DEF Law
    <3>9. ReadLaw(v)'
      <4> HIDE DEF q, a
      <4>. QED
        BY <2>7, <2>8, <3>3, <3>5, <3>8 DEF Law
    <3>. QED
      BY <2>7, <3>6, <3>9, InformedStays
  <2>. QED
    BY <2>5, <2>6, <2>9, <2>10, <2>11
<1>. QED
  BY <1>1, <1>2

\* The host edits, and its core logs the record.
LEMMA HostEditKeeps ==
  ASSUME LaneTyped, LaneTyped', Welcomes, NoQueue, Held, Authored, HostEdit,
         NEW v \in Client, Informed(v)
  PROVE  Informed(v)'
<1> DEFINE r == Mint(Host)
<1>1. /\ bridge /\ UNCHANGED <<relayVars, bridgeVars, app>>
      /\ HandleLocal(r) /\ minted + 1 \in ActionId
  BY DEF HostEdit
<1>2. \A c \in Conn : WayUpSame(c) /\ WayUpFewer(c)
  BY <1>1, WayUpIs DEF relayVars, bridgeVars
<1>3. Bridging /\ via'[v] = via[v]
  BY <1>1, <1>2 DEF Bridging, relayVars, bridgeVars
<1>4. Turn({}, {}) /\ {} \in SUBSET Client
  BY <1>1 DEF Turn, bridgeVars
<1>5. r \in Record /\ r.action_id = minted + 1 /\ r.user_id = Host /\ minted \in Nat
  BY <1>1 DEF Mint, Record, User, Authored
<1>6. Host # v
  BY ConstAssumption
<1>7. records' = Append(records, r) /\ snapshot' = snapshot /\ (v \in clients' <=> v \in clients)
  BY <1>1 DEF HandleLocal, clients
<1>8. sent'[v] = sent[v] \o (IF v \in clients THEN <<RecordMsg(r)>> ELSE <<>>)
  BY <1>1, <1>5, CoreSends DEF LaneTyped
<1>9. \A x \in Record : Around(x) => x.action_id # minted + 1
  BY <1>5 DEF Authored
<1>10. ~HasId(records, r.action_id)
  <2>1. \A n \in DOMAIN records : records[n] \in Record /\ Around(records[n])
    BY DEF LaneTyped, TypeOK, Around, Has
  <2>. QED
    BY <1>5, <1>9, <2>1 DEF HasId
<1>11. \A n \in DOMAIN app[v].runtime : app[v].runtime[n].user_id = v => app[v].runtime[n].action_id # r.action_id
  <2>1. \A n \in DOMAIN app[v].runtime : app[v].runtime[n] \in Record /\ Around(app[v].runtime[n])
    BY LaneReads DEF Around, Has, Runs
  <2>. QED
    BY <1>5, <1>9, <2>1
<1> HIDE DEF r
<1>12. r.user_id # v
  BY <1>5, <1>6
<1>. QED
  BY <1>1, <1>2, <1>3, <1>4, <1>5, <1>7, <1>8, <1>10, <1>11, <1>12, NewsKeeps

\* A notice is read: its user leaves the core.
LEMMA LeftKeeps ==
  ASSUME LaneTyped, LaneTyped', Bridging, bridge, Welcomes, NoQueue, Held,
         NEW u \in Client, LeaveBridge(u), \A c \in Conn : WayUpSame(c),
         NEW v \in Client, Informed(v)
  PROVE  Informed(v)'
<1>1. /\ relay_users' \in SUBSET Client /\ Turn({u}, relay_users') /\ {u} \in SUBSET Client
      /\ DropClients({u}) /\ via' = via /\ TypeOK
  BY UsersFinite DEF LeaveBridge, Turn, LaneTyped
<1>2. clients' = clients \ {u} /\ UNCHANGED <<records, snapshot>>
  BY <1>1, ClientsAfter DEF DropClients
<1>3. PICK users \in SUBSET Client : users = relay_users'
  BY <1>1
<1>4. Turn({u}, users)
  BY <1>1, <1>3 DEF Turn
<1>5. CASE v = u
  <2>1. sent'[v] = <<>>
    BY <1>1, <1>5, CoreSends
  <2>. QED
    BY <1>1, <1>2, <1>4, <1>5, <2>1, DroppedKeeps
<1>6. CASE v # u
  <2>1. PICK t : Gossip(v, t)
    BY <1>1, <1>6, CoreSends
  <2>. QED
    BY <1>1, <1>2, <1>4, <1>6, <2>1, GossipKeeps
<1>. QED
  BY <1>5, <1>6

\* The Hello of connection k is read: its client will read the log.
LEMMA GreetedKeeps ==
  ASSUME LaneTyped, LaneTyped', Bridging, bridge, SlotLaw,
         NoDuplicateIds(records),
         NEW u \in Client, Informed(u), NEW k \in Conn, who[k] = u, Pending(k), ~Pending(k)', Pipe(k)' = {},
         u \in DOMAIN members => members[u] = k,
         NEW users \in SUBSET Client, u \in users, Turn({u}, users),
         NEW n \in Name, HandleHello(u, n), via'[u] = k
  PROVE  Informed(u)'
<1>0. app'[u] = app[u] /\ (Fed(u)' <=> Fed(u)) /\ TypeOK
      /\ (app[u].mode \in Holding => down'[app[u].conn] = down[app[u].conn])
  BY BridgingFeeds DEF LaneTyped
<1>1. CASE app[u].mode \notin Holding
  BY <1>0, <1>1, IdleModes
<1>2. clients' = clients \cup {u} /\ UNCHANGED <<records, snapshot>>
  BY <1>0, ClientsAfter DEF HandleHello
<1>3. CASE app[u].mode \in Holding /\ ~Fed(u)
  <2>1. ~Served(u) /\ ~Served(u)' /\ ~Abreast(u)'
    BY <1>0, <1>3 DEF Served, Abreast
  <2>2. Inbox(u)' = Inbox(u)
    BY <1>0, <1>3, <2>1 DEF Inbox, Way
  <2>3. Stays(u)
    <3>1. app[u].conn \in Conn
      BY <1>3, LaneReads
    <3>2. Pending(app[u].conn)' => Pending(app[u].conn)
      BY <1>0, <3>1 DEF Bridging, WayUpFewer, Pending
    <3>. QED
      BY <1>0, <1>3, <3>2 DEF Stays
  <2>. QED
    BY <1>0, <2>1, <2>2, <2>3, InformedSame
<1>4. CASE app[u].mode \in Holding /\ Fed(u)
  <2>1. app[u].conn = k
    BY <1>4 DEF Fed, Routed, SlotLaw, Held
  <2>2. Served(u)' /\ ~Served(u)
    <3>1. ~Served(u)
      BY <2>1 DEF SlotLaw, Unwired, Served
    <3>2. Served(u)'
      BY <1>0, <1>2, <1>4, <2>1 DEF Served, Bridging
    <3>. QED
      BY <3>1, <3>2
  <2>3. PICK R \in Rosters : sent'[u] = JoinStream(R)
    <3>1. IF u = u THEN \E R \in Rosters : sent'[u] = JoinStream(R) /\ UNCHANGED <<records, snapshot>>
          ELSE \E t : Gossip(u, t)
      BY <1>0, CoreSends
    <3>. QED
      BY <3>1
  <2> DEFINE d == down[k] f == Mail(fromHost, u) js == JoinStream(R) q == Inbox(u) a == app[u]
  <2>4. js \in Seq(HostMessage) /\ Kept(js, 0) = js
    <3>0. /\ js \in Seq(HostMessage) /\ Len(js) = Len(records) + 1
          /\ js[1].type = "welcome"
          /\ \A i \in 1 .. Len(records) : js[i + 1] = RecordMsg(records[i])
      <4>1. /\ JoinStream(R) \in Seq(HostMessage) /\ Len(JoinStream(R)) = Len(records) + 1
            /\ JoinStream(R)[1] = [type |-> "welcome", snapshot |-> snapshot,
                                   log_length |-> Len(records), roster |-> R]
            /\ \A i \in 1 .. Len(records) : JoinStream(R)[i + 1] = RecordMsg(records[i])
        BY <1>0, JoinStreamShape
      <4>. QED
        BY <4>1
    <3>1. DOMAIN js = 1 .. Len(records) + 1 /\ Len(records) \in Nat
      <4>1. Len(records) \in Nat
        BY <1>0 DEF TypeOK
      <4> HIDE DEF js
      <4>. QED
        BY <3>0, <4>1, LenProperties
    <3>2. \A i \in DOMAIN js : Relevant(js[i])
      <4>1. SUFFICES ASSUME NEW i \in DOMAIN js
                     PROVE  Relevant(js[i])
        OBVIOUS
      <4>2. i = 1 \/ (i - 1 \in 1 .. Len(records) /\ (i - 1) + 1 = i)
        BY <3>1
      <4> HIDE DEF js
      <4>3. CASE i = 1
        BY <3>0, <4>3 DEF Relevant
      <4>4. CASE i - 1 \in 1 .. Len(records) /\ (i - 1) + 1 = i
        <5>1. js[i] = RecordMsg(records[i - 1])
          BY <3>0, <4>4
        <5>. QED
          BY <5>1 DEF Relevant, RecordMsg
      <4>. QED
        BY <4>2, <4>3, <4>4
    <3> HIDE DEF js
    <3>. QED
      BY <3>0, <3>2, KeptAll
  <2>5. Stock(u)' = f \o js
    <3>1. PICK fresh \in SUBSET Client : fresh = {u}
      OBVIOUS
    <3>2. u \in fresh /\ Turn(fresh, users)
      BY <3>1
    <3>3. Stock(u)' = Mail(fromHost, u) \o Kept(sent'[u], 0)
      BY <3>2, StockAfter DEF Turn, LaneTyped
    <3>. QED
      BY <2>3, <2>4, <3>3
  <2>6. d \in Seq(Answers) /\ f \in Seq(Answers) /\ js \in Seq(Answers) /\ q \in Seq(Answers)
        /\ Carries(Answers) /\ Runs(a) /\ HostMessage \subseteq Answers
    <3>1. js \in Seq(Answers)
      <4> HIDE DEF js
      <4>. QED
        BY <2>4, MessagesTyped, SeqMonotonic
    <3>. QED
      BY <1>4, <2>1, <3>1, LaneReads, MessagesTyped
  <2>7. q = d \o f
    BY <1>4, <2>1, <2>2 DEF Inbox, Way
  <2>8. Inbox(u)' = d \o (f \o js)
    BY <1>0, <1>4, <2>1, <2>2, <2>5 DEF Inbox, Way
  <2>9. (d \o f) \o js = d \o (f \o js)
    <3> HIDE DEF d, f, js
    <3>1. InRow(Answers, d, f, js)
      BY <2>6, InARow
    <3>. QED
      BY <3>1 DEF InRow
  <2>10. Inbox(u)' = q \o js
    BY <2>7, <2>8, <2>9
  <2>11. \A p \in 0 .. Len(q) : ~BeginsAt(a, q, p)
    BY <1>4, <2>1 DEF Informed, Unstarted, Starts
  <2>12. ReadLaw(u)' <=> Law(a, u, Inbox(u)', Served(u)', Abreast(u)', records', Pipe(app[u].conn)', snapshot')
    BY <1>0 DEF ReadLaw
  <2>13. Pipe(app[u].conn)' = {}
    BY <1>0, <2>1 DEF Pipe
  <2>14. Wired(u)' /\ Unstarted(u)'
    <3>1. ~Pending(app[u].conn)'
      BY <1>0, <2>1 DEF Pending
    <3>. QED
      BY <1>0, <2>1, <3>1 DEF Wired, Unstarted
  <2> HIDE DEF q, a
  <2>15. /\ ReadsWell(a, u, q \o js) /\ ReadsLog(a, u, q \o js, records)
         /\ ReadsAll(a, u, q \o js, records, {}, snapshot)
    BY <1>0, <2>6, <2>11, JoinReads
  <2> HIDE DEF js
  <2>16. ReadLaw(u)'
    BY <1>2, <2>10, <2>12, <2>13, <2>15 DEF Law
  <2>. QED
    BY <2>14, <2>16 DEF Informed
<1>. QED
  BY <1>1, <1>3, <1>4

\* A record of a client is logged: it is no longer on its way.
LEMMA LoggedKeeps ==
  ASSUME LaneTyped, LaneTyped', Bridging, bridge, Welcomes, NoQueue, Held,
         NEW u \in Client, Informed(u), NEW k \in Conn, who[k] = u,
         u \in DOMAIN members => members[u] = k,
         NEW r \in Record, r \in Pipe(k), \A x \in Pipe(k) : x \in Pipe(k)' \/ x = r,
         NEW users \in SUBSET Client, Turn({}, users),
         via'[u] = via[u], u \in clients' <=> u \in clients, sent'[u] = sent[u] \o <<>>,
         records' = Append(records, r), snapshot' = snapshot
  PROVE  Informed(u)'
<1>0. app'[u] = app[u]
  BY DEF Bridging
<1>1. CASE app[u].mode \notin Holding
  BY <1>0, <1>1, IdleModes
<1>2. CASE app[u].mode \in Holding
  <2> DEFINE t == <<>>
  <2>1. /\ t \in Seq(HostMessage) /\ sent'[u] = sent[u] \o t /\ (u \notin clients => t = <<>>)
        /\ \A i \in DOMAIN t : t[i].type # "welcome"
        /\ {} \in SUBSET Client /\ u \notin {} /\ Kept(t, 0) = <<>>
    <3>1. <<>> \in Seq(HostMessage)
      OBVIOUS
    <3>2. 0 \in Nat /\ Kept(<<>>, 0) = <<>>
      BY <3>1, KeptIs
    <3>. QED
      BY <3>1, <3>2
  <2> HIDE DEF t
  <2>2. ~Starts(app[u], Inbox(u))' \/ Inbox(u)' = IF Served(u) THEN Inbox(u) \o Kept(t, 0) ELSE Inbox(u)
    BY <1>2, <2>1, CoreReads
  <2>3. ~Starts(app[u], Inbox(u))' \/ Inbox(u)' = Inbox(u)
    BY <2>1, <2>2, LaneReads, ConcatEmptySeq
  <2>4. (Served(u)' <=> Served(u)) /\ (Abreast(u)' <=> Abreast(u)) /\ Stays(u)
    BY <1>2, BridgingFeeds
  <2>5. CASE ~Starts(app[u], Inbox(u))'
    BY <2>5, InformedIdle
  <2>6. CASE ~Served(u) /\ Inbox(u)' = Inbox(u)
    <3>1. ~Served(u)' /\ ~Abreast(u)'
      BY <2>4, <2>6 DEF Abreast
    <3>. QED
      BY <1>0, <2>4, <2>6, <3>1, InformedSame
  <2>7. CASE Served(u) /\ Inbox(u)' = Inbox(u)
    <3> DEFINE q == Inbox(u) a == app[u] current == Abreast(u) pipe == Pipe(k) log == records
    <3>1. app[u].conn = k
      BY <1>2, <2>7 DEF Served, Fed, Routed, Held
    <3>2. /\ ReadsWell(a, u, q) /\ ReadsLog(a, u, q, log)
          /\ current => ReadsAll(a, u, q, log, pipe, snapshot)
      BY <2>7, <3>1 DEF Informed, ReadLaw, Law
    <3>3. ReadLaw(u)' <=> Law(a, u, Inbox(u)', Served(u)', Abreast(u)', records', Pipe(app[u].conn)', snapshot')
      BY <1>0 DEF ReadLaw
    <3>4. PICK rest : rest = Pipe(app[u].conn)' /\ rest \subseteq pipe /\ pipe \subseteq rest \cup {r}
      <4>1. Pipe(app[u].conn)' = Pipe(k)'
        BY <1>0, <3>1 DEF Pipe
      <4>2. Pipe(k)' \subseteq Pipe(k)
        BY DEF Bridging, WayUpFewer
      <4>. QED
        BY <4>1, <4>2
    <3>5. log \in Seq(Record) /\ r \in pipe
      BY DEF LaneTyped, TypeOK
    <3>6. Starts(app[u], Inbox(u))' <=> Starts(app[u], Inbox(u))
      BY <1>0, <2>7 DEF Starts, BeginsAt
    <3>7. records' = Append(log, r)
      OBVIOUS
    <3> HIDE DEF q, a, current, pipe, log
    <3>8. /\ ReadsLog(a, u, q, Append(log, r))
          /\ current => ReadsAll(a, u, q, Append(log, r), rest, snapshot)
      <4>1. /\ ReadsLog(a, u, q, log) => ReadsLog(a, u, q, Append(log, r))
            /\ ReadsAll(a, u, q, log, pipe, snapshot) /\ r \in pipe =>
                 ReadsAll(a, u, q, Append(log, r), rest, snapshot)
        BY <3>4, <3>5, OwnReads
      <4>. QED
        BY <3>2, <3>5, <4>1
    <3>9. Law(a, u, q, Served(u)', current, Append(log, r), rest, snapshot)
      BY <3>2, <3>8 DEF Law
    <3>10. ReadLaw(u)'
      BY <2>4, <2>7, <3>3, <3>4, <3>7, <3>9 DEF Law, q, current
    <3>. QED
      BY <2>4, <3>6, <3>10, InformedStays
  <2>. QED
    BY <2>3, <2>5, <2>6, <2>7
<1>. QED
  BY <1>1, <1>2

\* The line m of connection k of u is read.
ReadsLine(k, u, m) ==
  /\ bridge /\ toHost # <<>> /\ Head(toHost) = LineMsg(k, m) /\ m \in Lines
  /\ k \in Conn /\ u \in Client /\ who[k] = u
  /\ HandleLine(k, u, m)

\* The bridge reads: what Head(toHost) is, and the way up behind it.
LEMMA HostReadParts ==
  ASSUME LaneTyped, QueueInv, SlotLaw, HostRead
  PROVE  /\ Bridging /\ bridge
         /\ \/ \E u \in Client : LeaveBridge(u) /\ \A c \in Conn : WayUpSame(c)
            \/ \E k \in Conn, u \in Client, m \in Lines :
                 /\ ReadsLine(k, u, m)
                 /\ u \in DOMAIN members => members[u] = k
                 /\ \A c \in Conn : who[c] # u => WayUpSame(c)
<1> DEFINE f == Head(toHost) k == f.conn u == who[k]
<1>1. /\ bridge /\ toHost # <<>> /\ UNCHANGED <<relayVars, bridge, app>> /\ toHost' = Tail(toHost)
      /\ IF f.type = "left" THEN LeaveBridge(u) ELSE HandleLine(k, u, f.msg)
  BY DEF HostRead
<1>2. Heads(f, k, u)
  BY <1>1 DEF Heads, relayVars
<1>3. k \in Conn /\ u \in Client /\ f \in Notices /\ f = toHost[1] /\ 1 \in DOMAIN toHost
  <2> HIDE DEF f, k, u
  <2>1. /\ Len(toHost) \in Nat /\ Len(toHost) > 0 /\ DOMAIN toHost = 1 .. Len(toHost)
        /\ f = toHost[1] /\ k \in Conn /\ u \in Client /\ f \in Notices
    BY <1>2, HeadsParts
  <2>. QED
    BY <2>1
<1>4. Bridging
  <2>1. \A c \in Conn : WayUpFewer(c)
    BY HostReadWay
  <2>. QED
    BY <1>1, <2>1 DEF Bridging, relayVars
<1>5. CASE f.type = "left"
  <2>1. \A c \in Conn : WayUpSame(c)
    <3>1. \A c \in Conn, x \in Lines : Head(toHost) # LineMsg(c, x)
      BY <1>5 DEF LineMsg
    <3>. QED
      BY <3>1, HostReadWay
  <2>. QED
    BY <1>1, <1>3, <1>4, <1>5, <2>1
<1>6. CASE f.type # "left"
  <2>1. f = LineMsg(k, f.msg) /\ f.msg \in Lines /\ f.type = "line"
    BY <1>3, <1>6 DEF Notices, LineMsg
  <2>2. u \in DOMAIN members => members[u] = k
    BY <1>3, <2>1 DEF SlotLaw, OwnLines
  <2>3. \A c \in Conn : who[c] # u => WayUpSame(c)
    <3>1. \A c \in Conn, x \in Lines : who[c] # u => Head(toHost) # LineMsg(c, x)
      BY DEF LineMsg
    <3>. QED
      BY <3>1, HostReadWay
  <2>4. ReadsLine(k, u, f.msg)
    BY <1>1, <1>3, <1>6, <2>1 DEF ReadsLine
  <2> HIDE DEF f, k, u
  <2>. QED
    BY <1>1, <1>3, <1>4, <2>1, <2>2, <2>3, <2>4
<1>. QED
  BY <1>5, <1>6

\* A line of u is read.
LEMMA LineKeeps ==
  ASSUME LaneTyped, LaneTyped', QueueInv, SlotLaw, Welcomes, NoQueue, Authored, OnePlace, Signed,
         \A w \in Client : Informed(w), HostRead, Bridging, bridge,
         NEW k \in Conn, NEW u \in Client, NEW m \in Lines, ReadsLine(k, u, m),
         u \in DOMAIN members => members[u] = k,
         \A c \in Conn : who[c] # u => WayUpSame(c),
         NEW v \in Client
  PROVE  Informed(v)'
<1>1. /\ bridge /\ toHost # <<>> /\ Head(toHost) = LineMsg(k, m) /\ who[k] = u
      /\ HandleLine(k, u, m) /\ TypeOK /\ Held /\ Informed(u) /\ Informed(v)
      /\ toHost \in Seq(Notices)
  BY DEF ReadsLine, LaneTyped, BridgeTyped, SlotLaw
<1>2. /\ Len(toHost) \in Nat /\ DOMAIN toHost = 1 .. Len(toHost) /\ 1 \in DOMAIN toHost
      /\ toHost[1] = LineMsg(k, m) /\ DOMAIN toHost' = 1 .. Len(toHost) - 1
      /\ \A i \in 1 .. Len(toHost) - 1 : toHost'[i] = toHost[i + 1]
  <2>1. toHost' = Tail(toHost)
    BY DEF HostRead
  <2>2. Len(toHost) > 0 /\ Len(toHost) \in Nat /\ DOMAIN toHost = 1 .. Len(toHost)
    BY <1>1, QueueParts
  <2>3. 1 \in DOMAIN toHost
    BY <2>2
  <2>. QED
    BY <1>1, <2>1, <2>2, <2>3, QueueParts
<1>3. Has(toHost, LineMsg(k, m))
  BY <1>2 DEF Has
<1>4. relay_users' \in SUBSET Client /\ IsFiniteSet(relay_users') /\ u \in relay_users'
  BY <1>1, UsersFinite DEF HandleLine, LaneTyped
<1>5. PICK users \in SUBSET Client : users = relay_users'
  BY <1>4
<1>6. \A c \in Conn : who[c] = v /\ v # u => WayUpSame(c)
  OBVIOUS
<1>7. CASE m = HelloMsg /\ Admits(u)
  <2>1. PICK n \in Name : HandleHello(u, n)
    BY <1>1, <1>7, MessagesTyped DEF HandleLine, HelloMsg
  <2>2. Turn({u}, users) /\ via' = [via EXCEPT ![u] = k]
    BY <1>1, <1>4, <1>5, <1>7 DEF HandleLine, Turn, HelloMsg
  <2>3. via'[u] = k /\ (v # u => via'[v] = via[v])
    BY <2>2 DEF LaneTyped, BridgeTyped
  <2>4. CASE v = u
    <3>1. Pending(k) /\ ~Pending(k)'
      BY <1>1, <1>3, <1>7, HostReadHellos DEF Pending, Hellos, SlotLaw
    <3>2. Pipe(k)' = {}
      <4>1. up[k] = <<>> /\ \A j \in DOMAIN toHost : Line(toHost[j], k) => j = 1
        BY <1>2, <1>7 DEF SlotLaw, Greets, LineMsg
      <4>2. up' = up
        BY DEF Bridging
      <4>3. \A x : ~Has(up'[k], x)
        BY <4>1, <4>2, HasNone
      <4>4. \A x : ~Has(toHost', LineMsg(k, x))
        <5>1. SUFFICES ASSUME NEW x, NEW i \in DOMAIN toHost', toHost'[i] = LineMsg(k, x)
                       PROVE  FALSE
          BY DEF Has
        <5>2. i + 1 \in DOMAIN toHost /\ toHost[i + 1] = LineMsg(k, x) /\ i + 1 # 1
          BY <1>2, <5>1
        <5>. QED
          BY <4>1, <5>2 DEF Line, LineMsg
      <4>. QED
        BY <4>3, <4>4 DEF Pipe
    <3>3. NoDuplicateIds(records)
      BY PlacesApart
    <3>. QED
      BY <1>1, <1>4, <1>5, <2>1, <2>2, <2>3, <2>4, <3>1, <3>2, <3>3, GreetedKeeps
  <2>5. CASE v # u
    <3>1. clients' = clients \cup {u} /\ UNCHANGED <<records, snapshot>>
      BY <1>1, <2>1, ClientsAfter DEF HandleHello
    <3>2. PICK t : Gossip(v, t)
      <4>1. IF v = u THEN \E R \in Rosters : sent'[v] = JoinStream(R) /\ UNCHANGED <<records, snapshot>>
            ELSE \E t : Gossip(v, t)
        BY <1>1, <2>1, CoreSends
      <4>. QED
        BY <2>5, <4>1
    <3>3. PICK fresh \in SUBSET Client : fresh = {u}
      OBVIOUS
    <3>4. Turn(fresh, users) /\ v \notin fresh /\ (v \in clients' <=> v \in clients) /\ via'[v] = via[v]
      BY <2>2, <2>3, <2>5, <3>1, <3>3
    <3>. QED
      BY <1>1, <1>6, <2>5, <3>1, <3>2, <3>4, GossipKeeps
  <2>. QED
    BY <2>4, <2>5
<1>8. CASE m.type = "record" /\ IsConnected(u)
  <2>1. PICK r \in Record : m = RecordMsg(r) /\ m.record = r /\ m # HelloMsg
    BY <1>8, MessagesTyped DEF Lines, RecordMsg, HelloMsg
  <2>2. HandleAction(u, r) /\ Turn({}, users) /\ via' = via /\ {} \in SUBSET Client
    BY <1>1, <1>4, <1>5, <1>8, <2>1 DEF HandleLine, Turn
  <2>3. /\ sent'[v] = sent[v] \o IF v \in clients \ {u} THEN <<RecordMsg(r)>> ELSE <<>>
        /\ records' = Append(records, r) /\ snapshot' = snapshot
        /\ (v \in clients' <=> v \in clients)
    <3>1. sent'[v] = sent[v] \o IF v \in clients \ {u} THEN <<RecordMsg(r)>> ELSE <<>>
      BY <1>1, <2>1, <2>2, CoreSends
    <3>. QED
      BY <2>2, <3>1 DEF HandleAction, clients
  <2>4. r \in Pipe(k) /\ r.user_id = u
    <3>1. r \in Pipe(k)
      BY <1>3, <2>1 DEF Pipe
    <3>. QED
      BY <1>1, <3>1 DEF Signed
  <2>5. CASE v = u
    <3>1. \A x \in Pipe(k) : x \in Pipe(k)' \/ x = r
      <4>1. \A x \in Pipe(k) : x \in Pipe(k)' \/ Head(toHost) = LineMsg(k, RecordMsg(x))
        BY HostReadWay
      <4>2. ASSUME NEW x \in Pipe(k), Head(toHost) = LineMsg(k, RecordMsg(x))
            PROVE  x = r
        <5>1. LineMsg(k, m).msg = m /\ LineMsg(k, RecordMsg(x)).msg = RecordMsg(x)
          BY DEF LineMsg
        <5>2. m = RecordMsg(x)
          BY <1>1, <4>2, <5>1
        <5>3. m.record = x
          BY <5>2 DEF RecordMsg
        <5>. QED
          BY <2>1, <5>3
      <4>. QED
        BY <4>1, <4>2
    <3>2. sent'[u] = sent[u] \o <<>> /\ records' = Append(records, r) /\ snapshot' = snapshot
          /\ (u \in clients' <=> u \in clients) /\ via'[u] = via[u]
      BY <2>2, <2>3, <2>5
    <3>3. Informed(u)'
      BY <1>1, <2>1, <2>2, <2>4, <3>1, <3>2, LoggedKeeps
    <3>. QED
      BY <2>5, <3>3
  <2>6. CASE v # u
    <3>1. sent'[v] = sent[v] \o (IF v \in clients THEN <<RecordMsg(r)>> ELSE <<>>) /\ via'[v] = via[v]
      BY <2>2, <2>3, <2>6
    <3>2. ~HasId(records, r.action_id)
      BY <1>3, <2>1, PlacesApart
    <3>3. \A n \in DOMAIN app[v].runtime :
            app[v].runtime[n].user_id = v => app[v].runtime[n].action_id # r.action_id
      <4>1. Around(r)
        BY <1>3, <2>1 DEF Around
      <4>2. \A n \in DOMAIN app[v].runtime : app[v].runtime[n] \in Record /\ Around(app[v].runtime[n])
        BY LaneReads DEF Around, Has, Runs
      <4>. QED
        BY <2>1, <2>4, <2>6, <4>1, <4>2 DEF Authored
    <3>4. r.user_id # v
      BY <2>4, <2>6
    <3>. QED
      BY <1>1, <1>6, <2>1, <2>2, <2>3, <2>6, <3>1, <3>2, <3>3, <3>4, NewsKeeps
  <2>. QED
    BY <2>5, <2>6
<1>9. CASE /\ IF m = HelloMsg THEN ~Admits(u) ELSE ~IsConnected(u)
           /\ fromHost' = Append(fromHost, [to |-> u, msg |-> DeniedMsg])
           /\ UNCHANGED <<hostVars, taken, via>>
  <2>1. ~Served(u)
    <3>1. SUFFICES ASSUME Served(u)
                   PROVE  FALSE
      OBVIOUS
    <3>2. u \in clients /\ via[u] = app[u].conn /\ Routed(app[u].conn) /\ who[app[u].conn] = u
      BY <1>1, <3>1 DEF Served, Fed, Held
    <3>3. via[u] = k
      BY <3>2 DEF Routed
    <3>4. m = HelloMsg
      BY <1>9, <3>2 DEF IsConnected
    <3>5. Pending(k)
      BY <1>3, <3>4 DEF Pending
    <3>. QED
      BY <1>1, <3>2, <3>3, <3>5 DEF SlotLaw, Unwired
  <2>2. UNCHANGED <<records, snapshot, roster, sent, bridge, taken, via>>
        /\ UNCHANGED <<members, who, link, down, app>>
    BY <1>9 DEF hostVars, Bridging
  <2>3. \A c \in Conn : WayUpFewer(c) /\ (who[c] # u => WayUpSame(c))
    BY DEF Bridging
  <2>. QED
    BY <1>1, <1>9, <2>1, <2>2, <2>3, Refused
<1>. QED
  BY <1>1, <1>7, <1>8, <1>9 DEF HandleLine

\* One turn of the bridge's route loop.
LEMMA HostReadKeeps ==
  ASSUME LaneTyped, LaneTyped', QueueInv, SlotLaw, Welcomes, NoQueue, Authored, OnePlace, Signed,
         \A w \in Client : Informed(w), HostRead, NEW v \in Client
  PROVE  Informed(v)'
<1>1. Bridging /\ bridge /\ Held
  BY HostReadParts DEF SlotLaw
<1>2. CASE \E u \in Client : LeaveBridge(u) /\ \A c \in Conn : WayUpSame(c)
  BY <1>1, <1>2, LeftKeeps
<1>3. CASE \E k \in Conn, u \in Client, m \in Lines :
             /\ ReadsLine(k, u, m)
             /\ u \in DOMAIN members => members[u] = k
             /\ \A c \in Conn : who[c] # u => WayUpSame(c)
  BY <1>1, <1>3, LineKeeps
<1>. QED
  BY <1>2, <1>3, HostReadParts

-----------------------------------------------------------------------------
(* The end of the session.                                                 *)

\* The host leaves: the end is what a client reads last, behind what the bridge
\* had written or drained.
LEMMA HostLeaveKeeps ==
  ASSUME LaneTyped, LaneTyped', Welcomes, NoQueue, HostLeave, NEW v \in Client, Informed(v)
  PROVE  Informed(v)'
<1>1. /\ bridge /\ ~bridge' /\ Broadcast(clients, <<EndedMsg>>)
      /\ UNCHANGED <<records, roster, snapshot, relayVars, toHost, via, app>>
  BY DEF HostLeave
<1>2. PICK users \in SUBSET Client : Turn({}, users)
  <2>1. relay_users \in SUBSET Client /\ IsFiniteSet(relay_users)
    BY DEF LaneTyped, BridgeTyped
  <2>2. CASE Drain({}, relay_users)
    BY <2>1, <2>2 DEF Turn
  <2>3. CASE UNCHANGED <<fromHost, taken>>
    <3>1. Turn({}, {})
      BY <2>3 DEF Turn
    <3>. QED
      BY <3>1
  <2>. QED
    BY <2>2, <2>3 DEF HostLeave
<1> DEFINE t == IF v \in clients THEN <<EndedMsg>> ELSE <<>>
           d == down[app[v].conn] f == Mail(fromHost, v) K == Kept(sent[v], taken[v]) c == Kept(t, 0)
           x == IF v \in users THEN Kept(sent[v] \o t, taken[v]) ELSE <<>>
<1>3. /\ t \in Seq(HostMessage) /\ sent'[v] = sent[v] \o t
      /\ \A i \in DOMAIN t : t[i].type = "ended"
      /\ sent[v] \in Seq(HostMessage) /\ taken[v] \in Nat /\ taken[v] <= Len(sent[v])
      /\ K \in Seq(Answers) /\ f \in Seq(Answers)
  <2>1. EndedMsg \in HostMessage /\ EndedMsg.type = "ended"
    BY MessagesTyped DEF EndedMsg
  <2>2. sent[v] \in Seq(HostMessage)
    BY LaneReads
  <2>3. sent'[v] = IF v \in clients THEN sent[v] \o <<EndedMsg>> ELSE sent[v]
    BY <1>1 DEF Broadcast, LaneTyped, TypeOK
  <2>4. sent'[v] = sent[v] \o t
    BY <2>2, <2>3, ConcatEmptySeq
  <2>. QED
    BY <2>1, <2>4, LaneReads
<1>4. Mail(fromHost, v)' = f \o x
  <2>1. {} \in SUBSET Client /\ Begun({})[v] = taken[v]
    BY DEF Begun
  <2>2. Mail(fromHost', v) = f \o (IF v \in users THEN Kept(sent'[v], Begun({})[v]) ELSE <<>>)
    BY <1>2, <2>1, StockAfter DEF Turn, LaneTyped
  <2>3. Mail(fromHost, v)' = Mail(fromHost', v)
    BY DEF Mail, Addressed
  <2>. QED
    BY <1>3, <2>1, <2>2, <2>3
<1>5. /\ app'[v] = app[v] /\ (Fed(v)' <=> Fed(v)) /\ ~Served(v)' /\ ~Abreast(v)' /\ Stays(v)
      /\ down'[app[v].conn] = d
  BY <1>1 DEF Fed, Served, Abreast, Stays, Routed, Pending, clients, relayVars
<1>6. CASE x = <<>>
  <2>1. Mail(fromHost, v) = Mail(fromHost, v)' \o <<>>
    <3> HIDE DEF t, d, f, K, c, x
    <3>1. f \o <<>> = f
      BY <1>3, ConcatEmptySeq, Zenon
    <3>2. Mail(fromHost, v)' = f
      BY <1>4, <1>6, <3>1, Zenon
    <3>. QED
      BY <3>1, <3>2, Zenon DEF f
  <2>2. <<>> \in Seq(Answers)
    BY EmptySeq
  <2>. QED
    BY <1>5, <2>1, <2>2, Deserted
<1>7. CASE app[v].mode \notin Holding
  BY <1>5, <1>7, IdleModes
<1>8. CASE x # <<>> /\ app[v].mode \in Holding
  <2>1. v \in clients
    <3>1. v \notin clients => sent[v] \o t = <<>>
      BY <1>3 DEF NoQueue
    <3>2. Kept(<<>>, taken[v]) = <<>>
      BY <1>3, EmptySeq, KeptIs
    <3>. QED
      BY <1>8, <3>1, <3>2
  <2>2. x = Kept(sent[v] \o t, taken[v])
    BY <1>8
  <2>3. c \in Seq(Answers) /\ Chat(c) /\ Kept(sent[v] \o t, taken[v]) = K \o c
    <3> HIDE DEF t
    <3>1. Kept(sent[v] \o t, taken[v]) = K \o c
      BY <1>3, KeptGrown
    <3>2. c \in Seq(HostMessage)
      BY <1>3, KeptIs
    <3>3. ASSUME NEW i \in DOMAIN c
          PROVE  c[i].type = "ended"
      <4>1. 0 \in Nat /\ i \in DOMAIN Kept(t, 0)
        OBVIOUS
      <4>2. PICK j \in DOMAIN t : t[j] = Kept(t, 0)[i]
        BY <1>3, <4>1, KeptFrom
      <4>. QED
        BY <1>3, <4>2
    <3>4. c \in Seq(Answers)
      <4> HIDE DEF c
      <4>. QED
        BY <3>2, MessagesTyped, SeqMonotonic
    <3>. QED
      BY <3>1, <3>3, <3>4 DEF Chat
  <2>4. x \in Seq(Answers) /\ \A i \in DOMAIN x : x[i].type # "welcome"
    <3>1. \A i \in DOMAIN t : t[i].type # "welcome"
      BY <1>3
    <3> HIDE DEF t
    <3>. QED
      BY <1>1, <1>3, <2>2, <3>1, NoneWelcomes
  <2>5. d \in Seq(Answers) /\ Inbox(v) = d \o Way(v) /\ Inbox(v)' = d \o Way(v)'
    BY <1>5, <1>8, LaneReads DEF Inbox
  <2>6. Way(v) = IF Served(v) THEN f \o K ELSE IF Fed(v) THEN f ELSE <<>>
    BY DEF Way, Stock
  <2>7. Way(v)' = IF Fed(v) THEN f \o x ELSE <<>>
    BY <1>4, <1>5 DEF Way
  <2>11. f \in Seq(Answers) /\ K \in Seq(Answers)
    BY <1>3
  <2> HIDE DEF t, d, f, K, c, x
  <2>8. CASE Served(v)
    <3>1. Fed(v)
      BY <2>8 DEF Served
    <3>2. f \o K \in Seq(Answers) /\ f \o (K \o c) = (f \o K) \o c
      <4>1. InRow(Answers, f, K, c)
        BY <2>11, <2>3, InARow
      <4>. QED
        BY <4>1 DEF InRow
    <3>3. d \o ((f \o K) \o c) = (d \o (f \o K)) \o c
      <4>1. InRow(Answers, d, f \o K, c)
        BY <2>3, <2>5, <3>2, InARow
      <4>. QED
        BY <4>1 DEF InRow
    <3>4. Inbox(v)' = Inbox(v) \o c
      BY <2>2, <2>3, <2>5, <2>6, <2>7, <2>8, <3>1, <3>2, <3>3
    <3>. QED
      BY <1>5, <2>3, <3>4, InformedChats
  <2>9. CASE ~Fed(v)
    <3>1. Inbox(v)' = Inbox(v)
      BY <2>5, <2>6, <2>7, <2>9 DEF Served
    <3>. QED
      BY <1>5, <3>1, InformedSame
  <2>10. CASE Fed(v) /\ ~Served(v)
    <3>1. ~Starts(app[v], Inbox(v))
      BY <1>1, <2>1, <2>10 DEF Informed, Wired, Served
    <3> DEFINE w == d \o f
    <3>2. w \in Seq(Answers) /\ Inbox(v) = w /\ Inbox(v)' = w \o x
      <4>1. d \in Seq(Answers) /\ f \in Seq(Answers) /\ x \in Seq(Answers)
        BY <2>11, <2>4, <2>5
      <4>2. d \o f \in Seq(Answers) /\ d \o (f \o x) = (d \o f) \o x
        <5>1. InRow(Answers, d, f, x)
          BY <4>1, InARow
        <5>. QED
          BY <5>1 DEF InRow
      <4>3. Inbox(v) = d \o f /\ Inbox(v)' = d \o (f \o x)
        BY <2>5, <2>6, <2>7, <2>10
      <4>. QED
        BY <4>2, <4>3
    <3> HIDE DEF w
    <3>3. ~Starts(app[v], w \o x)
      BY <2>4, <3>1, <3>2, StartsStill
    <3>4. Starts(app[v], Inbox(v))' <=> Starts(app'[v], Inbox(v)')
      BY DEF Starts, BeginsAt
    <3>. QED
      BY <1>5, <3>2, <3>3, <3>4, InformedIdle
  <2>. QED
    BY <2>8, <2>9, <2>10
<1>. QED
  BY <1>6, <1>7, <1>8

-----------------------------------------------------------------------------
(* All steps together.                                                     *)

FlowInv ==
  /\ SlotLaw /\ Authored /\ Welcomes /\ NoQueue /\ RunLaw /\ OnePlace /\ Signed
  /\ \A u \in Client : Informed(u)

ConvergeInv == LaneInv /\ FlowInv

\* A step of the client u, for each client.
LEMMA ClientKeeps ==
  ASSUME LaneTyped, Seated', Held, Authored, RunLaw, \A w \in Client : Informed(w),
         NEW u \in Client, NEW v \in Client,
         \/ Dial(u) \/ ReadDown(u) \/ LinkLost(u) \/ HandshakeTimeout(u)
         \/ Edit(u) \/ Publish(u) \/ AfterEnd(u) \/ Silence(u)
  PROVE  Informed(v)'
<1>1. Informed(v) /\ Informed(u) /\ Single(app[u])
  BY DEF RunLaw
<1>2. CASE Dial(u)
  BY <1>1, <1>2, DialKeeps
<1>3. CASE v # u /\ ~Dial(u)
  BY <1>1, <1>3, OthersUntouched
<1>4. CASE v = u /\ ReadDown(u)
  <2>1. Informed(u)'
    BY <1>1, <1>4, ReadDownKeeps
  <2>. QED
    BY <1>4, <2>1
<1>5. CASE v = u /\ (LinkLost(u) \/ HandshakeTimeout(u) \/ AfterEnd(u))
  <2>1. Informed(u)'
    BY <1>5, GivesUp
  <2>. QED
    BY <1>5, <2>1
<1>6. CASE v = u /\ Edit(u)
  <2>1. Informed(u)'
    BY <1>1, <1>6, EditKeeps
  <2>. QED
    BY <1>6, <2>1
<1>7. CASE v = u /\ Publish(u)
  <2>1. Informed(u)'
    BY <1>1, <1>7, PublishKeeps
  <2>. QED
    BY <1>7, <2>1
<1>8. CASE v = u /\ Silence(u)
  <2>1. /\ UNCHANGED <<records, snapshot, roster, sent, bridge, fromHost, taken, via>>
        /\ UNCHANGED <<who, members, toHost, link, up, down, app>>
    BY <1>8 DEF Silence, Age, relayVars, bridgeVars
  <2>2. Calm(v) /\ Steadfast(v)
    BY <2>1, Calmly, Steadily
  <2>. QED
    BY <1>1, <2>1, <2>2, Untouched
<1>. QED
  BY <1>2, <1>3, <1>4, <1>5, <1>6, <1>7, <1>8

\* A step of the relay, or of the network, that concerns the connection k.
LEMMA ConnKeeps ==
  ASSUME Prompt, LaneTyped, Seated, SlotLaw, NEW k \in Conn, NEW v \in Client, Informed(v),
         \/ Claim(k) \/ RouteUp(k) \/ Cleanup(k) \/ PingRefused(k) \/ Break(k) \/ HalfOpenEnds(k)
  PROVE  Informed(v)'
<1>1. Held
  BY DEF SlotLaw
<1>. QED
  BY <1>1, ClaimKeeps, RouteUpKeeps, CleanupKeeps, PingRefusedKeeps, BreakKeeps

\* Every step leaves every client informed.
LEMMA KeepStep ==
  ASSUME Prompt, ConvergeInv, LaneInv', RelayNext, NEW v \in Client
  PROVE  Informed(v)'
<1>1. /\ LaneTyped /\ LaneTyped' /\ Seated /\ Seated' /\ QueueInv
      /\ SlotLaw /\ Held /\ Authored /\ Welcomes /\ NoQueue /\ RunLaw /\ OnePlace /\ Signed
      /\ Informed(v) /\ \A u \in Client : Informed(u)
  BY DEF ConvergeInv, FlowInv, LaneInv, QueueInv, SlotLaw
<1>2. CASE RouteDown \/ RoomCloses
  BY <1>1, <1>2, RouteDownKeeps, RoomClosesKeeps
<1>3. CASE HostRead
  BY <1>1, <1>3, HostReadKeeps
<1>4. CASE Pump
  BY <1>1, <1>4, PumpKeeps
<1>5. CASE HostEdit
  BY <1>1, <1>5, HostEditKeeps
<1>6. CASE SwapDocument
  BY <1>1, <1>6, SwapKeeps
<1>7. CASE HostLeave
  BY <1>1, <1>7, HostLeaveKeeps
<1>8. CASE HostLinkBreaks
  BY <1>1, <1>8, HostLinkKeeps
<1>9. CASE \E k \in Conn : \/ Claim(k) \/ RouteUp(k) \/ Cleanup(k) \/ PingRefused(k)
                           \/ Break(k) \/ HalfOpenEnds(k)
  BY <1>1, <1>9, ConnKeeps
<1>10. CASE \E u \in Client : \/ Dial(u) \/ ReadDown(u) \/ LinkLost(u) \/ HandshakeTimeout(u)
                              \/ Edit(u) \/ Publish(u) \/ AfterEnd(u) \/ Silence(u)
  BY <1>1, <1>10, ClientKeeps
<1>. QED
  BY <1>2, <1>3, <1>4, <1>5, <1>6, <1>7, <1>8, <1>9, <1>10 DEF RelayNext

\* Every step keeps the invariant.
LEMMA ConvergeStep ==
  ASSUME Prompt, ConvergeInv, RelayNext
  PROVE  ConvergeInv'
<1>1. /\ LaneInv /\ LaneTyped /\ Seated /\ Accounted /\ QueueInv
      /\ SlotLaw /\ Held /\ Authored /\ Welcomes /\ NoQueue /\ RunLaw /\ OnePlace /\ Signed
  BY DEF ConvergeInv, FlowInv, LaneInv, QueueInv, SlotLaw
<1>2. \A u \in Client : Unstarted(u) /\ ReadLaw(u)
  BY DEF ConvergeInv, FlowInv, Informed
<1>3. LaneTyped' /\ LaneInv'
  BY <1>1, LaneTypedStep, QueueStep DEF LaneInv, QueueInv
<1>4. SlotLaw'
  BY <1>1, <1>2, SlotStep
<1>5. Authored'
  BY <1>1, <1>3, AuthoredStep
<1>6. Welcomes' /\ NoQueue'
  BY <1>1, <1>3, QueuesStep
<1>7. RunLaw'
  BY <1>1, <1>2, RunStep
<1>8. OnePlace' /\ Signed'
  BY <1>1, OnePlaceStep, SignedStep
<1>9. \A v \in Client : Informed(v)'
  BY <1>3, KeepStep
<1>. QED
  BY <1>3, <1>4, <1>5, <1>6, <1>7, <1>8, <1>9 DEF ConvergeInv, FlowInv

\* A step that changes nothing.
LEMMA PlacesStay ==
  ASSUME Authored, OnePlace, UNCHANGED vars
  PROVE  Authored' /\ OnePlace'
<1>1. UNCHANGED <<records, sent, up, down, toHost, fromHost, app, minted>>
  BY DEF vars, hostVars, relayVars, bridgeVars
<1>2. Authored'
  <2>1. \A r : Around(r)' <=> Around(r)
    BY <1>1 DEF Around, Has, Mail, Addressed, LineMsg, RecordMsg
  <2>. QED
    BY <1>1, <2>1 DEF Authored
<1>3. OnePlace'
  <2>1. \A r : StaysPut(r)
    BY <1>1 DEF StaysPut, At, InLog, InUp, InHost, InApp, Unsent, RecordMsg
  <2>. QED
    BY <2>1, StaysPutOne DEF OnePlace
<1>. QED
  BY <1>2, <1>3

\* Nothing is anywhere at the start.
LEMMA PlacesInit ==
  ASSUME RelayInit
  PROVE  Authored /\ OnePlace
<1>1. LaneTyped
  BY LaneInvInit DEF LaneInv
<1>2. /\ records = <<>> /\ minted = 0 /\ toHost = <<>> /\ fromHost = <<>>
      /\ \A k \in Conn : up[k] = <<>> /\ down[k] = <<>>
      /\ \A u \in Client : app[u].runtime = <<>> /\ sent[u] = <<>>
  BY DEF RelayInit, Init, Solo
<1>3. \A m : ~Has(<<>>, m)
  BY HasNone
<1>4. \A r : ~Around(r)
  <2>1. fromHost \in Seq(Frames)
    BY <1>1 DEF LaneTyped, BridgeTyped
  <2>2. \A u : Mail(fromHost, u) = <<>>
    BY <1>2, <2>1, MailIs
  <2>. QED
    BY <1>2, <1>3, <2>2 DEF Around
<1>. QED
  BY <1>1, <1>2, <1>4, AtAround DEF Authored, OnePlace, AtOne

\* A step that changes nothing leaves every client informed.
LEMMA ConvergeStays ==
  ASSUME ConvergeInv, LaneInv', UNCHANGED vars
  PROVE  ConvergeInv'
<1>1. /\ UNCHANGED <<records, roster, cursors, silence, sent, snapshot, ended>>
      /\ UNCHANGED <<room, members, thread, who, link, up, down>>
      /\ UNCHANGED <<bridge, toHost, fromHost, relay_users, taken, via>>
      /\ UNCHANGED <<app, minted, faults>>
  BY DEF vars, hostVars, relayVars, bridgeVars
<1>2. LaneTyped /\ SlotLaw /\ Authored /\ Welcomes /\ NoQueue /\ RunLaw /\ OnePlace /\ Signed
      /\ \A u \in Client : Informed(u)
  BY DEF ConvergeInv, FlowInv, LaneInv
<1>3. SlotLaw'
  BY <1>1, <1>2 DEF SlotLaw, Held, Greets, OwnLines, Unwired, Line, Pending, Has, LineMsg, clients
<1>4. Authored' /\ OnePlace'
  BY <1>2, PlacesStay
<1>5. Welcomes' /\ NoQueue' /\ RunLaw'
  BY <1>1, <1>2 DEF Welcomes, Taken, NoQueue, clients, RunLaw, Single, NoDuplicateIds
<1>6. Signed'
  BY <1>1, <1>2 DEF Signed, Pipe, Has, LineMsg, RecordMsg
<1>7. ASSUME NEW v \in Client
      PROVE  Informed(v)'
  <2>1. Calm(v) /\ Steadfast(v)
    BY <1>1, <1>2, Calmly, Steadily
  <2>. QED
    BY <1>1, <1>2, <2>1, Untouched
<1>. QED
  BY <1>3, <1>4, <1>5, <1>6, <1>7 DEF ConvergeInv, FlowInv

\* At the start nothing is under way.
LEMMA ConvergeInit ==
  ASSUME RelayInit
  PROVE  ConvergeInv
<1>1. LaneInv
  BY LaneInvInit
<1>2. /\ records = <<>> /\ minted = 0 /\ toHost = <<>> /\ fromHost = <<>>
      /\ \A k \in Conn : thread[k] = "ended" /\ up[k] = <<>> /\ down[k] = <<>>
      /\ \A u \in Client : app[u] = Solo /\ sent[u] = <<>>
      /\ clients = {}
  BY DEF RelayInit, Init, clients
<1>3. Solo.mode = "solo" /\ Solo.runtime = <<>> /\ Solo.published = 0
  BY DEF Solo
<1>4. \A m : ~Has(<<>>, m)
  BY HasNone
<1>5. SlotLaw
  BY <1>2, <1>3, <1>4 DEF SlotLaw, Held, Greets, OwnLines, Unwired, Holding
<1>6. Authored /\ OnePlace
  BY PlacesInit
<1>7. Welcomes /\ NoQueue
  BY <1>2 DEF Welcomes, Taken, NoQueue
<1>8. RunLaw
  <2>1. ASSUME NEW u \in Client
        PROVE  Single(app[u])
    <3>1. app[u].runtime = <<>> /\ app[u].published = 0
      BY <1>2, <1>3
    <3>2. Len(<<>>) = 0 /\ DOMAIN <<>> = {} /\ 0 <= 0
      OBVIOUS
    <3>. QED
      BY <3>1, <3>2 DEF Single, NoDuplicateIds
  <2>. QED
    BY <2>1 DEF RunLaw
<1>9. Signed
  BY <1>2, <1>4 DEF Signed, Pipe
<1>10. ASSUME NEW u \in Client
       PROVE  Informed(u)
  <2>1. ~Starts(app[u], Inbox(u))
    BY <1>2, <1>3 DEF Starts, BeginsAt
  <2> DEFINE q == Inbox(u) a == app[u]
  <2>2. \A p \in 0 .. Len(q) : ~BeginsAt(a, q, p)
    BY <2>1 DEF Starts
  <2> HIDE DEF q, a
  <2>3. \A served, current, log, pipe, doc : Law(a, u, q, served, current, log, pipe, doc)
    BY <2>2, IdleReads DEF Law
  <2>. QED
    BY <2>1, <2>3 DEF Informed, ReadLaw, Wired, Unstarted, q, a
<1>. QED
  BY <1>1, <1>5, <1>6, <1>7, <1>8, <1>9, <1>10 DEF ConvergeInv, FlowInv

\* A client with nothing under way is served, over the connection it holds.
LEMMA QuietServed ==
  ASSUME ConvergeInv, NEW u \in Client, Quiet(u)
  PROVE  Abreast(u) /\ Inbox(u) = <<>> /\ Pipe(app[u].conn) = {}
<1> DEFINE k == app[u].conn
<1>1. /\ LaneTyped /\ Seated /\ CameBy /\ Held /\ Greets
  BY DEF ConvergeInv, FlowInv, LaneInv, SlotLaw
<1>2. /\ bridge /\ room /\ toHost = <<>> /\ fromHost = <<>>
      /\ app[u].mode = "live" /\ link[k] = "open" /\ up[k] = <<>> /\ down[k] = <<>>
      /\ u \in clients /\ taken[u] = Len(sent[u])
  BY DEF Quiet, IsConnected
<1>3. app[u].mode \in Holding /\ k \in Conn
  BY <1>1, <1>2, LaneReads DEF Holding
<1>4. who[k] = u /\ thread[k] # "ended"
  BY <1>1, <1>2, <1>3 DEF Held
<1>5. thread[k] = "routing"
  <2>1. thread[k] # "claiming"
    <3>1. <<HelloMsg>> # <<>>
      OBVIOUS
    <3>2. thread[k] = "claiming" => up[k] = <<HelloMsg>>
      BY <1>1, <1>3 DEF Greets
    <3>. QED
      BY <1>2, <3>1, <3>2
  <2>2. thread[k] \in {"claiming", "routing", "ended"}
    BY <1>1, <1>3 DEF LaneTyped, RoomTyped
  <2>. QED
    BY <1>4, <2>1, <2>2
<1>6. Routed(k)
  BY <1>1, <1>2, <1>3, <1>5 DEF Seated
<1>7. via[u] = k
  <2>1. who[via[u]] = u /\ (Routed(via[u]) \/ Tells(toHost, via[u]))
    BY <1>1, <1>2 DEF CameBy
  <2>2. ~Tells(toHost, via[u])
    BY <1>2 DEF Tells
  <2>. QED
    BY <1>4, <1>6, <2>1, <2>2 DEF Routed
<1>8. Abreast(u) /\ Served(u)
  BY <1>2, <1>3, <1>6, <1>7 DEF Abreast, Served, Fed
<1>9. Inbox(u) = <<>>
  <2>1. Mail(fromHost, u) = <<>>
    <3>1. fromHost \in Seq(Frames)
      BY <1>1, LaneReads
    <3>. QED
      BY <1>2, <3>1, MailIs
  <2>2. Kept(sent[u], taken[u]) = <<>>
    <3>1. sent[u] \in Seq(HostMessage) /\ taken[u] \in Nat /\ taken[u] <= Len(sent[u])
      BY <1>1, LaneReads
    <3>2. <<>> \in Seq(HostMessage)
      OBVIOUS
    <3>3. PICK n \in Nat : n = taken[u]
      BY <3>1
    <3>4. Kept(sent[u], Len(sent[u])) = <<>>
      BY <1>2, <3>1, <3>2, <3>3, KeptGrown
    <3>. QED
      BY <1>2, <3>4
  <2>3. Stock(u) = <<>> \o <<>>
    BY <2>1, <2>2 DEF Stock
  <2>4. Inbox(u) = <<>> \o (<<>> \o <<>>)
    BY <1>2, <1>3, <1>8, <2>3 DEF Inbox, Way
  <2>. QED
    BY <2>4
<1>10. Pipe(k) = {}
  BY <1>2, HasNone DEF Pipe
<1>. QED
  BY <1>8, <1>9, <1>10

\* What the invariant says of the runtimes.
LEMMA ConvergeInvConverged ==
  ASSUME ConvergeInv
  PROVE  RelayConverged
<1>1. RelayAppliedOnce
  BY DEF ConvergeInv, FlowInv, RunLaw, Single, NoDuplicateIds, RelayAppliedOnce
<1>2. ASSUME NEW u \in Client, Quiet(u)
      PROVE  /\ app[u].doc = snapshot
             /\ {app[u].runtime[i] : i \in DOMAIN app[u].runtime} = {records[i] : i \in DOMAIN records}
  <2> DEFINE s == app[u]
  <2>1. Abreast(u) /\ Inbox(u) = <<>> /\ Pipe(s.conn) = {}
    BY <1>2, QuietServed
  <2>2. s.mode = "live" /\ s.published = Len(s.runtime)
    BY <1>2 DEF Quiet
  <2>3. s \in Apps /\ s.runtime \in Seq(Record) /\ DOMAIN s.runtime = 1 .. Len(s.runtime)
        /\ Len(s.runtime) \in Nat
    BY LaneReads DEF ConvergeInv, LaneInv, Runs
  <2>4. Follows(s, u, <<>>, 0, records, {}, snapshot)
    <3>1. Law(s, u, <<>>, Served(u), Abreast(u), records, {}, snapshot)
      BY <2>1 DEF ConvergeInv, FlowInv, Informed, ReadLaw
    <3>2. <<>> \in Seq(Answers)
      OBVIOUS
    <3>. QED
      BY <2>1, <2>2, <3>1, <3>2, LiveLaw
  <2> HIDE DEF s
  <2>5. s.doc = snapshot
    BY <2>4 DEF Follows
  <2>6. \A i \in DOMAIN records : Has(s.runtime, records[i])
    BY <2>4 DEF Follows
  <2>7. \A n \in DOMAIN s.runtime : Has(records, s.runtime[n])
    BY <2>2, <2>3, <2>4 DEF Follows, Unsent
  <2>8. {s.runtime[i] : i \in DOMAIN s.runtime} = {records[i] : i \in DOMAIN records}
    BY <2>6, <2>7 DEF Has
  <2>. QED
    BY <2>5, <2>8 DEF s
<1>. QED
  BY <1>1, <1>2 DEF RelayConverged

\* On every run of the lane: ids name one record each, and a record is in one
\* place on its way from its author through the lane to the log.
THEOREM RecordsInPlace == RelaySpec => [](Authored /\ OnePlace)
<1>1. RelayInit => Authored /\ OnePlace
  BY PlacesInit
<1>2. LaneInv /\ LaneInv' /\ Authored /\ OnePlace /\ [RelayNext]_vars => (Authored /\ OnePlace)'
  BY AuthoredStep, OnePlaceStep, PlacesStay DEF LaneInv, QueueInv
<1>3. RelaySpec => []LaneInv
  BY LaneInOrder
<1>. QED
  BY <1>1, <1>2, <1>3, PTL DEF RelaySpec

\* On every run of the lane: what waits for a client, read to its end, leaves it
\* with the log of the host, on the document of the host.
THEOREM LaneInformed ==
  ASSUME Prompt
  PROVE  RelaySpec => []ConvergeInv
<1>1. RelayInit => ConvergeInv
  BY ConvergeInit
<1>2. ConvergeInv /\ LaneInv' /\ [RelayNext]_vars => ConvergeInv'
  BY ConvergeStep, ConvergeStays
<1>3. RelaySpec => []LaneInv
  BY LaneInOrder
<1>. QED
  BY <1>1, <1>2, <1>3, PTL DEF RelaySpec

\* A client with nothing under way on any leg of the lane holds the log of the
\* host, on its document, and none ever holds a record twice, whatever links
\* broke, whoever left and came back, and whatever document the host opened in
\* between.
THEOREM RelayConvergedCorrect ==
  ASSUME Prompt
  PROVE  RelaySpec => []RelayConverged
<1>1. ConvergeInv => RelayConverged
  BY ConvergeInvConverged
<1>. QED
  BY <1>1, LaneInformed, PTL
=============================================================================
