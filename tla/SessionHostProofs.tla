------------------------- MODULE SessionHostProofs -------------------------
(***************************************************************************)
(* Proofs about SessionHost, for every set of clients, names, cursors and  *)
(* action ids and every bound: type correctness, the three properties of   *)
(* the streams (one inductive invariant, IInv), the log under a joined     *)
(* client, the reach of Ended, the rosters, takeovers, and that the host   *)
(* core implements SharedLog: what the queue of a joined client holds,     *)
(* read as records, is the view of a reader of one ordered log.            *)
(*                                                                         *)
(* The last sections are about the other end, the functions of             *)
(* SessionClient: what a client makes of the messages it has yet to read.  *)
(***************************************************************************)
EXTENDS SessionClient, LeastNumber, SequenceTheorems

-----------------------------------------------------------------------------
(* Typing.                                                                 *)

\* The roster a step makes is a roster, and the host stays on it.
LEMMA RosterTyping ==
  ASSUME NEW R \in Rosters, NEW u \in User, NEW n \in Name, NEW S \in SUBSET Client
  PROVE  /\ With(R, u, n) \in Rosters
         /\ DOMAIN With(R, u, n) = DOMAIN R \cup {u}
         /\ Without(R, S) \in Rosters
         /\ DOMAIN Without(R, S) = DOMAIN R \ S
<1>1. PICK D \in SUBSET User : R \in [D -> Name]
  BY DEF Rosters
<1>2. With(R, u, n) \in [D \cup {u} -> Name]
  BY <1>1 DEF With
<1>3. Without(R, S) \in [D \ S -> Name]
  BY <1>1 DEF Without
<1>4. D \cup {u} \in SUBSET User /\ D \ S \in SUBSET User
  BY DEF User
<1>5. With(R, u, n) \in Rosters /\ Without(R, S) \in Rosters
  BY <1>2, <1>3, <1>4 DEF Rosters
<1>6. DOMAIN With(R, u, n) = DOMAIN R \cup {u}
  BY DEF With
<1>7. DOMAIN Without(R, S) = DOMAIN R \ S
  BY DEF Without
<1>. QED
  BY <1>5, <1>6, <1>7

\* A join stream is the Welcome followed by the log.
LEMMA JoinStreamShape ==
  ASSUME TypeOK, NEW R \in Rosters
  PROVE  /\ JoinStream(R) \in Seq(HostMessage)
         /\ Len(JoinStream(R)) = Len(records) + 1
         /\ JoinStream(R)[1] = [type |-> "welcome", snapshot |-> snapshot,
                                log_length |-> Len(records), roster |-> R]
         /\ \A i \in 1 .. Len(records) :
              JoinStream(R)[i + 1] = RecordMsg(records[i])
<1> DEFINE W == [type |-> "welcome", snapshot |-> snapshot,
                 log_length |-> Len(records), roster |-> R]
           H == [i \in 1 .. Len(records) |-> RecordMsg(records[i])]
<1>1. Len(records) \in Nat /\ \A i \in 1 .. Len(records) : records[i] \in Record
  BY DEF TypeOK
<1>2. W \in HostMessage
  BY <1>1 DEF HostMessage, TypeOK
<1>3. H \in Seq(HostMessage) /\ Len(H) = Len(records)
  BY <1>1 DEF HostMessage, RecordMsg
<1>4. <<W>> \in Seq(HostMessage) /\ Len(<<W>>) = 1 /\ <<W>>[1] = W
  BY <1>2
<1> HIDE DEF W, H
<1>5. JoinStream(R) = <<W>> \o H
  BY DEF JoinStream, W, H
<1>6. /\ JoinStream(R) \in Seq(HostMessage)
      /\ Len(JoinStream(R)) = 1 + Len(records)
      /\ \A i \in 1 .. 1 + Len(records) :
           JoinStream(R)[i] = IF i <= 1 THEN <<W>>[i] ELSE H[i - 1]
  <2>1. /\ <<W>> \o H \in Seq(HostMessage)
        /\ Len(<<W>> \o H) = Len(<<W>>) + Len(H)
        /\ \A i \in 1 .. Len(<<W>>) + Len(H) :
             (<<W>> \o H)[i] = IF i <= Len(<<W>>) THEN <<W>>[i] ELSE H[i - Len(<<W>>)]
    BY <1>3, <1>4, ConcatProperties
  <2>. QED
    BY <1>1, <1>3, <1>4, <1>5, <2>1
<1>7. \A i \in 1 .. Len(records) : JoinStream(R)[i + 1] = H[i]
  BY <1>1, <1>6
<1>8. \A i \in 1 .. Len(records) : H[i] = RecordMsg(records[i])
  BY DEF H
<1>9. JoinStream(R)[1] = W
  BY <1>1, <1>4, <1>6
<1>. QED
  BY <1>1, <1>6, <1>7, <1>8, <1>9 DEF W

\* Messages a step broadcasts are messages.
LEMMA MessageTyping ==
  /\ \A r \in Record : RecordMsg(r) \in HostMessage
  /\ \A R \in Rosters : RosterMsg(R) \in HostMessage
  /\ EndedMsg \in HostMessage
  /\ PongMsg \in HostMessage
  /\ \A c \in Client, p \in Cursor \cup {NoCursor} :
       [type |-> "presence", user |-> c, cursor |-> p] \in HostMessage
BY DEF HostMessage, RecordMsg, RosterMsg, EndedMsg, PongMsg

-----------------------------------------------------------------------------
(* One stream against one log.  StreamOK says of a single client what the  *)
(* invariants JoinerReplay, StreamComplete and StreamOrdered say of all.   *)

Replays(s, log, doc) ==
  /\ Len(s) > 0
  /\ s[1].type = "welcome"
  /\ s[1].snapshot = doc
  /\ s[1].log_length \in Nat
  /\ s[1].log_length <= Len(log)
  /\ s[1].log_length < Len(s)
  /\ \A i \in 1 .. s[1].log_length : s[i + 1] = RecordMsg(log[i])

Complete(s, log, c) ==
  \A i \in DOMAIN log :
    (i <= s[1].log_length \/ log[i].user_id # c)
      <=> \E j \in DOMAIN s : s[j] = RecordMsg(log[i])

Sound(s, log) ==
  \A j \in DOMAIN s :
    s[j].type = "record" => \E i \in DOMAIN log : log[i] = s[j].record

Ordered(s, log) ==
  \A j, k \in DOMAIN s, i, l \in DOMAIN log :
    j < k /\ s[j] = RecordMsg(log[i]) /\ s[k] = RecordMsg(log[l]) => i < l

StreamOK(s, log, c, doc) ==
  /\ Replays(s, log, doc)
  /\ Complete(s, log, c)
  /\ Sound(s, log)
  /\ Ordered(s, log)

\* A record message determines its record.
LEMMA RecordMsgFacts ==
  /\ \A r, q : RecordMsg(r) = RecordMsg(q) => r = q
  /\ \A r : RecordMsg(r).type = "record" /\ RecordMsg(r).record = r
BY DEF RecordMsg

\* Messages that are neither records nor a Welcome leave a stream correct.
LEMMA ChatterKeeps ==
  ASSUME NEW c, NEW doc, NEW log \in Seq(Record),
         NEW s \in Seq(HostMessage), NEW t \in Seq(HostMessage),
         StreamOK(s, log, c, doc),
         Len(s) <= Len(t),
         \A j \in 1 .. Len(s) : t[j] = s[j],
         \A j \in 1 .. Len(t) : j > Len(s) => t[j].type \notin {"welcome", "record"}
  PROVE  StreamOK(t, log, c, doc)
<1>1. /\ Len(s) \in Nat /\ DOMAIN s = 1 .. Len(s)
      /\ Len(t) \in Nat /\ DOMAIN t = 1 .. Len(t)
      /\ Len(log) \in Nat /\ DOMAIN log = 1 .. Len(log)
  OBVIOUS
<1>2. Len(s) > 0 /\ t[1] = s[1]
  BY <1>1 DEF StreamOK, Replays
<1>3. \A r : \A j \in DOMAIN t : t[j] = RecordMsg(r) => j \in DOMAIN s /\ s[j] = RecordMsg(r)
  BY <1>1, RecordMsgFacts
<1>4. Replays(t, log, doc)
  <2>1. Replays(s, log, doc)
    BY DEF StreamOK
  <2>2. /\ s[1].log_length \in Nat /\ s[1].log_length <= Len(log) /\ s[1].log_length < Len(s)
        /\ s[1].type = "welcome" /\ s[1].snapshot = doc
        /\ \A i \in 1 .. s[1].log_length : s[i + 1] = RecordMsg(log[i])
    BY <2>1 DEF Replays
  <2>3. \A i \in 1 .. s[1].log_length : i + 1 \in 1 .. Len(s)
    BY <1>1, <2>2
  <2>4. Len(t) > 0 /\ s[1].log_length < Len(t)
    BY <1>1, <1>2, <2>2
  <2>5. \A i \in 1 .. t[1].log_length : t[i + 1] = RecordMsg(log[i])
    BY <1>2, <2>2, <2>3
  <2>. QED
    BY <1>2, <2>2, <2>4, <2>5 DEF Replays
<1>5. Complete(t, log, c)
  BY <1>1, <1>2, <1>3 DEF StreamOK, Complete
<1>6. Sound(t, log)
  BY <1>1 DEF StreamOK, Sound
<1>7. Ordered(t, log)
  BY <1>1, <1>3 DEF StreamOK, Ordered
<1>. QED
  BY <1>4, <1>5, <1>6, <1>7 DEF StreamOK

\* A new log entry that is queued to everyone but its author leaves every
\* stream correct.
LEMMA LoggingKeeps ==
  ASSUME NEW c, NEW doc, NEW log \in Seq(Record), NEW r \in Record,
         NEW s \in Seq(HostMessage), NEW t \in Seq(HostMessage),
         StreamOK(s, log, c, doc),
         \A i \in DOMAIN log : log[i] # r,
         t = IF r.user_id # c THEN Append(s, RecordMsg(r)) ELSE s
  PROVE  StreamOK(t, Append(log, r), c, doc)
<1> DEFINE new == Append(log, r)
<1>1. /\ Len(s) \in Nat /\ DOMAIN s = 1 .. Len(s)
      /\ Len(log) \in Nat /\ DOMAIN log = 1 .. Len(log)
  OBVIOUS
<1>2. /\ DOMAIN new = 1 .. Len(log) + 1
      /\ Len(new) = Len(log) + 1
      /\ \A i \in 1 .. Len(log) : new[i] = log[i]
      /\ new[Len(log) + 1] = r
  BY <1>1
<1>3. \A j \in DOMAIN s : s[j] # RecordMsg(r)
  BY RecordMsgFacts DEF StreamOK, Sound
<1>4. Len(s) > 0 /\ s[1].log_length \in Nat /\ s[1].log_length <= Len(log)
  BY DEF StreamOK, Replays
<1> HIDE DEF new
<1>5. CASE r.user_id # c
  <2>1. /\ DOMAIN t = 1 .. Len(s) + 1
        /\ Len(t) = Len(s) + 1
        /\ \A j \in 1 .. Len(s) : t[j] = s[j]
        /\ t[Len(s) + 1] = RecordMsg(r)
    BY <1>1, <1>5, RecordMsgFacts
  <2>2. Replays(t, new, doc)
    BY <1>1, <1>2, <1>4, <2>1 DEF StreamOK, Replays
  <2>3. Complete(t, new, c)
    <3>1. ASSUME NEW i \in 1 .. Len(log)
          PROVE  (i <= t[1].log_length \/ new[i].user_id # c)
                   <=> \E j \in DOMAIN t : t[j] = RecordMsg(new[i])
      <4>1. RecordMsg(new[i]) # RecordMsg(r)
        BY <1>1, <1>2, RecordMsgFacts
      <4>2. (\E j \in DOMAIN t : t[j] = RecordMsg(new[i]))
              <=> \E j \in DOMAIN s : s[j] = RecordMsg(log[i])
        BY <1>1, <1>2, <2>1, <4>1
      <4>. QED
        BY <1>1, <1>2, <1>4, <2>1, <4>2 DEF StreamOK, Complete
    <3>2. \E j \in DOMAIN t : t[j] = RecordMsg(new[Len(log) + 1])
      BY <1>1, <1>2, <2>1
    <3>. QED
      BY <1>1, <1>2, <1>5, <3>1, <3>2 DEF Complete
  <2>4. Sound(t, new)
    <3>1. ASSUME NEW j \in DOMAIN s, s[j].type = "record"
          PROVE  \E i \in DOMAIN new : new[i] = s[j].record
      <4>1. PICK i \in DOMAIN log : log[i] = s[j].record
        BY <3>1 DEF StreamOK, Sound
      <4>2. i \in DOMAIN new /\ new[i] = log[i]
        BY <1>1, <1>2
      <4>. QED
        BY <4>1, <4>2
    <3>2. RecordMsg(r).record = r /\ Len(log) + 1 \in DOMAIN new
      BY <1>1, <1>2, RecordMsgFacts
    <3>3. \A j \in DOMAIN t : j = Len(s) + 1 \/ (j \in DOMAIN s /\ t[j] = s[j])
      BY <1>1, <2>1
    <3>. QED
      BY <1>2, <2>1, <3>1, <3>2, <3>3 DEF Sound
  <2>5. Ordered(t, new)
    <3>1. SUFFICES ASSUME NEW j \in DOMAIN t, NEW k \in DOMAIN t,
                          NEW i \in DOMAIN new, NEW l \in DOMAIN new, j < k,
                          t[j] = RecordMsg(new[i]), t[k] = RecordMsg(new[l])
                   PROVE  i < l
      BY DEF Ordered
    <3>2. j \in DOMAIN s /\ t[j] = s[j]
      BY <1>1, <2>1, <3>1
    <3>3. i \in DOMAIN log /\ new[i] = log[i]
      <4>1. s[j] = RecordMsg(new[i])
        BY <3>1, <3>2
      <4>2. new[i] # r
        BY <1>3, <3>2, <4>1
      <4>. QED
        BY <1>1, <1>2, <4>2
    <3>4. CASE l = Len(log) + 1
      BY <1>1, <3>3, <3>4
    <3>5. CASE l \in DOMAIN log
      <4>1. k # Len(s) + 1
        BY <1>1, <1>2, <2>1, <3>1, <3>5, RecordMsgFacts
      <4>2. k \in DOMAIN s /\ t[k] = s[k]
        BY <1>1, <2>1, <4>1
      <4>. QED
        BY <1>1, <1>2, <3>1, <3>2, <3>3, <3>5, <4>2 DEF StreamOK, Ordered
    <3>. QED
      BY <1>1, <1>2, <3>4, <3>5
  <2>. QED
    BY <2>2, <2>3, <2>4, <2>5 DEF StreamOK, new
<1>6. CASE r.user_id = c
  <2>1. t = s
    BY <1>6
  <2>2. Replays(s, new, doc)
    BY <1>1, <1>2, <1>4 DEF StreamOK, Replays
  <2>3. Complete(s, new, c)
    BY <1>1, <1>2, <1>3, <1>4, <1>6 DEF StreamOK, Complete
  <2>4. Sound(s, new)
    BY <1>1, <1>2 DEF StreamOK, Sound
  <2>5. Ordered(s, new)
    BY <1>1, <1>2, <1>3 DEF StreamOK, Ordered
  <2>. QED
    BY <2>1, <2>2, <2>3, <2>4, <2>5 DEF StreamOK, new
<1>. QED
  BY <1>5, <1>6

\* The stream of a fresh joiner is correct.
LEMMA JoinOK ==
  ASSUME TypeOK, NoDuplicateIds(records), NEW c, NEW R \in Rosters
  PROVE  StreamOK(JoinStream(R), records, c, snapshot)
<1> DEFINE s == JoinStream(R)
<1>1. /\ Len(records) \in Nat /\ DOMAIN records = 1 .. Len(records)
      /\ DOMAIN s = 1 .. Len(records) + 1
      /\ Len(s) = Len(records) + 1
      /\ s[1].type = "welcome" /\ s[1].snapshot = snapshot
      /\ s[1].log_length = Len(records)
      /\ \A i \in 1 .. Len(records) : s[i + 1] = RecordMsg(records[i])
  <2>1. /\ s \in Seq(HostMessage)
        /\ Len(s) = Len(records) + 1
        /\ s[1] = [type |-> "welcome", snapshot |-> snapshot,
                   log_length |-> Len(records), roster |-> R]
        /\ \A i \in 1 .. Len(records) : s[i + 1] = RecordMsg(records[i])
    BY JoinStreamShape
  <2>2. records \in Seq(Record)
    BY DEF TypeOK
  <2> HIDE DEF s
  <2>3. DOMAIN s = 1 .. Len(s)
    BY <2>1
  <2>. QED
    BY <2>1, <2>2, <2>3
<1> HIDE DEF s
<1>2. \A j \in 2 .. Len(records) + 1 :
        j - 1 \in DOMAIN records /\ s[j] = RecordMsg(records[j - 1])
  BY <1>1
<1>3. Replays(s, records, snapshot)
  BY <1>1 DEF Replays
<1>4. Complete(s, records, c)
  BY <1>1 DEF Complete
<1>5. Sound(s, records)
  BY <1>1, <1>2, RecordMsgFacts DEF Sound
<1>6. \A j \in DOMAIN s, i \in DOMAIN records :
        s[j] = RecordMsg(records[i]) => j = i + 1
  <2>1. SUFFICES ASSUME NEW j \in DOMAIN s, NEW i \in DOMAIN records,
                        s[j] = RecordMsg(records[i])
                 PROVE  j = i + 1
    OBVIOUS
  <2>2. j # 1
    BY <1>1, <2>1, RecordMsgFacts
  <2>3. j - 1 \in DOMAIN records /\ s[j] = RecordMsg(records[j - 1])
    BY <1>1, <1>2, <2>2
  <2>4. records[j - 1] = records[i]
    BY <2>1, <2>3, RecordMsgFacts
  <2>5. j - 1 = i
    BY <2>3, <2>4 DEF NoDuplicateIds
  <2>. QED
    BY <1>1, <2>5
<1>7. Ordered(s, records)
  BY <1>1, <1>6 DEF Ordered
<1>. QED
  BY <1>3, <1>4, <1>5, <1>7 DEF StreamOK, s

-----------------------------------------------------------------------------
(* What a step does to the streams.  In every step one client joins, or    *)
(* some clients (perhaps none) leave, while the log stays and the streams  *)
(* of the others grow by messages that carry no record; or one record is   *)
(* logged; or the session is reset.                                        *)

Grows(c) ==
  /\ Len(sent[c]) <= Len(sent'[c])
  /\ \A j \in 1 .. Len(sent[c]) : sent'[c][j] = sent[c][j]
  /\ \A j \in 1 .. Len(sent'[c]) :
       j > Len(sent[c]) => sent'[c][j].type \notin {"welcome", "record"}

Joins(c) == \E R \in Rosters : sent'[c] = JoinStream(R)

JoinStep(u) ==
  /\ records' = records
  /\ snapshot' = snapshot
  /\ clients' = clients \cup {u}
  /\ Admits(u)
  /\ ~ended'
  /\ Joins(u)
  /\ \A c \in clients \ {u} : Grows(c)

LeaveStep(S) ==
  /\ records' = records
  /\ snapshot' = snapshot
  /\ clients' = clients \ S
  /\ \A c \in clients' : Grows(c)

\* What the invariants of the streams need to know of the two.
QuietStep ==
  /\ records' = records
  /\ snapshot' = snapshot
  /\ \A c \in clients' : (c \in clients /\ Grows(c)) \/ (Joins(c) /\ ~ended')

Logs(r) ==
  /\ Unlogged(r)
  /\ records' = Append(records, r)
  /\ snapshot' = snapshot
  /\ clients' = clients
  /\ \A c \in clients :
       sent'[c] = IF r.user_id # c THEN Append(sent[c], RecordMsg(r)) ELSE sent[c]

ResetStep ==
  /\ clients' = {}
  /\ snapshot' = snapshot + 1
  /\ records' \in Seq(Record)
  /\ NoDuplicateIds(records')

\* The clients a roster names, and the typing of the streams.
LEMMA ClientsFacts ==
  ASSUME TypeOK
  PROVE  /\ clients \subseteq Client
         /\ Host \notin clients
         /\ DOMAIN roster = clients \cup {Host}
         /\ \A c \in Client : sent[c] \in Seq(HostMessage)
<1>1. DOMAIN roster \subseteq User
  BY DEF TypeOK, Rosters
<1>. QED
  BY <1>1 DEF TypeOK, clients, User

\* A broadcast of one message appends it to the queues it names.
LEMMA BroadcastShape ==
  ASSUME TypeOK, NEW to \in SUBSET Client, NEW m \in HostMessage, Broadcast(to, <<m>>)
  PROVE  /\ sent' \in [Client -> Seq(HostMessage)]
         /\ \A c \in Client :
              sent'[c] = IF c \in to THEN Append(sent[c], m) ELSE sent[c]
<1>1. \A c \in Client : sent[c] \o <<m>> = Append(sent[c], m)
  BY ClientsFacts, AppendIsConcat
<1>2. \A c \in Client : Append(sent[c], m) \in Seq(HostMessage)
  BY ClientsFacts, AppendProperties
<1>. QED
  BY <1>1, <1>2, ClientsFacts DEF Broadcast

\* Appending one message that is neither a record nor a Welcome is growth.
LEMMA AppendGrows ==
  ASSUME TypeOK, NEW c \in Client, NEW m \in HostMessage,
         m.type \notin {"welcome", "record"},
         sent'[c] = Append(sent[c], m) \/ sent'[c] = sent[c]
  PROVE  Grows(c)
<1>1. sent[c] \in Seq(HostMessage) /\ Len(sent[c]) \in Nat
  BY ClientsFacts
<1>. QED
  BY <1>1 DEF Grows

\* The messages about a join.
LEMMA JoinNewsShape ==
  ASSUME TypeOK, NEW u \in Client, NEW R \in Rosters
  PROVE  /\ JoinNews(u, R) \in Seq(HostMessage)
         /\ \A j \in 1 .. Len(JoinNews(u, R)) : JoinNews(u, R)[j].type = "roster"
<1>1. Without(roster, {u}) \in Rosters
  <2>1. {u} \in SUBSET Client /\ u \in User /\ roster \in Rosters
    BY DEF TypeOK, User
  <2>2. PICK D \in SUBSET User : roster \in [D -> Name]
    BY <2>1 DEF Rosters
  <2>3. Without(roster, {u}) \in [D \ {u} -> Name]
    BY <2>2 DEF Without
  <2>. QED
    BY <2>2, <2>3 DEF Rosters
<1> DEFINE m == RosterMsg(Without(roster, {u}))
           n == RosterMsg(R)
<1>2. m \in HostMessage /\ n \in HostMessage /\ m.type = "roster" /\ n.type = "roster"
  BY <1>1, MessageTyping DEF RosterMsg
<1>3. JoinNews(u, R) = (IF IsConnected(u) THEN <<m>> ELSE <<>>) \o <<n>>
  BY DEF JoinNews
<1> HIDE DEF m, n
<1>4. CASE IsConnected(u)
  <2>1. JoinNews(u, R) = Append(<<m>>, n)
    BY <1>2, <1>3, <1>4, AppendIsConcat
  <2>. QED
    BY <1>2, <2>1
<1>5. CASE ~IsConnected(u)
  <2>1. JoinNews(u, R) = Append(<<>>, n)
    BY <1>2, <1>3, <1>5, AppendIsConcat
  <2>. QED
    BY <1>2, <2>1
<1>. QED
  BY <1>4, <1>5

-----------------------------------------------------------------------------
(* Type correctness.                                                       *)

\* The parts of TypeOK that speak of the clients, for a roster of the others.
LEMMA ClientsPrime ==
  ASSUME TypeOK
  PROVE  /\ \A u \in Client, n \in Name : roster' = With(roster, u, n) =>
              clients' = clients \cup {u}
         /\ \A n \in Name : roster' = With(roster, Host, n) => clients' = clients
         /\ \A S \in SUBSET Client : roster' = Without(roster, S) =>
              clients' = clients \ S /\ Host \in DOMAIN roster'
         /\ roster' = roster => clients' = clients
<1>1. Host \notin Client /\ DOMAIN roster = clients \cup {Host} /\ Host \notin clients
  BY ConstAssumption, ClientsFacts
<1>. QED
  BY <1>1 DEF With, Without, clients

\* Hearing from a client keeps the type of last_seen.
LEMMA HeardTyping ==
  ASSUME TypeOK, NEW u \in Client, Heard(u)
  PROVE  silence' \in [clients -> Fresh .. Stale]
<1>1. Fresh \in Fresh .. Stale
  BY DEF Fresh, Stale
<1>. QED
  BY <1>1 DEF TypeOK, Heard

\* The handlers of the core keep the types, whatever calls them: a Hello.
LEMMA HelloTyped ==
  ASSUME TypeOK, NEW u \in Client, NEW n \in Name, HandleHello(u, n)
  PROVE  TypeOK'
<1> USE ConstAssumption
<1>0. /\ clients \subseteq Client /\ roster \in Rosters /\ Host \in User
      /\ Client \subseteq User /\ Host \in DOMAIN roster
  BY ClientsFacts DEF TypeOK, User
<1>1. clients' = clients \cup {u} /\ roster' \in Rosters /\ Host \in DOMAIN roster'
  <2>1. roster' = With(roster, u, n)
    BY DEF HandleHello
  <2>2. With(roster, u, n) \in Rosters /\ Host \in DOMAIN With(roster, u, n)
    <3>1. {} \in SUBSET Client /\ u \in User /\ n \in Name
      BY <1>0
    <3>2. /\ With(roster, u, n) \in Rosters
          /\ DOMAIN With(roster, u, n) = DOMAIN roster \cup {u}
      BY <1>0, <3>1, RosterTyping
    <3>. QED
      BY <1>0, <3>2
  <2>3. clients' = clients \cup {u}
    BY <2>1, ClientsPrime
  <2>. QED
    BY <2>1, <2>2, <2>3
<1>2. cursors' \in [clients' -> Cursor \cup {NoCursor}]
  BY <1>1 DEF HandleHello, TypeOK, With
<1>3. silence' \in [clients' -> Fresh .. Stale]
  BY <1>1 DEF HandleHello, TypeOK, With, Fresh, Stale
<1>4. sent' \in [Client -> Seq(HostMessage)]
  <2>1. With(roster, u, n) \in Rosters
    BY <1>0, RosterTyping
  <2>2. /\ JoinStream(With(roster, u, n)) \in Seq(HostMessage)
        /\ JoinNews(u, With(roster, u, n)) \in Seq(HostMessage)
    BY <2>1, JoinStreamShape, JoinNewsShape
  <2>3. \A c \in Client :
          sent[c] \o JoinNews(u, With(roster, u, n)) \in Seq(HostMessage)
    BY <2>2, ClientsFacts, ConcatProperties
  <2>. QED
    BY <2>2, <2>3, ClientsFacts DEF HandleHello
<1>. QED
  BY <1>1, <1>2, <1>3, <1>4 DEF TypeOK, HandleHello

\* A client's record.
LEMMA ActionTyped ==
  ASSUME TypeOK, NEW u \in Client, NEW r \in Record, HandleAction(u, r)
  PROVE  TypeOK'
<1> USE ConstAssumption
<1>0. /\ clients \subseteq Client /\ roster \in Rosters /\ Host \in User
      /\ Client \subseteq User /\ Host \in DOMAIN roster
  BY ClientsFacts DEF TypeOK, User
<1>1. sent' \in [Client -> Seq(HostMessage)]
  BY <1>0, BroadcastShape, MessageTyping DEF HandleAction
<1>2. clients' = clients
  BY ClientsPrime DEF HandleAction
<1>3. records' \in Seq(Record)
  BY AppendProperties DEF TypeOK, HandleAction
<1>4. silence' \in [clients -> Fresh .. Stale]
  BY HeardTyping DEF HandleAction
<1>. QED
  BY <1>1, <1>2, <1>3, <1>4 DEF TypeOK, HandleAction

\* Disconnects and prunes.
LEMMA DropTyped ==
  ASSUME TypeOK, NEW S \in SUBSET Client, DropClients(S)
  PROVE  TypeOK'
<1> USE ConstAssumption
<1>0. /\ clients \subseteq Client /\ roster \in Rosters /\ Host \in User
      /\ Client \subseteq User /\ Host \in DOMAIN roster
  BY ClientsFacts DEF TypeOK, User
<1>1. Without(roster, S) \in Rosters /\ RosterMsg(Without(roster, S)) \in HostMessage
  <2>1. PICK D \in SUBSET User : roster \in [D -> Name]
    BY <1>0 DEF Rosters
  <2>2. Without(roster, S) \in [D \ S -> Name] /\ D \ S \in SUBSET User
    BY <2>1 DEF Without
  <2>. QED
    BY <2>2, MessageTyping DEF Rosters
<1>2. clients' = clients \ S /\ Host \in DOMAIN roster'
  BY ClientsPrime DEF DropClients
<1>3. cursors' \in [clients' -> Cursor \cup {NoCursor}]
  BY <1>2 DEF DropClients, TypeOK, Without
<1>4. silence' \in [clients' -> Fresh .. Stale]
  BY <1>2 DEF DropClients, TypeOK, Without
<1>5. sent' \in [Client -> Seq(HostMessage)]
  <2>1. \A c \in Client :
          Append(sent[c], RosterMsg(Without(roster, S))) \in Seq(HostMessage)
    BY <1>1, ClientsFacts, AppendProperties
  <2>. QED
    BY <2>1, ClientsFacts DEF DropClients
<1>. QED
  BY <1>1, <1>2, <1>3, <1>4, <1>5 DEF TypeOK, DropClients

\* Silence.
LEMMA AgeTyped ==
  ASSUME TypeOK, NEW u \in Client, Age(u)
  PROVE  TypeOK'
<1> USE ConstAssumption
<1>1. clients' = clients
  BY ClientsPrime DEF Age
<1>2. silence' \in [clients -> Fresh .. Stale]
  <2>1. silence \in [clients -> 0 .. 2] /\ u \in clients /\ silence[u] < 2
    BY DEF TypeOK, Age, IsConnected, Fresh, Stale
  <2>2. silence[u] + 1 \in 0 .. 2
    BY <2>1
  <2>3. silence' = [silence EXCEPT ![u] = silence[u] + 1]
    BY DEF Age
  <2>. QED
    BY <2>1, <2>2, <2>3 DEF Fresh, Stale
<1>. QED
  BY <1>1, <1>2 DEF TypeOK, Age

\* An edit of the host.
LEMMA LocalTyped ==
  ASSUME TypeOK, NEW r \in Record, HandleLocal(r)
  PROVE  TypeOK'
<1> USE ConstAssumption
<1>0. /\ clients \subseteq Client /\ roster \in Rosters /\ Host \in User
      /\ Client \subseteq User /\ Host \in DOMAIN roster
  BY ClientsFacts DEF TypeOK, User
<1>1. sent' \in [Client -> Seq(HostMessage)]
  BY <1>0, BroadcastShape, MessageTyping DEF HandleLocal
<1>2. clients' = clients
  BY ClientsPrime DEF HandleLocal
<1>3. records' \in Seq(Record)
  BY AppendProperties DEF TypeOK, HandleLocal
<1>. QED
  BY <1>1, <1>2, <1>3 DEF TypeOK, HandleLocal

\* A re-seed.
LEMMA ReseedTyped ==
  ASSUME TypeOK, NEW s \in Seq(Record), Reseed(s)
  PROVE  TypeOK'
<1> USE ConstAssumption
<1>0. /\ clients \subseteq Client /\ roster \in Rosters /\ Host \in User
      /\ Client \subseteq User /\ Host \in DOMAIN roster
  BY ClientsFacts DEF TypeOK, User
<1>1. clients' = {} /\ Host \in DOMAIN roster'
  BY <1>0, ClientsPrime DEF Reseed
<1>2. Without(roster, clients) \in Rosters
  <2>1. PICK D \in SUBSET User : roster \in [D -> Name]
    BY <1>0 DEF Rosters
  <2>2. Without(roster, clients) \in [D \ clients -> Name] /\ D \ clients \in SUBSET User
    BY <2>1 DEF Without
  <2>. QED
    BY <2>2 DEF Rosters
<1>3. cursors' \in [clients' -> Cursor \cup {NoCursor}]
  BY <1>1 DEF Reseed, TypeOK, Without
<1>4. silence' \in [clients' -> Fresh .. Stale]
  BY <1>1 DEF Reseed, TypeOK, Without
<1>5. sent' \in [Client -> Seq(HostMessage)]
  <2>1. <<>> \in Seq(HostMessage)
    BY EmptySeq
  <2>. QED
    BY <2>1 DEF Reseed
<1>. QED
  BY <1>1, <1>2, <1>3, <1>4, <1>5 DEF TypeOK, Reseed

\* Every step keeps the types.
LEMMA TypeStep ==
  ASSUME TypeOK, Next
  PROVE  TypeOK'
<1> USE ConstAssumption
<1>1. /\ clients \subseteq Client /\ roster \in Rosters /\ Host \in User
      /\ Client \subseteq User /\ Host \in DOMAIN roster
  BY ClientsFacts DEF TypeOK, User
<1>2. ASSUME NEW u \in Client, NEW n \in Name, Hello(u, n)
      PROVE  TypeOK'
  BY <1>2, HelloTyped DEF Hello
<1>3. ASSUME NEW u \in Client, NEW n \in Name, Rename(u, n)
      PROVE  TypeOK'
  <2>1. With(roster, u, n) \in Rosters
    BY <1>1, RosterTyping
  <2>2. sent' \in [Client -> Seq(HostMessage)]
    BY <1>1, <1>3, <2>1, BroadcastShape, MessageTyping DEF Rename
  <2>3. clients' = clients /\ Host \in DOMAIN roster'
    <3>1. roster' = With(roster, u, n) /\ u \in clients
      BY <1>3 DEF Rename, IsConnected
    <3>2. Host \in DOMAIN With(roster, u, n)
      BY <1>1 DEF With
    <3>3. clients' = clients \cup {u}
      BY <3>1, ClientsPrime
    <3>. QED
      BY <3>1, <3>2, <3>3
  <2>4. silence' \in [clients -> Fresh .. Stale]
    BY <1>3, HeardTyping DEF Rename
  <2>. QED
    BY <1>3, <2>1, <2>2, <2>3, <2>4 DEF TypeOK, Rename
<1>4. ASSUME NEW u \in Client, NEW r \in Record, Action(u, r)
      PROVE  TypeOK'
  BY <1>4, ActionTyped DEF Action
<1>5. ASSUME NEW u \in Client, NEW p \in Cursor \cup {NoCursor}, Presence(u, p)
      PROVE  TypeOK'
  <2>1. sent' \in [Client -> Seq(HostMessage)]
    BY <1>1, <1>5, BroadcastShape, MessageTyping DEF Presence
  <2>2. clients' = clients
    BY <1>5, ClientsPrime DEF Presence
  <2>4. silence' \in [clients -> Fresh .. Stale]
    BY <1>5, HeardTyping DEF Presence
  <2>5. cursors' \in [clients -> Cursor \cup {NoCursor}]
    BY <1>5 DEF Presence, TypeOK
  <2>. QED
    BY <1>5, <2>1, <2>2, <2>4, <2>5 DEF TypeOK, Presence
<1>6. ASSUME NEW u \in Client, Ping(u)
      PROVE  TypeOK'
  <2>1. sent' \in [Client -> Seq(HostMessage)]
    BY <1>6, BroadcastShape, MessageTyping DEF Ping
  <2>2. clients' = clients
    BY <1>6, ClientsPrime DEF Ping
  <2>4. silence' \in [clients -> Fresh .. Stale]
    BY <1>6, HeardTyping DEF Ping
  <2>. QED
    BY <1>6, <2>1, <2>2, <2>4 DEF TypeOK, Ping
<1>7. ASSUME NEW S \in SUBSET Client, DropClients(S)
      PROVE  TypeOK'
  BY <1>7, DropTyped
<1>8. ASSUME NEW u \in Client, Bye(u) \/ Disconnect(u)
      PROVE  TypeOK'
  BY <1>7, <1>8 DEF Bye, Disconnect
<1>9. ASSUME NEW u \in Client, Age(u)
      PROVE  TypeOK'
  BY <1>9, AgeTyped
<1>10. ASSUME NEW r \in Record, ApplyLocalRecord(r)
       PROVE  TypeOK'
  BY <1>10, LocalTyped DEF ApplyLocalRecord
<1>11. ASSUME NEW n \in Name, SetHostDisplayName(n)
       PROVE  TypeOK'
  <2>1. With(roster, Host, n) \in Rosters
    BY <1>1, RosterTyping
  <2>2. sent' \in [Client -> Seq(HostMessage)]
    BY <1>1, <1>11, <2>1, BroadcastShape, MessageTyping DEF SetHostDisplayName
  <2>3. clients' = clients /\ Host \in DOMAIN roster'
    BY <1>11, ClientsPrime DEF SetHostDisplayName, With
  <2>. QED
    BY <1>11, <2>1, <2>2, <2>3 DEF TypeOK, SetHostDisplayName
<1>12. ASSUME NEW s \in Seeds, Reseed(s)
       PROVE  TypeOK'
  <2>1. s \in Seq(Record)
    <3>1. PICK k \in Nat : s \in [1 .. k -> Record]
      BY DEF Seeds
    <3>. QED
      BY <3>1, SeqDef
  <2>. QED
    BY <1>12, <2>1, ReseedTyped
<1>13. ASSUME PruneStale
       PROVE  TypeOK'
  BY <1>1, <1>7, <1>13 DEF PruneStale, StaleClients
<1>14. ASSUME EndSession
       PROVE  TypeOK'
  <2>1. sent' \in [Client -> Seq(HostMessage)]
    BY <1>1, <1>14, BroadcastShape, MessageTyping DEF EndSession
  <2>2. clients' = clients
    BY <1>14, ClientsPrime DEF EndSession
  <2>. QED
    BY <1>14, <2>1, <2>2 DEF TypeOK, EndSession
<1>. QED
  BY <1>2, <1>3, <1>4, <1>5, <1>6, <1>8, <1>9, <1>10, <1>11, <1>12, <1>13, <1>14 DEF Next

\* The initial state is well typed.
LEMMA TypeInit ==
  ASSUME Init
  PROVE  TypeOK
<1>1. clients = {} /\ Host \in DOMAIN roster
  BY DEF Init, clients
<1>2. roster \in Rosters
  <2>1. {Host} \in SUBSET User
    BY DEF User
  <2>. QED
    BY <2>1 DEF Init, Rosters
<1>3. sent \in [Client -> Seq(HostMessage)] /\ records \in Seq(Record)
  BY EmptySeq DEF Init
<1>. QED
  BY <1>1, <1>2, <1>3 DEF Init, TypeOK, Fresh, Stale

\* Whatever the calls and their order, every queue of the host holds only
\* messages of the wire protocol, and presence, last_seen and the queues are
\* kept for exactly the joined clients: no teardown path forgets one of them.
THEOREM TypeCorrect == Spec => []TypeOK
<1>1. Init => TypeOK
  BY TypeInit
<1>2. TypeOK /\ [Next]_hostVars => TypeOK'
  <2>1. CASE Next
    BY <2>1, TypeStep
  <2>2. CASE UNCHANGED hostVars
    BY <2>2 DEF TypeOK, hostVars, clients
  <2>. QED
    BY <2>1, <2>2
<1>. QED
  BY <1>1, <1>2, PTL DEF Spec

-----------------------------------------------------------------------------
(* What each action does to the streams.                                   *)

\* A broadcast of one message that carries no record makes the streams of
\* those who stay grow.
LEMMA BroadcastQuiet ==
  ASSUME TypeOK, NEW to \in SUBSET Client, NEW m \in HostMessage,
         m.type \notin {"welcome", "record"}, NEW S \in SUBSET Client,
         clients' = clients \ S,
         \A c \in clients' :
           sent'[c] = IF c \in to THEN Append(sent[c], m) ELSE sent[c],
         UNCHANGED <<records, snapshot>>
  PROVE  LeaveStep(S)
<1>1. clients \subseteq Client
  BY ClientsFacts
<1>2. \A c \in clients' : Grows(c)
  BY <1>1, AppendGrows
<1>. QED
  BY <1>2 DEF LeaveStep

\* A broadcast of one such message under an unchanged roster: nobody leaves.
LEMMA BroadcastIsQuiet ==
  ASSUME TypeOK, NEW to \in SUBSET Client, NEW m \in HostMessage,
         m.type \notin {"welcome", "record"}, Broadcast(to, <<m>>),
         clients' = clients, UNCHANGED <<records, snapshot>>
  PROVE  LeaveStep({})
<1>1. \A c \in Client : sent'[c] = IF c \in to THEN Append(sent[c], m) ELSE sent[c]
  BY BroadcastShape
<1>2. clients' \subseteq Client /\ clients' = clients \ {} /\ {} \in SUBSET Client
  BY ClientsFacts
<1>3. \A c \in clients' :
        sent'[c] = IF c \in to THEN Append(sent[c], m) ELSE sent[c]
  BY <1>1, <1>2
<1>. QED
  BY <1>2, <1>3, BroadcastQuiet

\* Every step is a join, a leave, one record more or a reset.
LEMMA StepShape ==
  ASSUME TypeOK, Next
  PROVE  \/ \E u \in Client : JoinStep(u)
         \/ \E S \in SUBSET Client : LeaveStep(S)
         \/ \E r \in Record : Logs(r)
         \/ ResetStep
<1>1. /\ clients \subseteq Client /\ roster \in Rosters
      /\ Client \subseteq User /\ Host \in User /\ {} \in SUBSET Client
  BY ClientsFacts DEF TypeOK, User
<1>2. ASSUME NEW u \in Client, NEW n \in Name, Hello(u, n)
      PROVE  JoinStep(u)
  <2> DEFINE R == With(roster, u, n)
  <2>1. R \in Rosters
    BY <1>1, RosterTyping
  <2>2. roster' = R /\ UNCHANGED <<records, snapshot>>
    BY <1>2 DEF Hello, HandleHello
  <2>3. clients' = clients \cup {u}
    BY <2>2, ClientsPrime
  <2>4. sent' = [c \in Client |->
                   IF c = u THEN JoinStream(R)
                   ELSE IF c \in clients THEN sent[c] \o JoinNews(u, R)
                   ELSE sent[c]]
    BY <1>2 DEF Hello, HandleHello
  <2> HIDE DEF R
  <2>5. Joins(u) /\ ~ended' /\ Admits(u)
    <3>1. Admits(u) /\ ~ended /\ ended' = ended
      BY <1>2 DEF Hello, HandleHello, Admits
    <3>. QED
      BY <2>1, <2>4, <3>1 DEF Joins
  <2>6. ASSUME NEW c \in clients, c # u
        PROVE  Grows(c)
    <3>1. sent'[c] = sent[c] \o JoinNews(u, R)
      BY <1>1, <2>4, <2>6
    <3>2. /\ sent[c] \in Seq(HostMessage)
          /\ JoinNews(u, R) \in Seq(HostMessage)
          /\ \A j \in 1 .. Len(JoinNews(u, R)) : JoinNews(u, R)[j].type = "roster"
      BY <1>1, <2>1, ClientsFacts, JoinNewsShape
    <3> DEFINE s == sent[c]
               t == JoinNews(u, R)
    <3> HIDE DEF s, t
    <3>3. /\ Len(s \o t) = Len(s) + Len(t)
          /\ \A j \in 1 .. Len(s) + Len(t) :
               (s \o t)[j] = IF j <= Len(s) THEN s[j] ELSE t[j - Len(s)]
          /\ Len(s) \in Nat /\ Len(t) \in Nat
      BY <3>2, ConcatProperties DEF s, t
    <3>4. \A j \in 1 .. Len(s \o t) : j > Len(s) => (s \o t)[j].type = "roster"
      BY <3>2, <3>3 DEF t
    <3>5. Len(s) <= Len(s \o t) /\ \A j \in 1 .. Len(s) : (s \o t)[j] = s[j]
      BY <3>3
    <3>. QED
      BY <3>1, <3>4, <3>5 DEF Grows, s, t
  <2>. QED
    BY <2>2, <2>3, <2>5, <2>6 DEF JoinStep
<1>3. ASSUME NEW u \in Client, NEW n \in Name, Rename(u, n)
      PROVE  LeaveStep({})
  <2> DEFINE m == RosterMsg(With(roster, u, n))
  <2>1. m \in HostMessage /\ m.type = "roster"
    BY <1>1, RosterTyping, MessageTyping DEF RosterMsg
  <2>2. roster' = With(roster, u, n) /\ u \in clients /\ Broadcast(clients, <<m>>)
        /\ UNCHANGED <<records, snapshot>>
    BY <1>3 DEF Rename, IsConnected
  <2> HIDE DEF m
  <2>3. clients' = clients
    BY <2>2, ClientsPrime
  <2>. QED
    BY <1>1, <2>1, <2>2, <2>3, BroadcastIsQuiet
<1>4. ASSUME NEW u \in Client, NEW r \in Record, Action(u, r)
      PROVE  Logs(r)
  <2>1. /\ Unlogged(r) /\ r.user_id = u
        /\ records' = Append(records, r) /\ UNCHANGED <<snapshot, roster>>
        /\ Broadcast(clients \ {u}, <<RecordMsg(r)>>)
    BY <1>4 DEF Action, HandleAction
  <2>2. clients' = clients
    BY <2>1, ClientsPrime
  <2>3. clients \ {u} \in SUBSET Client /\ RecordMsg(r) \in HostMessage
    BY <1>1, MessageTyping
  <2>4. \A c \in Client :
          sent'[c] = IF c \in clients \ {u} THEN Append(sent[c], RecordMsg(r)) ELSE sent[c]
    BY <2>1, <2>3, BroadcastShape
  <2>. QED
    BY <1>1, <2>1, <2>2, <2>4 DEF Logs
<1>5. ASSUME NEW u \in Client, NEW p \in Cursor \cup {NoCursor}, Presence(u, p)
      PROVE  LeaveStep({})
  <2> DEFINE m == [type |-> "presence", user |-> u, cursor |-> p]
  <2>1. m \in HostMessage /\ m.type = "presence"
    BY MessageTyping
  <2>2. Broadcast(clients \ {u}, <<m>>) /\ UNCHANGED <<records, snapshot, roster>>
    BY <1>5 DEF Presence
  <2> HIDE DEF m
  <2>3. clients' = clients /\ clients \ {u} \in SUBSET Client
    BY <1>1, <2>2, ClientsPrime
  <2>. QED
    BY <1>1, <2>1, <2>2, <2>3, BroadcastIsQuiet
<1>6. ASSUME NEW u \in Client, Ping(u)
      PROVE  LeaveStep({})
  <2>1. PongMsg \in HostMessage /\ PongMsg.type = "pong"
    BY MessageTyping DEF PongMsg
  <2>2. Broadcast({u}, <<PongMsg>>) /\ UNCHANGED <<records, snapshot, roster>>
    BY <1>6 DEF Ping
  <2>3. clients' = clients /\ {u} \in SUBSET Client
    BY <2>2, ClientsPrime
  <2>. QED
    BY <1>1, <2>1, <2>2, <2>3, BroadcastIsQuiet
<1>7. ASSUME NEW S \in SUBSET Client, DropClients(S)
      PROVE  LeaveStep(S)
  <2> DEFINE m == RosterMsg(Without(roster, S))
  <2>1. m \in HostMessage /\ m.type = "roster"
    <3>1. PICK D \in SUBSET User : roster \in [D -> Name]
      BY <1>1 DEF Rosters
    <3>2. Without(roster, S) \in [D \ S -> Name] /\ D \ S \in SUBSET User
      BY <3>1 DEF Without
    <3>3. Without(roster, S) \in Rosters
      BY <3>2 DEF Rosters
    <3>. QED
      BY <3>3, MessageTyping DEF RosterMsg
  <2>2. clients' = clients \ S /\ UNCHANGED <<records, snapshot>>
    BY <1>7, ClientsPrime DEF DropClients
  <2>3. \A c \in Client : sent'[c] = IF c \in S THEN <<>>
                                     ELSE IF c \in clients THEN Append(sent[c], m)
                                     ELSE sent[c]
    BY <1>7 DEF DropClients
  <2> HIDE DEF m
  <2>4. \A c \in clients' :
          sent'[c] = IF c \in clients THEN Append(sent[c], m) ELSE sent[c]
    BY <1>1, <2>2, <2>3
  <2>. QED
    BY <1>1, <2>1, <2>2, <2>4, BroadcastQuiet
<1>8. ASSUME NEW u \in Client, Bye(u) \/ Disconnect(u)
      PROVE  LeaveStep({u})
  BY <1>7, <1>8 DEF Bye, Disconnect
<1>9. ASSUME NEW u \in Client, Age(u)
      PROVE  LeaveStep({})
  <2>1. UNCHANGED <<records, snapshot, sent, roster>>
    BY <1>9 DEF Age
  <2>2. clients' = clients
    BY <2>1, ClientsPrime
  <2>3. \A c \in clients : Grows(c)
    BY <1>1, <2>1, ClientsFacts DEF Grows
  <2>. QED
    BY <2>1, <2>2, <2>3 DEF LeaveStep
<1>10. ASSUME NEW r \in Record, ApplyLocalRecord(r)
       PROVE  Logs(r)
  <2>1. /\ Unlogged(r) /\ r.user_id = Host
        /\ records' = Append(records, r) /\ UNCHANGED <<snapshot, roster>>
        /\ Broadcast(clients, <<RecordMsg(r)>>)
    BY <1>10 DEF ApplyLocalRecord, HandleLocal
  <2>2. clients' = clients /\ Host \notin clients
    BY <2>1, ClientsPrime, ClientsFacts
  <2>3. RecordMsg(r) \in HostMessage
    BY MessageTyping
  <2>4. \A c \in Client :
          sent'[c] = IF c \in clients THEN Append(sent[c], RecordMsg(r)) ELSE sent[c]
    BY <1>1, <2>1, <2>3, BroadcastShape
  <2>. QED
    BY <1>1, <2>1, <2>2, <2>4 DEF Logs
<1>11. ASSUME NEW n \in Name, SetHostDisplayName(n)
       PROVE  LeaveStep({})
  <2> DEFINE m == RosterMsg(With(roster, Host, n))
  <2>1. m \in HostMessage /\ m.type = "roster"
    BY <1>1, RosterTyping, MessageTyping DEF RosterMsg
  <2>2. roster' = With(roster, Host, n) /\ Broadcast(clients, <<m>>)
        /\ UNCHANGED <<records, snapshot>>
    BY <1>11 DEF SetHostDisplayName
  <2> HIDE DEF m
  <2>3. clients' = clients
    BY <2>2, ClientsPrime
  <2>. QED
    BY <1>1, <2>1, <2>2, <2>3, BroadcastIsQuiet
<1>12. ASSUME NEW s \in Seeds, Reseed(s)
       PROVE  ResetStep
  <2>1. /\ roster' = Without(roster, clients)
        /\ records' = s
        /\ snapshot' = snapshot + 1
    BY <1>12 DEF Reseed
  <2>2. clients' = {}
    BY <1>1, <2>1, ClientsPrime
  <2>3. NoDuplicateIds(s) /\ s \in Seq(Record)
    <3>1. PICK k \in Nat : s \in [1 .. k -> Record]
      BY <1>12 DEF Seeds
    <3>. QED
      BY <1>12, <3>1, SeqDef DEF Seeds
  <2>. QED
    BY <2>1, <2>2, <2>3 DEF ResetStep
<1>13. ASSUME PruneStale
       PROVE  LeaveStep(StaleClients)
  BY <1>1, <1>7, <1>13 DEF PruneStale, StaleClients
<1>14. ASSUME EndSession
       PROVE  LeaveStep({})
  <2>1. EndedMsg \in HostMessage /\ EndedMsg.type = "ended"
    BY MessageTyping DEF EndedMsg
  <2>2. Broadcast(clients, <<EndedMsg>>) /\ UNCHANGED <<records, snapshot, roster>>
    BY <1>14 DEF EndSession
  <2>3. clients' = clients
    BY <2>2, ClientsPrime
  <2>. QED
    BY <1>1, <2>1, <2>2, <2>3, BroadcastIsQuiet
<1>15. /\ {} \in SUBSET Client
       /\ StaleClients \in SUBSET Client
       /\ \A u \in Client : {u} \in SUBSET Client
  BY <1>1 DEF StaleClients
<1>. QED
  BY <1>2, <1>3, <1>4, <1>5, <1>6, <1>8, <1>9, <1>10, <1>11, <1>12, <1>13, <1>14, <1>15
  DEF Next

\* The same, for properties of one stream: joins and leaves are quiet.
LEMMA StepKinds ==
  ASSUME TypeOK, Next
  PROVE  QuietStep \/ (\E r \in Record : Logs(r)) \/ ResetStep
<1>1. ASSUME NEW u \in Client, JoinStep(u)
      PROVE  QuietStep
  BY <1>1 DEF JoinStep, QuietStep
<1>2. ASSUME NEW S \in SUBSET Client, LeaveStep(S)
      PROVE  QuietStep
  BY <1>2 DEF LeaveStep, QuietStep
<1>. QED
  BY <1>1, <1>2, StepShape

-----------------------------------------------------------------------------
(* The streams.                                                            *)

\* The invariant that is inductive.  Completeness of a stream needs its order
\* to survive a new log entry, order needs soundness and a log without
\* duplicate ids, and all of them need the replay's base to stay put.
IInv ==
  /\ TypeOK
  /\ NoDuplicateIds(records)
  /\ \A c \in clients : StreamOK(sent[c], records, c, snapshot)

\* The invariant holds before anyone joined.
LEMMA IInvInit ==
  ASSUME Init
  PROVE  IInv
<1>1. TypeOK
  BY TypeInit
<1>2. NoDuplicateIds(records) /\ clients = {}
  BY DEF Init, NoDuplicateIds, clients
<1>. QED
  BY <1>1, <1>2 DEF IInv

\* A record that was not logged keeps the log free of duplicates.
LEMMA LogStaysUnique ==
  ASSUME TypeOK, NoDuplicateIds(records), NEW r \in Record, Unlogged(r)
  PROVE  NoDuplicateIds(Append(records, r))
<1> DEFINE new == Append(records, r)
<1>1. /\ DOMAIN records = 1 .. Len(records) /\ Len(records) \in Nat
      /\ DOMAIN new = 1 .. Len(records) + 1
      /\ \A i \in 1 .. Len(records) : new[i] = records[i]
      /\ new[Len(records) + 1] = r
  BY DEF TypeOK
<1> HIDE DEF new
<1>2. \A i, j \in DOMAIN new : new[i].action_id = new[j].action_id => i = j
  <2>1. SUFFICES ASSUME NEW i \in DOMAIN new, NEW j \in DOMAIN new,
                        new[i].action_id = new[j].action_id
                 PROVE  i = j
    OBVIOUS
  <2>2. CASE i \in DOMAIN records /\ j \in DOMAIN records
    BY <1>1, <2>1, <2>2 DEF NoDuplicateIds
  <2>3. CASE i \notin DOMAIN records \/ j \notin DOMAIN records
    BY <1>1, <2>1, <2>3 DEF Unlogged
  <2>. QED
    BY <2>2, <2>3
<1>. QED
  BY <1>2 DEF NoDuplicateIds, new

\* Every step keeps the invariant: one case per shape of a step.
LEMMA IInvStep ==
  ASSUME IInv, Next
  PROVE  IInv'
<1>1. TypeOK /\ TypeOK' /\ NoDuplicateIds(records)
  BY TypeStep DEF IInv
<1>2. clients \subseteq Client /\ clients' \subseteq Client
  <2>1. roster \in Rosters /\ roster' \in Rosters
    BY <1>1 DEF TypeOK
  <2>. QED
    BY <2>1 DEF clients, Rosters, User
<1>3. records \in Seq(Record) /\ \A c \in Client : sent[c] \in Seq(HostMessage)
                                                /\ sent'[c] \in Seq(HostMessage)
  BY <1>1 DEF TypeOK
<1>4. CASE QuietStep
  <2>1. records' = records /\ snapshot' = snapshot
    BY <1>4 DEF QuietStep
  <2>2. ASSUME NEW c \in clients'
        PROVE  StreamOK(sent'[c], records, c, snapshot)
    <3>1. CASE c \in clients /\ Grows(c)
      <4>1. StreamOK(sent[c], records, c, snapshot)
        BY <3>1 DEF IInv
      <4>. QED
        BY <1>2, <1>3, <2>2, <3>1, <4>1, ChatterKeeps DEF Grows
    <3>2. CASE Joins(c)
      BY <1>1, <3>2, JoinOK DEF Joins
    <3>. QED
      BY <1>4, <2>2, <3>1, <3>2 DEF QuietStep
  <2>. QED
    BY <1>1, <2>1, <2>2 DEF IInv
<1>5. ASSUME NEW r \in Record, Logs(r)
      PROVE  IInv'
  <2>1. NoDuplicateIds(records')
    BY <1>1, <1>5, LogStaysUnique DEF Logs
  <2>2. \A i \in DOMAIN records : records[i] # r
    BY <1>5 DEF Logs, Unlogged
  <2>3. ASSUME NEW c \in clients
        PROVE  StreamOK(sent'[c], records', c, snapshot')
    <3>1. StreamOK(sent[c], records, c, snapshot)
      BY <2>3 DEF IInv
    <3>2. sent'[c] = IF r.user_id # c THEN Append(sent[c], RecordMsg(r)) ELSE sent[c]
      BY <1>5, <2>3 DEF Logs
    <3>3. StreamOK(sent'[c], Append(records, r), c, snapshot)
      BY <1>2, <1>3, <2>2, <2>3, <3>1, <3>2, LoggingKeeps
    <3>. QED
      BY <1>5, <3>3 DEF Logs
  <2>4. clients' = clients
    BY <1>5 DEF Logs
  <2>. QED
    BY <1>1, <2>1, <2>3, <2>4 DEF IInv
<1>6. CASE ResetStep
  BY <1>1, <1>6 DEF ResetStep, IInv
<1>. QED
  BY <1>1, <1>4, <1>5, <1>6, StepKinds

\* The inductive invariant gives the three properties of the streams.
LEMMA IInvImplies ==
  ASSUME IInv
  PROVE  JoinerReplay /\ StreamComplete /\ StreamOrdered
<1>1. \A c \in clients : StreamOK(sent[c], records, c, snapshot)
  BY DEF IInv
<1>2. JoinerReplay
  BY <1>1 DEF StreamOK, Replays, JoinerReplay, Base
<1>3. StreamComplete
  BY <1>1 DEF StreamOK, Complete, StreamComplete, Lacks, Base
<1>4. StreamOrdered
  BY <1>1 DEF StreamOK, Sound, Ordered, StreamOrdered
<1>. QED
  BY <1>2, <1>3, <1>4

\* The invariant holds in every behaviour.
LEMMA IInvAlways == Spec => []IInv
<1>1. IInv /\ UNCHANGED hostVars => IInv'
  BY DEF IInv, TypeOK, hostVars, clients
<1>2. IInv /\ [Next]_hostVars => IInv'
  BY <1>1, IInvStep
<1>. QED
  BY <1>2, IInvInit, PTL DEF Spec

\* Whatever joins, leaves, edits and evictions race, a joined client finds
\* the Welcome first and behind it the log the Welcome counted, unbroken.
THEOREM ReplayCorrect == Spec => []JoinerReplay
BY IInvAlways, IInvImplies, PTL

\* Every joined client is sent exactly the log entries it lacks: all of the
\* replay, then every record of another author, and never its own.
THEOREM DeliveryCorrect == Spec => []StreamComplete
BY IInvAlways, IInvImplies, PTL

\* Every stream holds log entries only, in log order and each once.
THEOREM OrderCorrect == Spec => []StreamOrdered
BY IInvAlways, IInvImplies, PTL

\* Replay, delivery and order together: a joined client's stream is the snapshot
\* and the log that it lacks, in order and once.
THEOREM StreamsWholeCorrect == Spec => []StreamsWhole
<1>1. TypeOK /\ JoinerReplay /\ StreamComplete /\ StreamOrdered => StreamsWhole
  BY DEF StreamsWhole
<1>. QED
  BY <1>1, TypeCorrect, ReplayCorrect, DeliveryCorrect, OrderCorrect, PTL

\* No call shortens or rewrites the log while a client stays joined.
THEOREM LogKeptCorrect == Spec => LogKept
<1> DEFINE Kept == \/ clients' = {}
                   \/ /\ Len(records) <= Len(records')
                      /\ \A i \in DOMAIN records : records'[i] = records[i]
<1>1. TypeOK /\ [Next]_hostVars => [Kept]_hostVars
  <2>1. SUFFICES ASSUME TypeOK, Next
                 PROVE  Kept
    OBVIOUS
  <2>2. records \in Seq(Record) /\ Len(records) \in Nat
    BY <2>1 DEF TypeOK
  <2>3. CASE QuietStep
    BY <2>2, <2>3 DEF QuietStep
  <2>4. ASSUME NEW r \in Record, Logs(r)
        PROVE  Kept
    BY <2>2, <2>4 DEF Logs
  <2>5. CASE ResetStep
    BY <2>5 DEF ResetStep
  <2>. QED
    BY <2>1, <2>3, <2>4, <2>5, StepKinds
<1>. QED
  BY <1>1, TypeCorrect, PTL DEF Spec, LogKept

-----------------------------------------------------------------------------
(* The end of the session.                                                 *)

\* Only end_session ends a session.
LEMMA EndedFacts ==
  ASSUME Next
  PROVE  ended' = ended \/ EndSession
BY DEF Next, Hello, HandleHello, Rename, Action, HandleAction, Presence, Ping,
       Bye, Disconnect, DropClients, Age, ApplyLocalRecord, HandleLocal,
       SetHostDisplayName, Reseed, PruneStale

\* A step keeps the reach of Ended: a stream never loses a message, and who
\* joins, joins a session that did not end.
LEMMA EndStep ==
  ASSUME TypeOK, EndReachesAll, Next
  PROVE  EndReachesAll'
<1>1. clients \subseteq Client /\ \A c \in clients : sent[c] \in Seq(HostMessage)
  BY ClientsFacts
<1>2. CASE EndSession
  <2>1. clients' = clients
    BY <1>2, ClientsPrime DEF EndSession
  <2>2. EndedMsg \in HostMessage /\ Broadcast(clients, <<EndedMsg>>)
    BY <1>2, MessageTyping DEF EndSession
  <2>3. \A c \in clients : sent'[c] = Append(sent[c], EndedMsg)
    BY <1>1, <2>2, BroadcastShape
  <2>4. \A c \in clients : \E j \in DOMAIN sent'[c] : sent'[c][j] = EndedMsg
    BY <1>1, <2>3
  <2>. QED
    BY <2>1, <2>4 DEF EndReachesAll
<1>3. CASE ended' = ended
  <2>1. SUFFICES ASSUME ended', NEW c \in clients'
                 PROVE  \E j \in DOMAIN sent'[c] : sent'[c][j] = EndedMsg
    BY DEF EndReachesAll
  <2>2. TypeOK'
    BY TypeStep
  <2>3. c \in Client /\ sent'[c] \in Seq(HostMessage)
    <3>1. roster' \in Rosters
      BY <2>2 DEF TypeOK
    <3>2. c \in Client
      BY <2>1, <3>1 DEF clients, Rosters, User
    <3>. QED
      BY <2>2, <3>2 DEF TypeOK
  <2>4. ASSUME c \in clients, Len(sent[c]) <= Len(sent'[c]),
               \A j \in 1 .. Len(sent[c]) : sent'[c][j] = sent[c][j]
        PROVE  \E j \in DOMAIN sent'[c] : sent'[c][j] = EndedMsg
    <3>1. PICK j \in DOMAIN sent[c] : sent[c][j] = EndedMsg
      BY <1>3, <2>1, <2>4 DEF EndReachesAll
    <3>2. DOMAIN sent[c] = 1 .. Len(sent[c]) /\ DOMAIN sent'[c] = 1 .. Len(sent'[c])
          /\ Len(sent[c]) \in Nat /\ Len(sent'[c]) \in Nat
      BY <1>1, <2>3, <2>4
    <3>3. j \in DOMAIN sent'[c] /\ sent'[c][j] = EndedMsg
      BY <2>4, <3>1, <3>2
    <3>. QED
      BY <3>3
  <2>5. CASE QuietStep
    BY <2>1, <2>4, <2>5 DEF QuietStep, Grows
  <2>6. ASSUME NEW r \in Record, Logs(r)
        PROVE  \E j \in DOMAIN sent'[c] : sent'[c][j] = EndedMsg
    <3>1. /\ c \in clients
          /\ sent'[c] = IF r.user_id # c THEN Append(sent[c], RecordMsg(r)) ELSE sent[c]
      BY <2>1, <2>6 DEF Logs
    <3>2. Len(sent[c]) <= Len(sent'[c]) /\ \A j \in 1 .. Len(sent[c]) : sent'[c][j] = sent[c][j]
      BY <1>1, <3>1
    <3>. QED
      BY <2>4, <3>1, <3>2
  <2>7. CASE ResetStep
    BY <2>1, <2>7 DEF ResetStep
  <2>. QED
    BY <2>5, <2>6, <2>7, StepKinds
<1>. QED
  BY <1>2, <1>3, EndedFacts

\* Once the host ended the session, every client that is still joined has
\* Ended in its stream, the one whose Hello raced the end included.
THEOREM EndCorrect == Spec => []EndReachesAll
<1>1. Init => EndReachesAll
  BY DEF Init, EndReachesAll
<1>2. EndReachesAll /\ UNCHANGED hostVars => EndReachesAll'
  BY DEF EndReachesAll, hostVars, clients
<1>3. TypeOK /\ EndReachesAll /\ [Next]_hostVars => EndReachesAll'
  BY <1>2, EndStep
<1>. QED
  BY <1>1, <1>3, TypeCorrect, PTL DEF Spec

-----------------------------------------------------------------------------
(* Takeovers.                                                              *)

\* A client that was heard from within the eviction window keeps its stream:
\* a duplicate Hello is refused, and nothing else restarts a stream.
THEOREM NoTakeoverCorrect == Spec => NoTakeover
<1> DEFINE Kept == \A c \in clients \cap clients' :
                     silence[c] = Fresh =>
                       /\ Len(sent[c]) <= Len(sent'[c])
                       /\ \A j \in DOMAIN sent[c] : sent'[c][j] = sent[c][j]
<1>1. TypeOK /\ [Next]_hostVars => [Kept]_hostVars
  <2>1. SUFFICES ASSUME TypeOK, Next
                 PROVE  Kept
    OBVIOUS
  <2>2. \A c \in clients : /\ sent[c] \in Seq(HostMessage)
                           /\ DOMAIN sent[c] = 1 .. Len(sent[c])
                           /\ Len(sent[c]) \in Nat
    <3>1. \A c \in clients : sent[c] \in Seq(HostMessage)
      BY <2>1, ClientsFacts
    <3>. QED
      BY <3>1
  <2>3. ASSUME NEW u \in Client, JoinStep(u)
        PROVE  Kept
    <3>1. \A c \in clients : silence[c] = Fresh => c # u
      BY <2>1, <2>3 DEF JoinStep, Admits, IsConnected, TypeOK, Fresh, Silent
    <3>2. \A c \in clients \ {u} : Grows(c)
      BY <2>3 DEF JoinStep
    <3>. QED
      BY <2>2, <3>1, <3>2 DEF Grows
  <2>4. ASSUME NEW S \in SUBSET Client, LeaveStep(S)
        PROVE  Kept
    BY <2>2, <2>4 DEF LeaveStep, Grows
  <2>5. ASSUME NEW r \in Record, Logs(r)
        PROVE  Kept
    <3>1. ASSUME NEW c \in clients
          PROVE  /\ Len(sent[c]) <= Len(sent'[c])
                 /\ \A j \in DOMAIN sent[c] : sent'[c][j] = sent[c][j]
      <4>1. sent'[c] = Append(sent[c], RecordMsg(r)) \/ sent'[c] = sent[c]
        BY <2>5 DEF Logs
      <4>. QED
        BY <2>2, <4>1
    <3>. QED
      BY <3>1
  <2>6. CASE ResetStep
    BY <2>6 DEF ResetStep
  <2>. QED
    BY <2>1, <2>3, <2>4, <2>5, <2>6, StepShape
<1>. QED
  BY <1>1, TypeCorrect, PTL DEF Spec, NoTakeover

-----------------------------------------------------------------------------
(* The roster as its readers see it.                                       *)

\* RosterCurrent, of one stream.
Current(s, R) ==
  \E j \in DOMAIN s :
    /\ TellsRoster(s[j])
    /\ s[j].roster = R
    /\ \A k \in DOMAIN s : k > j => ~TellsRoster(s[k])

\* A roster that ends a stream is its current one.
LEMMA RosterLast ==
  ASSUME NEW s \in Seq(HostMessage), NEW R, Len(s) > 0, s[Len(s)] = RosterMsg(R)
  PROVE  Current(s, R)
<1>1. DOMAIN s = 1 .. Len(s) /\ Len(s) \in Nat /\ Len(s) \in DOMAIN s
  OBVIOUS
<1>2. TellsRoster(s[Len(s)]) /\ s[Len(s)].roster = R
  BY DEF TellsRoster, RosterMsg
<1>. QED
  BY <1>1, <1>2 DEF Current

\* A message that tells no roster leaves the current one current.
LEMMA RosterStays ==
  ASSUME NEW s \in Seq(HostMessage), NEW R, NEW m \in HostMessage,
         Current(s, R), ~TellsRoster(m)
  PROVE  Current(Append(s, m), R)
<1> DEFINE t == Append(s, m)
<1>1. /\ DOMAIN s = 1 .. Len(s) /\ Len(s) \in Nat
      /\ DOMAIN t = 1 .. Len(s) + 1
      /\ \A j \in 1 .. Len(s) : t[j] = s[j]
      /\ t[Len(s) + 1] = m
  OBVIOUS
<1> HIDE DEF t
<1>2. PICK j \in DOMAIN s : /\ TellsRoster(s[j]) /\ s[j].roster = R
                            /\ \A k \in DOMAIN s : k > j => ~TellsRoster(s[k])
  BY DEF Current
<1>3. j \in DOMAIN t /\ TellsRoster(t[j]) /\ t[j].roster = R
  BY <1>1, <1>2
<1>4. \A k \in DOMAIN t : k > j => ~TellsRoster(t[k])
  BY <1>1, <1>2
<1>5. Current(t, R)
  BY <1>3, <1>4 DEF Current
<1>. QED
  BY <1>5 DEF t

\* The roster of the Welcome is current in a joiner's stream, whatever log
\* is replayed behind it.
LEMMA RosterOfJoin ==
  ASSUME TypeOK, NEW R \in Rosters
  PROVE  Current(JoinStream(R), R)
<1> DEFINE s == JoinStream(R)
<1>1. /\ s \in Seq(HostMessage)
      /\ Len(s) = Len(records) + 1
      /\ s[1] = [type |-> "welcome", snapshot |-> snapshot,
                 log_length |-> Len(records), roster |-> R]
      /\ \A i \in 1 .. Len(records) : s[i + 1] = RecordMsg(records[i])
  BY JoinStreamShape
<1>2. Len(records) \in Nat
  BY DEF TypeOK
<1> HIDE DEF s
<1>3. 1 \in DOMAIN s /\ DOMAIN s = 1 .. Len(records) + 1
  BY <1>1, <1>2
<1>4. \A k \in DOMAIN s : k > 1 => s[k].type = "record"
  <2>1. SUFFICES ASSUME NEW k \in DOMAIN s, k > 1
                 PROVE  s[k].type = "record"
    OBVIOUS
  <2>2. k - 1 \in 1 .. Len(records) /\ (k - 1) + 1 = k
    BY <1>2, <1>3, <2>1
  <2>3. s[(k - 1) + 1] = RecordMsg(records[k - 1])
    BY <1>1, <2>2
  <2>. QED
    BY <2>2, <2>3, RecordMsgFacts
<1>5. Current(s, R)
  BY <1>1, <1>3, <1>4 DEF Current, TellsRoster
<1>. QED
  BY <1>5 DEF s

\* The news of a join end with the roster that names the joiner.
LEMMA RosterOfNews ==
  ASSUME TypeOK, NEW u \in Client, NEW R \in Rosters, NEW s \in Seq(HostMessage)
  PROVE  Current(s \o JoinNews(u, R), R)
<1> DEFINE gone == IF IsConnected(u) THEN <<RosterMsg(Without(roster, {u}))>> ELSE <<>>
           m == RosterMsg(R)
<1>1. m \in HostMessage /\ JoinNews(u, R) \in Seq(HostMessage)
  BY MessageTyping, JoinNewsShape
<1>2. gone \in Seq(HostMessage)
  <2>1. Without(roster, {u}) \in Rosters
    <3>1. {u} \in SUBSET Client /\ u \in User /\ roster \in Rosters
      BY DEF TypeOK, User
    <3>2. PICK D \in SUBSET User : roster \in [D -> Name]
      BY <3>1 DEF Rosters
    <3>3. Without(roster, {u}) \in [D \ {u} -> Name]
      BY <3>2 DEF Without
    <3>. QED
      BY <3>2, <3>3 DEF Rosters
  <2>2. RosterMsg(Without(roster, {u})) \in HostMessage
    BY <2>1, MessageTyping
  <2>. QED
    BY <2>2
<1>3. JoinNews(u, R) = gone \o <<m>>
  BY DEF JoinNews
<1> HIDE DEF gone, m
<1>4. s \o (gone \o <<m>>) = Append(s \o gone, m)
  <2>1. <<m>> \in Seq(HostMessage) /\ s \o gone \in Seq(HostMessage)
    BY <1>1, <1>2, ConcatProperties
  <2>2. (s \o gone) \o <<m>> = s \o (gone \o <<m>>)
    <3>1. InRow(HostMessage, s, gone, <<m>>)
      BY <1>2, <2>1, InARow
    <3>. QED
      BY <3>1 DEF InRow
  <2>3. Append(s \o gone, m) = (s \o gone) \o <<m>>
    <3>1. AtEnd(HostMessage, s \o gone, m)
      BY <1>1, <2>1, OneAtEnd
    <3>. QED
      BY <3>1 DEF AtEnd
  <2>. QED
    BY <2>2, <2>3
<1>5. /\ Append(s \o gone, m) \in Seq(HostMessage)
      /\ Len(Append(s \o gone, m)) > 0
      /\ Append(s \o gone, m)[Len(Append(s \o gone, m))] = m
  <2>1. s \o gone \in Seq(HostMessage) /\ Len(s \o gone) \in Nat
    BY <1>2, ConcatProperties
  <2>. QED
    BY <1>1, <2>1, AppendProperties
<1>. QED
  BY <1>3, <1>4, <1>5, RosterLast DEF m

\* Who stays is sent the roster that a step makes, or no roster at all when
\* the step makes none; who joins is sent it with the Welcome.
LEMMA RosterStep ==
  ASSUME TypeOK, RosterCurrent, Next
  PROVE  RosterCurrent'
<1>0. SUFFICES \A c \in clients' : Current(sent'[c], roster')
  BY DEF RosterCurrent, Current
<1>1. /\ clients \subseteq Client /\ roster \in Rosters
      /\ Client \subseteq User /\ Host \in User /\ {} \in SUBSET Client
      /\ \A c \in Client : sent[c] \in Seq(HostMessage)
      /\ \A c \in clients : Current(sent[c], roster)
  BY ClientsFacts DEF TypeOK, User, RosterCurrent, Current
<1>2. ASSUME NEW to \in SUBSET Client, NEW m \in HostMessage, ~TellsRoster(m),
             Broadcast(to, <<m>>), roster' = roster
      PROVE  \A c \in clients' : Current(sent'[c], roster')
  <2>1. clients' = clients
    BY <1>2, ClientsPrime
  <2>2. \A c \in clients : sent'[c] = IF c \in to THEN Append(sent[c], m) ELSE sent[c]
    BY <1>1, <1>2, BroadcastShape
  <2>3. ASSUME NEW c \in clients
        PROVE  Current(sent'[c], roster)
    <3>1. sent[c] \in Seq(HostMessage) /\ Current(sent[c], roster)
      BY <1>1
    <3>2. Current(Append(sent[c], m), roster)
      BY <1>2, <3>1, RosterStays
    <3>. QED
      BY <2>2, <3>1, <3>2
  <2>. QED
    BY <1>2, <2>1, <2>3
<1>3. ASSUME NEW R \in Rosters, roster' = R,
             \A c \in clients' : c \in Client /\ sent'[c] = Append(sent[c], RosterMsg(R))
      PROVE  \A c \in clients' : Current(sent'[c], roster')
  <2>1. RosterMsg(R) \in HostMessage
    BY MessageTyping
  <2>2. ASSUME NEW c \in clients'
        PROVE  Current(sent'[c], R)
    <3>1. c \in Client /\ sent'[c] = Append(sent[c], RosterMsg(R)) /\ sent[c] \in Seq(HostMessage)
      BY <1>1, <1>3
    <3> DEFINE t == Append(sent[c], RosterMsg(R))
    <3>2. /\ t \in Seq(HostMessage)
          /\ Len(sent[c]) \in Nat
          /\ Len(t) = Len(sent[c]) + 1
          /\ t[Len(sent[c]) + 1] = RosterMsg(R)
      BY <2>1, <3>1, AppendProperties
    <3>3. sent'[c] = t
      BY <3>1
    <3> HIDE DEF t
    <3>4. Len(t) > 0 /\ t[Len(t)] = RosterMsg(R)
      BY <3>2
    <3>5. Current(t, R)
      BY <3>2, <3>4, RosterLast
    <3>. QED
      BY <3>3, <3>5
  <2>. QED
    BY <1>3, <2>2
<1>4. ASSUME NEW u \in Client, NEW n \in Name, Hello(u, n)
      PROVE  \A c \in clients' : Current(sent'[c], roster')
  <2> DEFINE R == With(roster, u, n)
  <2>1. R \in Rosters
    BY <1>1, RosterTyping
  <2>2. roster' = R
    BY <1>4 DEF Hello, HandleHello
  <2>3. clients' = clients \cup {u}
    BY <2>2, ClientsPrime
  <2>4. sent' = [c \in Client |->
                   IF c = u THEN JoinStream(R)
                   ELSE IF c \in clients THEN sent[c] \o JoinNews(u, R)
                   ELSE sent[c]]
    BY <1>4 DEF Hello, HandleHello
  <2> HIDE DEF R
  <2>5. Current(sent'[u], R)
    BY <2>1, <2>4, RosterOfJoin
  <2>6. ASSUME NEW c \in clients, c # u
        PROVE  Current(sent'[c], R)
    <3>1. sent'[c] = sent[c] \o JoinNews(u, R) /\ sent[c] \in Seq(HostMessage)
      BY <1>1, <2>4, <2>6
    <3>. QED
      BY <2>1, <3>1, RosterOfNews
  <2>. QED
    BY <2>2, <2>3, <2>5, <2>6
<1>5. ASSUME NEW u \in User, NEW n \in Name, roster' = With(roster, u, n), clients' = clients,
             Broadcast(clients, <<RosterMsg(With(roster, u, n))>>)
      PROVE  \A c \in clients' : Current(sent'[c], roster')
  <2> DEFINE R == With(roster, u, n)
  <2>1. R \in Rosters /\ RosterMsg(R) \in HostMessage
    BY <1>1, <1>5, RosterTyping, MessageTyping
  <2>2. roster' = R /\ Broadcast(clients, <<RosterMsg(R)>>)
    BY <1>5
  <2> HIDE DEF R
  <2>3. \A c \in clients : c \in Client /\ sent'[c] = Append(sent[c], RosterMsg(R))
    BY <1>1, <2>1, <2>2, BroadcastShape
  <2>. QED
    BY <1>3, <1>5, <2>1, <2>2, <2>3
<1>6. ASSUME NEW S \in SUBSET Client, DropClients(S)
      PROVE  \A c \in clients' : Current(sent'[c], roster')
  <2> DEFINE R == Without(roster, S)
  <2>1. R \in Rosters
    <3>1. PICK D \in SUBSET User : roster \in [D -> Name]
      BY <1>1 DEF Rosters
    <3>2. Without(roster, S) \in [D \ S -> Name] /\ D \ S \in SUBSET User
      BY <3>1 DEF Without
    <3>. QED
      BY <3>2 DEF Rosters
  <2>2. roster' = R /\ clients' = clients \ S
    BY <1>6, ClientsPrime DEF DropClients
  <2>3. \A c \in Client : sent'[c] = IF c \in S THEN <<>>
                                     ELSE IF c \in clients THEN Append(sent[c], RosterMsg(R))
                                     ELSE sent[c]
    BY <1>6 DEF DropClients
  <2> HIDE DEF R
  <2>4. \A c \in clients' : c \in Client /\ sent'[c] = Append(sent[c], RosterMsg(R))
    BY <1>1, <2>2, <2>3
  <2>. QED
    BY <1>3, <2>1, <2>2, <2>4
<1>7. ASSUME NEW u \in Client, NEW n \in Name, Rename(u, n)
      PROVE  \A c \in clients' : Current(sent'[c], roster')
  <2>1. /\ roster' = With(roster, u, n) /\ u \in clients /\ u \in User
        /\ Broadcast(clients, <<RosterMsg(With(roster, u, n))>>)
    BY <1>1, <1>7 DEF Rename, IsConnected
  <2>2. clients' = clients
    BY <2>1, ClientsPrime
  <2>. QED
    BY <1>5, <2>1, <2>2
<1>8. ASSUME NEW n \in Name, SetHostDisplayName(n)
      PROVE  \A c \in clients' : Current(sent'[c], roster')
  <2>1. /\ roster' = With(roster, Host, n) /\ Host \in User
        /\ Broadcast(clients, <<RosterMsg(With(roster, Host, n))>>)
    BY <1>1, <1>8 DEF SetHostDisplayName
  <2>2. clients' = clients
    BY <2>1, ClientsPrime
  <2>. QED
    BY <1>5, <2>1, <2>2
<1>9. ASSUME NEW u \in Client, NEW r \in Record, Action(u, r)
      PROVE  \A c \in clients' : Current(sent'[c], roster')
  <2>1. roster' = roster /\ Broadcast(clients \ {u}, <<RecordMsg(r)>>)
        /\ clients \ {u} \in SUBSET Client
    BY <1>1, <1>9 DEF Action, HandleAction
  <2>2. RecordMsg(r) \in HostMessage /\ ~TellsRoster(RecordMsg(r))
    BY MessageTyping DEF RecordMsg, TellsRoster
  <2>. QED
    BY <1>2, <2>1, <2>2
<1>10. ASSUME NEW r \in Record, ApplyLocalRecord(r)
       PROVE  \A c \in clients' : Current(sent'[c], roster')
  <2>1. roster' = roster /\ Broadcast(clients, <<RecordMsg(r)>>)
    BY <1>10 DEF ApplyLocalRecord, HandleLocal
  <2>2. RecordMsg(r) \in HostMessage /\ ~TellsRoster(RecordMsg(r))
    BY MessageTyping DEF RecordMsg, TellsRoster
  <2>. QED
    BY <1>1, <1>2, <2>1, <2>2
<1>11. ASSUME NEW u \in Client, NEW p \in Cursor \cup {NoCursor}, Presence(u, p)
       PROVE  \A c \in clients' : Current(sent'[c], roster')
  <2> DEFINE m == [type |-> "presence", user |-> u, cursor |-> p]
  <2>1. m \in HostMessage /\ ~TellsRoster(m)
    BY MessageTyping DEF TellsRoster
  <2>2. roster' = roster /\ Broadcast(clients \ {u}, <<m>>) /\ clients \ {u} \in SUBSET Client
    BY <1>1, <1>11 DEF Presence
  <2> HIDE DEF m
  <2>. QED
    BY <1>2, <2>1, <2>2
<1>12. ASSUME NEW u \in Client, Ping(u)
       PROVE  \A c \in clients' : Current(sent'[c], roster')
  <2>1. PongMsg \in HostMessage /\ ~TellsRoster(PongMsg)
    BY MessageTyping DEF PongMsg, TellsRoster
  <2>2. roster' = roster /\ Broadcast({u}, <<PongMsg>>) /\ {u} \in SUBSET Client
    BY <1>12 DEF Ping
  <2>. QED
    BY <1>2, <2>1, <2>2
<1>13. ASSUME EndSession
       PROVE  \A c \in clients' : Current(sent'[c], roster')
  <2>1. EndedMsg \in HostMessage /\ ~TellsRoster(EndedMsg)
    BY MessageTyping DEF EndedMsg, TellsRoster
  <2>2. roster' = roster /\ Broadcast(clients, <<EndedMsg>>)
    BY <1>13 DEF EndSession
  <2>. QED
    BY <1>1, <1>2, <2>1, <2>2
<1>14. ASSUME NEW u \in Client, Age(u)
       PROVE  \A c \in clients' : Current(sent'[c], roster')
  <2>1. roster' = roster /\ sent' = sent
    BY <1>14 DEF Age
  <2>2. clients' = clients
    BY <2>1, ClientsPrime
  <2>. QED
    BY <1>1, <2>1, <2>2
<1>15. ASSUME NEW s \in Seeds, Reseed(s)
       PROVE  \A c \in clients' : Current(sent'[c], roster')
  <2>1. roster' = Without(roster, clients)
    BY <1>15 DEF Reseed
  <2>2. clients' = {}
    BY <1>1, <2>1, ClientsPrime
  <2>. QED
    BY <2>2
<1>16. ASSUME NEW u \in Client, Bye(u) \/ Disconnect(u)
       PROVE  \A c \in clients' : Current(sent'[c], roster')
  <2>1. DropClients({u}) /\ {u} \in SUBSET Client
    BY <1>16 DEF Bye, Disconnect
  <2>. QED
    BY <1>6, <2>1
<1>17. ASSUME PruneStale
       PROVE  \A c \in clients' : Current(sent'[c], roster')
  <2>1. DropClients(StaleClients) /\ StaleClients \in SUBSET Client
    BY <1>1, <1>17 DEF PruneStale, StaleClients
  <2>. QED
    BY <1>6, <2>1
<1>. QED
  BY <1>4, <1>7, <1>8, <1>9, <1>10, <1>11, <1>12, <1>13, <1>14, <1>15, <1>16, <1>17
  DEF Next

\* The last roster a joined client was sent is the host's roster now, after
\* every join, rename, departure, prune and eviction.
THEOREM RosterCorrect == Spec => []RosterCurrent
<1>1. Init => RosterCurrent
  BY DEF Init, RosterCurrent, clients
<1>2. RosterCurrent /\ UNCHANGED hostVars => RosterCurrent'
  BY DEF RosterCurrent, hostVars, clients
<1>3. TypeOK /\ RosterCurrent /\ [Next]_hostVars => RosterCurrent'
  BY <1>2, RosterStep
<1>. QED
  BY <1>1, <1>3, TypeCorrect, PTL DEF Spec

\* Whoever is joined knows the roster, and learns of the end.
THEOREM EveryoneToldCorrect == Spec => []EveryoneTold
<1>1. RosterCurrent /\ EndReachesAll => EveryoneTold
  BY DEF EveryoneTold
<1>. QED
  BY <1>1, RosterCorrect, EndCorrect, PTL

\* Neither a joined client's log nor a live client's stream is ever rewritten.
THEOREM NothingRewrittenCorrect == Spec => NothingRewritten
BY LogKeptCorrect, NoTakeoverCorrect DEF NothingRewritten

-----------------------------------------------------------------------------
(* The refinement.  RecordsIn is recursive; what it returns for the streams *)
(* that a step makes is proved by least counterexample (LeastNumber).      *)

\* f[n] is the records among the first n messages of s.
UpTo(f, s) ==
  f = [n \in 0 .. Len(s) |->
         IF n = 0 THEN <<>>
         ELSE IF s[n].type = "record" THEN Append(f[n - 1], s[n].record)
         ELSE f[n - 1]]

\* The recursive definition in RecordsIn defines a function.
LEMMA UpToExists ==
  ASSUME NEW s \in Seq(HostMessage)
  PROVE  \E f : UpTo(f, s)
<1> DEFINE Step(f, n) == IF n = 0 THEN <<>>
                         ELSE IF s[n].type = "record" THEN Append(f[n - 1], s[n].record)
                         ELSE f[n - 1]
           Some(k) == \E f : f = [n \in 0 .. k |-> Step(f, n)]
           Good == {k \in 0 .. Len(s) : Some(k)}
<1>1. Len(s) \in Nat
  OBVIOUS
<1>2. Some(0)
  <2>1. [n \in 0 .. 0 |-> <<>>] = [n \in 0 .. 0 |-> Step([k \in 0 .. 0 |-> <<>>], n)]
    OBVIOUS
  <2>. QED
    BY <2>1, Zenon
<1>3. ASSUME NEW k \in Nat, Some(k)
      PROVE  Some(k + 1)
  <2>1. PICK f : f = [n \in 0 .. k |-> Step(f, n)]
    BY <1>3
  <2> DEFINE g == [n \in 0 .. k + 1 |-> IF n = k + 1 THEN Step(f, n) ELSE f[n]]
  <2>2. \A n \in 0 .. k : g[n] = f[n] /\ f[n] = Step(f, n)
    <3>1. \A n \in 0 .. k : g[n] = f[n]
      OBVIOUS
    <3>2. \A n \in 0 .. k : f[n] = Step(f, n)
      BY <2>1
    <3>. QED
      BY <3>1, <3>2
  <2>3. DOMAIN g = 0 .. k + 1 /\ g[k + 1] = Step(f, k + 1)
    OBVIOUS
  <2>4. g = [n \in 0 .. k + 1 |-> g[n]]
    OBVIOUS
  <2> HIDE DEF g
  <2>5. \A n \in 0 .. k + 1 : n # 0 => n - 1 \in 0 .. k
    OBVIOUS
  <2>6. \A n \in 0 .. k + 1 : Step(g, n) = Step(f, n)
    BY <2>2, <2>5
  <2> HIDE DEF Step
  <2>7. \A n \in 0 .. k + 1 : g[n] = Step(g, n)
    BY <2>2, <2>3, <2>6
  <2>8. g = [n \in 0 .. k + 1 |-> Step(g, n)]
    BY <2>4, <2>7
  <2>. QED
    BY <2>8, Zenon
<1>4. Some(Len(s))
  <2> HIDE DEF Some
  <2>1. 0 \in Good /\ \A n \in 0 .. Len(s) : n < Len(s) /\ n \in Good => n + 1 \in Good
    BY <1>1, <1>2, <1>3
  <2> HIDE DEF Good
  <2>2. \A n \in 0 .. Len(s) : n \in Good
    BY <1>1, <2>1, Reaches
  <2>3. Len(s) \in 0 .. Len(s)
    BY <1>1
  <2>. QED
    BY <2>2, <2>3 DEF Good
<1>. QED
  BY <1>4 DEF UpTo

\* The function, one message at a time.
LEMMA UpToValues ==
  ASSUME NEW s, NEW f, UpTo(f, s), Len(s) \in Nat
  PROVE  /\ f[0] = <<>>
         /\ \A n \in Nat : n < Len(s) =>
              f[n + 1] = IF s[n + 1].type = "record"
                         THEN Append(f[n], s[n + 1].record)
                         ELSE f[n]
<1>1. \A m \in 0 .. Len(s) :
        f[m] = IF m = 0 THEN <<>>
               ELSE IF s[m].type = "record" THEN Append(f[m - 1], s[m].record)
               ELSE f[m - 1]
  BY DEF UpTo
<1>2. ASSUME NEW n \in Nat, n < Len(s)
      PROVE  f[n + 1] = IF s[n + 1].type = "record"
                        THEN Append(f[n], s[n + 1].record)
                        ELSE f[n]
  <2>1. PICK m \in 0 .. Len(s) : m = n + 1 /\ m # 0 /\ m - 1 = n
    BY <1>2
  <2>2. f[m] = IF s[m].type = "record" THEN Append(f[n], s[m].record) ELSE f[n]
    BY <1>1, <2>1
  <2>. QED
    BY <2>1, <2>2
<1>. QED
  BY <1>1, <1>2

\* Two streams have the same records as far as they agree.
LEMMA UpToAgrees ==
  ASSUME NEW s, NEW t, NEW f, NEW g, UpTo(f, s), UpTo(g, t),
         Len(s) \in Nat, Len(t) \in Nat, Len(s) <= Len(t),
         \A j \in 1 .. Len(s) : t[j] = s[j]
  PROVE  \A n \in 0 .. Len(s) : f[n] = g[n]
<1> DEFINE Good == {n \in 0 .. Len(s) : f[n] = g[n]}
<1>1. 0 \in Good
  BY UpToValues
<1>2. ASSUME NEW n \in 0 .. Len(s), n < Len(s), n \in Good
      PROVE  n + 1 \in Good
  <2>1. n \in Nat /\ n < Len(t) /\ n + 1 \in 1 .. Len(s) /\ n + 1 \in 0 .. Len(s)
    BY <1>2
  <2>2. f[n + 1] = IF s[n + 1].type = "record" THEN Append(f[n], s[n + 1].record) ELSE f[n]
    BY <1>2, <2>1, UpToValues
  <2>3. g[n + 1] = IF t[n + 1].type = "record" THEN Append(g[n], t[n + 1].record) ELSE g[n]
    BY <2>1, UpToValues
  <2>4. t[n + 1] = s[n + 1] /\ f[n] = g[n]
    BY <1>2, <2>1
  <2>5. f[n + 1] = g[n + 1]
    BY <2>2, <2>3, <2>4
  <2>. QED
    BY <2>1, <2>5
<1> HIDE DEF Good
<1>3. \A n \in 0 .. Len(s) : n \in Good
  <2>1. \A n \in 0 .. Len(s) : n < Len(s) /\ n \in Good => n + 1 \in Good
    BY <1>2
  <2>. QED
    BY <1>1, <2>1, Reaches
<1>. QED
  BY <1>3 DEF Good

\* RecordsIn is the last value of that function.
LEMMA RecordsInIs ==
  ASSUME NEW s \in Seq(HostMessage), NEW f, UpTo(f, s)
  PROVE  RecordsIn(s) = f[Len(s)]
<1> DEFINE g == CHOOSE h : UpTo(h, s)
<1>1. UpTo(g, s)
  <2> HIDE DEF g
  <2>1. \E h : UpTo(h, s)
    BY Zenon
  <2>. QED
    BY <2>1, Zenon DEF g
<1>2. RecordsIn(s) = g[Len(s)]
  BY Zenon DEF RecordsIn, UpTo
<1> HIDE DEF g
<1>3. Len(s) \in Nat
  OBVIOUS
<1>. QED
  BY <1>1, <1>2, <1>3, UpToAgrees

\* A queued record is one record more.
LEMMA RecordsInAppend ==
  ASSUME NEW s \in Seq(HostMessage), NEW r \in Record
  PROVE  RecordsIn(Append(s, RecordMsg(r))) = Append(RecordsIn(s), r)
<1> DEFINE t == Append(s, RecordMsg(r))
<1>1. RecordMsg(r) \in HostMessage
  BY MessageTyping
<1>2. /\ t \in Seq(HostMessage)
      /\ Len(s) \in Nat
      /\ Len(t) = Len(s) + 1
      /\ \A j \in 1 .. Len(s) : t[j] = s[j]
      /\ t[Len(s) + 1] = RecordMsg(r)
  BY <1>1, AppendProperties
<1> HIDE DEF t
<1>3. PICK f : UpTo(f, s)
  BY UpToExists
<1>4. PICK g : UpTo(g, t)
  BY <1>2, UpToExists
<1>5. f[Len(s)] = g[Len(s)]
  BY <1>2, <1>3, <1>4, UpToAgrees
<1>6. g[Len(s) + 1] = Append(g[Len(s)], r)
  <2>1. Len(s) \in Nat /\ Len(s) < Len(t) /\ Len(t) \in Nat
    BY <1>2
  <2>2. t[Len(s) + 1].type = "record" /\ t[Len(s) + 1].record = r
    BY <1>2, RecordMsgFacts
  <2>. QED
    BY <1>4, <2>1, <2>2, UpToValues
<1>7. RecordsIn(s) = f[Len(s)] /\ RecordsIn(t) = g[Len(t)]
  BY <1>2, <1>3, <1>4, RecordsInIs
<1>8. RecordsIn(t) = Append(RecordsIn(s), r)
  BY <1>2, <1>5, <1>6, <1>7
<1>. QED
  BY <1>8 DEF t

\* Messages that carry no record change no view.
LEMMA RecordsInGrows ==
  ASSUME NEW s \in Seq(HostMessage), NEW t \in Seq(HostMessage),
         Len(s) <= Len(t),
         \A j \in 1 .. Len(s) : t[j] = s[j],
         \A j \in 1 .. Len(t) : j > Len(s) => t[j].type # "record"
  PROVE  RecordsIn(t) = RecordsIn(s)
<1>1. Len(s) \in Nat /\ Len(t) \in Nat
  OBVIOUS
<1>2. PICK f : UpTo(f, s)
  BY UpToExists
<1>3. PICK g : UpTo(g, t)
  BY UpToExists
<1>4. \A n \in 0 .. Len(s) : f[n] = g[n]
  BY <1>1, <1>2, <1>3, UpToAgrees
<1> DEFINE Good == {n \in 0 .. Len(t) : n <= Len(s) \/ g[n] = f[Len(s)]}
<1>5. 0 \in Good
  BY <1>1
<1>6. ASSUME NEW n \in 0 .. Len(t), n < Len(t), n \in Good
      PROVE  n + 1 \in Good
  <2>1. CASE n < Len(s)
    BY <1>1, <1>6, <2>1
  <2>2. CASE n >= Len(s)
    <3>1. g[n] = f[Len(s)]
      BY <1>1, <1>4, <1>6, <2>2
    <3>2. n \in Nat /\ n + 1 \in 1 .. Len(t) /\ n + 1 \in 0 .. Len(t) /\ n + 1 > Len(s)
      BY <1>1, <1>6, <2>2
    <3>3. t[n + 1].type # "record"
      BY <3>2
    <3>4. g[n + 1] = g[n]
      BY <1>1, <1>3, <1>6, <3>2, <3>3, UpToValues
    <3>. QED
      BY <3>1, <3>2, <3>4
  <2>. QED
    BY <1>1, <2>1, <2>2
<1> HIDE DEF Good
<1>7. Len(t) \in Good
  <2>1. \A n \in 0 .. Len(t) : n < Len(t) /\ n \in Good => n + 1 \in Good
    BY <1>6
  <2>2. \A n \in 0 .. Len(t) : n \in Good
    BY <1>1, <1>5, <2>1, Reaches
  <2>. QED
    BY <1>1, <2>2
<1>8. g[Len(t)] = f[Len(s)]
  BY <1>1, <1>4, <1>7 DEF Good
<1>. QED
  BY <1>2, <1>3, <1>8, RecordsInIs

\* A joiner's view is the whole log.
LEMMA RecordsInJoin ==
  ASSUME TypeOK, NEW R \in Rosters
  PROVE  RecordsIn(JoinStream(R)) = records
<1> DEFINE s == JoinStream(R)
<1>1. /\ s \in Seq(HostMessage)
      /\ Len(s) = Len(records) + 1
      /\ s[1] = [type |-> "welcome", snapshot |-> snapshot,
                 log_length |-> Len(records), roster |-> R]
      /\ \A i \in 1 .. Len(records) : s[i + 1] = RecordMsg(records[i])
  BY JoinStreamShape
<1>2. records \in Seq(Record) /\ Len(records) \in Nat
  BY DEF TypeOK
<1> HIDE DEF s
<1>3. PICK f : UpTo(f, s)
  BY <1>1, UpToExists
<1> DEFINE Good == {n \in 0 .. Len(records) : f[n + 1] = SubSeq(records, 1, n)}
<1>4. 0 \in Good
  <2>1. s[1].type # "record" /\ 0 < Len(s) /\ Len(s) \in Nat
    BY <1>1, <1>2
  <2>2. f[0 + 1] = <<>>
    BY <1>3, <2>1, UpToValues
  <2>3. SubSeq(records, 1, 0) = <<>>
    BY SubSeqEmpty
  <2>4. 0 \in 0 .. Len(records)
    BY <1>2
  <2>. QED
    BY <2>2, <2>3, <2>4
<1>5. ASSUME NEW n \in 0 .. Len(records), n < Len(records), n \in Good
      PROVE  n + 1 \in Good
  <2>1. /\ n + 1 \in 1 .. Len(records) /\ n + 1 \in 0 .. Len(records)
        /\ n + 1 \in Nat /\ n + 1 < Len(s) /\ Len(s) \in Nat
        /\ (n + 1) - 1 = n
    BY <1>1, <1>2, <1>5
  <2>2. s[(n + 1) + 1] = RecordMsg(records[n + 1])
    BY <1>1, <2>1
  <2>3. f[(n + 1) + 1] = Append(f[n + 1], records[n + 1])
    <3>1. s[(n + 1) + 1].type = "record" /\ s[(n + 1) + 1].record = records[n + 1]
      BY <2>2, RecordMsgFacts
    <3>2. \A m \in Nat : m < Len(s) =>
            f[m + 1] = IF s[m + 1].type = "record" THEN Append(f[m], s[m + 1].record) ELSE f[m]
      BY <1>3, <2>1, UpToValues
    <3>. QED
      BY <2>1, <3>1, <3>2
  <2>4. SubSeq(records, 1, n + 1) = Append(SubSeq(records, 1, n), records[n + 1])
    <3>1. 1 \in 1 .. Len(records) /\ n + 1 \in 1 .. Len(records)
      BY <2>1
    <3>2. SubSeq(records, 1, n + 1) = SubSeq(records, 1, n) \o <<records[n + 1]>>
      BY <1>2, <2>1, <3>1, SubSeqRecursiveSecond
    <3>3. SubSeq(records, 1, n) \in Seq(Record) /\ records[n + 1] \in Record
      BY <1>2, <2>1, SubSeqProperties
    <3>. QED
      BY <3>2, <3>3, AppendIsConcat
  <2>5. f[n + 1] = SubSeq(records, 1, n)
    BY <1>5
  <2>6. f[(n + 1) + 1] = SubSeq(records, 1, n + 1)
    BY <2>3, <2>4, <2>5
  <2>. QED
    BY <2>1, <2>6
<1> HIDE DEF Good
<1>6. Len(records) \in Good
  <2>1. \A n \in 0 .. Len(records) : n < Len(records) /\ n \in Good => n + 1 \in Good
    BY <1>5
  <2>2. \A n \in 0 .. Len(records) : n \in Good
    BY <1>2, <1>4, <2>1, Reaches
  <2>. QED
    BY <1>2, <2>2
<1>7. f[Len(s)] = records
  BY <1>1, <1>2, <1>6, SubSeqFull DEF Good
<1>8. RecordsIn(s) = records
  BY <1>1, <1>3, <1>7, RecordsInIs
<1>. QED
  BY <1>8 DEF s

-----------------------------------------------------------------------------
(* The refinement.                                                         *)

\* The initial state is an empty log that nobody reads.
LEMMA LogInitMaps ==
  ASSUME Init
  PROVE  TheLog!LogInit
<1>1. clients = {}
  BY DEF Init, clients
<1>. QED
  BY <1>1 DEF Init, TheLog!LogInit

\* A stream that grows without records shows its reader nothing new.
LEMMA ViewStays ==
  ASSUME TypeOK, TypeOK', NEW c \in clients, Grows(c)
  PROVE  RecordsIn(sent'[c]) = RecordsIn(sent[c])
<1>1. c \in Client /\ sent[c] \in Seq(HostMessage)
  BY ClientsFacts
<1>2. sent'[c] \in Seq(HostMessage)
  BY <1>1 DEF TypeOK
<1>. QED
  BY <1>1, <1>2, RecordsInGrows DEF Grows

\* Every step of the host is a step of the log, or leaves it as it is.
LEMMA LogStepMaps ==
  ASSUME TypeOK, TypeOK', Next
  PROVE  TheLog!LogNext
<1>1. clients \subseteq Client /\ \A c \in Client : sent[c] \in Seq(HostMessage)
  BY ClientsFacts
<1>2. ASSUME NEW u \in Client, JoinStep(u)
      PROVE  TheLog!Come(u)
  <2>1. records' = records /\ snapshot' = snapshot /\ clients' = clients \cup {u}
    BY <1>2 DEF JoinStep
  <2>2. RecordsIn(sent'[u]) = records
    BY <1>2, RecordsInJoin DEF JoinStep, Joins
  <2>3. \A c \in clients \ {u} : RecordsIn(sent'[c]) = RecordsIn(sent[c])
    BY <1>2, ViewStays DEF JoinStep
  <2>4. [c \in clients' |-> RecordsIn(sent'[c])]
          = [w \in clients \cup {u} |-> IF w = u THEN records
                                        ELSE [c \in clients |-> RecordsIn(sent[c])][w]]
    BY <2>1, <2>2, <2>3
  <2>. QED
    BY <2>1, <2>4 DEF TheLog!Come
<1>3. ASSUME NEW S \in SUBSET Client, LeaveStep(S)
      PROVE  TheLog!Leave(S)
  <2>1. records' = records /\ snapshot' = snapshot /\ clients' = clients \ S
    BY <1>3 DEF LeaveStep
  <2>2. \A c \in clients \ S : RecordsIn(sent'[c]) = RecordsIn(sent[c])
    BY <1>3, ViewStays DEF LeaveStep
  <2>3. [c \in clients' |-> RecordsIn(sent'[c])]
          = [w \in clients \ S |-> [c \in clients |-> RecordsIn(sent[c])][w]]
    BY <2>1, <2>2
  <2>. QED
    BY <2>1, <2>3 DEF TheLog!Leave
<1>4. ASSUME NEW r \in Record, Logs(r)
      PROVE  TheLog!Enter(r)
  <2>1. /\ records' = Append(records, r) /\ snapshot' = snapshot /\ clients' = clients
        /\ \A i \in DOMAIN records : records[i] # r
    BY <1>4 DEF Logs, Unlogged
  <2>2. \A c \in clients :
          RecordsIn(sent'[c]) = IF c = r.user_id THEN RecordsIn(sent[c])
                                ELSE Append(RecordsIn(sent[c]), r)
    BY <1>1, <1>4, RecordsInAppend DEF Logs
  <2>3. [c \in clients' |-> RecordsIn(sent'[c])]
          = [w \in clients |-> IF w = r.user_id THEN [c \in clients |-> RecordsIn(sent[c])][w]
                               ELSE Append([c \in clients |-> RecordsIn(sent[c])][w], r)]
    BY <2>1, <2>2
  <2>. QED
    BY <2>1, <2>3 DEF TheLog!Enter
<1>5. ASSUME ResetStep
      PROVE  TheLog!Swap
  BY <1>5 DEF ResetStep, TheLog!Swap
<1>. QED
  BY <1>2, <1>3, <1>4, <1>5, StepShape DEF TheLog!LogNext

\* The host core implements the shared log: whatever joins over a ghost,
\* leaves, is pruned or is evicted, every reader sees the log from its first
\* record, in its order, each entry of another author once and none of its own.
THEOREM LogImplemented == Spec => ImplementsLog
<1>1. Init => TheLog!LogInit
  BY LogInitMaps
<1>2. TypeOK /\ TypeOK' /\ [Next]_hostVars => [TheLog!LogNext]_TheLog!logVars
  <2>1. CASE Next
    BY <2>1, LogStepMaps
  <2>2. CASE UNCHANGED hostVars
    BY <2>2 DEF hostVars, TheLog!logVars, clients
  <2>. QED
    BY <2>1, <2>2
<1>. QED
  BY <1>1, <1>2, TypeCorrect, PTL DEF Spec, ImplementsLog, TheLog!LogSpec

-----------------------------------------------------------------------------
(* A client against the messages it has yet to read.  q are all that are   *)
(* under way to it; s is the client, or what the Welcome at place p of q   *)
(* will make of it, and p the place from which s reads on.                 *)

\* The messages of X that have the type of a record carry one, and a Welcome
\* counts the log.
Carries(X) ==
  /\ \A x \in X : x.type = "record" => x.record \in Record /\ x = RecordMsg(x.record)
  /\ \A x \in X : x.type = "welcome" => x.log_length \in Nat

\* What a message of X carries that is a record.
LEMMA CarriesRecord ==
  ASSUME NEW X, Carries(X), NEW x \in X, x.type = "record"
  PROVE  x.record \in Record /\ x = RecordMsg(x.record)
<1>1. \A y \in X : y.type = "record" => y.record \in Record /\ y = RecordMsg(y.record)
  BY DEF Carries
<1> DEFINE IsIt(y) == y.record \in Record /\ y = RecordMsg(y.record)
<1>2. \A y \in X : y.type = "record" => IsIt(y)
  BY <1>1
<1> HIDE DEF IsIt
<1>3. IsIt(x)
  BY <1>2
<1>. QED
  BY <1>3 DEF IsIt

Runs(s) == /\ s.runtime \in Seq(Record)
           /\ s.published \in Nat /\ s.consumed \in Nat /\ s.base \in Nat

Has(log, r) == \E n \in DOMAIN log : log[n] = r
HasId(log, id) == \E n \in DOMAIN log : log[n].action_id = id

\* What s will read adds no record twice, and its own records, which are
\* passed over after the replay, are all part of the replay.
Readable(s, me, q, p) ==
  /\ \A i \in DOMAIN q : i > p /\ q[i].type = "record" =>
       /\ ~HasId(s.runtime, q[i].record.action_id)
       /\ q[i].record.user_id = me => s.consumed + (i - p) <= s.base
  /\ \A i, j \in DOMAIN q :
       /\ i > p /\ j > p /\ q[i].type = "record" /\ q[j].type = "record"
       /\ q[i].record.action_id = q[j].record.action_id
       => i = j

\* What s will read, and what it has of others, are entries of the log.
Logged(s, me, q, p, log) ==
  /\ \A i \in DOMAIN q : i > p /\ q[i].type = "record" => Has(log, q[i].record)
  /\ \A n \in DOMAIN s.runtime : s.runtime[n].user_id # me => Has(log, s.runtime[n])

\* The n-th record is the client's own, and not sent yet.
Unsent(s, me, n) ==
  n > s.published /\ s.runtime[n].user_id = me /\ s.runtime[n].action_id \notin s.known

\* The client has, or will read, every entry of the log; and what it has
\* beyond the log is on its way to the host, or not sent yet.
Follows(s, me, q, p, log, pipe, doc) ==
  /\ \A i \in DOMAIN log : \/ Has(s.runtime, log[i])
                           \/ \E n \in DOMAIN q : n > p /\ q[n] = RecordMsg(log[i])
  /\ \A id \in s.known : HasId(log, id)
  /\ \A n \in DOMAIN s.runtime :
       Has(log, s.runtime[n]) \/ s.runtime[n] \in pipe \/ Unsent(s, me, n)
  /\ \A r \in pipe : Has(s.runtime, r)
  /\ s.doc = doc

\* s and t are alike but for mode and connection.
Alike(s, t) ==
  /\ t.runtime = s.runtime /\ t.doc = s.doc /\ t.published = s.published
  /\ t.consumed = s.consumed /\ t.base = s.base /\ t.known = s.known

\* Appending keeps what was there.
LEMMA HasAppended ==
  ASSUME NEW log \in Seq(Record), NEW r \in Record
  PROVE  /\ Append(log, r) \in Seq(Record)
         /\ DOMAIN log = 1 .. Len(log) /\ Len(log) \in Nat
         /\ DOMAIN Append(log, r) = 1 .. Len(log) + 1
         /\ \A n \in DOMAIN log : n \in DOMAIN Append(log, r) /\ Append(log, r)[n] = log[n]
         /\ Append(log, r)[Len(log) + 1] = r /\ Len(log) + 1 \in DOMAIN Append(log, r)
         /\ \A n \in DOMAIN Append(log, r) : n \in DOMAIN log \/ n = Len(log) + 1
         /\ \A x : Has(Append(log, r), x) <=> Has(log, x) \/ x = r
         /\ \A id : HasId(Append(log, r), id) <=> HasId(log, id) \/ id = r.action_id
<1> DEFINE t == Append(log, r) N == Len(log)
<1>1. /\ t \in Seq(Record) /\ DOMAIN log = 1 .. N /\ N \in Nat /\ DOMAIN t = 1 .. N + 1
      /\ t[N + 1] = r /\ \A n \in 1 .. N : t[n] = log[n]
  BY AppendProperties
<1> HIDE DEF t, N
<1>2. /\ \A n \in DOMAIN log : n \in DOMAIN t /\ t[n] = log[n]
      /\ N + 1 \in DOMAIN t
      /\ \A n \in DOMAIN t : n \in DOMAIN log \/ n = N + 1
  BY <1>1
<1>3. /\ \A x : Has(t, x) <=> Has(log, x) \/ x = r
      /\ \A id : HasId(t, id) <=> HasId(log, id) \/ id = r.action_id
  BY <1>1, <1>2 DEF Has, HasId
<1>. QED
  BY <1>1, <1>2, <1>3 DEF t, N

\* The places of two sequences in the one they make together.
LEMMA JoinedPlaces ==
  ASSUME NEW X, NEW w \in Seq(X), NEW t \in Seq(X)
  PROVE  /\ w \o t \in Seq(X) /\ Len(w) \in Nat /\ Len(t) \in Nat
         /\ DOMAIN w = 1 .. Len(w) /\ DOMAIN t = 1 .. Len(t)
         /\ DOMAIN (w \o t) = 1 .. Len(w) + Len(t)
         /\ \A i \in DOMAIN w : i \in DOMAIN (w \o t) /\ (w \o t)[i] = w[i]
         /\ \A i \in DOMAIN t : i + Len(w) \in DOMAIN (w \o t) /\ (w \o t)[i + Len(w)] = t[i]
         /\ \A i \in DOMAIN (w \o t) :
              i \in DOMAIN w \/ (i > Len(w) /\ i - Len(w) \in DOMAIN t /\ (w \o t)[i] = t[i - Len(w)])
<1>1. /\ w \o t \in Seq(X) /\ Len(w) \in Nat /\ Len(t) \in Nat
      /\ Len(w \o t) = Len(w) + Len(t)
      /\ \A i \in 1 .. Len(w) + Len(t) :
           (w \o t)[i] = IF i <= Len(w) THEN w[i] ELSE t[i - Len(w)]
  BY ConcatProperties
<1>2. DOMAIN w = 1 .. Len(w) /\ DOMAIN t = 1 .. Len(t) /\ DOMAIN (w \o t) = 1 .. Len(w) + Len(t)
  BY <1>1
<1> DEFINE v == w \o t
<1> HIDE DEF v
<1>3. \A i \in 1 .. Len(w) + Len(t) : v[i] = IF i <= Len(w) THEN w[i] ELSE t[i - Len(w)]
  BY <1>1 DEF v
<1>4. DOMAIN v = 1 .. Len(w) + Len(t)
  BY <1>2 DEF v
<1>5. \A i \in DOMAIN w : i \in DOMAIN v /\ v[i] = w[i]
  BY <1>1, <1>2, <1>3, <1>4
<1>6. \A i \in DOMAIN t : i + Len(w) \in DOMAIN v /\ v[i + Len(w)] = t[i]
  BY <1>1, <1>2, <1>3, <1>4
<1>7. \A i \in DOMAIN v : i \in DOMAIN w \/ (i > Len(w) /\ i - Len(w) \in DOMAIN t /\ v[i] = t[i - Len(w)])
  BY <1>1, <1>2, <1>3, <1>4
<1>. QED
  BY <1>1, <1>2, <1>5, <1>6, <1>7 DEF v

\* Messages at the end are lost.
LEMMA ReadCut ==
  ASSUME NEW X, NEW w \in Seq(X), NEW t \in Seq(X), NEW s, NEW me, NEW p, 
         Readable(s, me, w \o t, p)
  PROVE  Readable(s, me, w, p)
<1> DEFINE v == w \o t
<1>1. \A i \in DOMAIN w : i \in DOMAIN v /\ v[i] = w[i]
  BY JoinedPlaces
<1> HIDE DEF v
<1>2. Readable(s, me, v, p)
  BY DEF v
<1>. QED
  BY <1>1, <1>2 DEF Readable

\* Messages without a record are queued.
LEMMA ReadOther ==
  ASSUME NEW X, NEW w \in Seq(X), NEW t \in Seq(X), NEW s, NEW me, NEW p,
         \A i \in DOMAIN t : t[i].type # "record",
         NEW log, NEW pipe, NEW doc
  PROVE  /\ Readable(s, me, w, p) => Readable(s, me, w \o t, p)
         /\ Logged(s, me, w, p, log) => Logged(s, me, w \o t, p, log)
         /\ Follows(s, me, w, p, log, pipe, doc) => Follows(s, me, w \o t, p, log, pipe, doc)
<1> DEFINE v == w \o t
<1>1. /\ \A i \in DOMAIN w : i \in DOMAIN v /\ v[i] = w[i]
      /\ \A i \in DOMAIN v : v[i].type = "record" => i \in DOMAIN w
  BY JoinedPlaces
<1> HIDE DEF v
<1>2. Readable(s, me, w, p) => Readable(s, me, v, p)
  BY <1>1 DEF Readable
<1>3. Logged(s, me, w, p, log) => Logged(s, me, v, p, log)
  BY <1>1 DEF Logged
<1>4. Follows(s, me, w, p, log, pipe, doc) => Follows(s, me, v, p, log, pipe, doc)
  BY <1>1 DEF Follows
<1>. QED
  BY <1>2, <1>3, <1>4 DEF v

\* Messages at the front are gone: those behind them are n places nearer.
LEMMA ReadSkip ==
  ASSUME NEW X, NEW w \in Seq(X), NEW t \in Seq(X), NEW s, Runs(s), NEW me, NEW p \in Nat,
         NEW log, NEW pipe, NEW doc
  PROVE  /\ Readable(s, me, t \o w, p + Len(t)) <=> Readable(s, me, w, p)
         /\ Logged(s, me, t \o w, p + Len(t), log) <=> Logged(s, me, w, p, log)
         /\ Follows(s, me, t \o w, p + Len(t), log, pipe, doc)
              <=> Follows(s, me, w, p, log, pipe, doc)
<1> DEFINE v == t \o w
<1>1. PICK n \in Nat : n = Len(t)
  BY JoinedPlaces
<1>2. /\ DOMAIN v \subseteq Nat /\ DOMAIN w \subseteq Nat
      /\ \A i \in DOMAIN w : i + n \in DOMAIN v /\ v[i + n] = w[i]
      /\ \A i \in DOMAIN v : i > p + n => i - n \in DOMAIN w /\ v[i] = w[i - n]
  <2>1. /\ DOMAIN w = 1 .. Len(w) /\ DOMAIN v = 1 .. n + Len(w) /\ Len(w) \in Nat
        /\ DOMAIN t = 1 .. n
    BY <1>1, JoinedPlaces
  <2>2. \A i \in DOMAIN v : i \in DOMAIN t \/ (i > n /\ i - n \in DOMAIN w /\ v[i] = w[i - n])
    BY <1>1, JoinedPlaces
  <2>3. \A i \in DOMAIN v : i > p + n => i - n \in DOMAIN w /\ v[i] = w[i - n]
    BY <2>1, <2>2, <1>1
  <2>. QED
    BY <1>1, <2>1, <2>3, JoinedPlaces
<1> HIDE DEF v
<1>3. \A i \in DOMAIN w : i > p => i + n > p + n /\ (i + n) - (p + n) = i - p
  BY <1>1, <1>2
<1>4. \A i \in DOMAIN v : i > p + n => i - n > p /\ i - (p + n) = (i - n) - p
  BY <1>1, <1>2
<1>5. Readable(s, me, v, p + n) => Readable(s, me, w, p)
  <2>1. SUFFICES ASSUME Readable(s, me, v, p + n)
                 PROVE  Readable(s, me, w, p)
    OBVIOUS
  <2>2. ASSUME NEW i \in DOMAIN w, i > p, w[i].type = "record"
        PROVE  /\ ~HasId(s.runtime, w[i].record.action_id)
               /\ w[i].record.user_id = me => s.consumed + (i - p) <= s.base
    BY <1>2, <1>3, <2>1, <2>2 DEF Readable
  <2>3. ASSUME NEW i \in DOMAIN w, NEW j \in DOMAIN w,
               i > p, j > p, w[i].type = "record", w[j].type = "record",
               w[i].record.action_id = w[j].record.action_id
        PROVE  i = j
    <3>1. i + n = j + n
      BY <1>2, <1>3, <2>1, <2>3 DEF Readable
    <3>. QED
      BY <1>1, <1>2, <3>1
  <2>. QED
    BY <2>2, <2>3 DEF Readable
<1>6. Readable(s, me, w, p) => Readable(s, me, v, p + n)
  <2>1. SUFFICES ASSUME Readable(s, me, w, p)
                 PROVE  Readable(s, me, v, p + n)
    OBVIOUS
  <2>2. ASSUME NEW i \in DOMAIN v, i > p + n, v[i].type = "record"
        PROVE  /\ ~HasId(s.runtime, v[i].record.action_id)
               /\ v[i].record.user_id = me => s.consumed + (i - (p + n)) <= s.base
    BY <1>2, <1>4, <2>1, <2>2 DEF Readable
  <2>3. ASSUME NEW i \in DOMAIN v, NEW j \in DOMAIN v,
               i > p + n, j > p + n, v[i].type = "record", v[j].type = "record",
               v[i].record.action_id = v[j].record.action_id
        PROVE  i = j
    <3>1. i - n = j - n
      BY <1>2, <1>4, <2>1, <2>3 DEF Readable
    <3>. QED
      BY <1>1, <1>2, <3>1
  <2>. QED
    BY <2>2, <2>3 DEF Readable
<1>7. Logged(s, me, v, p + n, log) <=> Logged(s, me, w, p, log)
  <2>1. ASSUME Logged(s, me, v, p + n, log)
        PROVE  Logged(s, me, w, p, log)
    BY <1>2, <1>3, <2>1 DEF Logged
  <2>2. ASSUME Logged(s, me, w, p, log)
        PROVE  Logged(s, me, v, p + n, log)
    BY <1>2, <1>4, <2>2 DEF Logged
  <2>. QED
    BY <2>1, <2>2
<1>8. Follows(s, me, v, p + n, log, pipe, doc) <=> Follows(s, me, w, p, log, pipe, doc)
  <2>1. \A r : (\E i \in DOMAIN v : i > p + n /\ v[i] = r) <=> \E i \in DOMAIN w : i > p /\ w[i] = r
    <3>1. ASSUME NEW r, NEW i \in DOMAIN v, i > p + n, v[i] = r
          PROVE  \E j \in DOMAIN w : j > p /\ w[j] = r
      BY <1>2, <1>4, <3>1
    <3>2. ASSUME NEW r, NEW i \in DOMAIN w, i > p, w[i] = r
          PROVE  \E j \in DOMAIN v : j > p + n /\ v[j] = r
      BY <1>2, <1>3, <3>2
    <3>. QED
      BY <3>1, <3>2
  <2>. QED
    BY <2>1 DEF Follows
<1>. QED
  BY <1>1, <1>5, <1>6, <1>7, <1>8 DEF v

\* A record of another is logged and queued: its id is new to the log, and to
\* what the client minted.
LEMMA ReadForeign ==
  ASSUME NEW X, Carries(X), NEW q \in Seq(X), NEW s, Runs(s), NEW me, NEW p \in Nat, p <= Len(q),
         NEW log \in Seq(Record), NEW r \in Record, RecordMsg(r) \in X, r.user_id # me,
         ~HasId(log, r.action_id),
         \A n \in DOMAIN s.runtime :
           s.runtime[n].user_id = me => s.runtime[n].action_id # r.action_id,
         Readable(s, me, q, p), Logged(s, me, q, p, log),
         NEW pipe, NEW doc
  PROVE  /\ Readable(s, me, Append(q, RecordMsg(r)), p)
         /\ Logged(s, me, Append(q, RecordMsg(r)), p, Append(log, r))
         /\ Follows(s, me, q, p, log, pipe, doc) =>
              Follows(s, me, Append(q, RecordMsg(r)), p, Append(log, r), pipe, doc)
<1> DEFINE m == RecordMsg(r) v == Append(q, m) l == Append(log, r) N == Len(q)
<1>1. /\ N \in Nat /\ DOMAIN q = 1 .. N /\ DOMAIN v = 1 .. N + 1
      /\ v[N + 1] = m /\ \A i \in 1 .. N : v[i] = q[i]
      /\ m.type = "record" /\ m.record = r
  BY AppendProperties, RecordMsgFacts
<1>2. /\ \A i \in DOMAIN q : i \in DOMAIN v /\ v[i] = q[i]
      /\ N + 1 \in DOMAIN v /\ N + 1 > p
      /\ \A i \in DOMAIN v : i \in DOMAIN q \/ i = N + 1
  BY <1>1
<1>3. /\ \A x : Has(l, x) <=> Has(log, x) \/ x = r
      /\ \A id : HasId(l, id) <=> HasId(log, id) \/ id = r.action_id
      /\ \A n \in DOMAIN l : l[n] = r \/ (n \in DOMAIN log /\ l[n] = log[n])
  BY HasAppended
<1> HIDE DEF m, v, l, N
<1>4. \A x : Has(log, x) => HasId(log, x.action_id)
  BY DEF Has, HasId
<1>5. ~HasId(s.runtime, r.action_id)
  <2>1. SUFFICES ASSUME NEW n \in DOMAIN s.runtime, s.runtime[n].action_id = r.action_id
                 PROVE  FALSE
    BY DEF HasId
  <2>2. s.runtime[n].user_id # me
    BY <2>1
  <2>3. Has(log, s.runtime[n])
    BY <2>2 DEF Logged
  <2>. QED
    BY <1>4, <2>1, <2>3
<1>6. \A i \in DOMAIN q : i > p /\ q[i].type = "record" => q[i].record.action_id # r.action_id
  BY <1>4 DEF Logged
<1>7. Readable(s, me, v, p)
  <2>1. ASSUME NEW i \in DOMAIN v, i > p, v[i].type = "record"
        PROVE  /\ ~HasId(s.runtime, v[i].record.action_id)
               /\ v[i].record.user_id = me => s.consumed + (i - p) <= s.base
    <3>1. CASE i \in DOMAIN q
      BY <1>2, <2>1, <3>1 DEF Readable
    <3>2. CASE i = N + 1
      BY <1>1, <1>5, <3>2
    <3>. QED
      BY <1>2, <3>1, <3>2
  <2>2. ASSUME NEW i \in DOMAIN v, NEW j \in DOMAIN v,
               i > p, j > p, v[i].type = "record", v[j].type = "record",
               v[i].record.action_id = v[j].record.action_id
        PROVE  i = j
    <3>1. CASE i \in DOMAIN q /\ j \in DOMAIN q
      BY <1>2, <2>2, <3>1 DEF Readable
    <3>2. CASE i \in DOMAIN q /\ j = N + 1
      BY <1>1, <1>2, <1>6, <2>2, <3>2
    <3>3. CASE i = N + 1 /\ j \in DOMAIN q
      BY <1>1, <1>2, <1>6, <2>2, <3>3
    <3>. QED
      BY <1>2, <3>1, <3>2, <3>3
  <2>. QED
    BY <2>1, <2>2 DEF Readable
<1>8. Logged(s, me, v, p, l)
  <2>1. ASSUME NEW i \in DOMAIN v, i > p, v[i].type = "record"
        PROVE  Has(l, v[i].record)
    BY <1>1, <1>2, <1>3, <2>1 DEF Logged
  <2>2. \A n \in DOMAIN s.runtime : s.runtime[n].user_id # me => Has(l, s.runtime[n])
    BY <1>3 DEF Logged
  <2>. QED
    BY <2>1, <2>2 DEF Logged
<1>9. ASSUME Follows(s, me, q, p, log, pipe, doc)
      PROVE  Follows(s, me, v, p, l, pipe, doc)
  <2>1. ASSUME NEW i \in DOMAIN l
        PROVE  Has(s.runtime, l[i]) \/ \E n \in DOMAIN v : n > p /\ v[n] = RecordMsg(l[i])
    <3>1. CASE i \in DOMAIN log /\ l[i] = log[i]
      <4>1. Has(s.runtime, log[i]) \/ \E n \in DOMAIN q : n > p /\ q[n] = RecordMsg(log[i])
        BY <1>9, <3>1 DEF Follows
      <4>. QED
        BY <1>2, <3>1, <4>1
    <3>2. CASE l[i] = r
      <4>1. v[N + 1] = RecordMsg(l[i])
        BY <1>1, <3>2 DEF m
      <4>. QED
        BY <1>2, <4>1
    <3>. QED
      BY <1>3, <3>1, <3>2
  <2>2. \A n \in DOMAIN s.runtime :
          Has(l, s.runtime[n]) \/ s.runtime[n] \in pipe \/ Unsent(s, me, n)
    BY <1>3, <1>9 DEF Follows
  <2>. QED
    BY <1>3, <1>9, <2>1, <2>2 DEF Follows
<1>. QED
  BY <1>7, <1>8, <1>9 DEF m, v, l

\* A record of the client itself, which was on its way, is logged.
LEMMA ReadOwn ==
  ASSUME NEW q, NEW s, NEW me, NEW p,
         NEW log \in Seq(Record), NEW r \in Record,
         NEW pipe, NEW rest, rest \subseteq pipe, pipe \subseteq rest \cup {r}, NEW doc
  PROVE  /\ Logged(s, me, q, p, log) => Logged(s, me, q, p, Append(log, r))
         /\ Follows(s, me, q, p, log, pipe, doc) /\ r \in pipe =>
              Follows(s, me, q, p, Append(log, r), rest, doc)
<1> DEFINE l == Append(log, r)
<1>1. /\ \A x : Has(l, x) <=> Has(log, x) \/ x = r
      /\ \A id : HasId(l, id) <=> HasId(log, id) \/ id = r.action_id
      /\ \A n \in DOMAIN l : l[n] = r \/ (n \in DOMAIN log /\ l[n] = log[n])
  BY HasAppended
<1> HIDE DEF l
<1>2. Logged(s, me, q, p, log) => Logged(s, me, q, p, l)
  BY <1>1 DEF Logged
<1>3. ASSUME Follows(s, me, q, p, log, pipe, doc), r \in pipe
      PROVE  Follows(s, me, q, p, l, rest, doc)
  <2>1. Has(s.runtime, r)
    BY <1>3 DEF Follows
  <2>2. ASSUME NEW i \in DOMAIN l
        PROVE  Has(s.runtime, l[i]) \/ \E n \in DOMAIN q : n > p /\ q[n] = RecordMsg(l[i])
    BY <1>1, <1>3, <2>1 DEF Follows
  <2>3. \A n \in DOMAIN s.runtime :
          Has(l, s.runtime[n]) \/ s.runtime[n] \in rest \/ Unsent(s, me, n)
    BY <1>1, <1>3 DEF Follows
  <2>. QED
    BY <1>1, <1>3, <2>2, <2>3 DEF Follows
<1>. QED
  BY <1>2, <1>3 DEF l

\* A message that is no record is read.
LEMMA ReadPast ==
  ASSUME NEW X, NEW q \in Seq(X), NEW s, Runs(s), NEW me, NEW p \in Nat, p + 1 \in DOMAIN q,
         q[p + 1].type # "record", NEW t, Alike(s, t), NEW log, NEW pipe, NEW doc
  PROVE  /\ Readable(s, me, q, p) => Readable(t, me, q, p + 1)
         /\ Logged(s, me, q, p, log) => Logged(t, me, q, p + 1, log)
         /\ Follows(s, me, q, p, log, pipe, doc) => Follows(t, me, q, p + 1, log, pipe, doc)
<1>1. DOMAIN q \subseteq Nat
  BY LenProperties
<1>2. /\ \A i \in DOMAIN q : i > p + 1 => i > p /\ i \in Nat
      /\ \A i \in DOMAIN q : i > p => i > p + 1 \/ i = p + 1
  BY <1>1
<1>3. t.runtime = s.runtime /\ t.consumed = s.consumed /\ t.base = s.base
      /\ t.published = s.published /\ t.known = s.known /\ t.doc = s.doc
  BY DEF Alike
<1>4. ASSUME Readable(s, me, q, p)
      PROVE  Readable(t, me, q, p + 1)
  <2>1. ASSUME NEW i \in DOMAIN q, i > p + 1, q[i].type = "record", q[i].record.user_id = me
        PROVE  t.consumed + (i - (p + 1)) <= t.base
    <3>1. s.consumed + (i - p) <= s.base /\ i \in Nat
      BY <1>2, <1>4, <2>1 DEF Readable
    <3>2. PICK a \in Nat, b \in Nat : a = s.consumed /\ b = s.base
      BY DEF Runs
    <3>3. a + (i - p) <= b => a + (i - (p + 1)) <= b
      BY <3>1
    <3>. QED
      BY <1>3, <3>1, <3>2, <3>3
  <2>. QED
    BY <1>2, <1>3, <1>4, <2>1 DEF Readable
<1>5. Logged(s, me, q, p, log) => Logged(t, me, q, p + 1, log)
  BY <1>2, <1>3 DEF Logged
<1>6. ASSUME Follows(s, me, q, p, log, pipe, doc)
      PROVE  Follows(t, me, q, p + 1, log, pipe, doc)
  <2>0. \A x : q[p + 1] # RecordMsg(x)
    BY RecordMsgFacts
  <2>1. \A n : Unsent(s, me, n) <=> Unsent(t, me, n)
    BY <1>3 DEF Unsent
  <2>. QED
    BY <1>2, <1>3, <1>6, <2>0, <2>1 DEF Follows
<1>. QED
  BY <1>4, <1>5, <1>6

\* A record is read, and applied.
LEMMA ReadRecord ==
  ASSUME NEW X, Carries(X), NEW q \in Seq(X), NEW s, Runs(s), NEW me, NEW p \in Nat, p + 1 \in DOMAIN q,
         q[p + 1].type = "record", NEW r, r = q[p + 1].record,
         NEW t, t.runtime = Append(s.runtime, r), t.consumed = s.consumed + 1, t.base = s.base,
         t.published = s.published, t.known = s.known \cup {r.action_id}, t.doc = s.doc,
         Readable(s, me, q, p), NEW log, NEW pipe, NEW doc
  PROVE  /\ r.user_id # me \/ s.consumed < s.base
         /\ ~HasId(s.runtime, r.action_id)
         /\ Readable(t, me, q, p + 1)
         /\ Logged(s, me, q, p, log) => Logged(t, me, q, p + 1, log)
         /\ Logged(s, me, q, p, log) /\ Follows(s, me, q, p, log, pipe, doc) =>
              Follows(t, me, q, p + 1, log, pipe, doc)
<1>1. DOMAIN q \subseteq Nat /\ q[p + 1] \in X
  BY LenProperties
<1>2. /\ \A i \in DOMAIN q : i > p + 1 => i > p /\ i \in Nat /\ i # p + 1
      /\ \A i \in DOMAIN q : i > p => i > p + 1 \/ i = p + 1
      /\ p + 1 > p /\ (p + 1) - p = 1
  BY <1>1
<1>3. r \in Record /\ q[p + 1] = RecordMsg(r)
  <2> DEFINE x == q[p + 1]
  <2>1. x \in X /\ x.type = "record" /\ r = x.record
    BY <1>1
  <2> HIDE DEF x
  <2>2. r \in Record /\ x = RecordMsg(r)
    BY <2>1, CarriesRecord
  <2>. QED
    BY <2>2 DEF x
<1>4. /\ s.runtime \in Seq(Record) /\ s.consumed \in Nat /\ s.base \in Nat /\ s.published \in Nat
  BY DEF Runs
<1>5. (r.user_id # me \/ s.consumed < s.base) /\ ~HasId(s.runtime, r.action_id)
  <2>1. r.user_id = me => s.consumed + ((p + 1) - p) <= s.base
    BY <1>2 DEF Readable
  <2>2. ~HasId(s.runtime, r.action_id)
    BY <1>2 DEF Readable
  <2>3. r.user_id = me => s.consumed + 1 <= s.base
    BY <1>2, <2>1
  <2>. QED
    BY <1>4, <2>2, <2>3
<1>6. /\ \A x : Has(t.runtime, x) <=> Has(s.runtime, x) \/ x = r
      /\ \A id : HasId(t.runtime, id) <=> HasId(s.runtime, id) \/ id = r.action_id
      /\ \A n \in DOMAIN t.runtime : t.runtime[n] = r \/ (n \in DOMAIN s.runtime /\ t.runtime[n] = s.runtime[n])
  BY <1>3, <1>4, HasAppended
<1>7. Readable(t, me, q, p + 1)
  <2>1. ASSUME NEW i \in DOMAIN q, i > p + 1, q[i].type = "record"
        PROVE  /\ ~HasId(t.runtime, q[i].record.action_id)
               /\ q[i].record.user_id = me => t.consumed + (i - (p + 1)) <= t.base
    <3>1. q[i].record.action_id # r.action_id
      BY <1>2, <2>1 DEF Readable
    <3>2. ~HasId(s.runtime, q[i].record.action_id)
      BY <1>2, <2>1 DEF Readable
    <3>3. i \in Nat /\ (q[i].record.user_id = me => s.consumed + (i - p) <= s.base)
      BY <1>2, <2>1 DEF Readable
    <3>4. q[i].record.user_id = me => t.consumed + (i - (p + 1)) <= t.base
      <4>1. s.consumed \in Nat /\ s.base \in Nat /\ t.consumed = s.consumed + 1 /\ t.base = s.base
        BY <1>4
      <4>2. s.consumed + (i - p) <= s.base => t.consumed + (i - (p + 1)) <= t.base
        BY <3>3, <4>1
      <4>. QED
        BY <3>3, <4>2
    <3>. QED
      BY <1>6, <3>1, <3>2, <3>4
  <2>. QED
    BY <1>2, <2>1 DEF Readable
<1>8. ASSUME Logged(s, me, q, p, log)
      PROVE  Has(log, r) /\ Logged(t, me, q, p + 1, log)
  <2>1. Has(log, r)
    BY <1>2, <1>8 DEF Logged
  <2>. QED
    BY <1>2, <1>6, <1>8, <2>1 DEF Logged
<1>9. ASSUME Has(log, r), Follows(s, me, q, p, log, pipe, doc)
      PROVE  Follows(t, me, q, p + 1, log, pipe, doc)
  <2>1. ASSUME NEW i \in DOMAIN log
        PROVE  Has(t.runtime, log[i]) \/ \E n \in DOMAIN q : n > p + 1 /\ q[n] = RecordMsg(log[i])
    <3>1. CASE Has(s.runtime, log[i])
      BY <1>6, <3>1
    <3>2. CASE \E n \in DOMAIN q : n > p /\ q[n] = RecordMsg(log[i])
      <4>1. PICK n \in DOMAIN q : n > p /\ q[n] = RecordMsg(log[i])
        BY <3>2
      <4>2. n = p + 1 => log[i] = r
        BY <1>3, <4>1, RecordMsgFacts
      <4>. QED
        BY <1>2, <1>6, <4>1, <4>2
    <3>. QED
      BY <1>9, <3>1, <3>2 DEF Follows
  <2>2. \A id \in t.known : HasId(log, id)
    BY <1>9 DEF Follows, Has, HasId
  <2>3. ASSUME NEW n \in DOMAIN t.runtime
        PROVE  Has(log, t.runtime[n]) \/ t.runtime[n] \in pipe \/ Unsent(t, me, n)
    <3>1. CASE t.runtime[n] = r
      BY <1>9, <3>1
    <3>2. CASE n \in DOMAIN s.runtime /\ t.runtime[n] = s.runtime[n]
      <4>1. s.runtime[n].action_id # r.action_id
        BY <1>5, <3>2 DEF HasId
      <4>2. Unsent(s, me, n) => Unsent(t, me, n)
        BY <3>2, <4>1 DEF Unsent
      <4>. QED
        BY <1>9, <3>2, <4>2 DEF Follows
    <3>. QED
      BY <1>6, <3>1, <3>2
  <2>. QED
    BY <1>6, <1>9, <2>1, <2>2, <2>3 DEF Follows
<1>. QED
  BY <1>5, <1>7, <1>8, <1>9

\* The client edits: a record whose id is new.
LEMMA ReadEdit ==
  ASSUME NEW q, NEW s, Runs(s), NEW me, NEW p, NEW log, NEW pipe, NEW doc,
         NEW r \in Record, r.user_id = me,
         NEW t, t.runtime = Append(s.runtime, r), t.consumed = s.consumed, t.base = s.base,
         t.published = s.published, t.known = s.known, t.doc = s.doc,
         s.published <= Len(s.runtime),
         \A i \in DOMAIN q : q[i].type = "record" => q[i].record.action_id # r.action_id,
         ~HasId(log, r.action_id)
  PROVE  /\ Readable(s, me, q, p) => Readable(t, me, q, p)
         /\ Logged(s, me, q, p, log) => Logged(t, me, q, p, log)
         /\ Follows(s, me, q, p, log, pipe, doc) => Follows(t, me, q, p, log, pipe, doc)
<1> DEFINE N == Len(s.runtime)
<1>1. /\ \A x : Has(t.runtime, x) <=> Has(s.runtime, x) \/ x = r
      /\ \A id : HasId(t.runtime, id) <=> HasId(s.runtime, id) \/ id = r.action_id
      /\ N \in Nat /\ t.runtime[N + 1] = r
      /\ \A n \in DOMAIN t.runtime : n = N + 1 \/ (n \in DOMAIN s.runtime /\ t.runtime[n] = s.runtime[n])
  BY HasAppended DEF Runs
<1> HIDE DEF N
<1>2. Readable(s, me, q, p) => Readable(t, me, q, p)
  BY <1>1 DEF Readable
<1>3. Logged(s, me, q, p, log) => Logged(t, me, q, p, log)
  BY <1>1 DEF Logged
<1>4. ASSUME Follows(s, me, q, p, log, pipe, doc)
      PROVE  Follows(t, me, q, p, log, pipe, doc)
  <2>1. r.action_id \notin s.known
    BY <1>4 DEF Follows
  <2>2. Unsent(t, me, N + 1)
    <3>1. N + 1 > s.published
      BY <1>1 DEF Runs, N
    <3>. QED
      BY <1>1, <2>1, <3>1 DEF Unsent
  <2>3. \A n \in DOMAIN s.runtime : t.runtime[n] = s.runtime[n] /\ Unsent(s, me, n) => Unsent(t, me, n)
    BY DEF Unsent
  <2>4. \A n \in DOMAIN t.runtime :
          Has(log, t.runtime[n]) \/ t.runtime[n] \in pipe \/ Unsent(t, me, n)
    BY <1>1, <1>4, <2>2, <2>3 DEF Follows
  <2>. QED
    BY <1>1, <1>4, <2>4 DEF Follows
<1>. QED
  BY <1>2, <1>3, <1>4

\* The client publishes what is not sent.
LEMMA ReadPublish ==
  ASSUME NEW q, NEW s, NEW me, NEW p, NEW log, NEW pipe, NEW doc,
         NEW t, t.runtime = s.runtime, t.consumed = s.consumed, t.base = s.base,
         t.known = s.known, t.doc = s.doc,
         NEW more, \A r : r \in more <=>
           r \in pipe \/ \E n \in DOMAIN s.runtime : Unsent(s, me, n) /\ r = s.runtime[n]
  PROVE  /\ Readable(s, me, q, p) => Readable(t, me, q, p)
         /\ Logged(s, me, q, p, log) => Logged(t, me, q, p, log)
         /\ Follows(s, me, q, p, log, pipe, doc) => Follows(t, me, q, p, log, more, doc)
<1>1. Readable(s, me, q, p) => Readable(t, me, q, p)
  BY DEF Readable
<1>2. Logged(s, me, q, p, log) => Logged(t, me, q, p, log)
  BY DEF Logged
<1>3. ASSUME Follows(s, me, q, p, log, pipe, doc)
      PROVE  Follows(t, me, q, p, log, more, doc)
  <2>1. \A n \in DOMAIN t.runtime :
          Has(log, t.runtime[n]) \/ t.runtime[n] \in more \/ Unsent(t, me, n)
    BY <1>3 DEF Follows
  <2>2. \A r \in more : Has(t.runtime, r)
    BY <1>3 DEF Follows, Has
  <2>. QED
    BY <1>3, <2>1, <2>2 DEF Follows
<1>. QED
  BY <1>1, <1>2, <1>3

\* A client starts on a Welcome and the replay of the log behind it.
LEMMA ReadStart ==
  ASSUME TypeOK, NoDuplicateIds(records), NEW R \in Rosters, NEW me,
         NEW s, s.runtime = <<>>, s.consumed = 0, s.base = Len(records), s.known = {},
         s.doc = snapshot
  PROVE  /\ Readable(s, me, JoinStream(R), 1)
         /\ Logged(s, me, JoinStream(R), 1, records)
         /\ Follows(s, me, JoinStream(R), 1, records, {}, snapshot)
<1> DEFINE q == JoinStream(R) N == Len(records)
<1>1. /\ q \in Seq(HostMessage) /\ Len(q) = N + 1 /\ N \in Nat
      /\ \A i \in 1 .. N : q[i + 1] = RecordMsg(records[i])
      /\ records \in Seq(Record)
  <2>1. records \in Seq(Record) /\ N \in Nat
    BY DEF TypeOK
  <2> HIDE DEF N
  <2>2. q \in Seq(HostMessage) /\ Len(q) = N + 1
    BY JoinStreamShape DEF N
  <2>3. \A i \in 1 .. N : q[i + 1] = RecordMsg(records[i])
    BY JoinStreamShape DEF N
  <2>. QED
    BY <2>1, <2>2, <2>3
<1>2. DOMAIN q = 1 .. N + 1 /\ DOMAIN records = 1 .. N
  BY <1>1
<1> HIDE DEF q
<1>3. \A i \in DOMAIN q : i > 1 => i - 1 \in DOMAIN records /\ i \in Nat /\ q[i] = RecordMsg(records[i - 1])
  <2>1. \A i \in 1 .. N + 1 : i > 1 => i - 1 \in 1 .. N /\ (i - 1) + 1 = i /\ i \in Nat
    BY <1>1
  <2>. QED
    BY <1>1, <1>2, <2>1
<1>4. \A i \in DOMAIN q : i > 1 => q[i].record = records[i - 1]
  BY <1>3, RecordMsgFacts
<1>5. \A i \in DOMAIN records : i + 1 \in DOMAIN q /\ i + 1 > 1 /\ q[i + 1] = RecordMsg(records[i])
  BY <1>1, <1>2
<1>6. DOMAIN s.runtime = {}
  OBVIOUS
<1>7. Readable(s, me, q, 1)
  <2>1. ASSUME NEW i \in DOMAIN q, i > 1
        PROVE  s.consumed + (i - 1) <= s.base
    BY <1>1, <1>2, <2>1
  <2>2. ASSUME NEW i \in DOMAIN q, NEW j \in DOMAIN q, i > 1, j > 1,
               q[i].record.action_id = q[j].record.action_id
        PROVE  i = j
    <3>1. i - 1 = j - 1
      BY <1>3, <1>4, <2>2 DEF NoDuplicateIds
    <3>. QED
      BY <1>3, <2>2, <3>1
  <2>. QED
    BY <1>6, <2>1, <2>2 DEF Readable, HasId
<1>8. Logged(s, me, q, 1, records)
  BY <1>3, <1>4, <1>6 DEF Logged, Has
<1>9. Follows(s, me, q, 1, records, {}, snapshot)
  BY <1>5, <1>6 DEF Follows
<1>. QED
  BY <1>7, <1>8, <1>9 DEF q

\* Read on from further behind.
LEMMA ReadBehind ==
  ASSUME NEW X, NEW q \in Seq(X), NEW s, Runs(s), NEW me, NEW p \in Nat, NEW n \in Nat, p <= n,
         NEW log
  PROVE  /\ Readable(s, me, q, p) => Readable(s, me, q, n)
         /\ Logged(s, me, q, p, log) => Logged(s, me, q, n, log)
<1>1. \A i \in DOMAIN q : i \in Nat /\ (i > n => i > p)
  <2>1. DOMAIN q \subseteq Nat
    BY LenProperties
  <2>. QED
    BY <2>1
<1>2. ASSUME Readable(s, me, q, p)
      PROVE  Readable(s, me, q, n)
  <2>1. ASSUME NEW i \in DOMAIN q, i > n, q[i].type = "record", q[i].record.user_id = me
        PROVE  s.consumed + (i - n) <= s.base
    <3>1. s.consumed + (i - p) <= s.base /\ i \in Nat
      BY <1>1, <1>2, <2>1 DEF Readable
    <3>2. PICK a \in Nat, b \in Nat : a = s.consumed /\ b = s.base
      BY DEF Runs
    <3>3. a + (i - p) <= b => a + (i - n) <= b
      BY <3>1
    <3>. QED
      BY <3>1, <3>2, <3>3
  <2>. QED
    BY <1>1, <1>2, <2>1 DEF Readable
<1>3. Logged(s, me, q, p, log) => Logged(s, me, q, n, log)
  BY <1>1 DEF Logged
<1>. QED
  BY <1>2, <1>3

-----------------------------------------------------------------------------
(* The same of an app: it reads from the first message on if it is live,   *)
(* and while it joins or rejoins from any Welcome on.                      *)

BeginsAt(a, q, p) ==
  \/ p = 0 /\ a.mode = "live"
  \/ p \in DOMAIN q /\ q[p].type = "welcome" /\ a.mode \in {"joining", "rejoining"}

ReaderAt(a, q, p) == IF p = 0 THEN a ELSE Welcomed(a, q[p])

ReadsWell(a, me, q) ==
  \A p \in 0 .. Len(q) : BeginsAt(a, q, p) => Readable(ReaderAt(a, q, p), me, q, p)

ReadsLog(a, me, q, log) ==
  \A p \in 0 .. Len(q) : BeginsAt(a, q, p) => Logged(ReaderAt(a, q, p), me, q, p, log)

ReadsAll(a, me, q, log, pipe, doc) ==
  \A p \in 0 .. Len(q) :
    BeginsAt(a, q, p) => Follows(ReaderAt(a, q, p), me, q, p, log, pipe, doc)

\* Whoever begins to read is a client that runs.
LEMMA ReaderRuns ==
  ASSUME NEW X, Carries(X), NEW q \in Seq(X), NEW a, Runs(a), NEW p, BeginsAt(a, q, p)
  PROVE  /\ p \in 0 .. Len(q) /\ p \in Nat /\ Len(q) \in Nat
         /\ Runs(ReaderAt(a, q, p))
         /\ p # 0 => p \in DOMAIN q /\ ReaderAt(a, q, p).runtime = <<>>
<1>1. Len(q) \in Nat /\ DOMAIN q = 1 .. Len(q) /\ \A i \in DOMAIN q : q[i] \in X
  BY LenProperties
<1>2. CASE p = 0
  BY <1>1, <1>2 DEF ReaderAt
<1>3. CASE p # 0
  <2>1. p \in DOMAIN q /\ q[p] \in X /\ q[p].type = "welcome"
    BY <1>1, <1>3 DEF BeginsAt
  <2>2. q[p].log_length \in Nat
    BY <2>1 DEF Carries
  <2>3. /\ ReaderAt(a, q, p).runtime = <<>> /\ ReaderAt(a, q, p).published = 0
        /\ ReaderAt(a, q, p).consumed = 0 /\ ReaderAt(a, q, p).base = q[p].log_length
    BY <1>3 DEF ReaderAt, Welcomed, Solo
  <2>. QED
    BY <1>1, <2>1, <2>2, <2>3 DEF Runs
<1>. QED
  BY <1>2, <1>3

\* The end of the queue is lost.
LEMMA CutReads ==
  ASSUME NEW X, Carries(X), NEW w \in Seq(X), NEW t \in Seq(X), NEW a, Runs(a), NEW me,
         ReadsWell(a, me, w \o t)
  PROVE  ReadsWell(a, me, w)
<1> DEFINE v == w \o t
<1>1. v \in Seq(X) /\ \A i \in DOMAIN w : i \in DOMAIN v /\ v[i] = w[i]
  BY JoinedPlaces
<1>2. ASSUME NEW p \in 0 .. Len(w), BeginsAt(a, w, p)
      PROVE  Readable(ReaderAt(a, w, p), me, w, p)
  <2> HIDE DEF v
  <2>1. BeginsAt(a, v, p) /\ ReaderAt(a, v, p) = ReaderAt(a, w, p)
    BY <1>1, <1>2 DEF BeginsAt, ReaderAt
  <2>2. p \in 0 .. Len(v)
    BY <1>1, <2>1, ReaderRuns
  <2>3. Readable(ReaderAt(a, w, p), me, v, p)
    BY <2>1, <2>2 DEF ReadsWell, v
  <2>. QED
    BY <2>3, ReadCut DEF v
<1>. QED
  BY <1>2 DEF ReadsWell

\* The front of the queue is lost.
LEMMA SkipReads ==
  ASSUME NEW X, Carries(X), NEW w \in Seq(X), NEW t \in Seq(X), NEW a, Runs(a), NEW me, NEW log
  PROVE  /\ ReadsWell(a, me, t \o w) => ReadsWell(a, me, w)
         /\ ReadsLog(a, me, t \o w, log) => ReadsLog(a, me, w, log)
<1> DEFINE v == t \o w
<1>1. PICK n \in Nat : n = Len(t)
  BY JoinedPlaces
<1>2. v \in Seq(X) /\ \A i \in DOMAIN w : i + n \in DOMAIN v /\ v[i + n] = w[i]
  BY <1>1, JoinedPlaces
<1>3. ASSUME NEW p \in 0 .. Len(w), BeginsAt(a, w, p), NEW s, s = ReaderAt(a, w, p)
      PROVE  /\ ReadsWell(a, me, v) => Readable(s, me, w, p)
             /\ ReadsLog(a, me, v, log) => Logged(s, me, w, p, log)
  <2>1. p \in Nat /\ p \in 0 .. Len(w) /\ Runs(s) /\ p + n \in Nat
    BY <1>1, <1>3, ReaderRuns
  <2>2. /\ Readable(s, me, v, p + n) => Readable(s, me, w, p)
        /\ Logged(s, me, v, p + n, log) => Logged(s, me, w, p, log)
    BY <1>1, <2>1, ReadSkip
  <2> HIDE DEF v
  <2>3. CASE p = 0
    <3>1. BeginsAt(a, v, 0) /\ s = ReaderAt(a, v, 0) /\ 0 \in 0 .. Len(v)
      <4>1. BeginsAt(a, v, 0) /\ s = ReaderAt(a, v, 0)
        <5>1. 0 \notin DOMAIN w
          BY LenProperties
        <5>. QED
          BY <1>3, <2>3, <5>1 DEF BeginsAt, ReaderAt
      <4>. QED
        BY <1>2, <4>1, ReaderRuns
    <3>2. /\ Readable(s, me, v, 0) => Readable(s, me, v, n)
          /\ Logged(s, me, v, 0, log) => Logged(s, me, v, n, log)
      <4>1. v \in Seq(X) /\ Runs(s) /\ 0 \in Nat /\ n \in Nat /\ 0 <= n
        BY <1>1, <1>2, <2>1
      <4>. QED
        BY <4>1, ReadBehind
    <3>3. p + n = n
      BY <1>1, <2>3
    <3>. QED
      BY <2>2, <3>1, <3>2, <3>3 DEF ReadsWell, ReadsLog
  <2>4. CASE p # 0
    <3>1. p \in DOMAIN w /\ w[p].type = "welcome" /\ a.mode \in {"joining", "rejoining"}
      BY <1>3, <2>4 DEF BeginsAt
    <3>2. p + n # 0
      BY <1>1, <2>1, <2>4
    <3>3. BeginsAt(a, v, p + n) /\ s = ReaderAt(a, v, p + n)
      BY <1>2, <1>3, <2>4, <3>1, <3>2 DEF BeginsAt, ReaderAt
    <3>4. p + n \in 0 .. Len(v)
      BY <1>2, <3>3, ReaderRuns
    <3>. QED
      BY <2>2, <3>3, <3>4 DEF ReadsWell, ReadsLog
  <2>. QED
    BY <2>3, <2>4
<1>. QED
  BY <1>3 DEF ReadsWell, ReadsLog

\* Messages are queued that are neither a record nor a Welcome.
LEMMA ChatReads ==
  ASSUME NEW X, Carries(X), NEW w \in Seq(X), NEW t \in Seq(X), NEW a, Runs(a), NEW me,
         \A i \in DOMAIN t : t[i].type \notin {"record", "welcome"},
         NEW log, NEW pipe, NEW doc
  PROVE  /\ ReadsWell(a, me, w) => ReadsWell(a, me, w \o t)
         /\ ReadsLog(a, me, w, log) => ReadsLog(a, me, w \o t, log)
         /\ ReadsAll(a, me, w, log, pipe, doc) => ReadsAll(a, me, w \o t, log, pipe, doc)
<1> DEFINE v == w \o t
<1>1. /\ v \in Seq(X) /\ \A i \in DOMAIN w : i \in DOMAIN v /\ v[i] = w[i]
      /\ \A i \in DOMAIN v : v[i].type = "welcome" => i \in DOMAIN w
  BY JoinedPlaces
<1>2. ASSUME NEW p \in 0 .. Len(v), BeginsAt(a, v, p), NEW s, s = ReaderAt(a, v, p)
      PROVE  /\ ReadsWell(a, me, w) => Readable(s, me, v, p)
             /\ ReadsLog(a, me, w, log) => Logged(s, me, v, p, log)
             /\ ReadsAll(a, me, w, log, pipe, doc) => Follows(s, me, v, p, log, pipe, doc)
  <2>1. BeginsAt(a, w, p) /\ s = ReaderAt(a, w, p)
    <3> HIDE DEF v
    <3>. QED
      BY <1>1, <1>2 DEF BeginsAt, ReaderAt
  <2>2. p \in 0 .. Len(w)
    BY <2>1, ReaderRuns
  <2>3. /\ Readable(s, me, w, p) => Readable(s, me, v, p)
        /\ Logged(s, me, w, p, log) => Logged(s, me, v, p, log)
        /\ Follows(s, me, w, p, log, pipe, doc) => Follows(s, me, v, p, log, pipe, doc)
    BY ReadOther
  <2> HIDE DEF v
  <2>. QED
    BY <2>1, <2>2, <2>3 DEF ReadsWell, ReadsLog, ReadsAll
<1>. QED
  BY <1>2 DEF ReadsWell, ReadsLog, ReadsAll

\* A record of another is logged and queued.
LEMMA ForeignReads ==
  ASSUME NEW X, Carries(X), NEW q \in Seq(X), NEW a, Runs(a), NEW me,
         NEW log \in Seq(Record), NEW r \in Record, RecordMsg(r) \in X, r.user_id # me,
         ~HasId(log, r.action_id),
         \A n \in DOMAIN a.runtime :
           a.runtime[n].user_id = me => a.runtime[n].action_id # r.action_id,
         ReadsWell(a, me, q), ReadsLog(a, me, q, log),
         NEW pipe, NEW doc
  PROVE  /\ ReadsWell(a, me, Append(q, RecordMsg(r)))
         /\ ReadsLog(a, me, Append(q, RecordMsg(r)), Append(log, r))
         /\ ReadsAll(a, me, q, log, pipe, doc) =>
              ReadsAll(a, me, Append(q, RecordMsg(r)), Append(log, r), pipe, doc)
<1> DEFINE m == RecordMsg(r) v == Append(q, m) l == Append(log, r)
<1>1. /\ v \in Seq(X) /\ \A i \in DOMAIN q : i \in DOMAIN v /\ v[i] = q[i]
      /\ \A i \in DOMAIN v : v[i].type = "welcome" => i \in DOMAIN q
  <2>1. /\ v \in Seq(X) /\ Len(q) \in Nat /\ DOMAIN q = 1 .. Len(q) /\ DOMAIN v = 1 .. Len(q) + 1
        /\ v[Len(q) + 1] = m /\ \A i \in 1 .. Len(q) : v[i] = q[i]
        /\ m.type = "record"
    BY AppendProperties, RecordMsgFacts
  <2> HIDE DEF v, m
  <2>. QED
    BY <2>1
<1>2. ASSUME NEW p \in 0 .. Len(v), BeginsAt(a, v, p), NEW s, s = ReaderAt(a, v, p)
      PROVE  /\ Readable(s, me, v, p)
             /\ Logged(s, me, v, p, l)
             /\ ReadsAll(a, me, q, log, pipe, doc) => Follows(s, me, v, p, l, pipe, doc)
  <2>1. BeginsAt(a, q, p) /\ s = ReaderAt(a, q, p)
    <3> HIDE DEF v
    <3>. QED
      BY <1>1, <1>2 DEF BeginsAt, ReaderAt
  <2>2. p \in 0 .. Len(q) /\ p \in Nat /\ Len(q) \in Nat /\ Runs(s) /\ (p # 0 => s.runtime = <<>>)
    BY <2>1, ReaderRuns
  <2>3. \A n \in DOMAIN s.runtime :
           s.runtime[n].user_id = me => s.runtime[n].action_id # r.action_id
    <3>1. p = 0 => s = a
      BY <2>1 DEF ReaderAt
    <3>. QED
      BY <2>2, <3>1
  <2>4. Readable(s, me, q, p) /\ Logged(s, me, q, p, log)
    BY <2>1, <2>2 DEF ReadsWell, ReadsLog
  <2>5. /\ Readable(s, me, v, p) /\ Logged(s, me, v, p, l)
        /\ Follows(s, me, q, p, log, pipe, doc) => Follows(s, me, v, p, l, pipe, doc)
    BY <2>2, <2>3, <2>4, ReadForeign
  <2> HIDE DEF v, l
  <2>. QED
    BY <2>1, <2>2, <2>5 DEF ReadsAll
<1>. QED
  BY <1>2 DEF ReadsWell, ReadsLog, ReadsAll

\* A record of the app itself is logged.
LEMMA OwnReads ==
  ASSUME NEW q, NEW a, NEW me, NEW log \in Seq(Record), NEW r \in Record,
         NEW pipe, NEW rest, rest \subseteq pipe, pipe \subseteq rest \cup {r}, NEW doc
  PROVE  /\ ReadsLog(a, me, q, log) => ReadsLog(a, me, q, Append(log, r))
         /\ ReadsAll(a, me, q, log, pipe, doc) /\ r \in pipe =>
              ReadsAll(a, me, q, Append(log, r), rest, doc)
<1> DEFINE l == Append(log, r)
<1>1. ASSUME NEW s, NEW p
      PROVE  /\ Logged(s, me, q, p, log) => Logged(s, me, q, p, l)
             /\ Follows(s, me, q, p, log, pipe, doc) /\ r \in pipe => Follows(s, me, q, p, l, rest, doc)
  BY ReadOwn
<1> HIDE DEF l
<1>2. ReadsLog(a, me, q, log) => ReadsLog(a, me, q, l)
  BY <1>1 DEF ReadsLog
<1>3. ReadsAll(a, me, q, log, pipe, doc) /\ r \in pipe => ReadsAll(a, me, q, l, rest, doc)
  BY <1>1 DEF ReadsAll
<1>. QED
  BY <1>2, <1>3 DEF l

\* An app that no Welcome waits for is sent one, and the log.
LEMMA JoinReads ==
  ASSUME TypeOK, NoDuplicateIds(records), NEW R \in Rosters, NEW me,
         NEW X, Carries(X), HostMessage \subseteq X, NEW q \in Seq(X), NEW a, Runs(a),
         \A p \in 0 .. Len(q) : ~BeginsAt(a, q, p)
  PROVE  /\ ReadsWell(a, me, q \o JoinStream(R))
         /\ ReadsLog(a, me, q \o JoinStream(R), records)
         /\ ReadsAll(a, me, q \o JoinStream(R), records, {}, snapshot)
<1> DEFINE w == JoinStream(R) v == q \o w N == Len(records)
<1>1. /\ w \in Seq(HostMessage) /\ Len(w) = N + 1 /\ N \in Nat
      /\ w[1] = [type |-> "welcome", snapshot |-> snapshot, log_length |-> N, roster |-> R]
      /\ \A i \in 1 .. N : w[i + 1] = RecordMsg(records[i])
  <2>1. N \in Nat
    BY DEF TypeOK
  <2>. QED
    BY <2>1, JoinStreamShape
<1>2. w \in Seq(X) /\ DOMAIN w = 1 .. N + 1
  BY <1>1, SeqMonotonic
<1>3. \A i \in DOMAIN w : w[i].type = "welcome" => i = 1
  <2>1. \A i \in 1 .. N + 1 : i # 1 => i - 1 \in 1 .. N /\ (i - 1) + 1 = i
    BY <1>1
  <2>2. \A i \in 1 .. N : w[i + 1].type = "record"
    BY <1>1, RecordMsgFacts
  <2>. QED
    BY <1>2, <2>1, <2>2
<1>4. PICK n \in Nat : n = Len(q)
  BY LenProperties
<1>5. /\ v \in Seq(X) /\ DOMAIN q = 1 .. n
      /\ \A i \in DOMAIN q : i \in DOMAIN v /\ v[i] = q[i]
      /\ \A i \in DOMAIN v : i \in DOMAIN q \/ (i > n /\ i - n \in DOMAIN w /\ v[i] = w[i - n])
  BY <1>2, <1>4, JoinedPlaces
<1>6. ASSUME NEW p \in 0 .. Len(v), BeginsAt(a, v, p), NEW s, s = ReaderAt(a, v, p)
      PROVE  /\ Readable(s, me, v, p) /\ Logged(s, me, v, p, records)
             /\ Follows(s, me, v, p, records, {}, snapshot)
  <2>1. p \notin DOMAIN q /\ p # 0
    <3>1. p \in 0 .. n => ~BeginsAt(a, q, p)
      BY <1>4
    <3>2. p = 0 \/ p \in DOMAIN q => p \in 0 .. n
      BY <1>4, <1>5
    <3> HIDE DEF v
    <3>. QED
      BY <1>5, <1>6, <3>1, <3>2 DEF BeginsAt
  <2>2. p \in DOMAIN v /\ v[p].type = "welcome"
    BY <1>6, <2>1 DEF BeginsAt
  <2>3. p > n /\ p - n \in DOMAIN w /\ v[p] = w[p - n]
    <3> HIDE DEF v, w
    <3>. QED
      BY <1>5, <2>1, <2>2
  <2>4. p - n = 1 /\ v[p] = w[1]
    <3> HIDE DEF v, w
    <3>. QED
      BY <1>3, <2>2, <2>3
  <2>5. p = 1 + n
    BY <1>4, <2>4
  <2>6. s = Welcomed(a, w[1]) /\ w[1].log_length = N /\ w[1].snapshot = snapshot
    BY <1>1, <1>6, <2>1, <2>4 DEF ReaderAt
  <2>7. /\ s.runtime = <<>> /\ s.consumed = 0 /\ s.base = N /\ s.known = {}
        /\ s.doc = snapshot /\ s.published = 0
    <3> HIDE DEF w, N
    <3>. QED
      BY <2>6 DEF Welcomed, Solo
  <2>8. /\ Readable(s, me, w, 1) /\ Logged(s, me, w, 1, records)
        /\ Follows(s, me, w, 1, records, {}, snapshot)
    BY <2>7, ReadStart
  <2>9. Runs(s)
    BY <1>1, <2>7 DEF Runs
  <2>10. /\ Readable(s, me, v, 1 + Len(q)) <=> Readable(s, me, w, 1)
         /\ Logged(s, me, v, 1 + Len(q), records) <=> Logged(s, me, w, 1, records)
         /\ Follows(s, me, v, 1 + Len(q), records, {}, snapshot)
              <=> Follows(s, me, w, 1, records, {}, snapshot)
    <3> HIDE DEF w
    <3>. QED
      BY <1>2, <2>9, ReadSkip
  <2>. QED
    BY <1>4, <2>5, <2>8, <2>10
<1>. QED
  BY <1>6 DEF ReadsWell, ReadsLog, ReadsAll

\* A joining app reads a Welcome, and is live; a live one reads any message.
LEMMA FirstRead ==
  ASSUME NEW X, Carries(X), NEW m \in X, NEW w \in Seq(X), NEW a, Runs(a), NEW me,
         NEW b, NEW log, NEW pipe, NEW doc,
         ReadsWell(a, me, <<m>> \o w),
         \/ /\ a.mode \in {"joining", "rejoining"} /\ m.type = "welcome"
            /\ b = Welcomed(a, m)
         \/ /\ a.mode = "live" /\ m.type # "record" /\ Alike(a, b)
         \/ /\ a.mode = "live" /\ m.type = "record"
            /\ b.runtime = Append(a.runtime, m.record) /\ b.consumed = a.consumed + 1
            /\ b.base = a.base /\ b.published = a.published
            /\ b.known = a.known \cup {m.record.action_id} /\ b.doc = a.doc
  PROVE  /\ Readable(b, me, w, 0)
         /\ ReadsLog(a, me, <<m>> \o w, log) => Logged(b, me, w, 0, log)
         /\ ReadsLog(a, me, <<m>> \o w, log) /\ ReadsAll(a, me, <<m>> \o w, log, pipe, doc) =>
              Follows(b, me, w, 0, log, pipe, doc)
<1> DEFINE t == <<m>> v == t \o w
<1>1. t \in Seq(X) /\ Len(t) = 1 /\ v \in Seq(X) /\ 1 \in DOMAIN v /\ v[1] = m /\ 0 + 1 = 1
      /\ 0 \in 0 .. Len(v) /\ 1 \in 0 .. Len(v)
  <2>1. t \in Seq(X) /\ Len(t) = 1 /\ 1 \in DOMAIN t /\ t[1] = m
    OBVIOUS
  <2>2. v \in Seq(X) /\ 1 \in DOMAIN v /\ v[1] = m
    <3> HIDE DEF t
    <3>. QED
      BY <2>1, JoinedPlaces
  <2>3. Len(v) \in Nat /\ DOMAIN v = 1 .. Len(v)
    <3> HIDE DEF v
    <3>. QED
      BY <2>2, LenProperties
  <2>. QED
    BY <2>1, <2>2, <2>3
<1>2. m.type = "record" => m.record \in Record
  BY CarriesRecord
<1>3. Runs(b)
  <2>1. CASE a.mode \in {"joining", "rejoining"} /\ m.type = "welcome" /\ b = Welcomed(a, m)
    <3>1. m.log_length \in Nat
      BY <2>1 DEF Carries
    <3>2. b.runtime = <<>> /\ b.published = 0 /\ b.consumed = 0 /\ b.base = m.log_length
      BY <2>1 DEF Welcomed, Solo
    <3>. QED
      BY <3>1, <3>2 DEF Runs
  <2>2. CASE Alike(a, b)
    BY <2>2 DEF Alike, Runs
  <2>3. CASE /\ m.type = "record"
            /\ b.runtime = Append(a.runtime, m.record) /\ b.consumed = a.consumed + 1
            /\ b.base = a.base /\ b.published = a.published
    BY <1>2, <2>3, HasAppended DEF Runs
  <2>. QED
    BY <2>1, <2>2, <2>3
<1>4. /\ Readable(b, me, v, 0 + Len(t)) <=> Readable(b, me, w, 0)
      /\ Logged(b, me, v, 0 + Len(t), log) <=> Logged(b, me, w, 0, log)
      /\ Follows(b, me, v, 0 + Len(t), log, pipe, doc) <=> Follows(b, me, w, 0, log, pipe, doc)
  <2>1. 0 \in Nat /\ t \in Seq(X)
    BY <1>1
  <2> HIDE DEF t
  <2>. QED
    BY <1>3, <2>1, ReadSkip
<1> HIDE DEF t
<1>5. /\ Readable(b, me, v, 1)
      /\ ReadsLog(a, me, v, log) => Logged(b, me, v, 1, log)
      /\ ReadsLog(a, me, v, log) /\ ReadsAll(a, me, v, log, pipe, doc) =>
           Follows(b, me, v, 1, log, pipe, doc)
  <2>0. ReadsWell(a, me, v)
    BY DEF t
  <2> HIDE DEF v
  <2>1. CASE a.mode \in {"joining", "rejoining"} /\ m.type = "welcome" /\ b = Welcomed(a, m)
    <3>1. BeginsAt(a, v, 1) /\ b = ReaderAt(a, v, 1)
      BY <1>1, <2>1 DEF BeginsAt, ReaderAt
    <3>. QED
      BY <1>1, <2>0, <3>1 DEF ReadsWell, ReadsLog, ReadsAll
  <2>2. CASE a.mode = "live"
    <3>1. BeginsAt(a, v, 0) /\ a = ReaderAt(a, v, 0)
      BY <2>2 DEF BeginsAt, ReaderAt
    <3>2. /\ Readable(a, me, v, 0)
          /\ ReadsLog(a, me, v, log) => Logged(a, me, v, 0, log)
          /\ ReadsAll(a, me, v, log, pipe, doc) => Follows(a, me, v, 0, log, pipe, doc)
      BY <1>1, <2>0, <3>1 DEF ReadsWell, ReadsLog, ReadsAll
    <3>3. CASE m.type # "record"
      <4>1. Alike(a, b)
        BY <2>2, <3>3
      <4>2. 0 \in Nat /\ 0 + 1 \in DOMAIN v /\ v[0 + 1].type # "record"
        BY <1>1, <3>3
      <4>3. /\ Readable(a, me, v, 0) => Readable(b, me, v, 0 + 1)
            /\ Logged(a, me, v, 0, log) => Logged(b, me, v, 0 + 1, log)
            /\ Follows(a, me, v, 0, log, pipe, doc) => Follows(b, me, v, 0 + 1, log, pipe, doc)
        BY <1>1, <4>1, <4>2, ReadPast
      <4>. QED
        BY <1>1, <3>2, <4>3
    <3>4. CASE m.type = "record"
      <4>1. 0 \in Nat /\ 0 + 1 \in DOMAIN v /\ v[0 + 1].type = "record" /\ v[0 + 1].record = m.record
        BY <1>1, <3>4
      <4>2. /\ b.runtime = Append(a.runtime, m.record) /\ b.consumed = a.consumed + 1
            /\ b.base = a.base /\ b.published = a.published
            /\ b.known = a.known \cup {m.record.action_id} /\ b.doc = a.doc
        BY <2>2, <3>4
      <4>3. /\ Readable(b, me, v, 0 + 1)
            /\ Logged(a, me, v, 0, log) => Logged(b, me, v, 0 + 1, log)
            /\ Logged(a, me, v, 0, log) /\ Follows(a, me, v, 0, log, pipe, doc) =>
                 Follows(b, me, v, 0 + 1, log, pipe, doc)
        BY <1>1, <3>2, <4>1, <4>2, ReadRecord
      <4>. QED
        BY <1>1, <3>2, <4>3
    <3>. QED
      BY <3>3, <3>4
  <2>. QED
    BY <2>1, <2>2
<1>. QED
  BY <1>1, <1>4, <1>5 DEF t

\* The record a live app reads first is applied, and is new to it.
LEMMA FirstApplied ==
  ASSUME NEW X, Carries(X), NEW m \in X, NEW w \in Seq(X), NEW a, Runs(a), NEW me,
         ReadsWell(a, me, <<m>> \o w), a.mode = "live", m.type = "record"
  PROVE  /\ m.record \in Record
         /\ m.record.user_id # me \/ a.consumed < a.base
         /\ ~HasId(a.runtime, m.record.action_id)
<1> DEFINE t == <<m>> v == t \o w
<1>1. t \in Seq(X) /\ 1 \in DOMAIN t /\ t[1] = m
  OBVIOUS
<1> HIDE DEF t
<1>2. v \in Seq(X) /\ 1 \in DOMAIN v /\ v[1] = m
  BY <1>1, JoinedPlaces
<1>3. ReadsWell(a, me, v)
  BY DEF t
<1> HIDE DEF v
<1>4. Len(v) \in Nat
  BY <1>2
<1>5. BeginsAt(a, v, 0) /\ a = ReaderAt(a, v, 0) /\ 0 \in 0 .. Len(v)
  BY <1>4 DEF BeginsAt, ReaderAt
<1>6. Readable(a, me, v, 0)
  BY <1>3, <1>5 DEF ReadsWell
<1>7. m.record \in Record
  BY CarriesRecord
<1>8. ~HasId(a.runtime, m.record.action_id) /\ (m.record.user_id = me => a.consumed + (1 - 0) <= a.base)
  BY <1>2, <1>6 DEF Readable
<1>9. a.consumed \in Nat /\ a.base \in Nat
  BY DEF Runs
<1>. QED
  BY <1>7, <1>8, <1>9

\* One sequence lies in another, a number of places on.
After(X, k, w, v) ==
  v \in Seq(X) /\ \A i \in DOMAIN w : i + k \in DOMAIN v /\ v[i + k] = w[i]

\* The second of two sequences put together lies after the first.
LEMMA JoinedAfter ==
  ASSUME NEW X, NEW t \in Seq(X), NEW w \in Seq(X)
  PROVE  After(X, Len(t), w, t \o w)
BY JoinedPlaces DEF After

\* What a joining app reads before a Welcome is passed over.
LEMMA PassedOver ==
  ASSUME NEW X, Carries(X), NEW m \in X, NEW w \in Seq(X), NEW a, Runs(a), NEW me,
         NEW log, NEW pipe, NEW doc, a.mode # "live"
  PROVE  /\ ReadsWell(a, me, <<m>> \o w) => ReadsWell(a, me, w)
         /\ ReadsLog(a, me, <<m>> \o w, log) => ReadsLog(a, me, w, log)
         /\ ReadsAll(a, me, <<m>> \o w, log, pipe, doc) => ReadsAll(a, me, w, log, pipe, doc)
<1> DEFINE t == <<m>> v == t \o w
<1>1. t \in Seq(X) /\ Len(t) = 1
  OBVIOUS
<1> HIDE DEF t
<1>2. v \in Seq(X) /\ \A i \in DOMAIN w : i + 1 \in DOMAIN v /\ v[i + 1] = w[i]
  <2>1. After(X, Len(t), w, v)
    BY <1>1, JoinedAfter, Zenon
  <2> HIDE DEF v
  <2>. QED
    BY <1>1, <2>1 DEF After
<1>3. ASSUME NEW p \in 0 .. Len(w), BeginsAt(a, w, p), NEW s, s = ReaderAt(a, w, p)
      PROVE  /\ p + 1 \in 0 .. Len(v) /\ BeginsAt(a, v, p + 1) /\ s = ReaderAt(a, v, p + 1)
             /\ Follows(s, me, v, p + 1, log, pipe, doc) => Follows(s, me, w, p, log, pipe, doc)
  <2>1. p \in DOMAIN w /\ w[p].type = "welcome" /\ a.mode \in {"joining", "rejoining"} /\ p # 0
    <3>1. p # 0
      BY <1>3 DEF BeginsAt
    <3>. QED
      BY <1>3, <3>1 DEF BeginsAt
  <2>2. p \in Nat /\ Runs(s) /\ p + 1 # 0
    <3>1. p \in Nat /\ Runs(s)
      BY <1>3, ReaderRuns
    <3>. QED
      BY <3>1
  <2>3. Follows(s, me, v, p + 1, log, pipe, doc) <=> Follows(s, me, w, p, log, pipe, doc)
    BY <1>1, <2>2, ReadSkip
  <2> HIDE DEF v
  <2>4. BeginsAt(a, v, p + 1) /\ s = ReaderAt(a, v, p + 1)
    BY <1>2, <1>3, <2>1, <2>2 DEF BeginsAt, ReaderAt
  <2>5. p + 1 \in 0 .. Len(v)
    BY <1>2, <2>4, ReaderRuns
  <2>. QED
    BY <2>3, <2>4, <2>5
<1>4. ReadsAll(a, me, v, log, pipe, doc) => ReadsAll(a, me, w, log, pipe, doc)
  <2> HIDE DEF v
  <2>. QED
    BY <1>3 DEF ReadsAll
<1>5. /\ ReadsWell(a, me, v) => ReadsWell(a, me, w)
      /\ ReadsLog(a, me, v, log) => ReadsLog(a, me, w, log)
  BY <1>1, SkipReads
<1>. QED
  BY <1>4, <1>5 DEF t

\* A live app reads from the first message on, and only from there.
LEMMA LiveReads ==
  ASSUME NEW q, NEW X, q \in Seq(X), NEW a, NEW me, NEW log, NEW pipe, NEW doc, a.mode = "live"
  PROVE  /\ ReadsWell(a, me, q) <=> Readable(a, me, q, 0)
         /\ ReadsLog(a, me, q, log) <=> Logged(a, me, q, 0, log)
         /\ ReadsAll(a, me, q, log, pipe, doc) <=> Follows(a, me, q, 0, log, pipe, doc)
<1>1. 0 \in 0 .. Len(q)
  BY LenProperties
<1>2. \A p : BeginsAt(a, q, p) <=> p = 0
  BY DEF BeginsAt
<1>3. ReaderAt(a, q, 0) = a
  BY DEF ReaderAt
<1>. QED
  BY <1>1, <1>2, <1>3 DEF ReadsWell, ReadsLog, ReadsAll

\* An app that does not begin to read has nothing to keep.
LEMMA IdleReads ==
  ASSUME NEW q, NEW a, NEW me, NEW log, NEW pipe, NEW doc,
         \A p \in 0 .. Len(q) : ~BeginsAt(a, q, p)
  PROVE  ReadsWell(a, me, q) /\ ReadsLog(a, me, q, log) /\ ReadsAll(a, me, q, log, pipe, doc)
BY DEF ReadsWell, ReadsLog, ReadsAll
=============================================================================
