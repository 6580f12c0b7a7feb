--------------------------- MODULE SessionClient ---------------------------
(***************************************************************************)
(* The joining side of a session (session-client/session_client.rs and the *)
(* client half of session-net/session_net.rs), as functions of its state:  *)
(* what a Welcome makes of it, what a message of the host does to it, and  *)
(* what a frame publishes.  SessionLan drives it over TCP connections of   *)
(* the host's listener, RelayLane through the relay.                       *)
(*                                                                         *)
(* A runtime is the sequence of records it applied to the document it was  *)
(* built from.                                                             *)
(***************************************************************************)
EXTENDS SessionHost

CONSTANT None  \* no app, no connection

Solo == [mode |-> "solo", conn |-> None, runtime |-> <<>>, doc |-> 0,
         published |-> 0, consumed |-> 0, base |-> 0, known |-> {}]

HelloMsg == [type |-> "hello"]
ByeMsg == [type |-> "bye"]
DeniedMsg == [type |-> "denied"]

\* Rosters, presence and pongs are caches: no step of a client depends on them.
Relevant(m) == m.type \in {"welcome", "record", "ended"}

\* Mutant: a rejoin is given up as a join is.
FailedForGood(m) == "solo"

\* A refused or broken handshake: a join is given up, a rejoin tried again.
Failed(m) == IF m = "joining" THEN "solo" ELSE "lost"

\* Mutants: the rejoined runtime starts from the old one; the replay of the
\* own records is taken for an echo.
WelcomedOnTop(s, m) ==
  [s EXCEPT !.mode = "live", !.doc = m.snapshot, !.published = 0,
            !.consumed = 0, !.base = m.log_length, !.known = {}]

WelcomedEcho(s, m) ==
  [Solo EXCEPT !.mode = "live", !.conn = s.conn, !.doc = m.snapshot]

\* Welcome: a runtime rebuilt from the snapshot, the replay still to come.
Welcomed(s, m) ==
  [Solo EXCEPT !.mode = "live", !.conn = s.conn,
               !.doc = m.snapshot, !.base = m.log_length]

\* What the publish half of a frame sends: own records past the cursor that
\* the wire has not delivered.
Outbound(s, me) ==
  LET due[n \in 0 .. Len(s.runtime)] ==
        IF n = 0 THEN <<>>
        ELSE IF /\ n > s.published
                /\ s.runtime[n].user_id = me /\ s.runtime[n].action_id \notin s.known
        THEN Append(due[n - 1], RecordMsg(s.runtime[n]))
        ELSE due[n - 1]
  IN  due[Len(s.runtime)]

\* The state of an app after one inbound message.  Records of the replay are
\* applied whoever made them, later ones only if they are foreign; a Welcome
\* after the first is passed over.
Received(s, me, m) ==
  CASE m.type = "record" ->
         [s EXCEPT !.known = @ \cup {m.record.action_id},
                   !.consumed = @ + 1,
                   !.runtime = IF m.record.user_id # me \/ s.consumed < s.base
                               THEN Append(@, m.record) ELSE @]
    [] m.type = "ended" -> [s EXCEPT !.mode = "ended"]
    [] m = DeniedMsg    -> [s EXCEPT !.mode = "lost"]
    [] OTHER            -> s
=============================================================================
