------------------------- MODULE SessionPanelProofs -------------------------
(***************************************************************************)
(* Proofs about SessionPanel, for every set of hosts: what the app tells   *)
(* of its session, what it leaves on disk, and where its inputs go.  They  *)
(* hold for a painter that is not hasty (see SessionPanel): one inductive  *)
(* invariant, PanelInv, ties what the panel has queued and focused to the  *)
(* session that the app will apply it to.                                  *)
(***************************************************************************)
EXTENDS SessionPanel, SequenceTheorems, TLAPS

Peer == Host \cup {Relayed, Me}

Nets == [side : {"none", "host", "client"}, lan : BOOLEAN, code : BOOLEAN,
         of : Peer \cup {Nobody}, link : {"none", "up", "lost", "ended"}]

Apps == [net : Nets, responder : BOOLEAN, hosting : BOOLEAN, saved : BOOLEAN,
         cursor : {"start", "end"}, note : BOOLEAN]

Actions == [type : {"none", "host", "join", "leave", "rename", "copy", "paste"},
            of : Peer \cup {Nobody}]

Panels == [view : [in_session : BOOLEAN, is_host : BOOLEAN, code : BOOLEAN],
           discovered : Seq(Peer), pending : Actions, paste : BOOLEAN,
           field : [focused : BOOLEAN, typed : BOOLEAN],
           focus : {"none", "name", "code"}, draft : BOOLEAN, selector : Nat,
           hidden : BOOLEAN]

\* A net is whole: its parts agree on whether there is a session.
NetWhole(n) ==
  /\ n.side = "client" <=> n.of # Nobody
  /\ n.side = "host" <=> n.lan \/ n.code
  /\ n.side = "client" <=> n.link # "none"

\* The app is in order: it advertises what it has, and its disk follows.
AppWhole(s) ==
  /\ s \in Apps
  /\ NetWhole(s.net)
  /\ s.responder => s.net.side = "host" /\ s.net.lan
  /\ s.note => s.net.side = "host" /\ ~s.net.code
  /\ s.hosting <=> s.net.side = "host"
  /\ s.net.side = "host" => s.cursor = "end"
  /\ s.net.side # "client" => s.saved

\* What is queued or focused suits the session: a host or join action and a
\* focused field belong to an app that is alone, and an action that changes
\* the session has taken the focus.
Suits(p, n) ==
  /\ p.pending.type \in {"host", "join"} => n.side = "none"
  /\ p.pending.type \in {"host", "join", "leave"} => p.focus = "none"
  /\ p.focus # "none" => ~p.hidden /\ ~p.view.in_session /\ n.side = "none"
  /\ p.focus = "code" => p.field.focused

ScanWhole ==
  /\ scan \in [state : {"none", "running", "done"}, found : Seq(Peer)]
  /\ IsInjective(scan.found)
  /\ scan.state = "none" => scan.found = <<>>

PanelInv ==
  /\ serving \in SUBSET (Host \cup {Relayed})
  /\ AppWhole(app)
  /\ panel \in Panels
  /\ IsInjective(panel.discovered)
  /\ Suits(panel, app.net)
  /\ ScanWhole

-----------------------------------------------------------------------------
(* The app.                                                                *)

\* The nets that the app makes are whole.
LEMMA NetsMade ==
  /\ NoNet \in Nets /\ NetWhole(NoNet) /\ NoNet.side = "none"
  /\ \A lan, code \in BOOLEAN : lan \/ code =>
       /\ HostNet(lan, code) \in Nets
       /\ NetWhole(HostNet(lan, code))
       /\ HostNet(lan, code).side = "host"
       /\ HostNet(lan, code).lan = lan
       /\ HostNet(lan, code).code = code
  /\ \A h \in Host \cup {Relayed} :
       /\ ClientNet(h) \in Nets
       /\ NetWhole(ClientNet(h))
       /\ ClientNet(h).side = "client"
BY PanelAssumption DEF NoNet, HostNet, ClientNet, Nets, NetWhole, Peer

\* The net seam keeps the app in order.
LEMMA SeamWhole ==
  ASSUME NEW s, AppWhole(s), NEW back \in BOOLEAN
  PROVE  /\ AppWhole(Seam(s, back))
         /\ s.net.side = "none" => Seam(s, back).net.side = "none"
<1>1. CASE s.net.link = "ended"
  <2>1. /\ Seam(s, back) = [s EXCEPT !.net = NoNet, !.saved = TRUE]
        /\ s.net.side = "client"
    BY <1>1 DEF Seam, AppWhole, NetWhole
  <2>. QED
    BY <2>1, NetsMade DEF AppWhole, Apps
<1>2. CASE s.net.link = "lost" /\ back
  <2>1. /\ Seam(s, back) = [s EXCEPT !.net.link = "up", !.cursor = "start"]
        /\ s.net.side = "client"
    BY <1>2 DEF Seam, AppWhole, NetWhole
  <2>2. Seam(s, back).net = [side |-> "client", lan |-> s.net.lan, code |-> s.net.code,
                             of |-> s.net.of, link |-> "up"]
    BY <2>1 DEF AppWhole, Apps, Nets
  <2>3. Seam(s, back).net \in Nets /\ NetWhole(Seam(s, back).net)
    <3>1. s.net \in Nets /\ NetWhole(s.net)
      BY DEF AppWhole, Apps
    <3>2. /\ s.net.lan \in BOOLEAN /\ s.net.code \in BOOLEAN /\ ~s.net.lan /\ ~s.net.code
          /\ s.net.of \in Peer /\ s.net.of # Nobody
      BY <2>1, <3>1 DEF Nets, NetWhole
    <3>. QED
      BY <2>2, <3>2 DEF Nets, NetWhole
  <2>4. Seam(s, back) = [net |-> Seam(s, back).net, responder |-> s.responder,
                         hosting |-> s.hosting, saved |-> s.saved,
                         cursor |-> "start", note |-> s.note]
    BY <2>1 DEF AppWhole, Apps
  <2>. QED
    BY <2>1, <2>2, <2>3, <2>4 DEF AppWhole, Apps
<1>3. CASE s.net.link # "ended" /\ ~(s.net.link = "lost" /\ back)
  BY <1>3 DEF Seam
<1>. QED
  BY <1>1, <1>2, <1>3

\* A host or a join of an app that is alone, and a leave at any time, keep it
\* in order.
LEMMA AppliedWhole ==
  ASSUME serving \in SUBSET (Host \cup {Relayed}),
         NEW s, AppWhole(s), NEW a \in Actions,
         a.type \in {"host", "join"} => s.net.side = "none",
         NEW t \in Applied(s, a)
  PROVE  /\ AppWhole(t)
         /\ a.type \notin {"host", "join", "leave"} => t = s
<1>1. CASE a.type = "host"
  <2>1. t \in Hosting(s)
    BY <1>1 DEF Applied
  <2>2. CASE t = s
    BY <1>1, <2>2
  <2>3. ASSUME NEW w \in [lan : BOOLEAN, code : BOOLEAN, found : BOOLEAN],
               w.lan \/ w.code, w.found => w.lan,
               t = [Hosted(s, w.lan, w.code) EXCEPT !.responder = w.found, !.note = ~w.code]
        PROVE  AppWhole(t)
    <3>1. w.lan \in BOOLEAN /\ w.code \in BOOLEAN /\ w.found \in BOOLEAN
      BY <2>3
    <3>2. /\ HostNet(w.lan, w.code) \in Nets /\ NetWhole(HostNet(w.lan, w.code))
          /\ HostNet(w.lan, w.code).side = "host"
          /\ HostNet(w.lan, w.code).lan = w.lan /\ HostNet(w.lan, w.code).code = w.code
      BY <2>3, <3>1, NetsMade
    <3>3. t = [net |-> HostNet(w.lan, w.code), responder |-> w.found, hosting |-> TRUE,
               saved |-> s.saved, cursor |-> "end", note |-> ~w.code]
      BY <2>3 DEF Hosted, AppWhole, Apps
    <3>4. s.saved \in BOOLEAN /\ s.saved
      BY <1>1 DEF AppWhole, Apps
    <3>5. t \in Apps /\ NetWhole(t.net)
      BY <3>1, <3>2, <3>3, <3>4 DEF Apps
    <3>6. t.responder => t.net.side = "host" /\ t.net.lan
      <4>1. w.found => w.lan
        BY <2>3
      <4>2. t.responder = w.found /\ t.net = HostNet(w.lan, w.code)
        BY <3>3
      <4>. QED
        BY <3>1, <3>2, <4>1, <4>2
    <3>7. t.note => t.net.side = "host" /\ ~t.net.code
      BY <3>1, <3>2, <3>3
    <3>. QED
      BY <3>2, <3>3, <3>4, <3>5, <3>6, <3>7 DEF AppWhole
  <2>. QED
    BY <1>1, <2>1, <2>2, <2>3 DEF Hosting
<1>2. CASE a.type = "join"
  <2>1. t = s \/ \E k \in serving : t = Joined(s, k)
    BY <1>2 DEF Applied, Joining
  <2>2. ASSUME NEW k \in serving, t = Joined(s, k)
        PROVE  AppWhole(t)
    <3>1. k \in Host \cup {Relayed}
      OBVIOUS
    <3>2. ClientNet(k) \in Nets /\ NetWhole(ClientNet(k)) /\ ClientNet(k).side = "client"
      BY <3>1, NetsMade
    <3>3. t = [net |-> ClientNet(k), responder |-> s.responder, hosting |-> FALSE,
               saved |-> FALSE, cursor |-> "start", note |-> s.note]
      BY <2>2 DEF Joined, AppWhole, Apps
    <3>4. ~s.responder /\ ~s.note /\ s.responder \in BOOLEAN /\ s.note \in BOOLEAN
      BY <1>2 DEF AppWhole, Apps
    <3>. QED
      BY <3>2, <3>3, <3>4 DEF AppWhole, Apps
  <2>. QED
    BY <1>2, <2>1, <2>2
<1>3. CASE a.type = "leave"
  <2>1. t = Left(s)
    BY <1>3 DEF Applied
  <2>2. t = [net |-> NoNet, responder |-> FALSE, hosting |-> FALSE, saved |-> TRUE,
             cursor |-> "start", note |-> FALSE]
    BY <2>1 DEF Left, Alone, AppWhole, Apps
  <2>. QED
    BY <1>3, <2>2, NetsMade DEF AppWhole, Apps
<1>4. CASE a.type \notin {"host", "join", "leave"}
  <2>1. t = s
    BY <1>4 DEF Applied
  <2>. QED
    BY <1>4, <2>1
<1>. QED
  BY <1>1, <1>2, <1>3, <1>4

\* An app that is alone begins to host, or joins, in order.
LEMMA AloneWhole ==
  ASSUME NEW s, AppWhole(s), s.net.side = "none"
  PROVE  /\ \A lan, code \in BOOLEAN : lan \/ code => AppWhole(Hosted(s, lan, code))
         /\ \A h \in Host \cup {Relayed} : AppWhole(Joined(s, h))
<1>1. /\ s \in Apps /\ ~s.responder /\ ~s.note /\ s.saved
      /\ s.responder \in BOOLEAN /\ s.note \in BOOLEAN /\ s.saved \in BOOLEAN
  BY DEF AppWhole, Apps
<1>2. ASSUME NEW lan \in BOOLEAN, NEW code \in BOOLEAN, lan \/ code,
             NEW t, t = Hosted(s, lan, code)
      PROVE  AppWhole(t)
  <2>1. t
          = [net |-> HostNet(lan, code), responder |-> s.responder, hosting |-> TRUE,
             saved |-> s.saved, cursor |-> "end", note |-> s.note]
    BY <1>2 DEF Hosted, AppWhole, Apps
  <2>. QED
    BY <1>1, <1>2, <2>1, NetsMade DEF AppWhole, Apps
<1>3. ASSUME NEW h \in Host \cup {Relayed}, NEW t, t = Joined(s, h)
      PROVE  AppWhole(t)
  <2>1. t
          = [net |-> ClientNet(h), responder |-> s.responder, hosting |-> FALSE,
             saved |-> FALSE, cursor |-> "start", note |-> s.note]
    BY <1>3 DEF Joined, AppWhole, Apps
  <2>. QED
    BY <1>1, <1>3, <2>1, NetsMade DEF AppWhole, Apps
<1>. QED
  BY <1>2, <1>3

\* The app boots in order.
LEMMA BootWhole ==
  ASSUME serving \in SUBSET (Host \cup {Relayed}), NEW env, NEW t \in Booted(env)
  PROVE  AppWhole(t)
<1>1. AppWhole(Alone)
  BY NetsMade DEF AppWhole, Apps, Alone
<1>2. Alone.net.side = "none"
  BY NetsMade DEF Alone
<1>3. /\ \A lan, code \in BOOLEAN : lan \/ code => AppWhole(Hosted(Alone, lan, code))
      /\ \A h \in Host \cup {Relayed} : AppWhole(Joined(Alone, h))
  BY <1>1, <1>2, AloneWhole
<1>4. \/ t = Alone \/ t = Hosted(Alone, TRUE, FALSE)
      \/ \E lan \in BOOLEAN : t = Hosted(Alone, lan, TRUE)
      \/ \E h \in serving : t = Joined(Alone, h)
  BY DEF Booted
<1>. QED
  BY <1>1, <1>2, <1>3, <1>4

-----------------------------------------------------------------------------
(* The panel.                                                              *)

\* q is p but for what a click or a key may change.
Akin(q, p) ==
  /\ q \in Panels
  /\ q.view = p.view
  /\ q.discovered = p.discovered

\* The actions that the panel queues are actions.
LEMMA ActionsMade ==
  /\ NoAction \in Actions /\ NoAction.type = "none"
  /\ \A t \in {"host", "leave", "rename", "copy", "paste"} :
       Action(t) \in Actions /\ Action(t).type = t
  /\ \A h \in Peer \cup {Nobody} : Join(h) \in Actions /\ Join(h).type = "join"
BY DEF NoAction, Action, Join, Actions

\* Dropping the focus, and queueing an action.
LEMMA PanelParts ==
  ASSUME NEW p \in Panels
  PROVE  /\ Akin(p, p)
         /\ Akin(Unfocus(p), p)
         /\ Unfocus(p).focus = "none"
         /\ Unfocus(p).pending = p.pending
         /\ Unfocus(p).hidden = p.hidden
         /\ Unfocus(p).field = p.field
         /\ \A a \in Actions :
              /\ Akin(Queue(p, a), p)
              /\ Queue(p, a).pending = a
              /\ Queue(p, a).focus = p.focus
              /\ Queue(p, a).hidden = p.hidden
              /\ Queue(p, a).field = p.field
BY DEF Akin, Panels, Unfocus, Queue

\* Setting the code field.
LEMMA FieldSet ==
  ASSUME NEW p \in Panels, NEW g \in BOOLEAN, NEW t \in BOOLEAN,
         NEW q, q = [p EXCEPT !.field = [focused |-> g, typed |-> t]]
  PROVE  /\ Akin(q, p)
         /\ q.field = [focused |-> g, typed |-> t]
         /\ q.pending = p.pending
         /\ q.focus = p.focus
         /\ q.hidden = p.hidden
<1>1. /\ p.view \in [in_session : BOOLEAN, is_host : BOOLEAN, code : BOOLEAN]
      /\ p.discovered \in Seq(Peer) /\ p.pending \in Actions /\ p.paste \in BOOLEAN
      /\ p.focus \in {"none", "name", "code"} /\ p.draft \in BOOLEAN
      /\ p.selector \in Nat /\ p.hidden \in BOOLEAN
  BY DEF Panels
<1>2. q = [view |-> p.view, discovered |-> p.discovered, pending |-> p.pending,
           paste |-> p.paste, field |-> [focused |-> g, typed |-> t],
           focus |-> p.focus, draft |-> p.draft, selector |-> p.selector,
           hidden |-> p.hidden]
  BY DEF Panels
<1>. QED
  BY <1>1, <1>2 DEF Akin, Panels

\* A committed code is queued as a join.
LEMMA CommitParts ==
  ASSUME NEW p \in Panels
  PROVE  /\ Akin(Commit(p), p)
         /\ Commit(p) = p \/ Commit(p).pending.type = "join"
<1>. SUFFICES ASSUME NEW c, c = Commit(p)
              PROVE  Akin(c, p) /\ (c = p \/ c.pending.type = "join")
  OBVIOUS
<1>1. CASE p.field.focused /\ p.field.typed
  <2> DEFINE q == Queue(p, Join(Relayed))
  <2>1. Join(Relayed) \in Actions /\ Join(Relayed).type = "join"
    BY ActionsMade DEF Peer
  <2>2. q \in Panels /\ Akin(q, p) /\ q.pending.type = "join"
    BY <2>1, PanelParts DEF Akin
  <2>3. c = [q EXCEPT !.field = [focused |-> FALSE, typed |-> FALSE]]
    BY <1>1 DEF Commit
  <2> HIDE DEF q
  <2>4. Akin(c, q) /\ c.pending = q.pending
    BY <2>2, <2>3, FieldSet
  <2>. QED
    BY <2>2, <2>4 DEF Akin
<1>2. CASE ~(p.field.focused /\ p.field.typed)
  BY <1>2, PanelParts DEF Commit
<1>. QED
  BY <1>1, <1>2

\* A click on an offline panel leaves it one, and what it queues or focuses
\* suits an app that is alone.
LEMMA ClickOfflineSuits ==
  ASSUME NEW p \in Panels, NEW n, n.side = "none", Suits(p, n),
         p.pending.type = "none", ~p.hidden, ~p.view.in_session, NEW row \in Row
  PROVE  Akin(ClickOffline(p, row), p) /\ Suits(ClickOffline(p, row), n)
<1>. SUFFICES ASSUME NEW q, q = ClickOffline(p, row)
              PROVE  Akin(q, p) /\ Suits(q, n)
  OBVIOUS
<1>1. ASSUME NEW a \in Actions, q = Unfocus(Queue(p, a))
      PROVE  Akin(q, p) /\ Suits(q, n)
  <2> DEFINE o == Queue(p, a)
  <2>1. o \in Panels /\ Akin(o, p) /\ o.hidden = p.hidden
    BY PanelParts DEF Akin
  <2>2. q = Unfocus(o)
    BY <1>1
  <2> HIDE DEF o
  <2>3. Akin(q, o) /\ q.focus = "none"
    BY <2>1, <2>2, PanelParts
  <2>. QED
    BY <2>1, <2>3 DEF Akin, Suits
<1>2. CASE row = "button"
  BY <1>1, <1>2, ActionsMade DEF ClickOffline
<1>3. CASE row = "name"
  <2>1. q = [p EXCEPT !.focus = "name", !.draft = FALSE]
    BY <1>3 DEF ClickOffline
  <2>. QED
    BY <2>1 DEF Akin, Panels, Suits
<1>4. CASE row = "code_field"
  <2>1. q = [p EXCEPT !.focus = "code", !.field.focused = TRUE]
    BY <1>4 DEF ClickOffline
  <2>2. /\ p.view \in [in_session : BOOLEAN, is_host : BOOLEAN, code : BOOLEAN]
        /\ p.discovered \in Seq(Peer) /\ p.pending \in Actions /\ p.paste \in BOOLEAN
        /\ p.field \in [focused : BOOLEAN, typed : BOOLEAN]
        /\ p.draft \in BOOLEAN /\ p.selector \in Nat /\ p.hidden \in BOOLEAN
    BY DEF Panels
  <2>3. p.field.typed \in BOOLEAN
    BY <2>2
  <2>4. q.field = [focused |-> TRUE, typed |-> p.field.typed]
    BY <2>1, <2>2 DEF Panels
  <2>5. q = [view |-> p.view, discovered |-> p.discovered, pending |-> p.pending,
             paste |-> p.paste, field |-> q.field, focus |-> "code", draft |-> p.draft,
             selector |-> p.selector, hidden |-> p.hidden]
    BY <2>1 DEF Panels
  <2>6. q.field \in [focused : BOOLEAN, typed : BOOLEAN] /\ q.field.focused
    BY <2>3, <2>4
  <2>. QED
    BY <2>2, <2>5, <2>6 DEF Akin, Panels, Suits
<1>5. CASE row = "join_code"
  <2>1. q = Unfocus(Commit(p)) /\ Commit(p) \in Panels /\ Akin(Commit(p), p)
    BY <1>5, CommitParts DEF ClickOffline, Akin
  <2>2. Akin(q, Commit(p)) /\ q.focus = "none"
    BY <2>1, PanelParts
  <2>. QED
    BY <2>1, <2>2 DEF Akin, Suits
<1>6. CASE row = "paste"
  <2>1. q = [p EXCEPT !.paste = TRUE]
    BY <1>6 DEF ClickOffline
  <2>. QED
    BY <2>1 DEF Akin, Panels, Suits
<1>7. CASE row \in {"selector_left", "selector_right"} /\ p.discovered # <<>>
  <2>1. PICK m \in Nat : q = [p EXCEPT !.selector = m]
    <3>1. p.selector \in Nat /\ Len(p.discovered) \in Nat /\ Len(p.discovered) > 0
      BY <1>7, EmptySeq DEF Panels
    <3>2. IF p.selector = 0 THEN 0 \in Nat ELSE p.selector - 1 \in Nat
      BY <3>1
    <3>3. Least(p.selector + 1, Len(p.discovered) - 1) \in Nat
      BY <3>1 DEF Least
    <3>. QED
      BY <1>7, <3>2, <3>3 DEF ClickOffline
  <2>. QED
    BY <2>1 DEF Akin, Panels, Suits
<1>8. CASE row = "join_local" /\ p.discovered # <<>>
  <2>1. Selected(p) \in Peer
    <3>1. /\ p.selector \in Nat /\ p.discovered \in Seq(Peer)
          /\ Len(p.discovered) \in Nat /\ Len(p.discovered) > 0
      BY <1>8, EmptySeq DEF Panels
    <3>2. Least(p.selector, Len(p.discovered) - 1) + 1 \in 1 .. Len(p.discovered)
      BY <3>1 DEF Least
    <3>. QED
      BY <3>1, <3>2, ElementOfSeq DEF Selected
  <2>2. Join(Selected(p)) \in Actions
    BY <2>1, ActionsMade
  <2>. QED
    BY <1>1, <1>8, <2>2 DEF ClickOffline
<1>9. CASE \/ row \in {"selector_name", "code", "blank"}
           \/ row \in {"selector_left", "selector_right", "join_local"} /\ p.discovered = <<>>
  <2>1. q = Unfocus(p)
    BY <1>9 DEF ClickOffline
  <2>2. Akin(q, p) /\ q.focus = "none" /\ q.pending = p.pending
    BY <2>1, PanelParts
  <2>. QED
    BY <2>2 DEF Akin, Suits
<1>. QED
  BY <1>2, <1>3, <1>4, <1>5, <1>6, <1>7, <1>8, <1>9 DEF Row

\* A click on the panel of a session focuses nothing and queues a leave or a
\* copy.
LEMMA ClickInSessionSuits ==
  ASSUME NEW p \in Panels, NEW n, Suits(p, n), p.pending.type = "none",
         p.view.in_session, NEW row \in Row, NEW member \in BOOLEAN
  PROVE  Akin(ClickInSession(p, row, member), p) /\ Suits(ClickInSession(p, row, member), n)
<1>. SUFFICES ASSUME NEW q, q = ClickInSession(p, row, member)
              PROVE  Akin(q, p) /\ Suits(q, n)
  OBVIOUS
<1>1. p.focus = "none"
  BY DEF Suits, Panels
<1>2. ASSUME NEW a \in Actions, a.type \in {"leave", "copy"}, q = Unfocus(Queue(p, a))
      PROVE  Akin(q, p) /\ Suits(q, n)
  <2> DEFINE o == Queue(p, a)
  <2>1. o \in Panels /\ Akin(o, p) /\ o.pending = a
    BY PanelParts DEF Akin
  <2>2. q = Unfocus(o)
    BY <1>2
  <2> HIDE DEF o
  <2>3. Akin(q, o) /\ q.focus = "none" /\ q.pending = a
    BY <2>1, <2>2, PanelParts
  <2>. QED
    BY <1>2, <2>1, <2>3 DEF Akin, Suits
<1>3. CASE row = "button"
  BY <1>2, <1>3, ActionsMade DEF ClickInSession
<1>4. CASE row = "code" /\ p.view.is_host /\ p.view.code
  BY <1>2, <1>4, ActionsMade DEF ClickInSession
<1>5. CASE row # "button" /\ ~(row = "code" /\ p.view.is_host /\ p.view.code)
  <2>1. q = p \/ q = Unfocus(p)
    BY <1>5 DEF ClickInSession
  <2>2. Akin(q, p) /\ q.focus = "none" /\ q.pending = p.pending
    BY <1>1, <2>1, PanelParts
  <2>. QED
    BY <2>2 DEF Akin, Suits
<1>. QED
  BY <1>3, <1>4, <1>5

\* A key of the code field suits the session that the focus suited.
LEMMA KeyInCodeSuits ==
  ASSUME NEW p \in Panels, NEW n, Suits(p, n), p.focus = "code", NEW key
  PROVE  Akin(KeyInCode(p, key), p) /\ Suits(KeyInCode(p, key), n)
<1>. SUFFICES ASSUME NEW q, q = KeyInCode(p, key)
              PROVE  Akin(q, p) /\ Suits(q, n)
  OBVIOUS
<1>1. /\ ~p.hidden /\ p.hidden \in BOOLEAN /\ ~p.view.in_session
      /\ n.side = "none" /\ p.field.focused
  BY DEF Suits, Panels
<1>2. CASE key = "ENTER"
  <2>1. Commit(p) \in Panels /\ Akin(Commit(p), p)
    BY CommitParts DEF Akin
  <2>2. q = p \/ q = Unfocus(Commit(p))
    BY <1>2 DEF KeyInCode
  <2>3. CASE q = p
    BY <2>3, PanelParts
  <2>4. CASE q = Unfocus(Commit(p))
    <3>1. Akin(q, Commit(p)) /\ q.focus = "none"
      BY <2>1, <2>4, PanelParts
    <3>. QED
      BY <1>1, <2>1, <3>1 DEF Akin, Suits
  <2>. QED
    BY <2>2, <2>3, <2>4
<1>3. CASE key = "ESCAPE"
  <2> DEFINE o == Unfocus(p)
  <2>1. /\ Akin(o, p) /\ o \in Panels /\ o.focus = "none" /\ o.pending = p.pending
    BY PanelParts DEF Akin
  <2>2. q = [o EXCEPT !.field = [focused |-> FALSE, typed |-> FALSE]]
    BY <1>3 DEF KeyInCode
  <2> HIDE DEF o
  <2>3. Akin(q, o) /\ q.focus = o.focus /\ q.pending = o.pending
    BY <2>1, <2>2, FieldSet
  <2>. QED
    BY <1>1, <2>1, <2>3 DEF Akin, Suits
<1>4. CASE key \notin {"ENTER", "ESCAPE"}
  <2>1. p.field \in [focused : BOOLEAN, typed : BOOLEAN]
    BY DEF Panels
  <2>2. PICK t \in BOOLEAN : q = [p EXCEPT !.field.typed = t]
    BY <1>4, <2>1 DEF KeyInCode
  <2>3. q.field = [focused |-> p.field.focused, typed |-> t]
    BY <2>1, <2>2 DEF Panels
  <2>4. p.field.focused = TRUE
    BY <1>1, <2>1
  <2>5. q = [p EXCEPT !.field = [focused |-> TRUE, typed |-> t]]
    BY <2>1, <2>2, <2>3, <2>4 DEF Panels
  <2>6. Akin(q, p) /\ q.focus = p.focus /\ q.pending = p.pending /\ q.hidden = p.hidden
    <3>1. CASE t = TRUE
      <4>1. q = [p EXCEPT !.field = [focused |-> TRUE, typed |-> TRUE]]
        BY <2>5, <3>1
      <4>. QED
        BY <4>1, FieldSet
    <3>2. CASE t = FALSE
      <4>1. q = [p EXCEPT !.field = [focused |-> TRUE, typed |-> FALSE]]
        BY <2>5, <3>2
      <4>. QED
        BY <4>1, FieldSet
    <3>. QED
      BY <2>2, <3>1, <3>2
  <2>7. q.field.focused
    BY <1>1, <2>3
  <2>. QED
    BY <1>1, <2>6, <2>7 DEF Akin, Suits
<1>. QED
  BY <1>2, <1>3, <1>4

\* So does a key of the name.
LEMMA KeyInNameSuits ==
  ASSUME NEW p \in Panels, NEW n, Suits(p, n), p.focus = "name", NEW key
  PROVE  Akin(KeyInName(p, key), p) /\ Suits(KeyInName(p, key), n)
<1>. SUFFICES ASSUME NEW q, q = KeyInName(p, key)
              PROVE  Akin(q, p) /\ Suits(q, n)
  OBVIOUS
<1>1. /\ ~p.hidden /\ p.hidden \in BOOLEAN /\ ~p.view.in_session
      /\ n.side = "none" /\ p.pending.type \notin {"host", "join", "leave"}
  BY DEF Suits, Panels
<1> DEFINE o == [Unfocus(p) EXCEPT !.draft = FALSE]
<1>2. Akin(o, p) /\ o \in Panels /\ o.focus = "none" /\ o.pending = p.pending
  <2> DEFINE u == Unfocus(p)
  <2>1. Akin(u, p) /\ u \in Panels /\ u.focus = "none" /\ u.pending = p.pending
    BY PanelParts DEF Akin
  <2>2. o = [u EXCEPT !.draft = FALSE]
    OBVIOUS
  <2> HIDE DEF o, u
  <2>. QED
    BY <2>1, <2>2 DEF Akin, Panels
<1>3. \/ q = o
      \/ q = Queue(o, Action("rename"))
      \/ q = [p EXCEPT !.draft = TRUE]
  BY DEF KeyInName
<1> HIDE DEF o
<1>4. CASE q = o
  BY <1>1, <1>2, <1>4 DEF Suits
<1>5. CASE q = Queue(o, Action("rename"))
  <2>1. Action("rename") \in Actions /\ Action("rename").type = "rename"
    BY ActionsMade
  <2>2. Akin(q, o) /\ q.pending.type = "rename" /\ q.focus = o.focus
    BY <1>2, <1>5, <2>1, PanelParts
  <2>. QED
    BY <1>1, <1>2, <2>2 DEF Akin, Suits
<1>6. CASE q = [p EXCEPT !.draft = TRUE]
  <2>1. /\ Akin(q, p) /\ q.focus = p.focus /\ q.pending = p.pending
        /\ q.hidden = p.hidden /\ q.field = p.field
    BY <1>6 DEF Akin, Panels
  <2>. QED
    BY <1>1, <2>1 DEF Akin, Suits
<1>. QED
  BY <1>3, <1>4, <1>5, <1>6

\* A click, if any, on a panel that nothing is queued in.
LEMMA ClickedSuits ==
  ASSUME NEW p \in Panels, NEW n, Suits(p, n), p.pending.type = "none",
         p.view.in_session <=> n.side # "none",
         NEW row \in Row \cup {NoClick}, NEW q \in Clicked(p, row)
  PROVE  Akin(q, p) /\ Suits(q, n)
<1>1. CASE q = p
  BY <1>1, PanelParts
<1>2. CASE row \in Row /\ ~p.hidden /\ p.view.in_session /\ q # p
  <2>1. PICK member \in BOOLEAN : q = ClickInSession(p, row, member)
    BY <1>2 DEF Clicked
  <2>. QED
    BY <1>2, <2>1, ClickInSessionSuits
<1>3. CASE row \in Row /\ ~p.hidden /\ ~p.view.in_session /\ q # p
  <2>1. q = ClickOffline(p, row)
    BY <1>3 DEF Clicked
  <2>. QED
    BY <1>3, <2>1, ClickOfflineSuits
<1>. QED
  BY <1>1, <1>2, <1>3 DEF Clicked

-----------------------------------------------------------------------------
(* The steps.                                                              *)

\* A scan that is running, or none, is whole; one that ended is what the panel
\* lists.
LEMMA ScanParts ==
  ASSUME PanelInv
  PROVE  /\ \A looking \in BOOLEAN : scan' = Pumped(looking) => ScanWhole'
         /\ Listed(panel) \in Seq(Peer) /\ IsInjective(Listed(panel))
<1>1. NoScan \in [state : {"none", "running", "done"}, found : Seq(Peer)]
  BY EmptySeq DEF NoScan
<1>2. [NoScan EXCEPT !.state = "running"] = [state |-> "running", found |-> <<>>]
  BY DEF NoScan
<1>3. IsInjective(<<>>)
  BY DEF IsInjective
<1>4. ASSUME NEW looking \in BOOLEAN, scan' = Pumped(looking)
      PROVE  ScanWhole'
  <2>1. scan' \in {scan, NoScan, [state |-> "running", found |-> <<>>]}
    BY <1>2, <1>4 DEF Pumped
  <2>2. CASE scan' = scan
    BY <2>2 DEF PanelInv, ScanWhole
  <2>3. CASE scan' = NoScan
    BY <1>1, <1>3, <2>3 DEF ScanWhole, NoScan
  <2>4. CASE scan' = [state |-> "running", found |-> <<>>]
    BY <1>3, <2>4, EmptySeq DEF ScanWhole
  <2>. QED
    BY <2>1, <2>2, <2>3, <2>4
<1>5. Listed(panel) \in Seq(Peer) /\ IsInjective(Listed(panel))
  BY DEF Listed, PanelInv, ScanWhole, Panels
<1>. QED
  BY <1>4, <1>5

\* The panel as a frame mirrors the session into it.
Mirrored(s, clipboard) ==
  [panel EXCEPT !.view = View(s.net),
                !.discovered = Listed(panel),
                !.pending = NoAction,
                !.paste = @ /\ Taken(panel).type # "paste",
                !.field.typed = @ \/ clipboard]

\* A frame, in terms of it.
MirroredFrame(back, clipboard, row) ==
  LET s == Seam(app, back)
      a == Taken(panel)
  IN  /\ back => MayRejoin
      /\ clipboard => a.type = "paste"
      /\ a.type \in {"host", "join", "leave"} => Hasty \/ row = NoClick
      /\ scan' = Pumped(~panel.hidden /\ s.net = NoNet)
      /\ app' \in Applied(s, a)
      /\ panel' \in Clicked(Mirrored(s, clipboard), row)
      /\ UNCHANGED serving

LEMMA FrameIs ==
  Frame <=> \E back \in BOOLEAN, clipboard \in BOOLEAN, row \in Row \cup {NoClick} :
              MirroredFrame(back, clipboard, row)
BY DEF Frame, MirroredFrame, Mirrored

\* What mirroring the session into the panel changes.
LEMMA MirroredParts ==
  ASSUME PanelInv, NEW s, AppWhole(s), NEW clipboard \in BOOLEAN
  PROVE  /\ Mirrored(s, clipboard) \in Panels
         /\ Mirrored(s, clipboard).view = View(s.net)
         /\ Mirrored(s, clipboard).discovered = Listed(panel)
         /\ Mirrored(s, clipboard).pending = NoAction
         /\ Mirrored(s, clipboard).focus = panel.focus
         /\ Mirrored(s, clipboard).hidden = panel.hidden
         /\ Mirrored(s, clipboard).field.focused = panel.field.focused
<1>1. /\ panel \in Panels
      /\ panel.paste \in BOOLEAN /\ panel.field \in [focused : BOOLEAN, typed : BOOLEAN]
      /\ panel.focus \in {"none", "name", "code"} /\ panel.draft \in BOOLEAN
      /\ panel.selector \in Nat /\ panel.hidden \in BOOLEAN
  BY DEF PanelInv, Panels
<1>2. Listed(panel) \in Seq(Peer)
  BY ScanParts
<1>3. View(s.net) \in [in_session : BOOLEAN, is_host : BOOLEAN, code : BOOLEAN]
  BY DEF View, AppWhole, Apps, Nets
<1>4. PICK b \in BOOLEAN : b = (panel.paste /\ Taken(panel).type # "paste")
  OBVIOUS
<1>5. PICK c \in BOOLEAN : c = (panel.field.typed \/ clipboard)
  OBVIOUS
<1>. SUFFICES ASSUME NEW m, m = Mirrored(s, clipboard)
              PROVE  /\ m \in Panels /\ m.view = View(s.net)
                     /\ m.discovered = Listed(panel) /\ m.pending = NoAction
                     /\ m.focus = panel.focus /\ m.hidden = panel.hidden
                     /\ m.field.focused = panel.field.focused
  OBVIOUS
<1>6. m = [panel EXCEPT !.view = View(s.net), !.discovered = Listed(panel),
                        !.pending = NoAction, !.paste = b, !.field.typed = c]
  BY <1>1, <1>4, <1>5 DEF Mirrored
<1>7. m.field = [focused |-> panel.field.focused, typed |-> c]
  BY <1>1, <1>6 DEF Panels
<1>8. m = [view |-> View(s.net), discovered |-> Listed(panel), pending |-> NoAction,
           paste |-> b, field |-> m.field, focus |-> panel.focus, draft |-> panel.draft,
           selector |-> panel.selector, hidden |-> panel.hidden]
  BY <1>1, <1>6 DEF Panels
<1>9. panel.field.focused \in BOOLEAN
  BY <1>1
<1>10. m.field \in [focused : BOOLEAN, typed : BOOLEAN]
  BY <1>7, <1>9
<1>11. m \in Panels
  BY <1>1, <1>2, <1>3, <1>8, <1>10, ActionsMade DEF Panels
<1>. QED
  BY <1>7, <1>8, <1>11

\* Suits asks of a net only whether there is a session.
LEMMA SuitsAlike ==
  ASSUME NEW p, NEW n, NEW m, Suits(p, n), n.side = "none" => m.side = "none"
  PROVE  Suits(p, m)
BY DEF Suits

\* A frame of a painter that is not hasty.
LEMMA FrameKeeps ==
  ASSUME PanelInv, ~Hasty, Frame
  PROVE  PanelInv'
<1>1. PICK back \in BOOLEAN, clipboard \in BOOLEAN, row \in Row \cup {NoClick} :
        MirroredFrame(back, clipboard, row)
  BY FrameIs
<1> DEFINE s == Seam(app, back)
           a == Taken(panel)
           m == Mirrored(s, clipboard)
<1>2. AppWhole(s) /\ (app.net.side = "none" => s.net.side = "none")
  BY SeamWhole DEF PanelInv
<1>3. a \in Actions /\ (a.type \in {"host", "join", "leave"} => a = panel.pending)
  BY ActionsMade DEF Taken, PanelInv, Panels
<1>4. /\ a.type \in {"host", "join"} => s.net.side = "none"
      /\ a.type \in {"host", "join", "leave"} => panel.focus = "none"
  BY <1>2, <1>3 DEF PanelInv, Suits
<1>5. /\ m \in Panels /\ m.view = View(s.net) /\ m.discovered = Listed(panel)
      /\ m.pending = NoAction /\ m.focus = panel.focus /\ m.hidden = panel.hidden
      /\ m.field.focused = panel.field.focused
  BY <1>2, MirroredParts
<1>6. m.pending.type = "none" /\ (m.view.in_session <=> s.net.side # "none")
  <2>1. View(s.net).in_session <=> s.net.side # "none"
    BY DEF View
  <2>. QED
    BY <1>5, <2>1, ActionsMade
<1>7. /\ scan' = Pumped(~panel.hidden /\ s.net = NoNet)
      /\ app' \in Applied(s, a)
      /\ panel' \in Clicked(m, row)
      /\ serving' = serving
      /\ a.type \in {"host", "join", "leave"} => row = NoClick
  BY <1>1 DEF MirroredFrame
<1> HIDE DEF s, a, m
<1>8. serving \in SUBSET (Host \cup {Relayed})
  BY DEF PanelInv
<1>9. AppWhole(app') /\ (a.type \notin {"host", "join", "leave"} => app' = s)
  BY <1>2, <1>3, <1>4, <1>7, <1>8, AppliedWhole
<1>10. ScanWhole'
  <2>1. (~panel.hidden /\ s.net = NoNet) \in BOOLEAN
    OBVIOUS
  <2>. QED
    BY <1>7, <2>1, ScanParts
<1>11. Akin(panel', m) /\ Suits(panel', app'.net)
  <2>1. CASE a.type \in {"host", "join", "leave"}
    <3>1. panel' = m
      BY <1>7, <2>1 DEF Clicked
    <3>2. m.focus = "none" /\ m.pending.type = "none"
      BY <1>4, <1>5, <1>6, <2>1
    <3>. QED
      BY <1>5, <3>1, <3>2 DEF Akin, Suits
  <2>2. CASE a.type \notin {"host", "join", "leave"}
    <3>1. app' = s
      BY <1>9, <2>2
    <3>2. Suits(m, s.net)
      <4>1. CASE panel.focus = "none"
        BY <1>5, <1>6, <4>1 DEF Suits
      <4>2. CASE panel.focus # "none"
        <5>1. /\ ~panel.hidden /\ app.net.side = "none"
              /\ panel.focus = "code" => panel.field.focused
          BY <4>2 DEF PanelInv, Suits
        <5>2. s.net.side = "none" /\ ~m.view.in_session /\ ~m.hidden
          BY <1>2, <1>5, <1>6, <5>1
        <5>3. m.focus = "code" => m.field.focused
          BY <1>5, <5>1
        <5>. QED
          BY <1>6, <5>2, <5>3 DEF Suits
      <4>. QED
        BY <4>1, <4>2
    <3>3. Akin(panel', m) /\ Suits(panel', s.net)
      BY <1>5, <1>6, <1>7, <3>2, ClickedSuits
    <3>. QED
      BY <3>1, <3>3
  <2>. QED
    BY <2>1, <2>2
<1>12. panel' \in Panels /\ IsInjective(panel'.discovered)
  BY <1>5, <1>11, ScanParts DEF Akin
<1>. QED
  BY <1>7, <1>8, <1>9, <1>10, <1>11, <1>12 DEF PanelInv

\* A link that breaks or ends is a client's.
LEMMA LinkedWhole ==
  ASSUME AppWhole(app), NEW h, NEW link \in {"lost", "ended"}
  PROVE  AppWhole(Linked(h, link)) /\ Linked(h, link).net.side = app.net.side
<1>. SUFFICES ASSUME NEW t, t = Linked(h, link)
              PROVE  AppWhole(t) /\ t.net.side = app.net.side
  OBVIOUS
<1>1. app \in Apps /\ app.net \in Nets /\ NetWhole(app.net)
  BY DEF AppWhole, Apps
<1>2. CASE app.net.of = h /\ app.net.link = "up"
  <2>1. app.net.side = "client" /\ app.net.of # Nobody /\ ~app.net.lan /\ ~app.net.code
    BY <1>1, <1>2 DEF NetWhole, Nets
  <2>2. app.net.lan \in BOOLEAN /\ app.net.code \in BOOLEAN /\ app.net.of \in Peer \cup {Nobody}
    BY <1>1 DEF Nets
  <2>3. t.net = [side |-> "client", lan |-> app.net.lan, code |-> app.net.code,
                 of |-> app.net.of, link |-> link]
    BY <1>1, <1>2, <2>1 DEF Linked, Apps, Nets
  <2>4. t.net \in Nets /\ NetWhole(t.net) /\ t.net.side = "client"
    BY <2>1, <2>2, <2>3 DEF Nets, NetWhole
  <2>5. t = [net |-> t.net, responder |-> app.responder, hosting |-> app.hosting,
             saved |-> app.saved, cursor |-> app.cursor, note |-> app.note]
    BY <1>1 DEF Linked, Apps
  <2>6. /\ ~app.responder /\ ~app.note /\ ~app.hosting
        /\ app.responder \in BOOLEAN /\ app.note \in BOOLEAN /\ app.hosting \in BOOLEAN
        /\ app.saved \in BOOLEAN /\ app.cursor \in {"start", "end"}
    BY <1>1, <2>1 DEF AppWhole, Apps
  <2>. QED
    BY <2>1, <2>4, <2>5, <2>6 DEF AppWhole, Apps
<1>3. CASE ~(app.net.of = h /\ app.net.link = "up")
  <2>1. t = app
    BY <1>1, <1>3 DEF Linked, Apps, Nets
  <2>. QED
    BY <2>1
<1>. QED
  BY <1>2, <1>3

\* A step of the painter, the poller or the others.
LEMMA StepKeeps ==
  ASSUME ~Hasty, PanelInv, [Next]_vars
  PROVE  PanelInv'
<1>. USE DEF PanelInv
<1>1. CASE Frame
  BY <1>1, FrameKeeps
<1>2. CASE IdleFrame
  <2>1. app' = Seam(app, TRUE) /\ UNCHANGED <<panel, scan, serving>>
    BY <1>2 DEF IdleFrame
  <2>2. AppWhole(app') /\ (app.net.side = "none" => app'.net.side = "none")
    BY <2>1, SeamWhole
  <2>3. Suits(panel, app'.net)
    BY <2>2, SuitsAlike
  <2>. QED
    BY <2>1, <2>2, <2>3 DEF ScanWhole
<1>3. CASE ScanEnds
  BY <1>3 DEF ScanEnds, ScanWhole
<1>4. CASE SetHidden
  <2>1. UNCHANGED <<app, scan, serving>>
    BY <1>4 DEF SetHidden
  <2>2. CASE panel.hidden
    <3>1. panel' = [panel EXCEPT !.hidden = FALSE]
      BY <1>4, <2>2 DEF SetHidden
    <3>2. panel.focus = "none"
      BY <2>2 DEF Suits, Panels
    <3>3. /\ Akin(panel', panel) /\ panel'.focus = panel.focus
          /\ panel'.pending = panel.pending
      BY <3>1 DEF Akin, Panels
    <3>. QED
      BY <2>1, <3>2, <3>3 DEF Akin, Suits, ScanWhole
  <2>3. CASE ~panel.hidden
    <3>1. panel' = [Unfocus(panel) EXCEPT !.hidden = TRUE, !.draft = FALSE,
                                          !.field.focused = FALSE]
      BY <1>4, <2>3 DEF SetHidden
    <3>2. /\ panel.view \in [in_session : BOOLEAN, is_host : BOOLEAN, code : BOOLEAN]
          /\ panel.discovered \in Seq(Peer) /\ panel.pending \in Actions
          /\ panel.paste \in BOOLEAN /\ panel.selector \in Nat
          /\ panel.field \in [focused : BOOLEAN, typed : BOOLEAN]
      BY DEF Panels
    <3>3. panel'.field = [focused |-> FALSE, typed |-> panel.field.typed]
      BY <3>1, <3>2 DEF Unfocus, Panels
    <3>4. panel.field.typed \in BOOLEAN
      BY <3>2
    <3>5. panel'.field \in [focused : BOOLEAN, typed : BOOLEAN]
      BY <3>3, <3>4
    <3>6. panel' = [view |-> panel.view, discovered |-> panel.discovered,
                    pending |-> panel.pending, paste |-> panel.paste,
                    field |-> panel'.field, focus |-> "none", draft |-> FALSE,
                    selector |-> panel.selector, hidden |-> TRUE]
      BY <3>1 DEF Unfocus, Panels
    <3>7. /\ panel'.discovered = panel.discovered
          /\ panel'.pending = panel.pending /\ panel'.focus = "none"
      BY <3>6
    <3>8. panel' \in Panels
      <4>1. PICK f \in [focused : BOOLEAN, typed : BOOLEAN] : f = panel'.field
        BY <3>5
      <4>2. panel' = [view |-> panel.view, discovered |-> panel.discovered,
                      pending |-> panel.pending, paste |-> panel.paste,
                      field |-> f, focus |-> "none", draft |-> FALSE,
                      selector |-> panel.selector, hidden |-> TRUE]
        BY <3>6, <4>1
      <4>. QED
        BY <3>2, <4>1, <4>2 DEF Panels
    <3>. QED
      BY <2>1, <3>2, <3>7, <3>8 DEF Suits, ScanWhole
  <2>. QED
    BY <2>2, <2>3 DEF Panels
<1>5. CASE LoseLink
  <2>1. app' = Linked(app.net.of, "lost") /\ UNCHANGED <<panel, scan, serving>>
    BY <1>5 DEF LoseLink
  <2>2. AppWhole(app') /\ app'.net.side = app.net.side
    BY <2>1, LinkedWhole
  <2>3. Suits(panel, app'.net)
    BY <2>2, SuitsAlike
  <2>. QED
    BY <2>1, <2>2, <2>3 DEF ScanWhole
<1>6. ASSUME NEW key, Key(key)
      PROVE  PanelInv'
  <2>1. /\ UNCHANGED <<app, scan, serving>>
        /\ \/ panel.focus = "code" /\ panel' = KeyInCode(panel, key)
           \/ panel.focus = "name" /\ panel' = KeyInName(panel, key)
    BY <1>6 DEF Key
  <2>2. Akin(panel', panel) /\ Suits(panel', app.net)
    BY <2>1, KeyInCodeSuits, KeyInNameSuits
  <2>. QED
    BY <2>1, <2>2 DEF Akin, ScanWhole
<1>7. ASSUME NEW h \in Host \cup {Me}, Answer(h)
      PROVE  PanelInv'
  <2>1. /\ UNCHANGED <<app, panel, serving>> /\ scan.state = "running"
        /\ ~Contains(scan.found, h)
        /\ scan' = [scan EXCEPT !.found = Append(scan.found, h)]
    BY <1>7 DEF Answer
  <2>2. scan.found \in Seq(Peer) /\ IsInjective(scan.found) /\ h \in Peer
    BY DEF ScanWhole, Peer
  <2>3. /\ Append(scan.found, h) \in Seq(Peer)
        /\ Len(Append(scan.found, h)) = Len(scan.found) + 1
        /\ Append(scan.found, h)[Len(scan.found) + 1] = h
        /\ \A i \in 1 .. Len(scan.found) : Append(scan.found, h)[i] = scan.found[i]
    BY <2>2, AppendProperties
  <2>4. IsInjective(Append(scan.found, h))
    <3>1. DOMAIN scan.found = 1 .. Len(scan.found) /\ Len(scan.found) \in Nat
      BY <2>2
    <3>2. DOMAIN Append(scan.found, h) = 1 .. (Len(scan.found) + 1)
      BY <2>3
    <3>3. \A i \in 1 .. Len(scan.found) : scan.found[i] # h
      BY <2>1 DEF Contains
    <3>. QED
      BY <2>2, <2>3, <3>1, <3>2, <3>3 DEF IsInjective
  <2>5. scan' \in [state : {"none", "running", "done"}, found : Seq(Peer)]
    BY <2>1, <2>3 DEF ScanWhole
  <2>6. scan'.state = "running" /\ scan'.found = Append(scan.found, h)
    BY <2>1 DEF ScanWhole
  <2>. QED
    BY <2>1, <2>4, <2>5, <2>6 DEF ScanWhole
<1>8. ASSUME NEW h \in Host \cup {Relayed}, Serve(h)
      PROVE  PanelInv'
  BY <1>8 DEF Serve, ScanWhole
<1>9. ASSUME NEW h \in Host \cup {Relayed}, Stop(h)
      PROVE  PanelInv'
  <2>1. PICK link \in {"lost", "ended"} : app' = Linked(h, link)
    BY <1>9 DEF Stop
  <2>2. UNCHANGED <<panel, scan>> /\ serving' \in SUBSET (Host \cup {Relayed})
    BY <1>9 DEF Stop
  <2>3. AppWhole(app') /\ app'.net.side = app.net.side
    BY <2>1, LinkedWhole
  <2>4. Suits(panel, app'.net)
    BY <2>3, SuitsAlike
  <2>. QED
    BY <2>2, <2>3, <2>4 DEF ScanWhole
<1>10. CASE UNCHANGED vars
  BY <1>10 DEF vars, ScanWhole
<1>. QED
  BY <1>1, <1>2, <1>3, <1>4, <1>5, <1>6, <1>7, <1>8, <1>9, <1>10 DEF Next

\* The painter starts in order.
LEMMA InitKeeps ==
  ASSUME Init
  PROVE  PanelInv
<1>1. serving \in SUBSET (Host \cup {Relayed})
  BY DEF Init
<1>2. AppWhole(app)
  <2>1. PICK env : app \in Booted(env)
    BY DEF Init
  <2>. QED
    BY <1>1, <2>1, BootWhole
<1>3. panel \in Panels /\ IsInjective(panel.discovered) /\ Suits(panel, app.net)
  BY ActionsMade, EmptySeq DEF Init, Opened, Panels, View, NoNet, Suits, IsInjective
<1>4. ScanWhole
  BY EmptySeq DEF Init, NoScan, ScanWhole, IsInjective
<1>. QED
  BY <1>1, <1>2, <1>3, <1>4 DEF PanelInv

-----------------------------------------------------------------------------
\* The painter, its panel and its poller stay in order: what PanelInv says
\* holds in every state of a painter that is not hasty.
THEOREM PanelInOrder ==
  ASSUME ~Hasty
  PROVE  Spec => []PanelInv
<1>1. Init => PanelInv
  BY InitKeeps
<1>2. PanelInv /\ [Next]_vars => PanelInv'
  BY StepKeeps
<1>. QED
  BY <1>1, <1>2, PTL DEF Spec

\* PanelInv says what the run's type invariant says.
LEMMA PanelTyped ==
  ASSUME PanelInv
  PROVE  PanelTypeOK
BY DEF PanelInv, PanelTypeOK, AppWhole, Apps, Nets, NetWhole, Panels, ScanWhole

\* Probes are answered only while there is a listener of this app to join, and
\* the note that only the LAN is left only stands in such a session.
THEOREM AdvertisesOwnCorrect ==
  ASSUME ~Hasty
  PROVE  Spec => []AdvertisesOwn
<1>1. PanelInv => AdvertisesOwn
  BY PanelTyped DEF PanelInv, AppWhole, AdvertisesOwn
<1>. QED
  BY <1>1, PanelInOrder, PTL

\* The disk follows the session, by whichever way it began or ended.
THEOREM DiskFollowsCorrect ==
  ASSUME ~Hasty
  PROVE  Spec => []DiskFollows
<1>1. PanelInv => DiskFollows
  BY DEF PanelInv, AppWhole, DiskFollows
<1>. QED
  BY <1>1, PanelInOrder, PTL

\* A click acts on a control that is drawn, and no key is swallowed.
THEOREM InputsMeetControlsCorrect ==
  ASSUME ~Hasty
  PROVE  Spec => []InputsMeetControls
<1>1. ASSUME PanelInv
      PROVE  InputsMeetControls
  <2>1. panel \in Panels /\ Suits(panel, app.net)
    BY <1>1 DEF PanelInv
  <2>2. panel.view.in_session \in BOOLEAN /\ panel.view.is_host \in BOOLEAN
        /\ panel.hidden \in BOOLEAN
    BY <2>1 DEF Panels
  <2>3. ASSUME NEW row \in Row \ Shown(panel), NEW p \in Clicked(panel, row)
        PROVE  p = panel \/ p = Unfocus(panel)
    <3>0. CASE panel.hidden
      BY <2>3, <3>0 DEF Clicked
    <3>1. CASE ~panel.hidden /\ panel.view.in_session
      <4>1. row # "button" /\ ~(row = "code" /\ panel.view.is_host /\ panel.view.code)
        BY <2>3, <3>1 DEF Shown, ShownInSession
      <4>. QED
        BY <2>3, <3>1, <4>1 DEF Clicked, ClickInSession
    <3>2. CASE ~panel.hidden /\ ~panel.view.in_session
      <4>1. \/ row \in {"code", "blank"}
            \/ row \in {"selector_left", "selector_name", "selector_right"} /\ panel.discovered = <<>>
        BY <2>3, <3>2 DEF Shown, ShownOffline, Row
      <4>. QED
        BY <2>3, <3>2, <4>1 DEF Clicked, ClickOffline
    <3>. QED
      BY <2>2, <3>0, <3>1, <3>2
  <2>5. Shown(panel) \subseteq Controls(panel.view)
    BY <2>2 DEF Shown, ShownInSession, ShownOffline, Controls, Row
  <2>4. /\ [panel EXCEPT !.focus = panel.focus] = panel
        /\ [Unfocus(panel) EXCEPT !.focus = panel.focus] = panel
    BY <2>1 DEF Panels, Unfocus
  <2>. QED
    BY <2>1, <2>3, <2>4, <2>5 DEF InputsMeetControls, Suits
<1>. QED
  BY <1>1, PanelInOrder, PTL
=============================================================================
