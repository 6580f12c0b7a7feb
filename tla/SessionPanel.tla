---------------------------- MODULE SessionPanel ----------------------------
(***************************************************************************)
(* How a painter gets into a session and out of it: the session panel      *)
(* (session_panel_module.rs), the scans that find hosts on the LAN         *)
(* (session_discovery.rs), and what the frame loop makes of the panel's    *)
(* one queued action (main.rs, apply_session_panel_action).                *)
(*                                                                         *)
(* One painter is modelled whole.  Of the others, and of the session       *)
(* behind an invite code, all it can tell is whether they serve; what      *)
(* travels over a link is SessionLan's and RelayLane's.  A frame with a    *)
(* body is one step: the net seam, the mirror of the session into the      *)
(* panel, the poller, the action that was queued, and last the frame's     *)
(* click, which meets the panel as it was mirrored.  Hasty allows a click  *)
(* in the frame that has just joined, left or begun a session, before the  *)
(* panel shows it.  Keys come at the head of a frame and are steps of      *)
(* their own.                                                              *)
(*                                                                         *)
(* A clicked row is named for what it shows offline; row 4 ("button")      *)
(* hosts there and leaves in a session.  Texts count only as typed or not. *)
(***************************************************************************)
EXTENDS Naturals, Sequences, SequencesExt

CONSTANTS Host,     \* other painters on the LAN that may host
          Relayed,  \* the session behind an invite code
          Me,       \* this painter's own address
          Nobody,   \* no host
          Hasty     \* see above

ASSUME PanelAssumption ==
  /\ Relayed \notin Host /\ Me \notin Host \cup {Relayed}
  /\ Nobody \notin Host \cup {Relayed, Me}
  /\ Hasty \in BOOLEAN

VARIABLES
  app,      \* the entrypoint's side, see Started
  panel,    \* SessionPanelState and SessionPanelModule, see Opened
  scan,     \* the poller's worker and what was found
  serving   \* which of Host and Relayed have a session to join

vars == <<app, panel, scan, serving>>
-----------------------------------------------------------------------------
(* The session of the app.                                                 *)

NoNet == [side |-> "none", lan |-> FALSE, code |-> FALSE, of |-> Nobody, link |-> "none"]

\* HostTransport: a LAN listener, a relay room with its code, or both.
HostNet(lan, code) == [NoNet EXCEPT !.side = "host", !.lan = lan, !.code = code]
ClientNet(h) == [NoNet EXCEPT !.side = "client", !.of = h, !.link = "up"]

\* session_net_boot_from_parts, by which variables are set: a relay wins over
\* the LAN, joining over hosting, and a code alone joins over the relay.
Boot(env) ==
  IF "code" \in env THEN "relay_join"
  ELSE IF "relay" \in env THEN "relay_host"
  ELSE IF "join" \in env THEN "join"
  ELSE IF "host" \in env THEN "host" ELSE "none"

\* saved: the document on disk is this one, or an older state of it; cursor:
\* whether the records there are count as published ("end") or not ("start").
Alone == [net |-> NoNet, responder |-> FALSE, hosting |-> FALSE, saved |-> TRUE,
          cursor |-> "start", note |-> FALSE]

Hosted(s, lan, code) ==
  [s EXCEPT !.net = HostNet(lan, code), !.hosting = TRUE, !.cursor = "end"]

\* A runtime rebuilt from a snapshot: no guards are off, nothing is published,
\* and the log on disk is another one.  A responder and a note stay.
Joined(s, h) ==
  [s EXCEPT !.net = ClientNet(h), !.hosting = FALSE, !.saved = FALSE, !.cursor = "start"]

\* The nets an environment may boot into; a failed one boots alone, and only
\* the panel starts a responder.
Booted(env) ==
  {Alone} \cup
  CASE Boot(env) = "host" -> {Hosted(Alone, TRUE, FALSE)}
    [] Boot(env) = "relay_host" -> {Hosted(Alone, lan, TRUE) : lan \in BOOLEAN}
    [] Boot(env) = "join" -> {Joined(Alone, h) : h \in serving \ {Relayed}}
    [] Boot(env) = "relay_join" -> {Joined(Alone, h) : h \in serving \cap {Relayed}}
    [] OTHER -> {}
-----------------------------------------------------------------------------
(* Applying the panel's action.                                            *)

\* HostRequested.  The relay room and the LAN listener are tried, and one is
\* enough; the listener and the responder want ports that the net and the
\* responder to be replaced still hold.
Hosting(s) ==
  {s} \cup
  {[Hosted(s, w.lan, w.code) EXCEPT !.responder = w.found, !.note = ~w.code] :
     w \in {v \in [lan : BOOLEAN, code : BOOLEAN, found : BOOLEAN] :
              /\ v.lan \/ v.code
              /\ v.lan => ~s.net.lan
              /\ v.found => v.lan /\ ~s.responder}}

\* JoinLocalRequested, JoinCodeRequested: denied, or in.
Joining(s, h) == {s} \cup {Joined(s, k) : k \in serving \cap {h}}

\* Mutant: leaving keeps the responder.
LeftFindable(s) ==
  [Alone EXCEPT !.hosting = s.hosting /\ s.net.side # "host", !.responder = s.responder]

\* LeaveRequested: a host ends the session, a client says Bye; either saves
\* without guards.
Left(s) == [Alone EXCEPT !.hosting = s.hosting /\ s.net.side # "host"]

\* The states of the app after an action.  A rename, a paste and a copy leave
\* the session as it is.
Applied(s, a) ==
  CASE a.type = "host" -> Hosting(s)
    [] a.type = "join" -> Joining(s, a.of)
    [] a.type = "leave" -> {Left(s)}
    [] OTHER -> {s}
-----------------------------------------------------------------------------
(* The panel.                                                              *)

NoAction == [type |-> "none", of |-> Nobody]
Action(t) == [NoAction EXCEPT !.type = t]
Join(h) == [type |-> "join", of |-> h]

\* What SessionPanelState::sync takes from the net, as far as a click depends
\* on it.
View(n) == [in_session |-> n.side # "none", is_host |-> n.side = "host", code |-> n.code]

\* field is the shared TextEntryField of the join code, focus which field the
\* module sends keys to, draft whether the name was edited.
Opened == [view |-> View(NoNet), discovered |-> <<>>, pending |-> NoAction,
           paste |-> FALSE, field |-> [focused |-> FALSE, typed |-> FALSE],
           focus |-> "none", draft |-> FALSE, selector |-> 0, hidden |-> FALSE]

Least(m, n) == IF m < n THEN m ELSE n

\* selected_host: the host the selector shows, which the list may have left
\* behind.
Selected(p) == p.discovered[Least(p.selector, Len(p.discovered) - 1) + 1]

Queue(p, a) == [p EXCEPT !.pending = a]
Unfocus(p) == [p EXCEPT !.focus = "none"]

\* ENTER in the join-code field (TextEntryField): a focused draft is committed
\* and the field blurs.
Commit(p) ==
  IF p.field.focused /\ p.field.typed
  THEN [Queue(p, Join(Relayed)) EXCEPT !.field = [focused |-> FALSE, typed |-> FALSE]]
  ELSE p

Row == {"name", "button", "selector_left", "selector_name", "selector_right", "join_local",
        "code_field", "join_code", "paste", "code", "blank"}

\* The rows that hold a control, as the panel's tooltips name them; members of
\* the roster aside.
Controls(view) ==
  IF view.in_session THEN {"button"} \cup (IF view.is_host THEN {"code"} ELSE {})
  ELSE Row \ {"code", "blank"}

\* draw: in a session the button row, and the code a host has for others; offline
\* both ways in, with the selector's arrows about a host that was found.
ShownInSession(view) == {"button"} \cup (IF view.is_host /\ view.code THEN {"code"} ELSE {})

ShownOffline(discovered) ==
  {"name", "button", "code_field", "join_code", "paste", "join_local"} \cup
  (IF discovered # <<>> THEN {"selector_left", "selector_name", "selector_right"} ELSE {})

Shown(p) ==
  IF p.hidden THEN {}
  ELSE IF p.view.in_session THEN ShownInSession(p.view) ELSE ShownOffline(p.discovered)

\* on_pointer_event offline.
ClickOffline(p, row) ==
  LET found == p.discovered # <<>> IN
  CASE row = "button" -> Unfocus(Queue(p, Action("host")))
    [] row = "name" -> [p EXCEPT !.focus = "name", !.draft = FALSE]
    [] row = "code_field" -> [p EXCEPT !.focus = "code", !.field.focused = TRUE]
    [] row = "join_code" -> Unfocus(Commit(p))
    [] row = "paste" -> [p EXCEPT !.paste = TRUE]
    [] row = "selector_left" /\ found ->
         [p EXCEPT !.selector = IF @ = 0 THEN 0 ELSE @ - 1]
    [] row = "selector_right" /\ found ->
         [p EXCEPT !.selector = Least(@ + 1, Len(p.discovered) - 1)]
    [] row = "join_local" /\ found -> Unfocus(Queue(p, Join(Selected(p))))
    [] OTHER -> Unfocus(p)

\* on_pointer_event in a session; a click on a row of the roster does nothing.
ClickInSession(p, row, member) ==
  CASE row = "button" -> Unfocus(Queue(p, Action("leave")))
    [] row = "code" /\ p.view.is_host /\ p.view.code -> Unfocus(Queue(p, Action("copy")))
    [] OTHER -> IF member THEN p ELSE Unfocus(p)

\* Mutant: a committed code keeps the focus.
KeyInCodeFocused(p, key) ==
  CASE key = "ENTER" -> Commit(p)
    [] key = "ESCAPE" -> [Unfocus(p) EXCEPT !.field = [focused |-> FALSE, typed |-> FALSE]]
    [] OTHER -> [p EXCEPT !.field.typed = p.field.focused /\ key = "CHAR"]

\* on_key_capture: the keys of the code field, and of the name.
KeyInCode(p, key) ==
  CASE key = "ENTER" -> LET q == Commit(p) IN IF q = p THEN p ELSE Unfocus(q)
    [] key = "ESCAPE" -> [Unfocus(p) EXCEPT !.field = [focused |-> FALSE, typed |-> FALSE]]
    [] OTHER -> [p EXCEPT !.field.typed = p.field.focused /\ key = "CHAR"]

KeyInName(p, key) ==
  CASE key = "ENTER" ->
         LET q == [Unfocus(p) EXCEPT !.draft = FALSE]
         IN  IF p.draft THEN Queue(q, Action("rename")) ELSE q
    [] key = "ESCAPE" -> [Unfocus(p) EXCEPT !.draft = FALSE]
    [] OTHER -> [p EXCEPT !.draft = TRUE]

NoClick == "none"

\* The panels a left click on the content may leave.
Clicked(p, row) ==
  IF row = NoClick \/ p.hidden THEN {p}
  ELSE IF p.view.in_session THEN {ClickInSession(p, row, member) : member \in BOOLEAN}
  ELSE {ClickOffline(p, row)}

Key(key) ==
  /\ ~panel.hidden
  /\ \/ panel.focus = "code" /\ panel' = KeyInCode(panel, key)
     \/ panel.focus = "name" /\ panel' = KeyInName(panel, key)
  /\ UNCHANGED <<app, scan, serving>>

\* The close gizmo, and the module's button in the command bar.
SetHidden ==
  /\ panel' = IF panel.hidden THEN [panel EXCEPT !.hidden = FALSE]
              ELSE [Unfocus(panel) EXCEPT !.hidden = TRUE, !.draft = FALSE,
                                          !.field.focused = FALSE]
  /\ UNCHANGED <<app, scan, serving>>
-----------------------------------------------------------------------------
(* The poller.                                                             *)

NoScan == [state |-> "none", found |-> <<>>]

\* Mutant: a scan that ended is left where it is.
PumpedOnce(looking) ==
  IF looking /\ scan.state = "none" THEN [NoScan EXCEPT !.state = "running"] ELSE scan

\* set_active, and the pump of take_discovered behind it: a scan that ended is
\* harvested, and while the panel shows its offline rows the next one starts
\* at once, for set_active forces every frame what is meant for the first.
Pumped(looking) ==
  IF scan.state = "running" THEN scan
  ELSE IF looking THEN [NoScan EXCEPT !.state = "running"] ELSE NoScan

\* What the panel lists after the frame: the newest scan that ended.
Listed(p) == IF scan.state = "done" THEN scan.found ELSE p.discovered

\* A responder on the LAN, this painter's too, answers the scan's probe; a
\* probe or an answer may be lost.
Answer(h) ==
  /\ scan.state = "running"
  /\ h \in serving \ {Relayed} \/ (h = Me /\ app.responder)
  /\ ~Contains(scan.found, h)
  /\ scan' = [scan EXCEPT !.found = Append(@, h)]
  /\ UNCHANGED <<app, panel, serving>>

\* The end of the reply window.
ScanEnds ==
  /\ scan.state = "running"
  /\ scan' = [scan EXCEPT !.state = "done"]
  /\ UNCHANGED <<app, panel, serving>>
-----------------------------------------------------------------------------
(* The frame.                                                              *)

\* Mutant: the client of an ended session goes on without a save.
SeamUnsaved(s, back) ==
  IF s.net.link = "ended" THEN [s EXCEPT !.net = NoNet]
  ELSE IF s.net.link = "lost" /\ back
  THEN [s EXCEPT !.net.link = "up", !.cursor = "start"] ELSE s

\* The net seam before the panel: a client whose session ended saves and is
\* alone; one that lost its link may be back.
Seam(s, back) ==
  IF s.net.link = "ended" THEN [s EXCEPT !.net = NoNet, !.saved = TRUE]
  ELSE IF s.net.link = "lost" /\ back
  THEN [s EXCEPT !.net.link = "up", !.cursor = "start"] ELSE s

MayRejoin == app.net.link = "lost" /\ app.net.of \in serving

\* take_pending_action: a paste waits for a frame without another action.
Taken(p) == IF p.pending = NoAction /\ p.paste THEN Action("paste") ELSE p.pending

Frame ==
  \E back \in BOOLEAN, clipboard \in BOOLEAN, row \in Row \cup {NoClick} :
    LET s == Seam(app, back)
        a == Taken(panel)
        mirrored == [panel EXCEPT !.view = View(s.net),
                                  !.discovered = Listed(panel),
                                  !.pending = NoAction,
                                  !.paste = @ /\ a.type # "paste",
                                  !.field.typed = @ \/ clipboard]
    IN  /\ back => MayRejoin
        /\ clipboard => a.type = "paste"
        /\ a.type \in {"host", "join", "leave"} => Hasty \/ row = NoClick
        /\ scan' = Pumped(~panel.hidden /\ s.net = NoNet)
        /\ app' \in Applied(s, a)
        /\ panel' \in Clicked(mirrored, row)
        /\ UNCHANGED serving

\* Without input or anything that moves, a frame ends after the seam.
IdleFrame ==
  /\ \/ app.net.link = "ended"
     \/ MayRejoin
  /\ app' = Seam(app, TRUE)
  /\ UNCHANGED <<panel, scan, serving>>
-----------------------------------------------------------------------------
(* The others.                                                             *)

Linked(h, link) ==
  [app EXCEPT !.net.link = IF app.net.of = h /\ @ = "up" THEN link ELSE @]

Serve(h) ==
  /\ h \notin serving
  /\ serving' = serving \cup {h}
  /\ UNCHANGED <<app, panel, scan>>

\* A host ends its session, which its clients are told, or dies.
Stop(h) ==
  /\ h \in serving
  /\ serving' = serving \ {h}
  /\ \E link \in {"ended", "lost"} : app' = Linked(h, link)
  /\ UNCHANGED <<panel, scan>>

LoseLink ==
  /\ app.net.link = "up"
  /\ app' = Linked(app.net.of, "lost")
  /\ UNCHANGED <<panel, scan, serving>>
-----------------------------------------------------------------------------
Init ==
  /\ serving \in SUBSET (Host \cup {Relayed})
  /\ \E env \in SUBSET {"host", "join", "relay", "code"} : app \in Booted(env)
  /\ panel = Opened
  /\ scan = NoScan

Next ==
  \/ Frame \/ IdleFrame \/ ScanEnds \/ SetHidden \/ LoseLink
  \/ \E key \in {"CHAR", "BACKSPACE", "ENTER", "ESCAPE"} : Key(key)
  \/ \E h \in Host \cup {Me} : Answer(h)
  \/ \E h \in Host \cup {Relayed} : Serve(h) \/ Stop(h)

Spec == Init /\ [][Next]_vars

\* Frames with a body go on (something is pressed, moves or blinks: an idle
\* painter's frames end at the gate, and its poller with them), a scan's reply
\* window closes, and a host that is asked again and again is heard some time.
FairSpec ==
  /\ Spec
  /\ WF_vars(Frame) /\ WF_vars(ScanEnds)
  /\ \A h \in Host : SF_vars(Answer(h))
-----------------------------------------------------------------------------
PanelTypeOK ==
  /\ app.net.side \in {"none", "host", "client"}
  /\ app.net.link \in {"none", "up", "lost", "ended"}
  /\ app.net.side = "client" <=> app.net.of # Nobody
  /\ app.net.side = "host" <=> app.net.lan \/ app.net.code
  /\ panel.selector \in Nat /\ IsInjective(panel.discovered)
  /\ scan.state = "none" => scan.found = <<>>

\* What the app tells of its session is so: probes are answered for exactly as
\* long as there is a LAN listener to join (main.rs:2577, "dropped on leave so
\* the host stops advertising a dead session"), and the panel's note that only
\* the LAN is left stands in no session that has a code.
AdvertisesOwn ==
  /\ PanelTypeOK
  /\ app.responder => app.net.side = "host" /\ app.net.lan
  /\ app.note => app.net.side = "host" /\ ~app.net.code

\* The disk follows the session: the save guards are off just while the app
\* hosts, a host publishes nothing its seed holds, and whoever is not a client
\* has on disk what it paints on, by whichever way the session ended.
DiskFollows ==
  /\ app.hosting <=> app.net.side = "host"
  /\ app.net.side = "host" => app.cursor = "end"
  /\ app.net.side # "client" => app.saved

\* An input goes where the panel shows something to take it: a click acts only
\* on a control that is drawn, every control that is drawn has its tooltip, and
\* no key is swallowed by a hidden panel, by a field that a session has put out
\* of sight, or by a code field that shows no cursor.
InputsMeetControls ==
  /\ Shown(panel) \subseteq Controls(panel.view)
  /\ \A row \in Row \ Shown(panel) :
       \A p \in Clicked(panel, row) : [p EXCEPT !.focus = panel.focus] = panel
  /\ panel.focus # "none" =>
       /\ ~panel.hidden /\ ~panel.view.in_session
       /\ panel.focus = "code" => panel.field.focused

Looking == ~panel.hidden /\ app.net = NoNet

\* A host that goes on serving is listed by an offline panel that stays open,
\* again and again; one that is gone for good is some time listed no more.
FindsAndForgets ==
  \A h \in Host :
    /\ <>[](Looking /\ h \in serving) => []<>Contains(panel.discovered, h)
    /\ <>[](Looking /\ h \notin serving) => <>[]~Contains(panel.discovered, h)
=============================================================================
