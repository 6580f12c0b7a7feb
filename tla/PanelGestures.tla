--------------------------- MODULE PanelGestures ---------------------------
(***************************************************************************)
(* The pointer over the layers panel (LayersPanelModule), from the press to *)
(* the release, and the playhead (TimelineState).  LayersPanel takes a drag *)
(* for one step; here it is many, a frame each, and between them the        *)
(* playhead moves and the document may become another painter's: a          *)
(* structure record replaces every track and the loop window under a drag   *)
(* that goes on with the block and the span it was pressed with.            *)
(*                                                                         *)
(* A frame mirrors the document into the panel before its click, move or    *)
(* release, and applies what that queues at once, so the panel's copy of    *)
(* the rows is the document.  A place on a row is a breath; what lies left  *)
(* of the time line counts as breath 0.  A layer's name, and its two flags, *)
(* are its `tag`.  Left out: hovering, colors and the trace; the selected   *)
(* property, which only highlights a row; auto-key, which strokes read; and *)
(* the records an edit appends (LayersPanel).                               *)
(***************************************************************************)
EXTENDS DocumentStructure

CONSTANTS Opened,     \* the documents it may open, as layers and loop window
          Others,     \* what the records of others may make of it
          Bars,       \* bound: the tracks whose bars are pressed
          View,       \* the last breath the time line shows
          MaxInputs,  \* bound: presses, play keys, turns of the wheel, foreign records
          None

ASSUME GesturesAssumption ==
  /\ Bars \subseteq Property /\ View \in Nat /\ MaxInputs \in Nat
  /\ \A d \in Opened \cup Others :
       DOMAIN d.layers \subseteq Layer /\ d.window \in [start : Nat, end : Nat] /\ d.window.start <= d.window.end

VARIABLES
  rt,       \* SharedDocumentRuntime; nothing is painted here
  window,   \* its document_window
  session,  \* the active layer, and TimelineState
  hold,     \* the buttons down, and what they drag: the ruler, the window's
            \* bar, a block
  clicked,  \* the last click on a block, and on a name, while a second counts
  rename,   \* RenameSession: the layer, and whether something is typed
  inputs

vars == <<rt, window, session, hold, clicked, rename, inputs>>

Button == {"left", "right"}
Free == [down |-> {}, scrub |-> FALSE, loop |-> None, block |-> None]

\* Mutant: a deleted layer stays the active one.
ResolvedStale(layers, l) == {l}

\* resolved_active_layer_id: which layer is the first is left open.
Resolved(layers, l) == IF l \in DOMAIN layers THEN {l} ELSE DOMAIN layers

Init ==
  /\ \E d \in Opened :
       /\ rt = NewRuntime(d.layers)
       /\ window = d.window
       /\ \E l \in DOMAIN d.layers :
            session = [active |-> l, breath |-> 0, playing |-> FALSE, loop |-> TRUE]
  /\ hold = Free
  /\ clicked = [block |-> None, name |-> None]
  /\ rename = None
  /\ inputs = 0
-----------------------------------------------------------------------------
(* What a place is.                                                        *)

\* property_block_hit_at: past every block the last one is hit, if it is blank.
BlockHit(bs, b) ==
  IF BlockAt(bs, b) # {} THEN BlockAt(bs, b)
  ELSE {i \in {Len(bs)} : bs[i].blank /\ b > bs[i].start}

\* classify_bar_piece; past the stored extent the last blank is all center.
Piece(block, b) ==
  CASE ~Covers(block, b) -> "center"
    [] Covers(block, b) /\ block.len = 1 -> "single"
    [] Covers(block, b) /\ block.len > 1 /\ b = block.start -> "left"
    [] Covers(block, b) /\ block.len > 1 /\ b = EndOf(block) - 1 -> "right"
    [] OTHER -> "center"

\* loop_window_span, and loop_window_hit_at: two cells at each end of the bar
\* are its edges, the first end's before the other's.
BarSpan == IF hold.loop = None THEN window ELSE [start |-> hold.loop.from, end |-> hold.loop.to]

BarPiece(span, b) ==
  LET first == Min({span.start, View})
      last  == Min({span.end, View})
  IN  CASE first = last -> "move"
        [] first # last /\ b - first <= 1 -> "start"
        [] first # last /\ b - first > 1 /\ last - b <= 1 -> "end"
        [] OTHER -> "move"
-----------------------------------------------------------------------------
(* What the panel queues, and what apply_layers_panel_action makes of it.   *)

IndexOf(bs, id) == {i \in DOMAIN bs : bs[i].id = id}
Held(x, a) == IF a.layer \in DOMAIN x.layers THEN IndexOf(TrackOf(x, a.layer, a.property), a.id) ELSE {}

\* Mutant: a pushed drag runs over what it should push.
TimedDestructive(x, a) ==
  IF Held(x, a) = {} THEN x
  ELSE LET bs == TrackOf(x, a.layer, a.property)
       IN  EditTrack(x, a.layer, a.property, Destructive(bs, Min(Held(x, a)), a.span[1], a.span[2]), {})

\* An edit of a block that is gone does nothing.
Timed(x, a) ==
  IF Held(x, a) = {} THEN x
  ELSE LET bs == TrackOf(x, a.layer, a.property)
           i  == Min(Held(x, a))
       IN  EditTrack(x, a.layer, a.property,
                     IF a.how = "pushed" THEN Pushed(bs, i, a.span[1], a.span[2])
                     ELSE Destructive(bs, i, a.span[1], a.span[2]), {})

Swapped(x, a) ==
  LET other == Held(x, [a EXCEPT !.id = a.other])
  IN  IF Held(x, a) = {} \/ other = {} THEN x
      ELSE EditTrack(x, a.layer, a.property,
                     Swap(TrackOf(x, a.layer, a.property), Min(Held(x, a)), Min(other)), {})

SetTag(x, l) == IF l \in DOMAIN x.layers THEN [x EXCEPT !.layers[l].tag = 1 - @] ELSE x

\* Mutant: the last breath of the window is skipped.
AdvancedShort(s, w) ==
  CASE s.breath < w.start \/ s.breath + 1 >= w.end -> [s EXCEPT !.breath = w.start]
    [] OTHER -> [s EXCEPT !.breath = @ + 1]

\* advance_playback.
Advanced(s, w) ==
  CASE s.breath < w.start \/ s.breath >= w.end -> [s EXCEPT !.breath = w.start]
    [] s.breath \in w.start..(w.end - 1) /\ s.breath + 1 > w.end ->
         IF s.loop THEN [s EXCEPT !.breath = w.start] ELSE [s EXCEPT !.playing = FALSE]
    [] OTHER -> [s EXCEPT !.breath = @ + 1]

\* TogglePlay and the play key: a start from outside the window snaps into it.
Toggled(s, w) ==
  IF ~s.playing /\ s.breath \notin w.start..w.end
  THEN [s EXCEPT !.playing = TRUE, !.breath = w.start]
  ELSE [s EXCEPT !.playing = ~@]
-----------------------------------------------------------------------------
(* A drag: resolve_property_drag_mode, and the span it asks for.            *)

DragModes ==
  {<<blank, "left", "left", "start", "pushed">> : blank \in BOOLEAN}
    \cup {<<blank, "left", "right", "start", "destructive">> : blank \in BOOLEAN}
    \cup {<<blank, "right", "left", "end", "pushed">> : blank \in BOOLEAN}
    \cup {<<blank, "right", "right", "end", "destructive">> : blank \in BOOLEAN}
    \cup {<<blank, "center", "left", "swap", "destructive">> : blank \in BOOLEAN}
    \cup {<<blank, "single", "right", "resize", "destructive">> : blank \in BOOLEAN}
    \cup {<<FALSE, "center", "right", "move", "destructive">>,
          <<FALSE, "single", "left", "move", "destructive">>}

DragModeOf(blank, piece, button) ==
  {m \in DragModes : m[1] = blank /\ m[2] = piece /\ m[3] = button}

Least(a, b) == IF a < b THEN a ELSE b
Most(a, b) == IF a < b THEN b ELSE a

\* The requested start and length while the pointer is at breath b.
Requested(d, b) ==
  LET delta == b - d.anchor
      end   == d.start + d.len
      last  == Most(end - 1 + delta, d.start)
      first == Most(d.start + delta, 0)
  IN  CASE d.mode = "move" -> <<first, d.len>>
        [] d.mode = "start" -> <<Least(first, end - 1), end - Least(first, end - 1)>>
        [] d.mode = "resize" /\ b < d.anchor -> <<first, end - first>>
        [] OTHER -> <<d.start, last - d.start + 1>>

\* The same for the window's bar: its two ends.
Previewed(d, b) ==
  LET delta == b - d.anchor
      first == Most(d.start + delta, 0)
  IN  CASE d.mode = "move" -> [d EXCEPT !.from = first, !.to = first + d.end - d.start]
        [] d.mode = "start" -> [d EXCEPT !.from = Least(first, d.end)]
        [] d.mode = "end" -> [d EXCEPT !.to = Most(d.end + delta, d.start)]
-----------------------------------------------------------------------------
Input == inputs < MaxInputs /\ inputs' = inputs + 1

\* A button goes down, and what is held after it.
Press(button, h) ==
  /\ Input
  /\ button \notin hold.down
  /\ hold' = [h EXCEPT !.down = @ \cup {button}]

\* A press outside the name that is edited ends the editing.
Blurred == rename' = None

\* The rows above the layers: the ruler, the transport and the window's bar.
PressRuler ==
  /\ Press("left", [hold EXCEPT !.scrub = TRUE]) /\ Blurred
  /\ \E b \in 0..View : session' = [session EXCEPT !.breath = b]
  /\ UNCHANGED <<rt, window, clicked>>

PressPlay ==
  /\ Press("left", hold) /\ Blurred
  /\ session' = Toggled(session, window)
  /\ UNCHANGED <<rt, window, clicked>>

PressLoop ==
  /\ Press("left", hold) /\ Blurred
  /\ session' = [session EXCEPT !.loop = ~@]
  /\ UNCHANGED <<rt, window, clicked>>

PressBar ==
  /\ \E b \in BarSpan.start..BarSpan.end \cap 0..View, button \in Button :
       Press(button, [hold EXCEPT !.loop =
                        [mode |-> BarPiece(BarSpan, b), start |-> BarSpan.start, end |-> BarSpan.end,
                         anchor |-> b, from |-> BarSpan.start, to |-> BarSpan.end]])
  /\ Blurred
  /\ UNCHANGED <<rt, window, session, clicked>>

PressAdd ==
  /\ Press("left", hold) /\ Blurred
  /\ Layer \ DOMAIN rt.layers # {}
  /\ LET l == Min(Layer \ DOMAIN rt.layers)
     IN  rt' = AddLayer(rt, l) /\ session' = [session EXCEPT !.active = l]
  /\ UNCHANGED <<window, clicked>>

\* A layer's row: its two flags, its delete button, and its name and time line,
\* which select it; a second click on the name edits it.
PressFlag ==
  /\ Press("left", hold) /\ Blurred
  /\ \E l \in DOMAIN rt.layers : rt' = SetTag(rt, l)
  /\ UNCHANGED <<window, session, clicked>>

PressDelete ==
  /\ Press("left", hold) /\ Blurred
  /\ \E l \in DOMAIN rt.layers :
       IF Cardinality(DOMAIN rt.layers) = 1 THEN UNCHANGED <<rt, session>>
       ELSE /\ rt' = RemoveLayer(rt, l)
            /\ \E k \in Resolved(rt'.layers, session.active) :
                 session' = [session EXCEPT !.active = k]
  /\ UNCHANGED <<window, clicked>>

PressName ==
  /\ Press("left", hold)
  /\ \E l \in DOMAIN rt.layers :
       \/ /\ clicked' \in {clicked, [clicked EXCEPT !.name = l]}
          /\ session' = [session EXCEPT !.active = l]
          /\ rename' = IF rename # None /\ rename.layer = l THEN rename ELSE None
       \/ /\ clicked.name = l
          /\ clicked' = [clicked EXCEPT !.name = None]
          /\ rename' = [layer |-> l, typed |-> FALSE]
          /\ UNCHANGED session
  /\ UNCHANGED <<rt, window>>

\* The name's keys (on_key_capture): Enter commits what is typed; Escape, and
\* Enter with nothing typed, end the editing.
KeyName ==
  /\ rename # None
  /\ \/ rename' = [rename EXCEPT !.typed = ~@] /\ UNCHANGED rt
     \/ rename' = None /\ rename.typed /\ rt' = SetTag(rt, rename.layer)
     \/ rename' = None /\ UNCHANGED rt
  /\ UNCHANGED <<window, session, hold, clicked, inputs>>

KeyPlay ==
  /\ rename = None /\ Input
  /\ session' = Toggled(session, window)
  /\ UNCHANGED <<rt, window, hold, clicked, rename>>

\* The wheel over the canvas in its time mode.
WheelTime ==
  /\ Input
  /\ LET b == session.breath IN
     \E next \in {IF b >= window.end THEN window.start ELSE b + 1,
                  IF b <= window.start THEN window.end ELSE b - 1} :
       session' = [session EXCEPT !.breath = next]
  /\ UNCHANGED <<rt, window, hold, clicked, rename>>
-----------------------------------------------------------------------------
(* A block of the active layer: handle_property_block_click.               *)

Subject(p, block, b, button) == <<button, session.active, p, block.id, Piece(block, b), block.blank>>

Drag(p, block, b, m) ==
  [layer |-> session.active, property |-> p, id |-> block.id, mode |-> m[4], how |-> m[5],
   start |-> block.start, len |-> block.len, anchor |-> b, span |-> None, other |-> None]

\* The first click takes the block, if its piece can be dragged.
PressBlock ==
  /\ \E p \in Bars, b \in 0..View, button \in Button :
       LET bs == TrackOf(rt, session.active, p) IN
       \E i \in BlockHit(bs, b) :
         LET modes == DragModeOf(bs[i].blank, Piece(bs[i], b), button)
         IN  /\ clicked' = [clicked EXCEPT !.block = Subject(p, bs[i], b, button)]
             /\ \/ modes = {} /\ Press(button, hold)
                \/ \E m \in modes : Press(button, [hold EXCEPT !.block = Drag(p, bs[i], b, m)])
  /\ Blurred
  /\ UNCHANGED <<rt, window, session>>

\* queue_content_head_merge: the span from the neighbour's far edge on.
HeadMerged(bs, i, right) ==
  CASE right /\ i < Len(bs) ->
         Destructive(bs, i, bs[i].start, EndOf(bs[i + 1]) - bs[i].start)
    [] ~right /\ i > 1 ->
         Destructive(bs, i, bs[i - 1].start, EndOf(bs[i]) - bs[i - 1].start)
    [] OTHER -> bs

\* handle_property_block_double_click on block i at breath b: the runtime after it.
LeftTwice(p, bs, i, b, piece) ==
  CASE ~bs[i].blank /\ piece = "center" -> SetTrack(rt, session.active, p, Split(bs, i, b))
    [] ~bs[i].blank /\ piece = "single" -> EditTrack(rt, session.active, p, Duplicate(bs, i), {})
    [] bs[i].blank /\ piece \in {"center", "single"} ->
         SetTrack(rt, session.active, p, CycleMode(bs, i, p))
    [] bs[i].blank /\ piece = "left" /\ CanEase(bs[i]) ->
         SetTrack(rt, session.active, p, CycleEaseOut(bs, i))
    [] bs[i].blank /\ piece = "right" /\ CanEase(bs[i]) ->
         SetTrack(rt, session.active, p, CycleEaseIn(bs, i))
    [] OTHER -> rt

RightTwice(p, bs, i, piece) ==
  CASE ~bs[i].blank /\ piece \in {"center", "single"} ->
         EditTrack(rt, session.active, p, [bs EXCEPT ![i].blank = TRUE], {})
    [] ~bs[i].blank /\ piece \in {"left", "right"} ->
         EditTrack(rt, session.active, p, HeadMerged(bs, i, piece = "right"), {})
    [] bs[i].blank /\ CanMerge(bs, i) ->
         EditTrack(rt, session.active, p, MergeEmpty(bs, i, piece # "right"), {})
    [] OTHER -> rt

\* The second click lets go of the block and edits it.
PressTwice ==
  /\ \E p \in Bars, b \in 0..View, button \in Button :
       LET bs == TrackOf(rt, session.active, p) IN
       \E i \in BlockHit(bs, b) :
         /\ clicked.block = Subject(p, bs[i], b, button)
         /\ Press(button, [hold EXCEPT !.block = None])
         /\ rt' = IF button = "left" THEN LeftTwice(p, bs, i, b, Piece(bs[i], b))
                  ELSE RightTwice(p, bs, i, Piece(bs[i], b))
  /\ clicked' = [clicked EXCEPT !.block = None]
  /\ Blurred
  /\ UNCHANGED <<window, session>>

\* A frame with the button held.  A swap's target is another block of the row.
Target(d, row, b) ==
  IF row # d.property \/ session.active # d.layer THEN None
  ELSE LET bs  == TrackOf(rt, d.layer, d.property)
           hit == {bs[i].id : i \in BlockHit(bs, b)} \ {d.id}
       IN  IF hit = {} THEN None ELSE CHOOSE id \in hit : TRUE

Dragged(d, row, b) ==
  IF d.mode = "swap" THEN [d EXCEPT !.other = Target(d, row, b)]
  ELSE [d EXCEPT !.span = Requested(d, b)]

Dragging == hold.scrub \/ hold.loop # None \/ hold.block # None

Move ==
  /\ Dragging /\ hold.down # {}
  /\ \E row \in Bars \cup {None}, b \in 0..View :
       /\ hold' = [hold EXCEPT !.loop = IF @ = None THEN None ELSE Previewed(@, b),
                               !.block = IF @ = None THEN None ELSE Dragged(@, row, b)]
       /\ session' = IF hold.scrub THEN [session EXCEPT !.breath = b] ELSE session
  /\ UNCHANGED <<rt, window, clicked, rename, inputs>>

\* The release of either button ends every drag.  The panel queues one action:
\* a block's edit takes the place of the window's.
BlockAsks(d) == d # None /\ (IF d.mode = "swap" THEN d.other # None ELSE d.span # None)

Release ==
  /\ \E button \in hold.down : hold' = [Free EXCEPT !.down = hold.down \ {button}]
  /\ IF BlockAsks(hold.block)
     THEN /\ rt' = IF hold.block.mode = "swap" THEN Swapped(rt, hold.block) ELSE Timed(rt, hold.block)
          /\ UNCHANGED window
     ELSE /\ window' = IF hold.loop = None THEN window
                       ELSE [start |-> hold.loop.from, end |-> Most(hold.loop.from, hold.loop.to)]
          /\ UNCHANGED rt
  /\ UNCHANGED <<session, clicked, rename, inputs>>

\* A foreign structure record, and the mirrors after it.
Foreign ==
  /\ Input
  /\ \E d \in Others :
       /\ rt' = ApplyStructure(rt, Structure(NewRuntime(d.layers).layers))
       /\ window' = d.window
       /\ \E l \in Resolved(d.layers, session.active) : session' = [session EXCEPT !.active = l]
  /\ UNCHANGED <<hold, clicked, rename>>

Tick ==
  /\ session.playing
  /\ session' = Advanced(session, window)
  /\ UNCHANGED <<rt, window, hold, clicked, rename, inputs>>

Click ==
  \/ PressRuler \/ PressPlay \/ PressLoop \/ PressBar \/ PressAdd
  \/ PressFlag \/ PressDelete \/ PressName \/ PressBlock \/ PressTwice

Next == Click \/ KeyName \/ KeyPlay \/ WheelTime \/ Move \/ Release \/ Foreign \/ Tick

\* A playing painter's frames are never skipped, and each looks at the clock.
Spec == Init /\ [][Next]_vars /\ WF_vars(Tick)
-----------------------------------------------------------------------------
DragOf ==
  [layer : Layer, property : Property, id : Nat \X Nat, mode : {"start", "end", "move", "swap", "resize"},
   how : {"pushed", "destructive"}, start : Nat, len : Nat \ {0}, anchor : 0..View,
   span : {None} \cup (Nat \X (Nat \ {0})), other : {None} \cup (Nat \X Nat)]

GesturesTypeOK ==
  /\ session.breath \in Nat /\ session.playing \in BOOLEAN /\ session.loop \in BOOLEAN
  /\ hold.down \subseteq Button /\ hold.scrub \in BOOLEAN /\ (hold.block = None \/ hold.block \in DragOf)
  /\ rename = None \/ rename.layer \in Layer
  /\ inputs \in 0..MaxInputs

TiledTrack(bs) ==
  /\ bs[1].start = 0 /\ Last(bs).blank
  /\ \A i \in 1..(Len(bs) - 1) : EndOf(bs[i]) = bs[i + 1].start /\ ~(bs[i].blank /\ bs[i + 1].blank)
  /\ Cardinality(Ids(bs)) = Len(bs)

\* Whatever drag is released over whatever document a foreign record has put
\* under it, each track still covers every breath once, the loop window is not
\* turned around, and the panel's active layer is one of the document's
\* (retiled_property_track, resolved_active_layer_id).
StaysWhole ==
  /\ GesturesTypeOK
  /\ session.active \in DOMAIN rt.layers
  /\ window.start <= window.end
  /\ \A l \in DOMAIN rt.layers, p \in Property : TiledTrack(TrackOf(rt, l, p))

IsSolid(bs, id) == \E i \in IndexOf(bs, id) : ~bs[i].blank
SolidBreath(bs, b) == \E i \in BlockAt(bs, b) : ~bs[i].blank
SpanOf(bs, id) == {<<bs[i].start, bs[i].len>> : i \in IndexOf(bs, id)}

\* What a release makes of a block that is still where it was pressed.
SwapKept(d, before, after) ==
  IsSolid(before, d.id) /\ IsSolid(before, d.other) =>
    SpanOf(after, d.id) = SpanOf(before, d.other) /\ SpanOf(after, d.other) = SpanOf(before, d.id)

DestructiveKept(d, before, after) ==
  LET touched == d.start..(d.start + d.len - 1) \cup d.span[1]..(d.span[1] + d.span[2] - 1)
  IN  /\ IsSolid(before, d.id) => SpanOf(after, d.id) = {d.span}
      /\ \A b \in 0..EndOf(Last(before)) \ touched : SolidBreath(before, b) <=> SolidBreath(after, b)

PushedEndKept(d, before, after) ==
  \A i \in {j \in DOMAIN before : ~before[j].blank /\ before[j].start >= d.start} :
    SpanOf(after, before[i].id) =
      {IF before[i].id = d.id THEN d.span
       ELSE <<before[i].start + d.span[2] - d.len, before[i].len>>}

BlockKept(d) ==
  d.layer \in DOMAIN rt.layers =>
    LET before == TrackOf(rt, d.layer, d.property)
        after  == TrackOf(rt', d.layer, d.property)
    IN  SpanOf(before, d.id) = {<<d.start, d.len>>} =>
          CASE d.mode = "swap" -> SwapKept(d, before, after)
            [] d.mode # "swap" /\ d.how = "destructive" -> DestructiveKept(d, before, after)
            [] d.mode = "end" /\ d.how = "pushed" -> PushedEndKept(d, before, after)
            [] OTHER -> TRUE

WindowKept ==
  LET d == hold.loop IN
  d # None =>
    CASE d.mode = "move" -> window'.end - window'.start = d.end - d.start
      [] d.mode = "start" -> window'.end = d.end
      [] d.mode = "end" -> window'.start = d.start

\* A release gives what the drag has shown.  If the block is still where it
\* was pressed, it takes the span asked for, and what it did not run over stays;
\* a right end pushes what follows without changing it; a swap exchanges two
\* spans; the window's bar keeps its length, or its other end
\* (on_pointer_event, pushed_breath_span, destructive_breath_span).  A pushed
\* left end is left out: blocks pushed against breath 0 stop there, and the
\* tiling cuts what then overlaps.
DropKeepsPreview ==
  [][hold'.down \subseteq hold.down /\ hold'.down # hold.down =>
       IF BlockAsks(hold.block) THEN BlockKept(hold.block) ELSE WindowKept]_vars

\* Playback never gets stuck: while it plays and nobody holds the ruler, every
\* breath of the loop window comes up again and again, wherever the playhead
\* was put, and whatever window it was given (advance_playback, TogglePlay).
PlaysThrough ==
  \A b \in 0..View :
    <>[](session.playing /\ ~hold.scrub /\ b \in window.start..window.end) => []<>(session.breath = b)
=============================================================================
