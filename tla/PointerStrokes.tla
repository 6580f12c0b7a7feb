--------------------------- MODULE PointerStrokes ---------------------------
(***************************************************************************)
(* The strokes of the two hands on the paint canvas (canvas_pointer.rs), as *)
(* the frame loop drives them (main.rs): a press begins a stroke by the     *)
(* hand's tool, drags continue it, the release of either button commits     *)
(* what both hands hold.  The typing session of the text tool works on the  *)
(* same canvas, and the wheel moves the playhead under all of them.         *)
(*                                                                         *)
(* The canvas is a line of cells: a drag's path is an interval, and what a  *)
(* lasso encloses is the path itself.  A cell is nothing or an ink.  A move *)
(* without a selection (VectorMoveStroke) captures no points; its release   *)
(* edits the move track, which is LayersPanel's, and nothing here.          *)
(***************************************************************************)
EXTENDS Integers

CONSTANTS
  Width,      \* the canvas bounds are 1 .. Width
  Breath,     \* the breaths the playhead visits
  BlockAt,    \* the active layer's raster block under a breath, or None
  Ink,        \* what each hand paints with: a color, or Blank
  Tools,      \* the tools each hand may hold
  Mode,       \* the mode of each hand's selecting tools
  None, Blank,
  IdleScrub,  \* limit: the playhead only moves while nothing is staged
  Apart       \* limit: an image lasso or a typing session is begun and held alone

Hand == {"left", "right"}
ImageTool == {"brush", "lasso", "move", "stamp", "text"}
SelectTool == {"select", "bound"}   \* the brush and the lasso, selection target
Bounds == 1 .. Width
Cell == 1 .. Width + 1   \* bound: a move may land one cell off the canvas
Block == {BlockAt[b] : b \in Breath} \ {None}
Color == ({Ink[h] : h \in Hand} \cup {Ink["left"]}) \cup {Blank}

Canvas == [Cell -> Color]
Start == Canvas \X Block

ASSUME PointerAssumption ==
  /\ Width \in Nat \ {0} /\ {IdleScrub, Apart} \subseteq BOOLEAN /\ Block # {}
  /\ \A s \in Start : s # None
  /\ \A h \in Hand : /\ Tools[h] \subseteq ImageTool \cup SelectTool
                     /\ Mode[h] \in {"replace", "additive", "subtract", "intersect"}

VARIABLES
  content,    \* the runtime canvas of each block
  canvas,     \* the live canvas the tools edit: a copy of the block's
  breath,
  recorded,   \* the canvases that replaying the action log gives
  plane,      \* the cells PainterSelection holds
  channel,    \* the selection channel of the document
  down,       \* the buttons held
  tool,       \* the tool in each hand
  trail,      \* left_ and right_drag_position
  start,      \* left_ and right_image_start
  lasso,      \* the one lasso bound
  selecting,  \* the one selection stroke
  moving,     \* the one move stroke
  typing,     \* text_stroke_start while a typing session is open
  stray       \* history: a drag selected outside any stroke since the last mirror

slots == <<trail, start, lasso, selecting, moving>>
document == <<content, recorded, channel>>
vars == <<document, slots, canvas, breath, plane, down, tool, typing, stray>>

Under(br) == BlockAt[br]
Mirror(br) == IF Under(br) = None THEN [c \in Cell |-> Blank] ELSE content[Under(br)]

\* interpolate_cell_path; without a trail, the position alone.
Path(from, to) == IF from = None THEN {to} ELSE (from .. to) \cup (to .. from)
Shifted(S, d) == {c + d : c \in S}
Changed(before, after) == {c \in Cell : before[c] # after[c]}
Patched(old, after, S) == [c \in Cell |-> IF c \in S THEN after[c] ELSE old[c]]

NoStart == [h \in Hand |-> None]

\* A hand's paint reaches the selected cells, or every cell when none is.
Editable(S) == IF plane = {} THEN S ELSE S \cap plane
Painted(S, ink) == [c \in Cell |-> IF c \in Editable(S) THEN ink ELSE canvas[c]]

Selected(old, S, m) ==
  CASE m = "replace" -> S
    [] m = "additive" -> old \cup S
    [] m = "subtract" -> old \ S
    [] m = "intersect" -> old \cap S

\* stage_image_edit_chunk and stage_painted_cells_chunk: the changed cells go
\* to the block, the live canvas becomes the candidate.
Stage(candidate, block) ==
  /\ content' = [content EXCEPT ![block] = Patched(@, candidate, Changed(canvas, candidate))]
  /\ canvas' = candidate

Idle == down = {} /\ typing = None

Init ==
  /\ content = [b \in Block |-> [c \in Cell |-> Blank]]
  /\ recorded = content
  /\ breath \in Breath
  /\ canvas = Mirror(breath)
  /\ plane = {} /\ channel = {}
  /\ down = {}
  /\ tool \in [Hand -> ImageTool \cup SelectTool] /\ \A h \in Hand : tool[h] \in Tools[h]
  /\ trail = [h \in Hand |-> None]
  /\ start = NoStart
  /\ lasso = None /\ selecting = None /\ moving = None /\ typing = None
  /\ stray = FALSE

-----------------------------------------------------------------------------
(* Presses.  A click while typing only ends the typing session (EndTyping).  *)

\* begin_press on the canvas: the trail is set whatever the tool then does.
Press(h, p) ==
  /\ h \notin down /\ typing = None
  /\ Apart => /\ tool[h] \in {"lasso", "text"} => down = {}
              /\ lasso # None => start[lasso.hand] = None
  /\ down' = down \cup {h}
  /\ trail' = [trail EXCEPT ![h] = p]
  /\ UNCHANGED <<recorded, channel, breath, plane, tool, stray>>

Began == <<canvas, Under(breath)>>

PressBrush(h, p) ==
  /\ tool[h] = "brush" /\ Under(breath) # None
  /\ Press(h, p)
  /\ start' = [start EXCEPT ![h] = Began]
  /\ Stage(Painted({p}, Ink[h]), Under(breath))
  /\ UNCHANGED <<lasso, selecting, moving, typing>>

\* The payload of the clipboard is two cells wide.
PressStamp(h, p) ==
  /\ tool[h] = "stamp" /\ Under(breath) # None
  /\ Press(h, p)
  /\ start' = [start EXCEPT ![h] = Began]
  /\ Stage(Painted({p, p + 1} \cap Bounds, Ink[h]), Under(breath))
  /\ UNCHANGED <<lasso, selecting, moving, typing>>

PressLasso(h, p) ==
  /\ tool[h] = "lasso" /\ Under(breath) # None
  /\ Press(h, p)
  /\ start' = [start EXCEPT ![h] = Began]
  /\ lasso' = [hand |-> h, path |-> {p}]
  /\ UNCHANGED <<content, canvas, selecting, moving, typing>>

PressBound(h, p) ==
  /\ tool[h] = "bound"
  /\ Press(h, p)
  /\ lasso' = [hand |-> h, path |-> {p}]
  /\ UNCHANGED <<content, canvas, start, selecting, moving, typing>>

PressSelect(h, p) ==
  /\ tool[h] = "select"
  /\ Press(h, p)
  /\ selecting' = [hand |-> h, mode |-> Mode[h], points |-> {p}]
  /\ UNCHANGED <<content, canvas, start, lasso, moving, typing>>

\* The second press of a double click pins the pivot and begins no stroke.
PressMove(h, p) ==
  /\ tool[h] = "move"
  /\ Press(h, p)
  /\ \/ moving' = [hand |-> h, origin |-> p, to |-> p, points |-> plane,
                   cells |-> [c \in {x \in plane : canvas[x] # Blank} |-> canvas[c]]]
     \/ UNCHANGED moving
  /\ UNCHANGED <<content, canvas, start, lasso, selecting, typing>>

PressText(h, p) ==
  /\ tool[h] = "text" /\ Under(breath) # None
  /\ Press(h, p)
  /\ typing' = Began
  /\ UNCHANGED <<content, canvas, start, lasso, selecting, moving>>

\* No raster block under the playhead: nothing begins.
PressNothing(h, p) ==
  /\ tool[h] \in {"brush", "stamp", "lasso", "text"} /\ Under(breath) = None
  /\ Press(h, p)
  /\ UNCHANGED <<content, canvas, start, lasso, selecting, moving, typing>>

\* cancel: every stroke goes, the starts stay.
Cancel(h) ==
  /\ lasso' = None /\ selecting' = None /\ moving' = None
  /\ trail' = [trail EXCEPT ![h] = None]
  /\ UNCHANGED <<document, canvas, breath, plane, tool, start, typing, stray>>

PressChrome(h) ==
  /\ h \notin down /\ typing = None
  /\ down' = down \cup {h}
  /\ Cancel(h)

\* A press off the canvas and off the panels reaches neither, nor does a right
\* press while typing.
PressOutside(h) ==
  /\ h \notin down /\ (typing = None \/ h = "right")
  /\ down' = down \cup {h}
  /\ UNCHANGED <<document, slots, canvas, breath, plane, tool, typing, stray>>

-----------------------------------------------------------------------------
(* Drags: the left hand's while both buttons are held, none while typing.   *)

Dragging(h) == h \in down /\ (h = "right" => "left" \notin down) /\ typing = None

DragMove(h, p) ==
  /\ Dragging(h) /\ tool[h] = "move"
  /\ moving # None /\ moving.hand = h
  /\ moving' = [moving EXCEPT !.to = p]
  /\ UNCHANGED <<document, trail, start, lasso, selecting, canvas, breath, plane, down, tool, typing, stray>>

Drag(h, p) ==
  /\ Dragging(h) /\ tool[h] \notin {"move", "stamp"}
  /\ trail' = [trail EXCEPT ![h] = p]
  /\ UNCHANGED <<recorded, channel, start, moving, breath, down, tool, typing>>

DragLasso(h, p) ==
  /\ lasso # None
  /\ Drag(h, p)
  /\ lasso' = IF lasso.hand = h THEN [lasso EXCEPT !.path = @ \cup Path(trail[h], p)] ELSE lasso
  /\ UNCHANGED <<content, canvas, plane, selecting, stray>>

\* Only the brush selects per position.
DragSelect(h, p) ==
  /\ lasso = None /\ selecting # None
  /\ Drag(h, p)
  /\ selecting' = IF selecting.hand = h /\ tool[h] \in {"brush", "select"}
                  THEN [selecting EXCEPT !.points = @ \cup Path(trail[h], p)] ELSE selecting
  /\ UNCHANGED <<content, canvas, plane, lasso, stray>>

DragPaint(h, p) ==
  /\ lasso = None /\ selecting = None /\ tool[h] \in ImageTool
  /\ Drag(h, p)
  /\ IF tool[h] = "brush" /\ start[h] # None
     THEN Stage(Painted(Path(trail[h], p), Ink[h]), start[h][2])
     ELSE UNCHANGED <<content, canvas>>
  /\ UNCHANGED <<plane, lasso, selecting, stray>>

\* Without a stroke the selecting brush selects position by position, and the
\* channel is not told; in the replacing mode the last position wins.
DragStray(h, p) ==
  /\ lasso = None /\ selecting = None /\ tool[h] \in SelectTool
  /\ Drag(h, p)
  /\ IF tool[h] = "select"
     THEN /\ plane' = CASE Mode[h] = "replace" -> {p}
                        [] Mode[h] = "intersect" -> IF Path(trail[h], p) = {p} THEN plane \cap {p} ELSE {}
                        [] OTHER -> Selected(plane, Path(trail[h], p), Mode[h])
          /\ stray' = TRUE
     ELSE UNCHANGED <<plane, stray>>
  /\ UNCHANGED <<content, canvas, lasso, selecting>>

DragChrome(h) == Dragging(h) /\ UNCHANGED down /\ Cancel(h)

\* A key puts another tool in the hand; the target stays.
SwitchTool(h, t) ==
  /\ h \in down /\ typing = None /\ t \in Tools[h] /\ t # tool[h]
  /\ t \in SelectTool <=> tool[h] \in SelectTool
  /\ tool' = [tool EXCEPT ![h] = t]
  /\ UNCHANGED <<document, slots, canvas, breath, plane, down, typing, stray>>

\* Between strokes a hand may be given any of its tools.
TakeTool(h, t) ==
  /\ Idle /\ t \in Tools[h] /\ t # tool[h]
  /\ tool' = [tool EXCEPT ![h] = t]
  /\ UNCHANGED <<document, slots, canvas, breath, plane, down, typing, stray>>

-----------------------------------------------------------------------------
(* The release frame, in the order of its effects: the selection stroke when *)
(* no button is left, the move, the lasso, then both hands' image strokes.   *)

\* fold_move_release: the last position, when it is on the canvas.
Folded(up, p) ==
  IF moving # None /\ moving.hand \in up /\ p # None THEN [moving EXCEPT !.to = p] ELSE moving

Lands(m) == m # None /\ m.points # {} /\ Under(breath) # None

\* commit_changes: the captured cells are cleared before the content is pasted.
Moved(m) ==
  LET d == m.to - m.origin IN
  [c \in Cell |-> IF c - d \in DOMAIN m.cells THEN m.cells[c - d]
                  ELSE IF c \in m.points THEN Blank ELSE canvas[c]]

InReach(m) == Lands(m) => Shifted(m.points, m.to - m.origin) \subseteq Cell

FinishedMove(m) == IF Lands(m) THEN Moved(m) ELSE canvas

\* Mutant: the move stages without a start, so no record takes it.
StartsUnset(m) == start
\* The stroke start of a move is taken at the release, before it is staged.
Starts(m) == IF Lands(m) THEN [start EXCEPT ![m.hand] = Began] ELSE start

FinishedSelection(up) ==
  IF selecting # None /\ down = up THEN Selected(plane, selecting.points, selecting.mode) ELSE plane
MovedSelection(m, pl) == IF Lands(m) THEN Shifted(m.points, m.to - m.origin) ELSE pl
BoundSelection(pl) ==
  IF lasso # None /\ tool[lasso.hand] \in SelectTool
  THEN Selected(pl, lasso.path, Mode[lasso.hand]) ELSE pl

\* The lasso paints the live canvas only, through the selection of that moment.
Filled(cv, pl) ==
  IF lasso = None \/ tool[lasso.hand] \in SelectTool THEN cv
  ELSE [c \in Cell |-> IF c \in lasso.path /\ (pl = {} \/ c \in pl) THEN Ink[lasso.hand] ELSE cv[c]]

\* commit_selection_channel runs after each of the three.
Mirrors(up, m) ==
  \/ selecting # None /\ down = up
  \/ Lands(m)
  \/ lasso # None /\ tool[lasso.hand] \in SelectTool

TrailAfter(up) == [h \in Hand |-> IF h \in up THEN None ELSE trail[h]]

\* commit_staged_paint_stroke: the difference of the live canvas to the start.
Record(h, starts, cv) ==
  [hand |-> h, block |-> starts[h][2], cells |-> Changed(starts[h][1], cv)]
Records(starts, cv) ==
  {r \in {Record(h, starts, cv) : h \in {x \in Hand : starts[x] # None}} : r.cells # {}}

Applied(canvases, rs, cv) ==
  [b \in Block |-> Patched(canvases[b], cv, UNION {r.cells : r \in {x \in rs : x.block = b}})]
\* What the release stages: the cells a landed move changes, in its block.
StagedMove(m) ==
  IF Lands(m)
  THEN [content EXCEPT ![Under(breath)] = Patched(@, Moved(m), Changed(canvas, Moved(m)))]
  ELSE content

Finish(up, m, pl, cv, starts) ==
  /\ canvas' = cv
  /\ content' = Applied(StagedMove(m), Records(starts, cv), cv)
  /\ recorded' = Applied(recorded, Records(starts, cv), cv)
  /\ plane' = pl
  /\ channel' = IF Mirrors(up, m) THEN pl ELSE channel
  /\ stray' = (stray /\ ~Mirrors(up, m))

Release(up, p) ==
  /\ up # {} /\ up \subseteq down /\ InReach(Folded(up, p))
  /\ down' = down \ up
  /\ selecting' = IF down = up THEN None ELSE selecting
  /\ moving' = None /\ lasso' = None /\ start' = NoStart
  /\ trail' = TrailAfter(up)
  /\ LET m == Folded(up, p)
         moved == MovedSelection(m, FinishedSelection(up))
     IN Finish(up, m, BoundSelection(moved), Filled(FinishedMove(m), moved), Starts(m))
  /\ UNCHANGED <<breath, tool, typing>>

-----------------------------------------------------------------------------
(* The typing session and the playhead.                                     *)

\* One key: a glyph, or an erasure, at a cursor the arrows may put anywhere.
TypeKey(c, ink) ==
  /\ typing # None
  /\ Stage([canvas EXCEPT ![c] = ink], typing[2])
  /\ UNCHANGED <<recorded, channel, slots, breath, plane, down, tool, typing, stray>>

CommitText ==
  LET r == Record("keys", [x \in {"keys"} |-> typing], canvas)
      rs == IF r.cells = {} THEN {} ELSE {r}
  IN /\ content' = Applied(content, rs, canvas)
     /\ recorded' = Applied(recorded, rs, canvas)

\* Enter commits the segment and starts the next on the block now under the
\* playhead.
NextSegment ==
  /\ typing # None /\ Under(breath) # None
  /\ CommitText
  /\ typing' = Began
  /\ UNCHANGED <<channel, slots, canvas, breath, plane, down, tool, stray>>

\* Escape, or a left click (by = {"left"}), ends the session.
EndTyping(by) ==
  /\ typing # None /\ by \cap down = {}
  /\ CommitText
  /\ typing' = None
  /\ down' = down \cup by
  /\ UNCHANGED <<channel, slots, canvas, breath, plane, tool, stray>>

\* The wheel, or a tick of the playback, moves the playhead and reloads the
\* live canvas.
Scrub(br) ==
  /\ br # breath
  /\ IdleScrub => start = NoStart /\ typing = None
  /\ breath' = br
  /\ canvas' = Mirror(br)
  /\ UNCHANGED <<document, slots, plane, down, tool, typing, stray>>

PressAt(h, p) ==
  \/ PressBrush(h, p) \/ PressStamp(h, p) \/ PressLasso(h, p) \/ PressBound(h, p)
  \/ PressSelect(h, p) \/ PressMove(h, p) \/ PressText(h, p) \/ PressNothing(h, p)

DragTo(h, p) ==
  DragMove(h, p) \/ DragLasso(h, p) \/ DragSelect(h, p) \/ DragPaint(h, p) \/ DragStray(h, p)

Next ==
  \/ \E h \in Hand, p \in Bounds : PressAt(h, p) \/ DragTo(h, p)
  \/ \E h \in Hand : PressChrome(h) \/ PressOutside(h) \/ DragChrome(h)
  \/ \E h \in Hand, t \in ImageTool \cup SelectTool : SwitchTool(h, t) \/ TakeTool(h, t)
  \/ \E up \in SUBSET Hand, p \in Bounds \cup {None} : Release(up, p)
  \/ \E c \in Bounds, ink \in {Ink["left"], Blank} : TypeKey(c, ink)
  \/ NextSegment
  \/ \E by \in SUBSET {"left"} : EndTyping(by)
  \/ \E br \in Breath : Scrub(br)

Spec == Init /\ [][Next]_vars

-----------------------------------------------------------------------------
\* No stroke outlives its button: what a hand owns it holds, so no later press
\* or drag can continue a stroke of the past.
Owned ==
  /\ \A h \in Hand : start[h] # None \/ trail[h] # None => h \in down
  /\ lasso # None => lasso.hand \in down
  /\ moving # None => moving.hand \in down
  /\ selecting # None => down # {}

\* Types of the pointer state; every open stroke belongs to a hand that is down.
PointerTypeOK ==
  /\ Owned
  /\ content \in [Block -> Canvas] /\ recorded \in [Block -> Canvas] /\ canvas \in Canvas
  /\ breath \in Breath
  /\ plane \subseteq Cell /\ channel \subseteq Cell
  /\ down \subseteq Hand /\ \A h \in Hand : tool[h] \in Tools[h]
  /\ trail \in [Hand -> Bounds \cup {None}]
  /\ start \in [Hand -> Start \cup {None}] /\ typing \in Start \cup {None}
  /\ lasso # None => lasso.hand \in Hand /\ lasso.path \in (SUBSET Bounds) \ {{}}
  /\ selecting # None => selecting.hand \in Hand /\ selecting.points \subseteq Bounds
  /\ moving # None => moving.hand \in Hand /\ moving.to \in Bounds /\ DOMAIN moving.cells \subseteq moving.points

\* Between strokes nothing staged is left out of the action log: every block's
\* canvas is what a replay gives, and the live canvas is the block's; and the
\* document's selection channel holds what the plane shows, unless a drag
\* selected outside a stroke.  Drags, fills, moves, stamps, typing and cancels
\* all come to rest here.  Under way, every open stroke, path and trail belongs
\* to a hand that is down.
AtRest ==
  /\ PointerTypeOK
  /\ Idle => content = recorded /\ canvas = Mirror(breath)
  /\ Idle /\ ~stray => plane = channel
=============================================================================
