----------------------------- MODULE CanvasTools -----------------------------
(***************************************************************************)
(* What one press of a painting tool does to the canvas and to the         *)
(* selection: tool_state.rs with the operations it calls, fill.rs,         *)
(* lasso.rs and brush.rs, the plane selection of selection_state.rs and    *)
(* the clipboard of copy_paste.rs.                                         *)
(*                                                                         *)
(* The view looks along z, so the interaction plane is a layer z = level   *)
(* and the bounds are its whole grid; the canvas is cut to that grid and   *)
(* Layers layers.  A cell has a graphic and a color: the weight behaves as *)
(* the color does.  Text, move and picker are modelled with the pointer.   *)
(***************************************************************************)
EXTENDS Integers, Sequences, FiniteSets

CONSTANTS Width, Height, Layers,   \* the grid
          Graphic, Color,          \* what can be painted
          Blank,                   \* the space glyph
          None,                    \* a point without a cell
          Opened,                  \* the canvases a document may open with
          Loop,                    \* the lasso paths drawn, as plane cells
          Facing,                  \* signs of the view's depth direction
          Hand,                    \* the settings a hand is given
          MaxEdits                 \* bound: presses and commands

VARIABLES canvas,   \* the live canvas, without a value where it has no cell
          cells,    \* PlaneSelection::cells, of every layer
          level,    \* the plane coordinate of the bounds
          clip,     \* the user's WorldCopyData, or None
          stroke,   \* the last press: the hand, and where or along what
          edits

vars == <<canvas, cells, level, clip, stroke, edits>>

Channel == {"graphic", "color"}
Point == (0 .. Width - 1) \X (0 .. Height - 1) \X (0 .. Layers - 1)
Painted == [graphic : Graphic \cup {Blank}, color : Color]
Plane == {p \in Point : p[3] = level}

Hands ==
  [tool : {"brush", "fill", "lasso", "stamp"}, target : {"image", "selection"},
   graphic : Graphic \cup {Blank}, color : Color, size : 1 .. 5,
   edit : SUBSET Channel, select : SUBSET Channel,
   reach : {"adjacent", "diagonal", "all"}, deep : BOOLEAN,
   mode : {"replace", "additive", "subtract", "intersect"}]  \* the selection's

ASSUME ToolsAssumption ==
  /\ Width \in Nat \ {0} /\ Height \in Nat \ {0} /\ Layers \in Nat \ {0}
  /\ Facing \subseteq {1, -1} /\ Hand \subseteq Hands
  /\ Opened \subseteq [Point -> Painted \cup {None}]

Init ==
  /\ canvas \in Opened /\ cells = {} /\ level = 0 /\ clip = None
  /\ stroke = None /\ edits = 0
-----------------------------------------------------------------------------
(* The empty-cell seams of brush.rs.                                       *)

\* A stored blank reads as no cell.
Effective(cell) ==
  IF cell = None THEN None ELSE IF cell.graphic = Blank THEN None ELSE cell

\* A blank is not stored: it removes the cell.
Written(cell) == Effective(cell)
-----------------------------------------------------------------------------
(* The flood of fill.rs.                                                   *)

\* Mutant: a stored blank is compared as it is stored.
AlikeRaw(left, right, mask) ==
  \/ left = None /\ right = None
  \/ left # None /\ right # None /\ \A ch \in mask : left[ch] = right[ch]

\* cells_match_on_mask, over what is there in effect.
Alike(left, right, mask) ==
  LET l == Effective(left) r == Effective(right) IN
  \/ l = None /\ r = None
  \/ l # None /\ r # None /\ \A ch \in mask : l[ch] = r[ch]

\* The layers a deep reach acts on: from the first to the last with any stored
\* cell, and the anchor's own.
Span(c, z) ==
  LET zs == {z} \cup {p[3] : p \in {q \in Point : c[q] # None}} IN
  {d \in 0 .. Layers - 1 : \E a, b \in zs : a <= d /\ d <= b}

Abs(n) == IF n < 0 THEN -n ELSE n

\* Neighbors of a flood step; out of the region, those on other layers drop out.
Near ==
  [r \in {"adjacent", "diagonal"} |-> [p \in Point |->
     {q \in Point : /\ p # q /\ \A i \in 1 .. 3 : Abs(p[i] - q[i]) <= 1
                    /\ r = "adjacent" => Cardinality({i \in 1 .. 3 : p[i] # q[i]}) = 1}]]

RECURSIVE Spread(_, _, _)
Spread(seen, like, reach) ==
  LET wider == seen \cup (like \cap UNION {Near[reach][p] : p \in seen}) IN
  IF wider = seen THEN seen ELSE Spread(wider, like, reach)

\* flood_fill_points_with: the region of the cell at p.
Flood(c, p, mask, reach, deep) ==
  LET span == IF deep THEN Span(c, p[3]) ELSE {level}
      like == {q \in Point : q[3] \in span /\ Alike(c[q], c[p], mask)}
  IN  IF mask = {} \/ p[3] \notin span THEN {}
      ELSE IF reach = "all" THEN like ELSE Spread({p}, like, reach)
-----------------------------------------------------------------------------
(* The lasso of lasso.rs: a path is a sequence of plane cells, closed from *)
(* its last to its first.                                                  *)

\* f32::round of n / d, halves away from zero.
Rounded(n, d) ==
  IF n >= 0 THEN (2 * n + d) \div (2 * d) ELSE -((d - 2 * n) \div (2 * d))

\* The view coordinates of the path, from its first cell.
InView(path, f) ==
  [i \in 1 .. Len(path) |-> <<f * (path[i][1] - path[1][1]), path[i][2] - path[1][2]>>]

\* edge_points: each step moves in one axis, then in the other.
Edge(a, b) ==
  LET dx == b[1] - a[1] dy == b[2] - a[2]
      n == CHOOSE m \in {Abs(dx), Abs(dy), 1} : m >= Abs(dx) /\ m >= Abs(dy) /\ m >= 1
      X(k) == Rounded(a[1] * n + k * dx, n)
      Y(k) == Rounded(a[2] * n + k * dy, n)
  IN {<<X(k), Y(k)>> : k \in 0 .. n} \cup {<<X(k), Y(k - 1)>> : k \in 1 .. n}

Following(path, i) == path[IF i = Len(path) THEN 1 ELSE i + 1]

RECURSIVE Leak(_, _)
Leak(outside, open) ==
  LET wider == outside \cup
        {q \in open : \E p \in outside : Abs(p[1] - q[1]) + Abs(p[2] - q[2]) = 1}
  IN IF wider = outside THEN outside ELSE Leak(wider, open)

\* rasterize_closed_polygon: the walls, and what a flood from a ring around
\* them does not reach.
Rasterized(path) ==
  LET wall == UNION {Edge(path[i], Following(path, i)) : i \in DOMAIN path}
      xs == {p[1] : p \in wall} ys == {p[2] : p \in wall}
      x0 == CHOOSE x \in xs : \A y \in xs : x <= y
      x1 == CHOOSE x \in xs : \A y \in xs : x >= y
      y0 == CHOOSE x \in ys : \A y \in ys : x <= y
      y1 == CHOOSE x \in ys : \A y \in ys : x >= y
      ring == ((x0 - 1 .. x1 + 1) \X (y0 - 1 .. y1 + 1)) \ ((x0 .. x1) \X (y0 .. y1))
      box == (x0 .. x1) \X (y0 .. y1)
  IN box \ Leak(ring, box \ wall)

Raster == [path \in Loop, f \in Facing |-> Rasterized(InView(path, f))]

\* lasso_points and lasso_points_through_depth: the region at the level of the
\* path, or on each layer of the span.  Layers are counted from the anchor along
\* the view; a path of one cell takes the layers as they are.
Lassoed(c, path, f, deep) ==
  LET one == \A i \in DOMAIN path : path[i] = path[1]
      away == IF ~deep THEN {0}
              ELSE {(IF one THEN 1 ELSE f) * (d - level) : d \in Span(c, level)}
  IN {q \in Point :
        /\ <<f * (q[1] - path[1][1]), q[2] - path[1][2]>> \in Raster[path, f]
        /\ q[3] - level \in away}
-----------------------------------------------------------------------------
(* Tool state: what a press acts on, and what it paints.                   *)

\* brush_points, in the grid.
Tip(at, size) ==
  LET left == (size - 1) \div 2 IN
  {q \in Point : /\ q[3] = at[3]
                 /\ \A i \in 1 .. 2 : at[i] - left <= q[i] /\ q[i] <= at[i] + size - 1 - left}

\* acts_through_depth_for_hand.
Deep(h) == h.deep /\ h.tool \in {"fill", "lasso"}

\* PlaneSelection::allows_edit.
Allowed(p) == cells = {} \/ p \in cells

\* filter_plane_edit_points, or filter_edit_points_through_depth.
Editable(h, points) == {p \in points : Allowed(p) /\ (Deep(h) \/ p \in Plane)}

\* Mutant: a locked channel stops nothing on an empty cell.
ResolvedOnEmpty(h, existing) ==
  LET e == Effective(existing) IN
  [graphic |-> IF "graphic" \in h.edit THEN h.graphic
               ELSE IF e = None THEN Blank ELSE e.graphic,
   color |-> IF "color" \in h.edit \/ e = None THEN h.color ELSE e.color]

\* resolved_painted_cell: a locked channel keeps what the cell has, and a cell
\* that has nothing to keep becomes a blank.
Resolved(h, existing) ==
  LET e == Effective(existing) IN
  IF e = None /\ h.edit # Channel
  THEN [graphic |-> Blank, color |-> h.color]
  ELSE [graphic |-> IF "graphic" \in h.edit THEN h.graphic ELSE e.graphic,
        color |-> IF "color" \in h.edit THEN h.color ELSE e.color]

\* Brush and fill write cell by cell; the lasso does the same on release.
Paint(h, points) ==
  LET edited == IF h.edit = {} THEN {} ELSE Editable(h, points) IN
  canvas' = [p \in Point |->
    IF p \in edited THEN Written(Resolved(h, canvas[p])) ELSE canvas[p]]

\* What the selection becomes in each mode, around the cells that stay.
Chosen(mode, kept, new) ==
  CASE mode = "replace" -> kept \cup new
    [] mode = "additive" -> cells \cup new
    [] mode = "subtract" -> cells \ new
    [] mode = "intersect" -> kept \cup (cells \cap new)

\* PlaneSelection::apply_points: every mode leaves the other layers alone.
SelectInPlane(h, points) == cells' = Chosen(h.mode, cells \ Plane, points \cap Plane)

\* The selection half of a hand, which knows no other layers through depth.
Select(h, points) ==
  IF Deep(h) THEN cells' = Chosen(h.mode, {}, points) ELSE SelectInPlane(h, points)

\* edit_points_for_hand and selection_points_for_hand, at a position.
Touched(h, at) ==
  IF h.tool = "brush" THEN Tip(at, h.size)
  ELSE Flood(canvas, at, h.select, h.reach, h.deep)

Selecting(h, points) == IF h.select = {} THEN {} ELSE points

Count == edits < MaxEdits /\ edits' = edits + 1
-----------------------------------------------------------------------------
Pressed(h, path) == stroke' = [hand |-> h, path |-> path] /\ UNCHANGED <<level, clip>>

\* A brush or a fill acts on the image at each position of a drag.
PaintAt(h, at) ==
  /\ Count /\ h.tool \in {"brush", "fill"} /\ h.target = "image"
  /\ Paint(h, Touched(h, at))
  /\ Pressed(h, <<at>>) /\ UNCHANGED cells

\* A selection stroke collects the points of its positions and applies them on
\* release, in the plane (finish_selection_stroke).
SelectStroke(h, at) ==
  /\ Count /\ h.tool \in {"brush", "fill"} /\ h.target = "selection"
  /\ SelectInPlane(h, Selecting(h, Touched(h, at)))
  /\ Pressed(h, <<at>>) /\ UNCHANGED canvas

\* A drag that holds no stroke selects at once, as the hand's tool does.
StrayDrag(h, at) ==
  /\ Count /\ h.tool \in {"brush", "fill"} /\ h.target = "selection"
  /\ Select(h, Selecting(h, Touched(h, at)))
  /\ stroke' = None /\ UNCHANGED <<canvas, level, clip>>

\* The release of a lasso: apply_lasso_for_hand, or
\* apply_lasso_selection_for_hand.
ReleaseLasso(h, path, f) ==
  /\ Count /\ h.tool = "lasso"
  /\ LET points == Lassoed(canvas, path, f, h.deep) IN
     IF h.target = "image" THEN Paint(h, points) /\ UNCHANGED cells
     ELSE Select(h, Selecting(h, points)) /\ UNCHANGED canvas
  /\ Pressed(h, path)

\* copy_from_canvas: the cells of the selection, by their offset from the
\* bounds' center cell.
Copy ==
  /\ Count /\ cells # {}
  /\ LET Low(i) == CHOOSE n \in {p[i] : p \in cells} : \A p \in cells : n <= p[i]
         High(i) == CHOOSE n \in {p[i] : p \in cells} : \A p \in cells : n >= p[i]
         mid == [i \in 1 .. 3 |-> Low(i) + (High(i) - Low(i) + 1) \div 2]
     IN clip' = {<<[i \in 1 .. 3 |-> p[i] - mid[i]], canvas[p]>> :
                   p \in {q \in cells : Effective(canvas[q]) # None}}
  /\ stroke' = None /\ UNCHANGED <<canvas, cells, level>>

\* One cell of stamp_changes_for_hand.
Stamped(h, copied, existing) ==
  LET e == Effective(existing) IN
  IF h.edit # Channel /\ e = None THEN existing
  ELSE [graphic |-> IF "graphic" \in h.edit THEN copied.graphic ELSE e.graphic,
        color |-> IF "color" \in h.edit THEN copied.color ELSE e.color]

\* The stamp tool's press: the copy placed with its center at the cursor, on
\* every layer it spans.
Stamp(h, at) ==
  /\ Count /\ h.tool = "stamp" /\ h.edit # {} /\ clip # None
  /\ LET placed == {<<[i \in 1 .. 3 |-> c[1][i] + at[i]], c[2]>> : c \in clip}
     IN canvas' = [p \in Point |->
          IF Allowed(p) /\ \E c \in placed : c[1] = p
          THEN Stamped(h, (CHOOSE c \in placed : c[1] = p)[2], canvas[p])
          ELSE canvas[p]]
  /\ Pressed(h, <<at>>) /\ UNCHANGED cells

\* The commands of selection_actions.rs.
Reselect(chosen) ==
  /\ Count /\ cells' = chosen /\ stroke' = None /\ UNCHANGED <<canvas, level, clip>>

SelectAll == Reselect(cells \cup Plane)
Invert == Reselect((cells \ Plane) \cup (Plane \ cells))
ClearSelection == Reselect({})

\* The camera's focus depth moves the interaction plane.
FocusDepth ==
  /\ Count /\ level' \in (0 .. Layers - 1) \ {level}
  /\ stroke' = None /\ UNCHANGED <<canvas, cells, clip>>

Next ==
  \/ \E h \in Hand : \E at \in Plane : PaintAt(h, at)
  \/ \E h \in Hand : \E at \in Plane : SelectStroke(h, at)
  \/ \E h \in Hand : \E at \in Plane : StrayDrag(h, at)
  \/ \E h \in Hand : \E path \in Loop : \E f \in Facing : ReleaseLasso(h, path, f)
  \/ Copy
  \/ \E h \in Hand : \E at \in Plane : Stamp(h, at)
  \/ SelectAll
  \/ Invert
  \/ ClearSelection
  \/ FocusDepth

Spec == Init /\ [][Next]_vars
-----------------------------------------------------------------------------
Looks(p, mask) ==
  LET e == Effective(canvas[p]) IN IF e = None THEN None ELSE [ch \in mask |-> e[ch]]

\* The flood parts the plane into regions: it takes the same cells from whichever
\* cell of one it starts, they look alike on the channels it compares, stored
\* blanks and empty cells included, and no neighbor that looks alike is left out.
FloodIsRegion ==
  \A mask \in SUBSET Channel \ {{}}, r \in {"adjacent", "diagonal", "all"} :
    LET flood == {[at |-> p, looks |-> Looks(p, mask),
                   takes |-> Flood(canvas, p, mask, r, FALSE)] : p \in Plane}
    IN \A f, k \in flood :
         /\ f.at \in f.takes
         /\ f.takes = k.takes \/ f.takes \cap k.takes = {}
         /\ k.at \in f.takes => k.looks = f.looks
         /\ k.looks = f.looks /\ (r = "all" \/ k.at \in Near[r][f.at]) => k.at \in f.takes

\* The cells a closed path winds around, by the parity of the edges to the right
\* of their centers.
Inside(path) ==
  LET Crosses(p, a, b) ==
        /\ (a[2] <= p[2]) # (b[2] <= p[2])
        /\ LET dy == b[2] - a[2]
               side == (p[1] - a[1]) * dy - (p[2] - a[2]) * (b[1] - a[1])
           IN IF dy > 0 THEN side < 0 ELSE side > 0
  IN {p \in (0 .. Width - 1) \X (0 .. Height - 1) :
        Cardinality({i \in DOMAIN path : Crosses(p, path[i], Following(path, i))}) % 2 = 1}

\* What a lasso surely encloses: the cells on and inside its path, at each layer
\* it reaches.
LoopEncloses(h, path) ==
  {p \in Point : /\ <<p[1], p[2]>> \in Inside(path) \cup {path[i] : i \in DOMAIN path}
                 /\ p[3] \in IF Deep(h) THEN Span(canvas, level) ELSE {level}}

\* A press changes cells of the selection only, on the plane unless its tool
\* reaches through depth or places a copy; a locked channel keeps what it had,
\* and nothing appears on an empty cell; no blank is stored.
LocksHold(h) ==
  \A p \in Point : canvas'[p] # canvas[p] =>
    LET before == Effective(canvas[p]) after == canvas'[p] IN
    /\ Allowed(p) /\ (Deep(h) \/ h.tool = "stamp" \/ p \in Plane)
    /\ after = Effective(after)
    /\ h.edit # Channel /\ before = None => after = None
    /\ h.edit # Channel /\ before # None =>
         /\ "graphic" \notin h.edit => after # None /\ after.graphic = before.graphic
         /\ "color" \notin h.edit /\ after # None => after.color = before.color

\* A lasso acts on everything it encloses: an unlocked one paints it, a selecting
\* one selects it.
LassoFills(h, path) ==
  LET sure == LoopEncloses(h, path) IN
  IF h.target = "image"
  THEN h.edit = Channel => \A p \in sure : Allowed(p) =>
         canvas'[p] = Written([graphic |-> h.graphic, color |-> h.color])
  ELSE h.select # {} /\ h.mode \in {"replace", "additive"} => sure \subseteq cells'

\* Every press does to the canvas and to the selection what the hand's settings
\* say, whatever was painted, blanked and selected on whichever layers before.
StrokeEffect ==
  [][stroke' # None /\ edits' # edits =>
       LET h == stroke'.hand IN
       /\ LocksHold(h)
       /\ h.tool = "lasso" => LassoFills(h, stroke'.path)
       /\ ~Deep(h) => cells' \ Plane = cells \ Plane]_vars
=============================================================================
