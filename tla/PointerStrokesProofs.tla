------------------------ MODULE PointerStrokesProofs ------------------------
(***************************************************************************)
(* Proofs about PointerStrokes, for every width, set of breaths, layout of *)
(* blocks and choice of tools, modes and inks: between strokes the canvas  *)
(* of every block is what a replay of the log gives.  The invariant says   *)
(* what holds under way: the log shows of the block in work what one of    *)
(* the open strokes began on, and the strokes open together never undo the *)
(* ground another one measures its changes from.                           *)
(***************************************************************************)
EXTENDS PointerStrokes, TLAPS

-----------------------------------------------------------------------------
(* The invariant.                                                          *)

Open == {h \in Hand : start[h] # None}

Lasso == [hand : Hand, path : (SUBSET Bounds) \ {{}}]
Modes == {"replace", "additive", "subtract", "intersect"}
Selecting == [hand : Hand, mode : Modes, points : SUBSET Bounds]
Moving ==
  {m \in [hand : Hand, origin : Bounds, to : Bounds, points : SUBSET Cell,
          cells : UNION {[K -> Color] : K \in SUBSET Cell}] :
     DOMAIN m.cells \subseteq m.points}

Shapes ==
  /\ content \in [Block -> Canvas] /\ recorded \in [Block -> Canvas] /\ canvas \in Canvas
  /\ breath \in Breath
  /\ plane \subseteq Cell /\ channel \subseteq Cell
  /\ down \subseteq Hand
  /\ tool \in [Hand -> ImageTool \cup SelectTool] /\ \A h \in Hand : tool[h] \in Tools[h]
  /\ trail \in [Hand -> Bounds \cup {None}]
  /\ start \in [Hand -> Start \cup {None}] /\ typing \in Start \cup {None}
  /\ lasso # None => lasso \in Lasso
  /\ selecting # None => selecting \in Selecting
  /\ moving # None => moving \in Moving

\* The canvases one of which the log shows of the block in work.
Bases ==
  IF typing # None THEN {typing[1]}
  ELSE IF Open = {} THEN {canvas} ELSE {start[h][1] : h \in Open}

Faithful ==
  /\ canvas = Mirror(breath)
  /\ \A b \in Block : b # Under(breath) => recorded[b] = content[b]
  /\ Under(breath) # None => recorded[Under(breath)] \in Bases

\* Every stroke began on the block still under the playhead.
Here ==
  /\ \A h \in Open : start[h][2] = Under(breath)
  /\ typing # None => typing[2] = Under(breath)

\* An image lasso fills the canvas it began on, a move has no start before its
\* release, and nothing else is staged while text is typed.
Separate ==
  /\ lasso # None /\ tool[lasso.hand] \in ImageTool =>
       lasso.hand \in Open /\ start[lasso.hand][1] = canvas /\ moving = None
  /\ moving # None => moving.hand \notin Open
  /\ typing # None => Open = {} /\ lasso = None /\ moving = None /\ selecting = None

Told == stray \/ plane = channel

PointerInv == Owned /\ Shapes /\ Faithful /\ Here /\ Separate /\ Told

-----------------------------------------------------------------------------
(* Canvases.                                                               *)

\* The canvas bounds are cells, the inks are colors, and a breath has a block
\* or none.
LEMMA Ground ==
  /\ Bounds \subseteq Cell /\ Bounds \subseteq Int /\ Cell \subseteq Int
  /\ Blank \in Color /\ \A h \in Hand : Ink[h] \in Color
  /\ None \notin Block
  /\ \A b \in Breath : Under(b) \in Block \cup {None}
  /\ \A b \in Breath : Under(b) # None => Under(b) \in Block
BY PointerAssumption DEF Bounds, Cell, Color, Block, Under

\* A canvas is known by its cells.
LEMMA SameCanvas ==
  ASSUME NEW f \in Canvas, NEW g \in Canvas, \A c \in Cell : f[c] = g[c]
  PROVE  f = g
BY DEF Canvas

\* Patching gives a canvas.
LEMMA PatchWhole ==
  ASSUME NEW old \in Canvas, NEW after \in Canvas, NEW S
  PROVE  /\ Patched(old, after, S) \in Canvas
         /\ \A c \in Cell : Patched(old, after, S)[c] = IF c \in S THEN after[c] ELSE old[c]
         /\ S = {} => Patched(old, after, S) = old
         /\ Patched(old, after, Changed(old, after)) = after
<1>1. Patched(old, after, S) \in Canvas
  BY DEF Patched, Canvas
<1>2. \A c \in Cell : Patched(old, after, S)[c] = IF c \in S THEN after[c] ELSE old[c]
  BY DEF Patched
<1>3. S = {} => Patched(old, after, S) = old
  BY DEF Patched, Canvas
<1>4. Patched(old, after, Changed(old, after)) = after
  BY DEF Patched, Canvas, Changed
<1>. QED
  BY <1>1, <1>2, <1>3, <1>4

\* What a hand paints is a canvas.
LEMMA PaintWhole ==
  ASSUME Shapes, NEW S, NEW h \in Hand
  PROVE  Painted(S, Ink[h]) \in Canvas
BY Ground DEF Painted, Canvas, Shapes

\* Staging on the block under the playhead makes that block the candidate and
\* touches no other.
LEMMA StageFacts ==
  ASSUME Shapes, Faithful, NEW candidate \in Canvas, Under(breath) # None,
         Stage(candidate, Under(breath))
  PROVE  /\ content' \in [Block -> Canvas] /\ canvas' = candidate
         /\ content'[Under(breath)] = candidate
         /\ \A b \in Block : b # Under(breath) => content'[b] = content[b]
<1>1. Under(breath) \in Block
  BY Ground DEF Shapes
<1>2. content[Under(breath)] = canvas /\ canvas \in Canvas
  BY DEF Faithful, Mirror, Shapes
<1>3. Patched(content[Under(breath)], candidate, Changed(canvas, candidate)) = candidate
  BY <1>2, PatchWhole
<1>4. content' = [content EXCEPT ![Under(breath)] = candidate]
  BY <1>3 DEF Stage
<1>5. content \in [Block -> Canvas] /\ canvas' = candidate
  BY DEF Shapes, Stage
<1>. QED
  BY <1>1, <1>4, <1>5

\* The stroke a press begins is a start, and names the block in work.
LEMMA BeganWhole ==
  ASSUME Shapes, Under(breath) # None
  PROVE  /\ Began \in Start /\ Began # None
         /\ Began[1] = canvas /\ Began[2] = Under(breath)
<1>1. Under(breath) \in Block
  BY Ground DEF Shapes
<1>2. Began \in Start /\ Began[1] = canvas /\ Began[2] = Under(breath)
  BY <1>1 DEF Shapes, Began, Start
<1>. QED
  BY <1>2, PointerAssumption

\* What a selecting tool makes of a selection stays on the plane.
LEMMA SelectedWhole ==
  ASSUME NEW old \in SUBSET Cell, NEW S \in SUBSET Bounds, NEW m \in Modes
  PROVE  Selected(old, S, m) \in SUBSET Cell
BY Ground DEF Selected, Modes

\* The path of a drag stays on the canvas and holds its end.
LEMMA PathWhole ==
  ASSUME NEW from \in Bounds \cup {None}, NEW to \in Bounds
  PROVE  Path(from, to) \in (SUBSET Bounds) \ {{}}
<1>1. CASE from = None
  BY <1>1 DEF Path
<1>2. CASE from # None
  <2>1. from \in Bounds
    BY <1>2
  <2>2. to \in (from .. to) \cup (to .. from)
    BY <2>1, PointerAssumption DEF Bounds
  <2>3. (from .. to) \cup (to .. from) \subseteq Bounds
    BY <2>1, PointerAssumption DEF Bounds
  <2>. QED
    BY <1>2, <2>2, <2>3 DEF Path
<1>. QED
  BY <1>1, <1>2

-----------------------------------------------------------------------------
(* Presses.                                                                *)

\* A press of a hand that was up: the hand has no stroke, and a press that
\* begins an image stroke finds no image lasso.
LEMMA PressFacts ==
  ASSUME PointerInv, NEW h \in Hand, NEW p \in Bounds, Apart, Press(h, p)
  PROVE  /\ h \notin down /\ down' = down \cup {h} /\ typing = None
         /\ start[h] = None /\ h \notin Open
         /\ lasso # None => tool[lasso.hand] \notin ImageTool
         /\ moving # None => moving.hand # h
         /\ tool[h] \in {"lasso", "text"} =>
              Open = {} /\ lasso = None /\ moving = None /\ selecting = None
         /\ trail' \in [Hand -> Bounds \cup {None}]
         /\ \A x \in Hand : trail'[x] # None => x \in down'
<1>1. h \notin down /\ down' = down \cup {h} /\ typing = None
  BY DEF Press
<1>2. start[h] = None /\ h \notin Open
  BY <1>1 DEF PointerInv, Owned, Open
<1>3. lasso # None => tool[lasso.hand] \notin ImageTool
  BY DEF Press, PointerInv, Separate, Open
<1>4. moving # None => moving.hand # h
  BY <1>1 DEF PointerInv, Owned
<1>5. tool[h] \in {"lasso", "text"} =>
        Open = {} /\ lasso = None /\ moving = None /\ selecting = None
  BY DEF Press, PointerInv, Owned, Open
<1>6. /\ trail' \in [Hand -> Bounds \cup {None}]
      /\ \A x \in Hand : trail'[x] # None => x \in down'
  BY DEF Press, PointerInv, Owned, Shapes
<1>. QED
  BY <1>1, <1>2, <1>3, <1>4, <1>5, <1>6

\* A hand that begins an image stroke adds itself to the open ones.
LEMMA BeginFacts ==
  ASSUME PointerInv, NEW h \in Hand, h \notin Open, Under(breath) # None,
         start' = [start EXCEPT ![h] = Began]
  PROVE  /\ start' \in [Hand -> Start \cup {None}]
         /\ Open' = Open \cup {h}
         /\ start'[h] = Began /\ Began[1] = canvas /\ Began[2] = Under(breath)
         /\ \A x \in Open : start'[x] = start[x]
<1>1. Began \in Start /\ Began # None /\ Began[1] = canvas /\ Began[2] = Under(breath)
  BY BeganWhole DEF PointerInv
<1>2. start \in [Hand -> Start \cup {None}]
  BY DEF PointerInv, Shapes
<1>. QED
  BY <1>1, <1>2 DEF Open

\* The log shows of the block in work the ground of one of the open strokes,
\* also when another one opens.
LEMMA BasesGrow ==
  ASSUME PointerInv, NEW h \in Hand, h \notin Open, Under(breath) # None, typing = None,
         start' = [start EXCEPT ![h] = Began], typing' = None
  PROVE  Bases \subseteq Bases'
<1>1. /\ Open' = Open \cup {h}
      /\ start'[h][1] = canvas
      /\ \A x \in Open : start'[x] = start[x]
  BY BeginFacts
<1>2. Bases' = {start'[x][1] : x \in Open \cup {h}}
  BY <1>1 DEF Bases
<1>3. CASE Open = {}
  BY <1>1, <1>2, <1>3 DEF Bases
<1>4. CASE Open # {}
  BY <1>1, <1>2, <1>4 DEF Bases
<1>. QED
  BY <1>3, <1>4

\* A press that paints at once, of the brush or of the stamp.
LEMMA PressPaints ==
  ASSUME PointerInv, Apart, NEW h \in Hand, NEW p \in Bounds, NEW candidate \in Canvas,
         Under(breath) # None, Press(h, p),
         start' = [start EXCEPT ![h] = Began],
         Stage(candidate, Under(breath)),
         UNCHANGED <<lasso, selecting, moving, typing>>
  PROVE  PointerInv'
<1>1. Shapes /\ Faithful /\ Here /\ Separate /\ Told /\ Owned
  BY DEF PointerInv
<1>2. /\ h \notin down /\ down' = down \cup {h} /\ typing = None
      /\ start[h] = None /\ h \notin Open
      /\ lasso # None => tool[lasso.hand] \notin ImageTool
      /\ moving # None => moving.hand # h
      /\ trail' \in [Hand -> Bounds \cup {None}]
      /\ \A x \in Hand : trail'[x] # None => x \in down'
  BY PressFacts
<1>3. /\ start' \in [Hand -> Start \cup {None}]
      /\ Open' = Open \cup {h}
      /\ start'[h] = Began /\ Began[1] = canvas /\ Began[2] = Under(breath)
      /\ \A x \in Open : start'[x] = start[x]
  BY <1>2, BeginFacts
<1>4. /\ content' \in [Block -> Canvas] /\ canvas' = candidate
      /\ content'[Under(breath)] = candidate
      /\ \A b \in Block : b # Under(breath) => content'[b] = content[b]
  BY <1>1, StageFacts
<1>5. UNCHANGED <<recorded, channel, breath, plane, tool, stray, lasso, selecting, moving, typing>>
  BY DEF Press
<1>6. Owned'
  BY <1>1, <1>2, <1>3, <1>5 DEF Owned, Open
<1>7. Shapes'
  BY <1>1, <1>2, <1>3, <1>4, <1>5 DEF Shapes
<1>8. Faithful'
  <2>1. canvas' = Mirror(breath)'
    BY <1>2, <1>4, <1>5 DEF Mirror, Under
  <2>2. Bases \subseteq Bases'
    BY <1>2, <1>5, BasesGrow
  <2>. QED
    BY <1>1, <1>4, <1>5, <2>1, <2>2 DEF Faithful, Under
<1>9. Here'
  BY <1>1, <1>2, <1>3, <1>5 DEF Here, Under
<1>10. Separate'
  BY <1>1, <1>2, <1>3, <1>5 DEF Separate
<1>11. Told'
  BY <1>1, <1>5 DEF Told
<1>. QED
  BY <1>6, <1>7, <1>8, <1>9, <1>10, <1>11 DEF PointerInv

\* A press of the image lasso or of the text tool, which begin alone.
LEMMA PressAlone ==
  ASSUME PointerInv, Apart, NEW h \in Hand, NEW p \in Bounds,
         PressLasso(h, p) \/ PressText(h, p)
  PROVE  PointerInv'
<1>0. Under(breath) # None /\ Press(h, p) /\ tool[h] \in {"lasso", "text"}
  BY DEF PressLasso, PressText
<1>1. Shapes /\ Faithful /\ Here /\ Separate /\ Told /\ Owned
  BY DEF PointerInv
<1>2. /\ h \notin down /\ down' = down \cup {h} /\ typing = None
      /\ start[h] = None /\ h \notin Open
      /\ Open = {} /\ lasso = None /\ moving = None /\ selecting = None
      /\ trail' \in [Hand -> Bounds \cup {None}]
      /\ \A x \in Hand : trail'[x] # None => x \in down'
  BY <1>0, PressFacts
<1>3. UNCHANGED <<recorded, channel, breath, plane, tool, stray, content, canvas, selecting, moving>>
  BY DEF PressLasso, PressText, Press
<1>4. Began \in Start /\ Began # None /\ Began[1] = canvas /\ Began[2] = Under(breath)
  BY <1>0, <1>1, BeganWhole
<1>5. Told'
  BY <1>1, <1>3 DEF Told
<1>6. canvas' = Mirror(breath)' /\ recorded[Under(breath)] = canvas
  BY <1>0, <1>1, <1>2, <1>3 DEF Faithful, Mirror, Under, Bases
<1>7. CASE PressLasso(h, p)
  <2>1. /\ start' = [start EXCEPT ![h] = Began] /\ typing' = typing
        /\ lasso' = [hand |-> h, path |-> {p}] /\ tool[h] = "lasso"
    BY <1>7 DEF PressLasso
  <2>2. /\ start' \in [Hand -> Start \cup {None}]
        /\ Open' = {h} /\ start'[h] = Began
    BY <1>0, <1>2, <2>1, BeginFacts
  <2>3. lasso' \in Lasso /\ lasso'.hand = h
    BY <2>1 DEF Lasso
  <2>4. Owned'
    BY <1>1, <1>2, <1>3, <2>2, <2>3 DEF Owned, Open
  <2>5. Shapes'
    BY <1>1, <1>2, <1>3, <2>1, <2>2, <2>3 DEF Shapes
  <2>6. Bases' = {canvas}
    BY <1>2, <1>4, <2>1, <2>2 DEF Bases
  <2>7. Faithful'
    BY <1>1, <1>3, <1>6, <2>6 DEF Faithful, Under
  <2>8. Here'
    BY <1>2, <1>3, <1>4, <2>1, <2>2 DEF Here, Under
  <2>9. Separate'
    BY <1>2, <1>3, <1>4, <2>1, <2>2, <2>3 DEF Separate
  <2>. QED
    BY <1>5, <2>4, <2>5, <2>7, <2>8, <2>9 DEF PointerInv
<1>8. CASE PressText(h, p)
  <2>1. start' = start /\ lasso' = lasso /\ typing' = Began
    BY <1>8 DEF PressText
  <2>2. Open' = {}
    BY <1>2, <2>1 DEF Open
  <2>3. Owned'
    BY <1>1, <1>2, <1>3, <2>1 DEF Owned
  <2>4. Shapes'
    BY <1>1, <1>2, <1>3, <1>4, <2>1 DEF Shapes
  <2>5. Bases' = {canvas}
    BY <1>4, <2>1 DEF Bases
  <2>6. Faithful'
    BY <1>1, <1>3, <1>6, <2>5 DEF Faithful, Under
  <2>7. Here'
    BY <1>3, <1>4, <2>1, <2>2 DEF Here, Under
  <2>8. Separate'
    BY <1>2, <1>3, <2>1, <2>2 DEF Separate
  <2>. QED
    BY <1>5, <2>3, <2>4, <2>6, <2>7, <2>8 DEF PointerInv
<1>. QED
  BY <1>7, <1>8

\* A press that stages nothing and begins no image stroke keeps the canvases,
\* the starts, and what the log shows.
LEMMA QuietFacts ==
  ASSUME PointerInv,
         UNCHANGED <<content, recorded, canvas, breath, start, typing>>
  PROVE  /\ Faithful' /\ Here' /\ Open' = Open
         /\ content' \in [Block -> Canvas] /\ recorded' \in [Block -> Canvas] /\ canvas' \in Canvas
         /\ breath' \in Breath /\ start' \in [Hand -> Start \cup {None}]
         /\ typing' \in Start \cup {None}
<1>1. Open' = Open
  BY DEF Open
<1>2. Bases' = Bases
  BY <1>1 DEF Bases
<1>3. Faithful'
  BY <1>2 DEF PointerInv, Faithful, Mirror, Under
<1>4. Here'
  BY <1>1 DEF PointerInv, Here, Under
<1>. QED
  BY <1>1, <1>3, <1>4 DEF PointerInv, Shapes

\* A press of a selecting tool, of the move, or over no block.
LEMMA PressQuiet ==
  ASSUME PointerInv, Apart, NEW h \in Hand, NEW p \in Bounds,
         \/ PressBound(h, p) \/ PressSelect(h, p) \/ PressMove(h, p) \/ PressNothing(h, p)
  PROVE  PointerInv'
<1>0. Press(h, p) /\ UNCHANGED <<content, canvas, start, typing>>
  BY DEF PressBound, PressSelect, PressMove, PressNothing
<1>1. Shapes /\ Separate /\ Told /\ Owned
  BY DEF PointerInv
<1>2. /\ h \notin down /\ down' = down \cup {h} /\ typing = None
      /\ start[h] = None /\ h \notin Open
      /\ lasso # None => tool[lasso.hand] \notin ImageTool
      /\ moving # None => moving.hand # h
      /\ trail' \in [Hand -> Bounds \cup {None}]
      /\ \A x \in Hand : trail'[x] # None => x \in down'
  BY <1>0, PressFacts
<1>3. UNCHANGED <<recorded, channel, breath, plane, tool, stray>>
  BY <1>0 DEF Press
<1>4. /\ Faithful' /\ Here' /\ Open' = Open
      /\ content' \in [Block -> Canvas] /\ recorded' \in [Block -> Canvas] /\ canvas' \in Canvas
      /\ breath' \in Breath /\ start' \in [Hand -> Start \cup {None}]
      /\ typing' \in Start \cup {None}
  BY <1>0, <1>3, QuietFacts
<1>5. Told'
  BY <1>1, <1>3 DEF Told
<1>6. \/ lasso' = lasso
      \/ lasso' \in Lasso /\ lasso'.hand = h /\ tool[h] = "bound"
  <2>1. CASE PressBound(h, p)
    <3>1. lasso' = [hand |-> h, path |-> {p}] /\ tool[h] = "bound"
      BY <2>1 DEF PressBound
    <3>. QED
      BY <3>1 DEF Lasso
  <2>2. CASE ~ PressBound(h, p)
    BY <2>2 DEF PressSelect, PressMove, PressNothing
  <2>. QED
    BY <2>1, <2>2
<1>7. selecting' = selecting \/ selecting' \in Selecting
  <2>1. CASE PressSelect(h, p)
    <3>1. selecting' = [hand |-> h, mode |-> Mode[h], points |-> {p}]
      BY <2>1 DEF PressSelect
    <3>. QED
      BY <3>1, PointerAssumption DEF Selecting, Modes
  <2>2. CASE ~ PressSelect(h, p)
    BY <2>2 DEF PressBound, PressMove, PressNothing
  <2>. QED
    BY <2>1, <2>2
<1>8. \/ moving' = moving
      \/ moving' \in Moving /\ moving'.hand = h
  <2>1. CASE PressMove(h, p) /\ moving' # moving
    <3> DEFINE K == {x \in plane : canvas[x] # Blank}
               cells == [c \in K |-> canvas[c]]
    <3>1. moving' = [hand |-> h, origin |-> p, to |-> p, points |-> plane, cells |-> cells]
      BY <2>1 DEF PressMove
    <3>2. K \in SUBSET Cell /\ plane \in SUBSET Cell
      BY <1>1 DEF Shapes
    <3>3. cells \in [K -> Color] /\ DOMAIN cells \subseteq plane
      BY <1>1, <3>2 DEF Shapes, Canvas
    <3>4. cells \in UNION {[D -> Color] : D \in SUBSET Cell}
      BY <3>2, <3>3
    <3> HIDE DEF cells
    <3>. QED
      BY <3>1, <3>2, <3>3, <3>4 DEF Moving
  <2>2. CASE ~ PressMove(h, p)
    BY <2>2 DEF PressBound, PressSelect, PressNothing
  <2>. QED
    BY <2>1, <2>2
<1>9. Owned'
  <2>1. \A x \in Hand : start'[x] # None => x \in down'
    BY <1>0, <1>1, <1>2 DEF Owned
  <2>2. lasso' # None => lasso'.hand \in down'
    BY <1>1, <1>2, <1>6 DEF Owned
  <2>3. moving' # None => moving'.hand \in down'
    BY <1>1, <1>2, <1>8 DEF Owned
  <2>4. selecting' # None => down' # {}
    BY <1>2
  <2>. QED
    BY <1>2, <2>1, <2>2, <2>3, <2>4 DEF Owned
<1>10. Shapes'
  BY <1>1, <1>2, <1>3, <1>4, <1>6, <1>7, <1>8 DEF Shapes
<1>11. Separate'
  <2>1. lasso' # None => tool'[lasso'.hand] \notin ImageTool
    BY <1>2, <1>3, <1>6 DEF ImageTool
  <2>2. moving' # None => moving'.hand \notin Open'
    BY <1>1, <1>2, <1>4, <1>8 DEF Separate
  <2>. QED
    BY <1>0, <1>2, <2>1, <2>2 DEF Separate
<1>. QED
  BY <1>4, <1>5, <1>9, <1>10, <1>11 DEF PointerInv

\* What cancels every stroke, on the chrome, keeps the starts; a press outside
\* begins nothing.
LEMMA ChromeStep ==
  ASSUME PointerInv, NEW h \in Hand,
         PressChrome(h) \/ PressOutside(h) \/ DragChrome(h)
  PROVE  PointerInv'
<1>1. Shapes /\ Separate /\ Told /\ Owned
  BY DEF PointerInv
<1>2. UNCHANGED <<content, recorded, channel, canvas, breath, plane, tool, start, typing, stray>>
  BY DEF PressChrome, PressOutside, DragChrome, Cancel, document, slots
<1>3. /\ Faithful' /\ Here' /\ Open' = Open
      /\ content' \in [Block -> Canvas] /\ recorded' \in [Block -> Canvas] /\ canvas' \in Canvas
      /\ breath' \in Breath /\ start' \in [Hand -> Start \cup {None}]
      /\ typing' \in Start \cup {None}
  BY <1>2, QuietFacts
<1>4. down \subseteq down' /\ down' \subseteq Hand
  BY <1>1 DEF PressChrome, PressOutside, DragChrome, Shapes
<1>5. /\ lasso' \in {None, lasso} /\ selecting' \in {None, selecting}
      /\ \/ moving' = None
         \/ UNCHANGED <<lasso, moving>>
      /\ trail' = trail \/ trail' = [trail EXCEPT ![h] = None]
  BY DEF PressChrome, PressOutside, DragChrome, Cancel, slots
<1>6. trail' \in [Hand -> Bounds \cup {None}] /\ \A x \in Hand : trail'[x] \in {None, trail[x]}
  BY <1>1, <1>5 DEF Shapes
<1>7. Owned'
  BY <1>1, <1>2, <1>4, <1>5, <1>6 DEF Owned
<1>8. Shapes'
  BY <1>1, <1>2, <1>3, <1>4, <1>5, <1>6 DEF Shapes
<1>9. Separate'
  BY <1>1, <1>2, <1>3, <1>5 DEF Separate
<1>10. Told'
  BY <1>1, <1>2 DEF Told
<1>. QED
  BY <1>3, <1>7, <1>8, <1>9, <1>10 DEF PointerInv

-----------------------------------------------------------------------------
(* Drags, and another tool in a hand.                                      *)

\* A drag paints with the brush on the block its stroke began on, and the
\* live canvas stays that block's.
LEMMA PaintStep ==
  ASSUME PointerInv, NEW h \in Hand, NEW p \in Bounds, DragPaint(h, p)
  PROVE  PointerInv'
<1>1. Shapes /\ Faithful /\ Here /\ Separate /\ Told /\ Owned
  BY DEF PointerInv
<1>2. /\ h \in down /\ typing = None /\ lasso = None /\ selecting = None
      /\ trail' = [trail EXCEPT ![h] = p]
      /\ UNCHANGED <<recorded, channel, start, moving, breath, down, tool, typing,
                     plane, lasso, selecting, stray>>
  BY DEF DragPaint, Drag, Dragging
<1>3. trail' \in [Hand -> Bounds \cup {None}] /\ \A x \in Hand : trail'[x] # None => x \in down'
  BY <1>1, <1>2 DEF Owned, Shapes
<1>4. CASE UNCHANGED <<content, canvas>>
  <2>1. /\ Faithful' /\ Here' /\ Open' = Open
        /\ content' \in [Block -> Canvas] /\ canvas' \in Canvas
    BY <1>2, <1>4, QuietFacts
  <2>2. Owned' /\ Shapes'
    BY <1>1, <1>2, <1>3, <2>1 DEF Owned, Shapes
  <2>. QED
    BY <1>1, <1>2, <1>4, <2>1, <2>2 DEF PointerInv, Separate, Told
<1>5. CASE /\ start[h] # None
           /\ Stage(Painted(Path(trail[h], p), Ink[h]), start[h][2])
  <2>1. h \in Open /\ Open' = Open /\ start[h][2] = Under(breath)
    BY <1>1, <1>2, <1>5 DEF Open, Here
  <2>2. Under(breath) # None
    <3>1. start[h] \in Start
      BY <1>1, <1>5 DEF Shapes
    <3>. QED
      BY <2>1, <3>1, Ground DEF Start
  <2>3. Painted(Path(trail[h], p), Ink[h]) \in Canvas
    BY <1>1, PaintWhole
  <2>4. Stage(Painted(Path(trail[h], p), Ink[h]), Under(breath))
    BY <1>5, <2>1
  <2>5. /\ content' \in [Block -> Canvas] /\ canvas' \in Canvas
        /\ content'[Under(breath)] = canvas'
        /\ \A b \in Block : b # Under(breath) => content'[b] = content[b]
    BY <1>1, <2>2, <2>3, <2>4, StageFacts
  <2>6. Bases' = Bases
    BY <1>2, <2>1 DEF Bases
  <2>7. Faithful'
    BY <1>1, <1>2, <2>2, <2>5, <2>6 DEF Faithful, Mirror, Under
  <2>8. Owned' /\ Shapes'
    BY <1>1, <1>2, <1>3, <2>5 DEF Owned, Shapes
  <2>9. Here' /\ Separate' /\ Told'
    BY <1>1, <1>2, <2>1 DEF Here, Separate, Told, Under
  <2>. QED
    BY <2>7, <2>8, <2>9 DEF PointerInv
<1>. QED
  BY <1>4, <1>5 DEF DragPaint

\* Every other drag stages nothing.
LEMMA DragStep ==
  ASSUME PointerInv, NEW h \in Hand, NEW p \in Bounds,
         \/ DragMove(h, p) \/ DragLasso(h, p) \/ DragSelect(h, p) \/ DragStray(h, p)
  PROVE  PointerInv'
<1>1. Shapes /\ Separate /\ Told /\ Owned
  BY DEF PointerInv
<1>2. UNCHANGED <<content, recorded, channel, canvas, breath, start, down, tool, typing>>
  BY DEF DragMove, DragLasso, DragSelect, DragStray, Drag, document
<1>3. /\ Faithful' /\ Here' /\ Open' = Open
      /\ content' \in [Block -> Canvas] /\ recorded' \in [Block -> Canvas] /\ canvas' \in Canvas
      /\ breath' \in Breath /\ start' \in [Hand -> Start \cup {None}]
      /\ typing' \in Start \cup {None}
  BY <1>2, QuietFacts
<1>4. h \in down /\ typing = None
  BY DEF DragMove, DragLasso, DragSelect, DragStray, Drag, Dragging
<1>5. trail' = trail \/ trail' = [trail EXCEPT ![h] = p]
  BY DEF DragMove, DragLasso, DragSelect, DragStray, Drag
<1>6. trail' \in [Hand -> Bounds \cup {None}] /\ \A x \in Hand : trail'[x] # None => x \in down'
  BY <1>1, <1>2, <1>4, <1>5 DEF Owned, Shapes
<1>7. Path(trail[h], p) \in (SUBSET Bounds) \ {{}}
  BY <1>1, PathWhole DEF Shapes
<1>8. \/ lasso' = lasso
      \/ lasso # None /\ lasso' \in Lasso /\ lasso'.hand = lasso.hand /\ moving' = moving
  <2>1. CASE DragLasso(h, p) /\ lasso' # lasso
    <3>1. /\ lasso # None /\ moving' = moving
          /\ lasso' = [lasso EXCEPT !.path = @ \cup Path(trail[h], p)]
      BY <2>1 DEF DragLasso, Drag
    <3>2. lasso \in Lasso
      BY <1>1, <3>1 DEF Shapes
    <3>. QED
      BY <1>7, <3>1, <3>2 DEF Lasso
  <2>2. CASE ~ DragLasso(h, p)
    BY <2>2 DEF DragMove, DragSelect, DragStray
  <2>. QED
    BY <2>1, <2>2
<1>9. \/ selecting' = selecting
      \/ selecting # None /\ selecting' \in Selecting
  <2>1. CASE DragSelect(h, p) /\ selecting' # selecting
    <3>1. /\ selecting # None
          /\ selecting' = [selecting EXCEPT !.points = @ \cup Path(trail[h], p)]
      BY <2>1 DEF DragSelect
    <3>2. selecting \in Selecting
      BY <1>1, <3>1 DEF Shapes
    <3>. QED
      BY <1>7, <3>1, <3>2 DEF Selecting
  <2>2. CASE ~ DragSelect(h, p)
    BY <2>2 DEF DragMove, DragLasso, DragStray
  <2>. QED
    BY <2>1, <2>2
<1>10. \/ moving' = moving
       \/ moving # None /\ moving' \in Moving /\ moving'.hand = moving.hand /\ lasso' = lasso
  <2>1. CASE DragMove(h, p)
    <3>1. moving # None /\ moving' = [moving EXCEPT !.to = p] /\ lasso' = lasso
      BY <2>1 DEF DragMove
    <3>2. moving \in Moving
      BY <1>1, <3>1 DEF Shapes
    <3>. QED
      BY <3>1, <3>2 DEF Moving
  <2>2. CASE ~ DragMove(h, p)
    BY <2>2 DEF DragLasso, DragSelect, DragStray, Drag
  <2>. QED
    BY <2>1, <2>2
<1>11. plane' \subseteq Cell /\ ((plane' = plane /\ stray' = stray) \/ stray')
  <2>1. CASE DragStray(h, p) /\ tool[h] = "select"
    <3>1. /\ stray' = TRUE
          /\ plane' = CASE Mode[h] = "replace" -> {p}
                        [] Mode[h] = "intersect" -> IF Path(trail[h], p) = {p} THEN plane \cap {p} ELSE {}
                        [] OTHER -> Selected(plane, Path(trail[h], p), Mode[h])
      BY <2>1 DEF DragStray
    <3>2. Selected(plane, Path(trail[h], p), Mode[h]) \in SUBSET Cell
      BY <1>1, <1>7, SelectedWhole, PointerAssumption DEF Shapes, Modes
    <3>3. {p} \subseteq Cell
      BY Ground
    <3>. QED
      BY <1>1, <3>1, <3>2, <3>3 DEF Shapes
  <2>2. CASE ~ (DragStray(h, p) /\ tool[h] = "select")
    <3>1. plane' = plane /\ stray' = stray
      BY <2>2 DEF DragMove, DragLasso, DragSelect, DragStray
    <3>. QED
      BY <1>1, <3>1 DEF Shapes
  <2>. QED
    BY <2>1, <2>2
<1>12. Owned'
  <2>1. lasso' # None => lasso'.hand \in down'
    BY <1>1, <1>2, <1>8 DEF Owned
  <2>2. moving' # None => moving'.hand \in down'
    BY <1>1, <1>2, <1>10 DEF Owned
  <2>. QED
    BY <1>1, <1>2, <1>4, <1>6, <2>1, <2>2 DEF Owned
<1>13. Shapes'
  BY <1>1, <1>2, <1>3, <1>6, <1>8, <1>9, <1>10, <1>11 DEF Shapes
<1>14. Separate'
  BY <1>1, <1>2, <1>3, <1>4, <1>8, <1>10 DEF Separate
<1>15. Told'
  BY <1>1, <1>2, <1>11 DEF Told
<1>. QED
  BY <1>3, <1>12, <1>13, <1>14, <1>15 DEF PointerInv

\* A stroke keeps its target, so an image lasso stays one; between strokes
\* there is none.
LEMMA ToolStep ==
  ASSUME PointerInv, NEW h \in Hand, NEW t \in ImageTool \cup SelectTool,
         SwitchTool(h, t) \/ TakeTool(h, t)
  PROVE  PointerInv'
<1>1. Shapes /\ Separate /\ Told /\ Owned
  BY DEF PointerInv
<1>2. /\ UNCHANGED <<content, recorded, channel, trail, start, lasso, selecting, moving,
                     canvas, breath, plane, down, typing, stray>>
      /\ tool' = [tool EXCEPT ![h] = t] /\ t \in Tools[h]
  BY DEF SwitchTool, TakeTool, document, slots
<1>3. Faithful' /\ Here' /\ Open' = Open
  BY <1>2, QuietFacts
<1>4. tool' \in [Hand -> ImageTool \cup SelectTool] /\ \A x \in Hand : tool'[x] \in Tools[x]
  BY <1>1, <1>2 DEF Shapes
<1>5. lasso # None => (tool'[lasso.hand] \in ImageTool <=> tool[lasso.hand] \in ImageTool)
  <2>1. CASE SwitchTool(h, t)
    <3>1. t \in SelectTool <=> tool[h] \in SelectTool
      BY <2>1 DEF SwitchTool
    <3>2. t \in ImageTool <=> tool[h] \in ImageTool
      BY <1>1, <3>1 DEF Shapes, ImageTool, SelectTool
    <3>. QED
      BY <1>1, <1>2, <3>2 DEF Shapes
  <2>2. CASE TakeTool(h, t)
    BY <1>1, <2>2 DEF TakeTool, Idle, Owned
  <2>. QED
    BY <2>1, <2>2
<1>6. Owned' /\ Told'
  BY <1>1, <1>2 DEF Owned, Told
<1>7. Shapes'
  BY <1>1, <1>2, <1>4 DEF Shapes
<1>8. Separate'
  BY <1>1, <1>2, <1>3, <1>5 DEF Separate
<1>. QED
  BY <1>3, <1>6, <1>7, <1>8 DEF PointerInv

-----------------------------------------------------------------------------
(* Typing and the playhead.                                                *)

\* While text is typed the log shows the block as the segment found it, and
\* the commit of the segment brings it to the live canvas.
LEMMA CommitFacts ==
  ASSUME PointerInv, typing # None, CommitText
  PROVE  /\ content' = content
         /\ recorded' \in [Block -> Canvas]
         /\ Under(breath) \in Block /\ recorded'[Under(breath)] = canvas
         /\ \A b \in Block : b # Under(breath) => recorded'[b] = recorded[b]
<1> DEFINE U == Under(breath)
           r == Record("keys", [x \in {"keys"} |-> typing], canvas)
           rs == IF r.cells = {} THEN {} ELSE {r}
           W(b) == UNION {q.cells : q \in {x \in rs : x.block = b}}
<1>1. Shapes /\ Faithful /\ Here
  BY DEF PointerInv
<1>2. typing \in Start /\ typing[1] \in Canvas /\ typing[2] = U /\ U \in Block
  BY <1>1 DEF Shapes, Start, Here
<1>3. U # None
  BY <1>2, Ground
<1>4. recorded[U] = typing[1] /\ content[U] = canvas
  BY <1>1, <1>3 DEF Faithful, Bases, Mirror
<1>5. r = [hand |-> "keys", block |-> U, cells |-> Changed(typing[1], canvas)]
  BY <1>2 DEF Record
<1>6. /\ W(U) = Changed(typing[1], canvas)
      /\ \A b \in Block : b # U => W(b) = {}
  BY <1>5
<1>7. /\ content' = [b \in Block |-> Patched(content[b], canvas, W(b))]
      /\ recorded' = [b \in Block |-> Patched(recorded[b], canvas, W(b))]
  BY DEF CommitText, Applied
<1>8. /\ content \in [Block -> Canvas] /\ recorded \in [Block -> Canvas] /\ canvas \in Canvas
  BY <1>1 DEF Shapes
<1> HIDE DEF r, rs, W
<1>9. Patched(typing[1], canvas, W(U)) = canvas /\ Patched(canvas, canvas, W(U)) = canvas
  <2>1. Patched(typing[1], canvas, W(U)) = canvas
    BY <1>2, <1>6, <1>8, PatchWhole
  <2>2. Patched(canvas, canvas, W(U)) = canvas
    BY <1>8 DEF Patched, Canvas
  <2>. QED
    BY <2>1, <2>2
<1>10. ASSUME NEW b \in Block, b # U
       PROVE  /\ Patched(content[b], canvas, W(b)) = content[b]
              /\ Patched(recorded[b], canvas, W(b)) = recorded[b]
  <2>1. W(b) = {} /\ content[b] \in Canvas /\ recorded[b] \in Canvas
    BY <1>6, <1>8, <1>10
  <2>2. Patched(content[b], canvas, W(b)) = content[b]
    BY <1>8, <2>1, PatchWhole
  <2>3. Patched(recorded[b], canvas, W(b)) = recorded[b]
    BY <1>8, <2>1, PatchWhole
  <2>. QED
    BY <2>2, <2>3
<1> HIDE DEF U
<1>11. \A b \in Block : content'[b] = content[b]
  BY <1>4, <1>7, <1>9, <1>10
<1>12. content' = content
  BY <1>7, <1>8, <1>11
<1>13. recorded'[U] = canvas /\ \A b \in Block : b # U => recorded'[b] = recorded[b]
  BY <1>2, <1>4, <1>7, <1>9, <1>10
<1>14. recorded' \in [Block -> Canvas]
  BY <1>7, <1>8, <1>13
<1>. QED
  BY <1>2, <1>12, <1>13, <1>14 DEF U

\* Enter or the end of the session commits the segment.
LEMMA SegmentStep ==
  ASSUME PointerInv, NextSegment \/ \E by \in SUBSET {"left"} : EndTyping(by)
  PROVE  PointerInv'
<1>1. Shapes /\ Faithful /\ Here /\ Separate /\ Told /\ Owned
  BY DEF PointerInv
<1>2. typing # None /\ CommitText
  BY DEF NextSegment, EndTyping
<1>3. /\ content' = content
      /\ recorded' \in [Block -> Canvas]
      /\ Under(breath) \in Block /\ recorded'[Under(breath)] = canvas
      /\ \A b \in Block : b # Under(breath) => recorded'[b] = recorded[b]
  BY <1>2, CommitFacts
<1>4. UNCHANGED <<channel, trail, start, lasso, selecting, moving, canvas, breath, plane, tool, stray>>
  BY DEF NextSegment, EndTyping, slots
<1>5. Open = {} /\ Open' = {} /\ lasso = None /\ moving = None /\ selecting = None
  BY <1>1, <1>2, <1>4 DEF Separate, Open
<1>6. Began \in Start /\ Began # None /\ Began[1] = canvas /\ Began[2] = Under(breath)
  BY <1>1, <1>3, BeganWhole, Ground
<1>7. typing' \in {Began, None} /\ down \subseteq down' /\ down' \subseteq Hand
  BY <1>1 DEF NextSegment, EndTyping, Shapes, Hand
<1>8. Bases' = {canvas}
  BY <1>4, <1>5, <1>6, <1>7 DEF Bases
<1>9. Faithful'
  BY <1>1, <1>3, <1>4, <1>8 DEF Faithful, Mirror, Under
<1>10. Here'
  BY <1>4, <1>5, <1>6, <1>7 DEF Here, Under
<1>11. Separate' /\ Told'
  BY <1>1, <1>4, <1>5 DEF Separate, Told
<1>12. Owned'
  BY <1>1, <1>4, <1>5, <1>7 DEF Owned
<1>13. Shapes'
  BY <1>1, <1>3, <1>4, <1>6, <1>7 DEF Shapes
<1>. QED
  BY <1>9, <1>10, <1>11, <1>12, <1>13 DEF PointerInv

\* A key stages on the block of the segment; what the log shows stays.
LEMMA KeyStep ==
  ASSUME PointerInv, NEW c \in Bounds, NEW ink \in {Ink["left"], Blank}, TypeKey(c, ink)
  PROVE  PointerInv'
<1>1. Shapes /\ Faithful /\ Here /\ Separate /\ Told /\ Owned
  BY DEF PointerInv
<1>2. /\ typing # None /\ Stage([canvas EXCEPT ![c] = ink], typing[2])
      /\ UNCHANGED <<recorded, channel, trail, start, lasso, selecting, moving,
                     breath, plane, down, tool, typing, stray>>
  BY DEF TypeKey, slots
<1>3. typing \in Start /\ typing[2] = Under(breath) /\ Under(breath) # None
  BY <1>1, <1>2, Ground DEF Shapes, Start, Here
<1>4. [canvas EXCEPT ![c] = ink] \in Canvas
  <2>1. ink \in Color /\ c \in Cell
    BY Ground DEF Color, Hand
  <2>. QED
    BY <1>1, <2>1 DEF Shapes, Canvas
<1>5. /\ content' \in [Block -> Canvas] /\ canvas' \in Canvas
      /\ content'[Under(breath)] = canvas'
      /\ \A b \in Block : b # Under(breath) => content'[b] = content[b]
  <2>1. Stage([canvas EXCEPT ![c] = ink], Under(breath))
    BY <1>2, <1>3
  <2>. QED
    BY <1>1, <1>3, <1>4, <2>1, StageFacts
<1>6. Bases' = Bases /\ Open' = {} /\ Open = {} /\ lasso = None /\ moving = None
  BY <1>1, <1>2 DEF Bases, Separate, Open
<1>7. Faithful'
  BY <1>1, <1>2, <1>3, <1>5, <1>6 DEF Faithful, Mirror, Under
<1>8. Here' /\ Separate' /\ Told' /\ Owned'
  BY <1>1, <1>2, <1>6 DEF Here, Separate, Told, Owned, Under
<1>9. Shapes'
  BY <1>1, <1>2, <1>5 DEF Shapes
<1>. QED
  BY <1>7, <1>8, <1>9 DEF PointerInv

\* With nothing staged the playhead takes the live canvas to another block,
\* and the log shows every block as it is.
LEMMA ScrubStep ==
  ASSUME PointerInv, IdleScrub, NEW br \in Breath, Scrub(br)
  PROVE  PointerInv'
<1>1. Shapes /\ Faithful /\ Here /\ Separate /\ Told /\ Owned
  BY DEF PointerInv
<1>2. /\ start = NoStart /\ typing = None /\ breath' = br /\ canvas' = Mirror(br)
      /\ UNCHANGED <<content, recorded, channel, trail, start, lasso, selecting, moving,
                     plane, down, tool, typing, stray>>
  BY DEF Scrub, document, slots
<1>3. Open = {} /\ Open' = {}
  BY <1>2 DEF Open, NoStart
<1>4. \A b \in Block : recorded[b] = content[b]
  <2>1. Under(breath) # None => recorded[Under(breath)] = canvas /\ content[Under(breath)] = canvas
    BY <1>1, <1>2, <1>3 DEF Faithful, Bases, Mirror
  <2>. QED
    BY <1>1, <2>1, Ground DEF Faithful
<1>5. canvas' \in Canvas
  <2>1. [c \in Cell |-> Blank] \in Canvas
    BY Ground DEF Canvas
  <2>2. Under(br) # None => Under(br) \in Block /\ content[Under(br)] \in Canvas
    BY <1>1, Ground DEF Shapes
  <2>. QED
    BY <1>2, <2>1, <2>2 DEF Mirror
<1>6. Faithful'
  <2>1. canvas' = Mirror(breath)'
    BY <1>2 DEF Mirror, Under
  <2>2. Bases' = {canvas'}
    BY <1>2, <1>3 DEF Bases
  <2>3. Under(br) # None => recorded[Under(br)] = canvas'
    <3>1. Under(br) # None => Under(br) \in Block
      BY Ground
    <3>. QED
      BY <1>2, <1>4, <3>1 DEF Mirror
  <2>. QED
    BY <1>2, <1>4, <2>1, <2>2, <2>3 DEF Faithful, Under
<1>7. Here' /\ Separate' /\ Told' /\ Owned'
  BY <1>1, <1>2, <1>3 DEF Here, Separate, Told, Owned
<1>8. Shapes'
  BY <1>1, <1>2, <1>5 DEF Shapes
<1>. QED
  BY <1>6, <1>7, <1>8 DEF PointerInv

-----------------------------------------------------------------------------
(* The release.                                                            *)

\* The cells a set of records holds.
CellsOf(rs) == UNION {r.cells : r \in rs}

\* Applying records that all name one block patches that block with the cells
\* they hold, and leaves the others.
LEMMA AppliedFacts ==
  ASSUME NEW canvases \in [Block -> Canvas], NEW cv \in Canvas, NEW U \in Block,
         NEW rs, \A r \in rs : r.block = U
  PROVE  /\ Applied(canvases, rs, cv) \in [Block -> Canvas]
         /\ Applied(canvases, rs, cv)[U] = Patched(canvases[U], cv, CellsOf(rs))
         /\ \A b \in Block : b # U => Applied(canvases, rs, cv)[b] = canvases[b]
<1> DEFINE W(b) == UNION {q.cells : q \in {x \in rs : x.block = b}}
<1>1. W(U) = CellsOf(rs) /\ \A b \in Block : b # U => W(b) = {}
  BY DEF CellsOf
<1>2. Applied(canvases, rs, cv) = [b \in Block |-> Patched(canvases[b], cv, W(b))]
  BY DEF Applied
<1> HIDE DEF W
<1>3. \A b \in Block : Patched(canvases[b], cv, W(b)) \in Canvas
  BY PatchWhole
<1>4. ASSUME NEW b \in Block, b # U
      PROVE  Patched(canvases[b], cv, W(b)) = canvases[b]
  <2>1. W(b) = {} /\ canvases[b] \in Canvas
    BY <1>1, <1>4
  <2>. QED
    BY <2>1, PatchWhole
<1>. QED
  BY <1>1, <1>2, <1>3, <1>4

\* The strokes of the release: what is open, and the hand of a move that lands.
LEMMA StartsFacts ==
  ASSUME PointerInv, NEW m, m # None => m \in Moving /\ moving # None /\ m.hand = moving.hand
  PROVE  /\ Starts(m) \in [Hand -> Start \cup {None}]
         /\ \A h \in Hand : Starts(m)[h] # None => Starts(m)[h][2] = Under(breath)
         /\ \A h \in Open : Starts(m)[h] = start[h]
         /\ Lands(m) => /\ m.hand \in Hand /\ Starts(m)[m.hand] # None
                        /\ Starts(m)[m.hand][1] = canvas
<1>1. Shapes /\ Here /\ Separate
  BY DEF PointerInv
<1>2. start \in [Hand -> Start \cup {None}]
  BY <1>1 DEF Shapes
<1>3. CASE Lands(m)
  <2>1. m \in Moving /\ m.hand \in Hand /\ m.hand \notin Open /\ Under(breath) # None
    BY <1>1, <1>3 DEF Lands, Separate, Moving
  <2>2. Began \in Start /\ Began # None /\ Began[1] = canvas /\ Began[2] = Under(breath)
    BY <1>1, <2>1, BeganWhole
  <2>3. Starts(m) = [start EXCEPT ![m.hand] = Began]
    BY <1>3 DEF Starts
  <2>. QED
    BY <1>1, <1>2, <2>1, <2>2, <2>3 DEF Here, Open
<1>4. CASE ~ Lands(m)
  BY <1>1, <1>2, <1>4 DEF Starts, Here, Open
<1>. QED
  BY <1>3, <1>4

\* What a landing move makes of the live canvas is a canvas, and with the move
\* staged the block in work holds it.
LEMMA MoveFacts ==
  ASSUME PointerInv, NEW m, m # None => m \in Moving
  PROVE  /\ FinishedMove(m) \in Canvas
         /\ StagedMove(m) \in [Block -> Canvas]
         /\ Under(breath) # None => StagedMove(m)[Under(breath)] = FinishedMove(m)
         /\ \A b \in Block : b # Under(breath) => StagedMove(m)[b] = content[b]
<1>1. Shapes /\ Faithful
  BY DEF PointerInv
<1>2. content \in [Block -> Canvas] /\ canvas \in Canvas
  BY <1>1 DEF Shapes
<1>3. Under(breath) # None => Under(breath) \in Block /\ content[Under(breath)] = canvas
  BY <1>1, Ground DEF Faithful, Mirror, Shapes
<1>4. CASE Lands(m)
  <2>1. Under(breath) # None /\ m \in Moving
    BY <1>4 DEF Lands
  <2>2. \A x \in DOMAIN m.cells : m.cells[x] \in Color
    BY <2>1 DEF Moving
  <2>3. Moved(m) \in Canvas
    BY <1>2, <2>2, Ground DEF Moved, Canvas
  <2>4. Patched(content[Under(breath)], Moved(m), Changed(canvas, Moved(m))) = Moved(m)
    BY <1>2, <1>3, <2>1, <2>3, PatchWhole
  <2>5. StagedMove(m) = [content EXCEPT ![Under(breath)] = Moved(m)]
    BY <1>4, <2>4 DEF StagedMove
  <2>. QED
    BY <1>2, <1>3, <1>4, <2>1, <2>3, <2>5 DEF FinishedMove
<1>5. CASE ~ Lands(m)
  BY <1>2, <1>3, <1>5 DEF FinishedMove, StagedMove
<1>. QED
  BY <1>4, <1>5

\* The fill of the lasso is a canvas; only an image lasso fills.
LEMMA FilledFacts ==
  ASSUME PointerInv, NEW cv \in Canvas, NEW pl
  PROVE  /\ Filled(cv, pl) \in Canvas
         /\ (lasso = None \/ tool[lasso.hand] \in SelectTool) => Filled(cv, pl) = cv
<1>1. CASE lasso = None \/ tool[lasso.hand] \in SelectTool
  BY <1>1 DEF Filled
<1>2. CASE ~ (lasso = None \/ tool[lasso.hand] \in SelectTool)
  <2>1. lasso.hand \in Hand
    BY <1>2 DEF PointerInv, Shapes, Lasso
  <2>2. Ink[lasso.hand] \in Color
    BY <2>1, Ground
  <2>. QED
    BY <1>2, <2>2 DEF Filled, Canvas
<1>. QED
  BY <1>1, <1>2

\* The records of a release all name the block in work, and a cell none of
\* them holds is as every open stroke found it.
LEMMA RecordsFacts ==
  ASSUME PointerInv, NEW starts, NEW cv,
         \A h \in Hand : starts[h] # None => starts[h][2] = Under(breath)
  PROVE  /\ \A r \in Records(starts, cv) : r.block = Under(breath)
         /\ \A h \in Hand, c \in Cell :
              /\ starts[h] # None
              /\ c \notin CellsOf(Records(starts, cv))
              => starts[h][1][c] = cv[c]
         /\ (\A h \in Hand : starts[h] = None) => Records(starts, cv) = {}
<1>1. \A r \in Records(starts, cv) : r.block = Under(breath)
  BY DEF Records, Record
<1>2. ASSUME NEW h \in Hand, NEW c \in Cell, starts[h] # None,
             c \notin CellsOf(Records(starts, cv))
      PROVE  starts[h][1][c] = cv[c]
  <2>1. SUFFICES ASSUME c \in Changed(starts[h][1], cv)
                 PROVE  FALSE
    BY DEF Changed
  <2>2. /\ Record(h, starts, cv).cells = Changed(starts[h][1], cv)
        /\ Record(h, starts, cv).cells # {}
    BY <2>1 DEF Record
  <2>3. Record(h, starts, cv) \in Records(starts, cv)
    BY <1>2, <2>2 DEF Records
  <2>. QED
    BY <1>2, <2>1, <2>2, <2>3 DEF CellsOf
<1>3. (\A h \in Hand : starts[h] = None) => Records(starts, cv) = {}
  BY DEF Records
<1>. QED
  BY <1>1, <1>2, <1>3

\* Once every stroke is finished and recorded, the block in work and the log
\* both hold the live canvas, and no other block has changed.
LEMMA FinishFacts ==
  ASSUME PointerInv, typing = None,
         NEW m, m # None => m \in Moving /\ moving # None /\ m.hand = moving.hand,
         NEW pl, NEW cv, cv = Filled(FinishedMove(m), pl),
         NEW after, after = Applied(StagedMove(m), Records(Starts(m), cv), cv),
         NEW log, log = Applied(recorded, Records(Starts(m), cv), cv)
  PROVE  /\ cv \in Canvas /\ after \in [Block -> Canvas] /\ log \in [Block -> Canvas]
         /\ \A b \in Block : b # Under(breath) => after[b] = content[b] /\ log[b] = recorded[b]
         /\ Under(breath) # None => after[Under(breath)] = cv /\ log[Under(breath)] = cv
         /\ Under(breath) = None => cv = canvas
<1> DEFINE U == Under(breath)
           S == Starts(m)
           fm == FinishedMove(m)
           rs == Records(S, cv)
           W == CellsOf(rs)
<1>1. Shapes /\ Faithful /\ Here /\ Separate /\ Told /\ Owned
  BY DEF PointerInv
<1>2. /\ S \in [Hand -> Start \cup {None}]
      /\ \A h \in Hand : S[h] # None => S[h][2] = U
      /\ \A h \in Open : S[h] = start[h]
      /\ Lands(m) => m.hand \in Hand /\ S[m.hand] # None /\ S[m.hand][1] = canvas
  BY StartsFacts
<1>3. /\ fm \in Canvas /\ StagedMove(m) \in [Block -> Canvas]
      /\ U # None => StagedMove(m)[U] = fm
      /\ \A b \in Block : b # U => StagedMove(m)[b] = content[b]
  BY MoveFacts
<1>4. /\ cv \in Canvas
      /\ (lasso = None \/ tool[lasso.hand] \in SelectTool) => cv = fm
  BY <1>3, FilledFacts
<1>5. /\ \A r \in rs : r.block = U
      /\ \A h \in Hand, c \in Cell : S[h] # None /\ c \notin W => S[h][1][c] = cv[c]
      /\ (\A h \in Hand : S[h] = None) => rs = {}
  BY <1>2, RecordsFacts
<1>6. ~ Lands(m) => fm = canvas
  BY DEF FinishedMove
<1>7. ~ (lasso = None \/ tool[lasso.hand] \in SelectTool) =>
        lasso.hand \in Open /\ start[lasso.hand][1] = canvas /\ ~ Lands(m)
  BY <1>1 DEF Separate, Lands, Shapes, Lasso
<1>8. recorded \in [Block -> Canvas] /\ canvas \in Canvas
  BY <1>1 DEF Shapes
<1>9. U = None => Open = {} /\ cv = canvas /\ rs = {} /\ ~ Lands(m)
  <2>1. SUFFICES ASSUME U = None
                 PROVE  Open = {} /\ cv = canvas /\ rs = {} /\ ~ Lands(m)
    OBVIOUS
  <2>2. ~ Lands(m)
    BY <2>1 DEF Lands
  <2>3. \A h \in Hand : S[h] = None
    BY <1>2, <2>1, Ground DEF Start
  <2>4. Open = {}
    BY <1>2, <2>3 DEF Open
  <2>. QED
    BY <1>4, <1>5, <1>6, <1>7, <2>2, <2>3, <2>4
<1>10. U # None => U \in Block
  BY <1>1, Ground DEF Shapes
<1> HIDE DEF U, S, fm, rs
<1>11. CASE U # None
  <2>0. cv \in Canvas /\ fm \in Canvas /\ \A r \in rs : r.block = U
    BY <1>3, <1>4, <1>5
  <2>1. /\ after \in [Block -> Canvas]
        /\ after[U] = Patched(fm, cv, W)
        /\ \A b \in Block : b # U => after[b] = content[b]
    <3>1. U \in Block /\ StagedMove(m) \in [Block -> Canvas] /\ StagedMove(m)[U] = fm
      BY <1>3, <1>10, <1>11
    <3>2. /\ Applied(StagedMove(m), rs, cv) \in [Block -> Canvas]
          /\ Applied(StagedMove(m), rs, cv)[U] = Patched(StagedMove(m)[U], cv, W)
          /\ \A b \in Block : b # U => Applied(StagedMove(m), rs, cv)[b] = StagedMove(m)[b]
      BY <2>0, <3>1, AppliedFacts
    <3>3. after = Applied(StagedMove(m), rs, cv)
      BY DEF rs, S
    <3>. QED
      BY <1>3, <3>1, <3>2, <3>3
  <2>2. /\ log \in [Block -> Canvas]
        /\ log[U] = Patched(recorded[U], cv, W)
        /\ \A b \in Block : b # U => log[b] = recorded[b]
    <3>1. U \in Block
      BY <1>10, <1>11
    <3>2. /\ Applied(recorded, rs, cv) \in [Block -> Canvas]
          /\ Applied(recorded, rs, cv)[U] = Patched(recorded[U], cv, W)
          /\ \A b \in Block : b # U => Applied(recorded, rs, cv)[b] = recorded[b]
      BY <1>8, <2>0, <3>1, AppliedFacts
    <3>3. log = Applied(recorded, rs, cv)
      BY DEF rs, S
    <3>. QED
      BY <3>2, <3>3
  <2>3. \A c \in Cell : c \notin W => fm[c] = cv[c]
    <3>1. CASE lasso = None \/ tool[lasso.hand] \in SelectTool
      BY <1>4, <3>1
    <3>2. CASE ~ (lasso = None \/ tool[lasso.hand] \in SelectTool)
      <4>1. lasso.hand \in Hand /\ start[lasso.hand] # None /\ S[lasso.hand] = start[lasso.hand]
        BY <1>2, <1>7, <3>2 DEF Open
      <4>. QED
        BY <1>5, <1>6, <1>7, <3>2, <4>1
    <3>. QED
      BY <3>1, <3>2
  <2>4. \A c \in Cell : c \notin W => recorded[U][c] = cv[c]
    <3>0. recorded[U] \in Bases
      BY <1>1, <1>11 DEF Faithful, U
    <3>1. CASE Open = {}
      <4>1. recorded[U] = canvas
        BY <3>0, <3>1 DEF Bases
      <4>2. CASE Lands(m)
        BY <1>2, <1>5, <4>1, <4>2
      <4>3. CASE ~ Lands(m)
        BY <1>4, <1>6, <1>7, <3>1, <4>1, <4>3
      <4>. QED
        BY <4>2, <4>3
    <3>2. CASE Open # {}
      <4>1. PICK h \in Open : recorded[U] = start[h][1]
        BY <3>0, <3>2 DEF Bases
      <4>2. h \in Hand /\ S[h] # None /\ S[h] = start[h]
        BY <1>2 DEF Open
      <4>. QED
        BY <1>5, <4>1, <4>2
    <3>. QED
      BY <3>1, <3>2
  <2>5. Patched(fm, cv, W) = cv
    <3>1. Patched(fm, cv, W) \in Canvas
          /\ \A c \in Cell : Patched(fm, cv, W)[c] = IF c \in W THEN cv[c] ELSE fm[c]
      BY <2>0, PatchWhole
    <3>. QED
      BY <1>4, <2>3, <3>1, SameCanvas
  <2>6. Patched(recorded[U], cv, W) = cv
    <3>1. recorded[U] \in Canvas
      BY <1>8, <1>10, <1>11
    <3>2. /\ Patched(recorded[U], cv, W) \in Canvas
          /\ \A c \in Cell : Patched(recorded[U], cv, W)[c] = IF c \in W THEN cv[c] ELSE recorded[U][c]
      BY <1>4, <3>1, PatchWhole
    <3>. QED
      BY <1>4, <2>4, <3>2, SameCanvas
  <2>. QED
    BY <1>4, <1>11, <2>1, <2>2, <2>5, <2>6 DEF U
<1>12. CASE U = None
  <2>1. rs = {} /\ cv = canvas /\ ~ Lands(m)
    BY <1>9, <1>12
  <2>2. StagedMove(m) = content /\ content \in [Block -> Canvas]
    BY <1>1, <2>1 DEF StagedMove, Shapes
  <2>3. ASSUME NEW q \in [Block -> Canvas]
        PROVE  Applied(q, {}, cv) = q
    <3> DEFINE none == UNION {r.cells : r \in {}}
    <3>1. Applied(q, {}, cv) = [b \in Block |-> Patched(q[b], cv, {})]
      BY DEF Applied
    <3>2. \A b \in Block : Patched(q[b], cv, {}) = q[b]
      BY <1>4, PatchWhole
    <3>. QED
      BY <3>1, <3>2
  <2>4. after = content /\ log = recorded
    BY <1>8, <2>1, <2>2, <2>3 DEF rs, S
  <2>. QED
    BY <1>4, <1>8, <1>12, <2>1, <2>2, <2>4 DEF U
<1>. QED
  BY <1>11, <1>12

\* What the release leaves selected is on the plane, and where no selection
\* stroke, move or bound ended, it is what was selected before.
LEMMA SelectionFacts ==
  ASSUME PointerInv, NEW up, NEW m, m # None => m \in Moving, InReach(m),
         NEW pl, pl = BoundSelection(MovedSelection(m, FinishedSelection(up)))
  PROVE  /\ pl \subseteq Cell
         /\ ~ Mirrors(up, m) => pl = plane
<1>1. Shapes
  BY DEF PointerInv
<1> DEFINE fs == FinishedSelection(up)
           ms == MovedSelection(m, fs)
<1>2. fs \in SUBSET Cell
  <2>1. CASE selecting # None /\ down = up
    <3>1. selecting.points \in SUBSET Bounds /\ selecting.mode \in Modes /\ plane \in SUBSET Cell
      BY <1>1, <2>1 DEF Shapes, Selecting
    <3>2. Selected(plane, selecting.points, selecting.mode) \in SUBSET Cell
      BY <3>1, SelectedWhole
    <3>. QED
      BY <2>1, <3>2 DEF FinishedSelection
  <2>2. CASE ~ (selecting # None /\ down = up)
    BY <1>1, <2>2 DEF FinishedSelection, Shapes
  <2>. QED
    BY <2>1, <2>2
<1>3. ms \in SUBSET Cell
  BY <1>2 DEF MovedSelection, InReach
<1>4. pl \in SUBSET Cell
  <2>1. CASE lasso # None /\ tool[lasso.hand] \in SelectTool
    <3>1. lasso.path \in SUBSET Bounds /\ lasso.hand \in Hand
      BY <1>1, <2>1 DEF Shapes, Lasso
    <3>2. Mode[lasso.hand] \in Modes
      BY <3>1, PointerAssumption DEF Modes
    <3>3. Selected(ms, lasso.path, Mode[lasso.hand]) \in SUBSET Cell
      BY <1>3, <3>1, <3>2, SelectedWhole
    <3>. QED
      BY <2>1, <3>3 DEF BoundSelection
  <2>2. CASE ~ (lasso # None /\ tool[lasso.hand] \in SelectTool)
    BY <1>3, <2>2 DEF BoundSelection
  <2>. QED
    BY <2>1, <2>2
<1>5. ~ Mirrors(up, m) => pl = plane
  BY DEF Mirrors, FinishedSelection, MovedSelection, BoundSelection
<1>. QED
  BY <1>4, <1>5

\* The release commits what both hands hold, and ends every image stroke.
LEMMA ReleaseStep ==
  ASSUME PointerInv, NEW up \in SUBSET Hand, NEW p \in Bounds \cup {None}, Release(up, p)
  PROVE  PointerInv'
<1>1. Shapes /\ Faithful /\ Here /\ Separate /\ Told /\ Owned
  BY DEF PointerInv
<1>2. PICK m, pl, cv, after, log :
        /\ m = Folded(up, p)
        /\ pl = BoundSelection(MovedSelection(m, FinishedSelection(up)))
        /\ cv = Filled(FinishedMove(m), MovedSelection(m, FinishedSelection(up)))
        /\ after = Applied(StagedMove(m), Records(Starts(m), cv), cv)
        /\ log = Applied(recorded, Records(Starts(m), cv), cv)
  OBVIOUS
<1>3. /\ up # {} /\ up \subseteq down /\ InReach(m)
      /\ down' = down \ up
      /\ selecting' = IF down = up THEN None ELSE selecting
      /\ moving' = None /\ lasso' = None /\ start' = NoStart
      /\ trail' = TrailAfter(up)
      /\ canvas' = cv /\ content' = after /\ recorded' = log
      /\ plane' = pl
      /\ channel' = IF Mirrors(up, m) THEN pl ELSE channel
      /\ stray' = (stray /\ ~ Mirrors(up, m))
      /\ UNCHANGED <<breath, tool, typing>>
  BY <1>2 DEF Release, Finish
<1>4. m # None => m \in Moving /\ moving # None /\ m.hand = moving.hand
  BY <1>1, <1>2 DEF Folded, Shapes, Moving
<1>5. pl \subseteq Cell /\ (~ Mirrors(up, m) => pl = plane)
  BY <1>2, <1>3, <1>4, SelectionFacts
<1>6. Open' = {}
  BY <1>3 DEF Open, NoStart
<1>7. /\ cv \in Canvas /\ after \in [Block -> Canvas] /\ log \in [Block -> Canvas]
      /\ Faithful'
  <2>1. CASE typing = None
    <3>1. /\ cv \in Canvas /\ after \in [Block -> Canvas] /\ log \in [Block -> Canvas]
          /\ \A b \in Block : b # Under(breath) => after[b] = content[b] /\ log[b] = recorded[b]
          /\ Under(breath) # None => after[Under(breath)] = cv /\ log[Under(breath)] = cv
          /\ Under(breath) = None => cv = canvas
      BY <1>2, <1>4, <2>1, FinishFacts
    <3>2. Bases' = {cv}
      BY <1>3, <1>6, <2>1 DEF Bases
    <3>3. canvas' = Mirror(breath)'
      BY <1>1, <1>3, <3>1 DEF Faithful, Mirror, Under
    <3>4. Faithful'
      BY <1>1, <1>3, <3>1, <3>2, <3>3 DEF Faithful, Under
    <3>. QED
      BY <3>1, <3>4
  <2>2. CASE typing # None
    <3>1. Open = {} /\ lasso = None /\ moving = None
      BY <1>1, <2>2 DEF Separate
    <3>2. m = None /\ ~ Lands(m)
      BY <1>2, <3>1 DEF Folded, Lands
    <3>3. cv = canvas /\ StagedMove(m) = content /\ \A h \in Hand : Starts(m)[h] = None
      BY <1>2, <3>1, <3>2 DEF Filled, FinishedMove, StagedMove, Starts, Open
    <3>4. Records(Starts(m), cv) = {}
      BY <1>1, <3>3, RecordsFacts DEF Records
    <3>5. ASSUME NEW q \in [Block -> Canvas]
          PROVE  Applied(q, {}, canvas) = q
      <4>1. canvas \in Canvas
        BY <1>1 DEF Shapes
      <4>2. Applied(q, {}, canvas) = [b \in Block |-> Patched(q[b], canvas, {})]
        BY DEF Applied
      <4>3. \A b \in Block : Patched(q[b], canvas, {}) = q[b]
        BY <4>1, PatchWhole
      <4>. QED
        BY <4>2, <4>3
    <3>6. after = content /\ log = recorded
      BY <1>1, <1>2, <3>3, <3>4, <3>5 DEF Shapes
    <3>7. Bases' = Bases
      BY <1>3, <2>2 DEF Bases
    <3>. QED
      BY <1>1, <1>3, <3>3, <3>6, <3>7 DEF Shapes, Faithful, Mirror, Under
  <2>. QED
    BY <2>1, <2>2
<1>8. Here'
  BY <1>1, <1>3, <1>6 DEF Here, Under
<1>9. Separate'
  <2>1. typing # None => selecting' = None
    BY <1>1, <1>3 DEF Separate
  <2>. QED
    BY <1>3, <1>6, <2>1 DEF Separate
<1>10. Told'
  BY <1>1, <1>3, <1>5 DEF Told
<1>11. trail' \in [Hand -> Bounds \cup {None}] /\ \A x \in Hand : trail'[x] # None => x \in down'
  BY <1>1, <1>3 DEF TrailAfter, Owned, Shapes
<1>12. Owned'
  BY <1>1, <1>3, <1>6, <1>11 DEF Owned, Open
<1>13. Shapes'
  <2>1. start' \in [Hand -> Start \cup {None}]
    BY <1>3 DEF NoStart
  <2>2. channel' \subseteq Cell /\ plane' \subseteq Cell
    BY <1>1, <1>3, <1>5 DEF Shapes
  <2>. QED
    BY <1>1, <1>3, <1>7, <1>11, <2>1, <2>2 DEF Shapes
<1>. QED
  BY <1>7, <1>8, <1>9, <1>10, <1>12, <1>13 DEF PointerInv

-----------------------------------------------------------------------------
(* The theorem.                                                            *)

\* The first state is at rest.
LEMMA InitPointer ==
  ASSUME Init
  PROVE  PointerInv
<1>1. /\ content = [b \in Block |-> [c \in Cell |-> Blank]] /\ recorded = content
      /\ breath \in Breath /\ canvas = Mirror(breath)
      /\ plane = {} /\ channel = {} /\ down = {}
      /\ tool \in [Hand -> ImageTool \cup SelectTool] /\ \A h \in Hand : tool[h] \in Tools[h]
      /\ trail = [h \in Hand |-> None] /\ start = [h \in Hand |-> None]
      /\ lasso = None /\ selecting = None /\ moving = None /\ typing = None
  BY DEF Init, NoStart
<1>2. [c \in Cell |-> Blank] \in Canvas
  BY Ground DEF Canvas
<1>3. content \in [Block -> Canvas] /\ canvas \in Canvas
  BY <1>1, <1>2, Ground DEF Mirror
<1>4. Open = {} /\ Bases = {canvas}
  BY <1>1 DEF Open, Bases
<1>5. Faithful
  BY <1>1, <1>4, Ground DEF Faithful, Mirror
<1>6. Shapes
  BY <1>1, <1>3 DEF Shapes
<1>. QED
  BY <1>1, <1>4, <1>5, <1>6 DEF PointerInv, Owned, Here, Separate, Told

\* Every step keeps the invariant.
LEMMA PointerStep ==
  ASSUME IdleScrub, Apart, PointerInv, [Next]_vars
  PROVE  PointerInv'
<1>1. ASSUME NEW h \in Hand, NEW p \in Bounds, PressAt(h, p)
      PROVE  PointerInv'
  <2>1. CASE PressBrush(h, p)
    <3>1. Shapes
      BY DEF PointerInv
    <3>2. Painted({p}, Ink[h]) \in Canvas
      BY <3>1, PaintWhole
    <3>. QED
      BY <2>1, <3>2, PressPaints DEF PressBrush
  <2>2. CASE PressStamp(h, p)
    <3>1. Shapes
      BY DEF PointerInv
    <3>2. Painted({p, p + 1} \cap Bounds, Ink[h]) \in Canvas
      BY <3>1, PaintWhole
    <3>. QED
      BY <2>2, <3>2, PressPaints DEF PressStamp
  <2>3. CASE PressLasso(h, p) \/ PressText(h, p)
    BY <2>3, PressAlone
  <2>4. CASE PressBound(h, p) \/ PressSelect(h, p) \/ PressMove(h, p) \/ PressNothing(h, p)
    BY <2>4, PressQuiet
  <2>. QED
    BY <1>1, <2>1, <2>2, <2>3, <2>4 DEF PressAt
<1>2. ASSUME NEW h \in Hand, NEW p \in Bounds, DragTo(h, p)
      PROVE  PointerInv'
  BY <1>2, DragStep, PaintStep DEF DragTo
<1>3. ASSUME NEW h \in Hand, PressChrome(h) \/ PressOutside(h) \/ DragChrome(h)
      PROVE  PointerInv'
  BY <1>3, ChromeStep
<1>4. ASSUME NEW h \in Hand, NEW t \in ImageTool \cup SelectTool, SwitchTool(h, t) \/ TakeTool(h, t)
      PROVE  PointerInv'
  BY <1>4, ToolStep
<1>5. ASSUME NEW up \in SUBSET Hand, NEW p \in Bounds \cup {None}, Release(up, p)
      PROVE  PointerInv'
  BY <1>5, ReleaseStep
<1>6. ASSUME NEW c \in Bounds, NEW ink \in {Ink["left"], Blank}, TypeKey(c, ink)
      PROVE  PointerInv'
  BY <1>6, KeyStep
<1>7. CASE NextSegment \/ \E by \in SUBSET {"left"} : EndTyping(by)
  BY <1>7, SegmentStep
<1>8. ASSUME NEW br \in Breath, Scrub(br)
      PROVE  PointerInv'
  BY <1>8, ScrubStep
<1>9. CASE UNCHANGED vars
  <2>1. /\ UNCHANGED <<content, recorded, canvas, breath, start, typing>>
        /\ UNCHANGED <<channel, trail, lasso, selecting, moving, plane, down, tool, stray>>
    BY <1>9 DEF vars, document, slots
  <2>2. Faithful' /\ Here' /\ Open' = Open
    BY <2>1, QuietFacts
  <2>3. Owned' /\ Shapes' /\ Separate' /\ Told'
    BY <2>1, <2>2 DEF PointerInv, Owned, Shapes, Separate, Told
  <2>. QED
    BY <2>2, <2>3 DEF PointerInv
<1>10. CASE Next
  BY <1>1, <1>2, <1>3, <1>4, <1>5, <1>6, <1>7, <1>8, <1>10 DEF Next
<1>. QED
  BY <1>9, <1>10

\* At rest the log shows what the blocks hold.
LEMMA RestFacts ==
  ASSUME PointerInv
  PROVE  AtRest
<1>1. Shapes /\ Faithful /\ Told /\ Owned
  BY DEF PointerInv
<1>2. PointerTypeOK
  BY <1>1, Ground DEF PointerTypeOK, Shapes, Lasso, Selecting, Moving
<1>3. ASSUME Idle
      PROVE  content = recorded /\ canvas = Mirror(breath)
  <2>1. Open = {} /\ typing = None
    BY <1>1, <1>3 DEF Idle, Owned, Open
  <2>2. Under(breath) # None => recorded[Under(breath)] = canvas /\ content[Under(breath)] = canvas
    BY <1>1, <2>1 DEF Faithful, Bases, Mirror
  <2>3. \A b \in Block : recorded[b] = content[b]
    BY <1>1, <2>2, Ground DEF Faithful
  <2>. QED
    BY <1>1, <2>3 DEF Shapes, Faithful
<1>. QED
  BY <1>1, <1>2, <1>3 DEF AtRest, Told

\* With the playhead moved only between strokes, and an image lasso or a typing
\* session held alone, every stroke of either hand, drag, fill, move, stamp,
\* typing session and cancel comes to rest with the canvas of every block what
\* a replay of the log gives, and the document's selection channel what the
\* plane shows.
THEOREM AtRestCorrect ==
  ASSUME IdleScrub, Apart
  PROVE  Spec => []AtRest
<1>1. Init => PointerInv
  BY InitPointer
<1>2. PointerInv /\ [Next]_vars => PointerInv'
  BY PointerStep
<1>3. PointerInv => AtRest
  BY RestFacts
<1>. QED
  BY <1>1, <1>2, <1>3, PTL DEF Spec

=============================================================================
