----------------------------- MODULE PanelFace -----------------------------
(***************************************************************************)
(* What the layers panel shows: LayersPanelModule walks its rows three      *)
(* times, to draw them (draw), to explain them (hotspots) and to act on a   *)
(* press (on_pointer_event), and each walk has columns and clippings of its *)
(* own.  PanelGestures has what a press does; here is which control a cell  *)
(* shows, which one its tooltip names and which one a press on it finds.    *)
(*                                                                         *)
(* A cell is a row and a column of the panel, a control a tuple that starts *)
(* with its name.  Left out: texts, glyphs and colors as such, the frame    *)
(* and its gizmos, hovering, and the playhead's mark, which lies over       *)
(* whatever a track shows.                                                  *)
(***************************************************************************)
EXTENDS PanelGestures

\* COL_VISIBLE .. TIMELINE_START, and the two ends of the time line.
ColVisible == 1
ColLock == 3
ColDelete == 5
ColName == 9
TimelineStart == 18
TimelineEnd == TimelineStart + View
PlayButton == 1..8
LoopButton == 10..17
Column == 1..(TimelineEnd + 1)

BreathAtX(x) == Min({Max({x, TimelineStart}), TimelineEnd}) - TimelineStart
XForBreath(b) == TimelineStart + Min({b, View})

\* visible_rows: four rows for the document, a row for each layer, and under the
\* selected one a row for each of its tracks.
Rows ==
  LET LayerRows(l) ==
        <<[is |-> "layer", of |-> l]>> \o
        (IF l = session.active THEN <<[is |-> "track", of |-> "raster"], [is |-> "track", of |-> "move"]>>
         ELSE <<>>)
      layers == SetToSortSeq(DOMAIN rt.layers, <)
  IN  <<[is |-> "auto-key"], [is |-> "ruler"], [is |-> "transport"], [is |-> "add"]>>
        \o FlattenSeq([i \in DOMAIN layers |-> LayerRows(layers[i])])

Blocks(p) == TrackOf(rt, session.active, p)
-----------------------------------------------------------------------------
(* draw.                                                                   *)

\* From its first column a bar is drawn for its length, or to the panel's edge.
DrawnFrom(start, len) == XForBreath(start)..Min({XForBreath(start) + len - 1, TimelineEnd})

HeadFace(is) ==
  CASE is = "auto-key" -> [x \in 1..12 |-> <<"auto-key">>]
    [] is = "ruler" -> [x \in TimelineStart..TimelineEnd |->
                         <<"breath", IF x = XForBreath(session.breath) THEN session.breath
                                     ELSE x - TimelineStart>>]
    [] is = "transport" ->
         [x \in PlayButton \cup LoopButton \cup DrawnFrom(BarSpan.start, BarSpan.end - BarSpan.start + 1) |->
            IF x \in PlayButton THEN <<"play">> ELSE IF x \in LoopButton THEN <<"loop">> ELSE <<"window">>]
    [] is = "add" -> [x \in 1..11 |-> <<"add">>]

LayerFace(l) ==
  [x \in {ColVisible, ColLock, ColDelete} \cup ColName..(TimelineStart - 2) |->
     CASE x = ColVisible -> <<"visible", l>>
       [] x = ColLock -> <<"lock", l>>
       [] x = ColDelete -> <<"delete", l>>
       [] OTHER -> <<"name", l>>]

\* The timing drag of this track that asks for a span, if its block is there.
Preview(p, bs) ==
  IF /\ hold.block # None /\ hold.block.mode # "swap" /\ hold.block.span # None
     /\ hold.block.layer = session.active /\ hold.block.property = p
  THEN IndexOf(bs, hold.block.id) ELSE {}

\* The trailing blank has no end.
Endless(bs, i) == i = Len(bs) /\ bs[i].blank

\* A dragged block is drawn where the drag asks for it, the others where they are.
DrawnSpan(bs, preview, i) ==
  CASE i \in preview -> hold.block.span
    [] i \notin preview /\ Endless(bs, i) -> <<bs[i].start, TimelineEnd>>
    [] OTHER -> <<bs[i].start, bs[i].len>>

DrawnAt(bs, preview, x) ==
  {i \in DOMAIN bs : LET s == DrawnSpan(bs, preview, i) IN x \in DrawnFrom(s[1], s[2])}

\* Mutant: the blocks are drawn in one pass.
OnTopInOrder(drawn, preview) == Max(drawn)

\* Two passes: the dragged block lies over the others.
OnTop(drawn, preview) == IF drawn \cap preview # {} THEN Max(drawn \cap preview) ELSE Max(drawn)

\* property_track_cell_graphic and property_blank_cell_graphic: the glyph tells
\* the piece of the bar.
ShownPiece(span, x) ==
  LET at == x - XForBreath(span[1]) IN
  CASE span[2] = 1 -> "single"
    [] span[2] > 1 /\ at = 0 -> "left"
    [] span[2] > 1 /\ at + 1 = span[2] -> "right"
    [] OTHER -> "center"

TrackFace(p) ==
  LET bs == Blocks(p)
      preview == Preview(p, bs)
  IN  [x \in {y \in TimelineStart..TimelineEnd : DrawnAt(bs, preview, y) # {}} |->
         LET i == OnTop(DrawnAt(bs, preview, x), preview)
         IN  <<"block", p, i, ShownPiece(DrawnSpan(bs, preview, i), x)>>]

Face(row) ==
  CASE row.is = "layer" -> LayerFace(row.of)
    [] row.is = "track" -> TrackFace(row.of)
    [] OTHER -> HeadFace(row.is)

\* property_block_interaction_style: the blocks a drag has lit.
Lit(p) ==
  LET d == hold.block IN
  IF d = None \/ d.layer # session.active \/ d.property # p THEN {}
  ELSE IndexOf(Blocks(p), d.id) \cup (IF d.mode = "swap" THEN IndexOf(Blocks(p), d.other) ELSE {})
-----------------------------------------------------------------------------
(* hotspots, and where a left press goes (on_pointer_event).               *)

\* The first four rows are counted, not looked up.
Spots(i, row) ==
  CASE i = 1 -> {<<ColVisible..(TimelineStart - 2), "auto-key">>}
    [] i = 2 -> {<<TimelineStart..TimelineEnd, "breath">>}
    [] i = 3 -> {<<PlayButton, "play">>, <<LoopButton, "loop">>, <<TimelineStart..TimelineEnd, "window">>}
    [] i = 4 -> {<<1..12, "add">>}
    [] i > 4 /\ row.is = "layer" ->
         {<<{ColVisible}, "visible">>, <<{ColLock}, "lock">>, <<{ColDelete}, "delete">>,
          <<ColName..(TimelineStart - 2), "name">>}
    [] i > 4 /\ row.is = "track" -> {<<1..TimelineEnd, "block">>}

Found(row, x) ==
  LET b == BreathAtX(x) IN
  CASE row.is \in {"auto-key", "add"} -> {<<row.is>>}
    [] row.is = "ruler" -> {<<"breath", b>>}
    [] row.is = "transport" /\ x < TimelineStart ->
         IF x \in PlayButton THEN {<<"play">>} ELSE IF x \in LoopButton THEN {<<"loop">>} ELSE {}
    [] row.is = "transport" /\ x >= TimelineStart ->
         IF b \in BarSpan.start..BarSpan.end THEN {<<"window">>} ELSE {}
    [] row.is = "layer" ->
         {<<CASE x = ColVisible -> "visible" [] x = ColLock -> "lock" [] x = ColDelete -> "delete"
              [] x \in ColName..(TimelineStart - 2) -> "name" [] OTHER -> "select", row.of>>}
    [] row.is = "track" ->
         {<<"block", row.of, i, Piece(Blocks(row.of)[i], b)>> : i \in BlockHit(Blocks(row.of), b)}
-----------------------------------------------------------------------------
\* The last column shows what begins beyond it as well.
Certain == Column \ {TimelineEnd}

\* Which piece of the trailing blank is hit is left to its stored length.
SameControl(shown, found) ==
  /\ shown[1] = found[1]
  /\ IF shown[1] = "block" /\ Endless(Blocks(shown[2]), shown[3])
     THEN shown[2] = found[2] /\ shown[3] = found[3] ELSE shown = found

DragShown(p) ==
  LET bs == Blocks(p)
      preview == Preview(p, bs)
      shown == TrackFace(p)
  IN  {x \in DOMAIN shown \cap Certain : shown[x][3] \in Lit(p)} =
        Certain \cap UNION {LET s == DrawnSpan(bs, preview, i) IN DrawnFrom(s[1], s[2]) : i \in Lit(p)}

\* A press acts on the control that the cell shows, and its tooltip is about it:
\* on the fixed controls, on the piece of the block that is drawn there, with
\* bars that begin or end beyond the panel, and on the window's bar while it is
\* dragged.  On the track of a timing drag the block is shown, lit and before
\* the others, on all of the span that its release asks for, though the document
\* still has it elsewhere (draw, hotspots, property_block_hit_at,
\* loop_window_hit_at).
FaceTrue ==
  LET rows == Rows IN
  \A i \in DOMAIN rows :
    LET row == rows[i]
        face == Face(row)
        spots == Spots(i, row)
        asked == row.is = "track" /\ Preview(row.of, Blocks(row.of)) # {}
    IN
    /\ row.is = "track" /\ hold.block # None => DragShown(row.of)
    /\ \A x \in DOMAIN face \cap Certain :
         LET shown == face[x] IN
         /\ \E spot \in spots : x \in spot[1] /\ spot[2] = shown[1]
         /\ asked \/ \E found \in Found(row, x) : SameControl(shown, found)
=============================================================================
