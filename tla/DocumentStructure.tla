------------------------- MODULE DocumentStructure -------------------------
(***************************************************************************)
(* The structure half of a document's runtime (SharedDocumentRuntime in     *)
(* domain/file/storage/storage.rs): layers with their raster and move       *)
(* tracks, one canvas for each raster block, the undo stacks, and the log   *)
(* of records whose replay rebuilds all of it.  The operators are pure:     *)
(* each takes a runtime and returns the runtime a method leaves behind.     *)
(*                                                                         *)
(* Abstractions.  A canvas is the content of one cell, since cells do not   *)
(* interact; a block without an entry in `canvas` has an empty canvas.  A   *)
(* layer is its number.  Name, visibility, lock and pivot are one attribute *)
(* `tag`; the loop window, which travels beside the layers, is left out.    *)
(* A layer's own span is the same for all: nothing in the program starts    *)
(* the drag that would change it.  The id of a stroke is its place in the   *)
(* log.  Folding is in DocumentRuntime.                                     *)
(***************************************************************************)
EXTENDS PropertyTrack

CONSTANTS Layer,    \* the numbers a layer may take
          Color, Empty,
          Span      \* the length of a layer, from breath 0

ASSUME StructureAssumption ==
  /\ Layer \subseteq Nat \ {0}
  /\ Empty \notin Color
  /\ Span \in Nat \ {0}

Content == Color \cup {Empty}
Property == {"raster", "move"}

\* add_layer: a layer is born with both tracks on the default tiling.
NewLayer == [tag |-> 0, raster |-> DefaultTrack(0, Span), move |-> DefaultTrack(0, Span)]

\* A document's layers are a function from the numbers present.
Sole(l) == [k \in {l} |-> NewLayer]

Shown(canvas, l, id) == IF <<l, id>> \in DOMAIN canvas THEN canvas[<<l, id>>] ELSE Empty
SetCell(canvas, l, id, v) ==
  LET keys == IF v = Empty THEN DOMAIN canvas \ {<<l, id>>} ELSE DOMAIN canvas \cup {<<l, id>>}
  IN  [k \in keys |-> IF k = <<l, id>> THEN v ELSE canvas[k]]

\* The canvases that survive the loss of some keys.
Without(canvas, keys) == [k \in DOMAIN canvas \ keys |-> canvas[k]]

BlankKeys(layers) ==
  UNION {{<<l, layers[l].raster[i].id>> : i \in {j \in DOMAIN layers[l].raster : layers[l].raster[j].blank}}
           : l \in DOMAIN layers}

\* ensure_block_canvas_coverage: the canvas of a blank is emptied.
Coverage(layers, canvas) == Without(canvas, BlankKeys(layers))

\* SharedDocumentRuntime::new: every track is tiled again, no canvas has content.
NewRuntime(layers) ==
  [layers |-> [l \in DOMAIN layers |->
                 [layers[l] EXCEPT !.raster = Retile(@, 0, Span), !.move = Retile(@, 0, Span)]],
   canvas |-> << >>,
   applied |-> [l \in DOMAIN layers |-> <<>>],
   undone |-> [l \in DOMAIN layers |-> <<>>]]

\* The records: a stroke on a raster block, the passive revert of an undo or a
\* redo, and the whole structure.
Stroke(id, l, block, before, after) ==
  [kind |-> "stroke", id |-> id, layer |-> l, block |-> block, before |-> before, after |-> after]
Revert(of, l, block, after) ==
  [kind |-> "revert", id |-> of, layer |-> l, block |-> block, after |-> after]
Structure(layers) == [kind |-> "structure", layers |-> layers]

\* unblank_raster_block: painting into a blank makes it solid.
Unblank(rt, l, block) ==
  IF l \notin DOMAIN rt.layers THEN rt
  ELSE LET bs == rt.layers[l].raster
           solid == [i \in DOMAIN bs |-> IF bs[i].id = block THEN [bs[i] EXCEPT !.blank = FALSE]
                                         ELSE bs[i]]
           layers == [rt.layers EXCEPT ![l].raster = Retile(solid, 0, Span)]
       IN  [rt EXCEPT !.layers = layers, !.canvas = Coverage(layers, @)]

Painted(rt, l, block, v) ==
  LET solid == Unblank(rt, l, block) IN [solid EXCEPT !.canvas = SetCell(@, l, block, v)]

\* The stacks, one entry for each layer.
Stacked(rt, l, applied, undone) ==
  [rt EXCEPT !.applied = (l :> applied) @@ @, !.undone = (l :> undone) @@ @]
StackOf(stacks, l) == IF l \in DOMAIN stacks THEN stacks[l] ELSE <<>>
Dropped(s, x) == SelectSeq(s, LAMBDA y : y # x)

ApplyStroke(rt, r) ==
  Stacked(Painted(rt, r.layer, r.block, r.after), r.layer,
          Append(StackOf(rt.applied, r.layer), r.id), <<>>)

ApplyRevert(rt, r) ==
  LET p == Painted(rt, r.layer, r.block, r.after)
      applied == StackOf(p.applied, r.layer)
      undone == StackOf(p.undone, r.layer)
  IN  CASE Contains(applied, r.id) ->
             Stacked(p, r.layer, Dropped(applied, r.id), Append(undone, r.id))
        [] ~Contains(applied, r.id) /\ Contains(undone, r.id) ->
             Stacked(p, r.layer, Append(applied, r.id), Dropped(undone, r.id))
        [] OTHER -> p

\* apply_structure_set: the layers as recorded; canvases and stacks of layers
\* that are gone go too.
ApplyStructure(rt, r) ==
  [layers  |-> r.layers,
   canvas  |-> Coverage(r.layers, Without(rt.canvas, {k \in DOMAIN rt.canvas : k[1] \notin DOMAIN r.layers})),
   applied |-> [l \in DOMAIN r.layers |-> StackOf(rt.applied, l)],
   undone  |-> [l \in DOMAIN r.layers |-> StackOf(rt.undone, l)]]

\* apply_action_record and replay.
ApplyRecord(rt, r) ==
  CASE r.kind = "stroke" -> ApplyStroke(rt, r)
    [] r.kind = "revert" -> ApplyRevert(rt, r)
    [] r.kind = "structure" -> ApplyStructure(rt, r)

Replay(layers, log) == FoldLeft(ApplyRecord, NewRuntime(layers), log)

\* undo_top_action and redo_top_action: they paint and do not unblank.
UndoTop(rt, l, r) ==
  [Stacked(rt, l, Front(rt.applied[l]), Append(rt.undone[l], r.id))
     EXCEPT !.canvas = SetCell(@, l, r.block, r.before)]
RedoTop(rt, l, r) ==
  [Stacked(rt, l, Append(rt.applied[l], r.id), Front(rt.undone[l]))
     EXCEPT !.canvas = SetCell(@, l, r.block, r.after)]

\* A structure edit of one track: the new blocks, tiled, and the raster blocks
\* whose canvas the edit empties.
EditTrack(rt, l, p, blocks, emptied) ==
  LET layers == IF p = "raster" THEN [rt.layers EXCEPT ![l].raster = Retile(blocks, 0, Span)]
                ELSE [rt.layers EXCEPT ![l].move = Retile(blocks, 0, Span)]
      gone == IF p = "raster" THEN {l} \X emptied ELSE {}
  IN  [rt EXCEPT !.layers = layers, !.canvas = Coverage(layers, Without(@, gone))]

\* The same for the edits that do not tile the track again.
SetTrack(rt, l, p, blocks) ==
  IF p = "raster" THEN [rt EXCEPT !.layers[l].raster = blocks]
  ELSE [rt EXCEPT !.layers[l].move = blocks]

TrackOf(rt, l, p) == IF p = "raster" THEN rt.layers[l].raster ELSE rt.layers[l].move

AddLayer(rt, l) ==
  [layers  |-> (l :> NewLayer) @@ rt.layers,
   canvas  |-> Without(rt.canvas, {<<l, <<1, 0>>>>}),
   applied |-> (l :> <<>>) @@ rt.applied,
   undone  |-> (l :> <<>>) @@ rt.undone]

RemoveLayer(rt, l) ==
  LET rest == DOMAIN rt.layers \ {l}
  IN  [layers  |-> [k \in rest |-> rt.layers[k]],
       canvas  |-> Without(rt.canvas, {k \in DOMAIN rt.canvas : k[1] = l}),
       applied |-> [k \in rest |-> rt.applied[k]],
       undone  |-> [k \in rest |-> rt.undone[k]]]

\* split_data_propagation_record and duplicate_data_propagation_record: the
\* source's content, if it has any, as a stroke on the new block.
Propagation(rt, id, l, p, source, new) ==
  IF p = "raster" /\ Shown(rt.canvas, l, source) # Empty
  THEN <<Stroke(id, l, new, Empty, Shown(rt.canvas, l, source))>> ELSE <<>>
=============================================================================
