---------------------------- MODULE LayersPanel ----------------------------
(***************************************************************************)
(* A painter edits the structure of a document: the gestures of the layers  *)
(* panel (layers_panel_module.rs), what apply_layers_panel_action makes of  *)
(* them (layers_runtime.rs), and the strokes, undos and move drags that     *)
(* change the same tracks.  Every panel edit saves the snapshot and then    *)
(* appends a record of the whole structure; a stroke appends its record     *)
(* only; a move drag or a new pivot saves the snapshot only.                *)
(*                                                                         *)
(* The document is worked on alone, so the log on disk is the log in        *)
(* memory and no save is refused (DocumentStore has the guards).  A drag is *)
(* one step: the panel holds the pointer until the release, and what it     *)
(* asks for is read off the block at the press.                             *)
(***************************************************************************)
EXTENDS DocumentStructure

CONSTANTS MaxBreath,  \* bound: a track's stored extent
          Grips,    \* bound: the tracks whose bars are dragged and clicked
          MaxEdits,   \* bound: records and writes of the snapshot alone, together
          MaxStructures, \* bound: panel edits
          MaxSnaps,   \* bound: writes of the snapshot without a record
          MaxOffset,  \* bound: a move value
          MoveBreaths \* bound: the breaths at which a layer is moved

VARIABLES
  rt,         \* SharedDocumentRuntime
  log,        \* its actions, and the log on disk
  disk,       \* the layers in the saved snapshot
  retired,    \* history: blocks that a stroke worked on and an edit blanked or removed
  snaps       \* history: how many steps wrote the snapshot only

vars == <<rt, log, disk, retired, snaps>>

First == Min(Layer)
NewId == Len(log) + 1
Edits == Len(log) + snaps
Structures == Cardinality({i \in DOMAIN log : log[i].kind = "structure"})
Tracks == (DOMAIN rt.layers) \X Property
BarsInReach == (DOMAIN rt.layers) \X Grips
Fits(x) == \A l \in DOMAIN x.layers, p \in Property : EndOf(Last(TrackOf(x, l, p))) <= MaxBreath

Init ==
  /\ rt = NewRuntime(Sole(First))
  /\ log = <<>>
  /\ disk = Sole(First)
  /\ retired = {}
  /\ snaps = 0

Worked(records) == {<<records[i].layer, records[i].block>> :
                      i \in {j \in DOMAIN records : records[j].kind = "stroke"}}
Solids(x) == {k \in Worked(log) : /\ k[1] \in DOMAIN x.layers
                                  /\ \E i \in DOMAIN x.layers[k[1]].raster :
                                       LET b == x.layers[k[1]].raster[i] IN b.id = k[2] /\ ~b.blank}

\* apply_layers_panel_action after its edit: the snapshot, then the record.
Commit(x, records) ==
  /\ Edits + Len(records) < MaxEdits /\ Structures < MaxStructures
  /\ Fits(x)
  /\ rt' = x
  /\ disk' = x.layers
  /\ log' = log \o records \o <<Structure(x.layers)>>
  /\ retired' = retired \cup (Worked(log) \ Solids(x))
  /\ UNCHANGED snaps

\* The pieces of a bar (classify_bar_piece) that a gesture needs; the last
\* blank is all center past its stored extent.
IsSingle(b) == b.len = 1
HasHeads(b) == b.len >= 2
HasCenter(bs, i) == bs[i].len >= 3 \/ (bs[i].blank /\ i = Len(bs))

\* resolve_property_drag_mode and the spans a drag may ask for.
TrimSpans(b) == {<<s, EndOf(b) - s>> : s \in 0..(EndOf(b) - 1)}
                  \cup {<<b.start, e - b.start>> : e \in (b.start + 1)..MaxBreath}
MoveSpans(b) == {<<s, b.len>> : s \in 0..(MaxBreath - b.len)}

PushedSpans(b) == IF HasHeads(b) THEN TrimSpans(b) ELSE {}
DestructiveSpans(b) ==
  TrimSpans(b) \cup (IF ~b.blank /\ (IsSingle(b) \/ b.len >= 3) THEN MoveSpans(b) ELSE {})

\* set_property_block_timing_destructive.
DestructiveEdit(l, p, bs, i, span) ==
  EditTrack(rt, l, p, Destructive(bs, i, span[1], span[2]),
            DestructiveDrops(bs, i, span[1], span[2]) \cup DestructiveAdds(bs, i, span[1], span[2]))

DragPushed ==
  \E t \in BarsInReach : \E i \in DOMAIN TrackOf(rt, t[1], t[2]) :
    LET bs == TrackOf(rt, t[1], t[2]) IN
    \E span \in PushedSpans(bs[i]) :
      Commit(EditTrack(rt, t[1], t[2], Pushed(bs, i, span[1], span[2]), {}), <<>>)

DragDestructive ==
  \E t \in BarsInReach : \E i \in DOMAIN TrackOf(rt, t[1], t[2]) :
    LET bs == TrackOf(rt, t[1], t[2]) IN
    \E span \in DestructiveSpans(bs[i]) :
      Commit(DestructiveEdit(t[1], t[2], bs, i, span), <<>>)

DragSwap ==
  \E t \in BarsInReach : \E i \in DOMAIN TrackOf(rt, t[1], t[2]) :
    LET bs == TrackOf(rt, t[1], t[2]) IN
    /\ HasCenter(bs, i)
    /\ \E j \in DOMAIN bs \ {i} : Commit(EditTrack(rt, t[1], t[2], Swap(bs, i, j), {}), <<>>)

\* handle_property_block_double_click.  A copy of the data follows the new
\* block as a stroke of its own, which is applied like any other.
\* Mutant: the copy is applied and not recorded.
WithCopyUnrecorded(x, l, p, source, new) ==
  Commit(FoldLeft(ApplyRecord, x, Propagation(x, NewId, l, p, source, new)), <<>>)

WithCopy(x, l, p, source, new) ==
  LET copy == Propagation(x, NewId, l, p, source, new)
  IN  Commit(FoldLeft(ApplyRecord, x, copy), copy)

SplitBlock ==
  \E t \in BarsInReach : \E i \in DOMAIN TrackOf(rt, t[1], t[2]) :
    LET bs == TrackOf(rt, t[1], t[2])
        new == NextBlockId(bs)
        gone == IF t[2] = "raster" THEN {<<t[1], new>>} ELSE {}
    IN  \E at \in (bs[i].start + 1)..(EndOf(bs[i]) - 2) :
          /\ CanSplit(bs[i], at)
          /\ WithCopy([SetTrack(rt, t[1], t[2], Split(bs, i, at)) EXCEPT !.canvas = Without(@, gone)],
                      t[1], t[2], bs[i].id, new)

DuplicateBlock ==
  \E t \in BarsInReach : \E i \in DOMAIN TrackOf(rt, t[1], t[2]) :
    LET bs == TrackOf(rt, t[1], t[2]) IN
    /\ ~bs[i].blank /\ IsSingle(bs[i])
    /\ WithCopy(EditTrack(rt, t[1], t[2], Duplicate(bs, i), {NextBlockId(bs)}),
                t[1], t[2], bs[i].id, NextBlockId(bs))

BlankSolid ==
  \E t \in BarsInReach : \E i \in DOMAIN TrackOf(rt, t[1], t[2]) :
    LET bs == TrackOf(rt, t[1], t[2]) IN
    /\ ~bs[i].blank /\ bs[i].len # 2
    /\ Commit(EditTrack(rt, t[1], t[2], [bs EXCEPT ![i].blank = TRUE], {bs[i].id}), <<>>)

\* A merge of a track without content is refused, and still recorded.
MergeBlank ==
  \E t \in BarsInReach : \E i \in DOMAIN TrackOf(rt, t[1], t[2]), preferLeft \in BOOLEAN :
    LET bs == TrackOf(rt, t[1], t[2]) IN
    /\ bs[i].blank
    /\ preferLeft \/ HasHeads(bs[i])
    /\ Commit(IF CanMerge(bs, i)
              THEN EditTrack(rt, t[1], t[2], MergeEmpty(bs, i, preferLeft), {bs[i].id}) ELSE rt,
              <<>>)

CycleBlankMode ==
  \E t \in BarsInReach : \E i \in DOMAIN TrackOf(rt, t[1], t[2]) :
    LET bs == TrackOf(rt, t[1], t[2]) IN
    /\ bs[i].blank /\ (IsSingle(bs[i]) \/ HasCenter(bs, i))
    /\ Commit(SetTrack(rt, t[1], t[2], CycleMode(bs, i, t[2])), <<>>)

CycleBlankEase ==
  \E t \in BarsInReach : \E i \in DOMAIN TrackOf(rt, t[1], t[2]) :
    LET bs == TrackOf(rt, t[1], t[2]) IN
    /\ HasHeads(bs[i]) /\ bs[i].blank
    /\ \E eased \in {CycleEaseOut(bs, i), CycleEaseIn(bs, i)} :
         Commit(IF CanEase(bs[i]) THEN SetTrack(rt, t[1], t[2], eased) ELSE rt, <<>>)

\* create_layer takes the least free number; the last layer is not deleted.
AddRequested ==
  /\ Layer \ DOMAIN rt.layers # {}
  /\ Commit(AddLayer(rt, Min(Layer \ DOMAIN rt.layers)), <<>>)

DeleteLayer ==
  /\ Cardinality(DOMAIN rt.layers) > 1
  /\ \E l \in DOMAIN rt.layers : Commit(RemoveLayer(rt, l), <<>>)

ToggleTag ==
  \E l \in DOMAIN rt.layers : Commit([rt EXCEPT !.layers[l].tag = 1 - @], <<>>)

\* The canvas: a stroke on the block under the playhead, which may be blank.
PaintStroke ==
  /\ Edits < MaxEdits
  /\ \E l \in DOMAIN rt.layers : \E i \in DOMAIN rt.layers[l].raster, v \in Content :
       LET block  == rt.layers[l].raster[i].id
           before == Shown(rt.canvas, l, block)
           r      == Stroke(NewId, l, block, before, v)
       IN  /\ v # before
           /\ Fits(ApplyRecord(rt, r))
           /\ rt' = ApplyRecord(rt, r)
           /\ log' = Append(log, r)
  /\ UNCHANGED <<disk, retired, snaps>>

\* apply_shared_history_action.
UndoLast ==
  /\ Edits < MaxEdits
  /\ \E l \in {k \in DOMAIN rt.layers : rt.applied[k] # <<>>} :
       LET r == log[Last(rt.applied[l])] IN
       /\ rt' = UndoTop(rt, l, r)
       /\ log' = Append(log, Revert(r.id, l, r.block, r.before))
  /\ UNCHANGED <<disk, retired, snaps>>

RedoLast ==
  /\ Edits < MaxEdits
  /\ \E l \in {k \in DOMAIN rt.layers : rt.undone[k] # <<>>} :
       LET r == log[Last(rt.undone[l])] IN
       /\ rt' = RedoTop(rt, l, r)
       /\ log' = Append(log, Revert(r.id, l, r.block, r.after))
  /\ UNCHANGED <<disk, retired, snaps>>

\* commit_move_offset and commit_layer_origin: the snapshot is all they write.
CommitMove ==
  /\ snaps < MaxSnaps /\ Edits < MaxEdits
  /\ snaps' = snaps + 1
  /\ \E l \in DOMAIN rt.layers, breath \in MoveBreaths, authoring \in BOOLEAN :
       \E from \in ResolveMove(rt.layers[l].move, breath), delta \in {-1, 1} :
         LET x == EditTrack(rt, l, "move", MoveKeyed(rt.layers[l].move, breath, from + delta, authoring), {})
         IN  /\ from + delta \in (-MaxOffset)..MaxOffset
             /\ Fits(x)
             /\ rt' = x
             /\ disk' = x.layers
  /\ UNCHANGED <<log, retired>>

CommitPivot ==
  /\ snaps < MaxSnaps /\ Edits < MaxEdits
  /\ snaps' = snaps + 1
  /\ \E l \in DOMAIN rt.layers :
       /\ rt' = [rt EXCEPT !.layers[l].tag = 1 - @]
       /\ disk' = rt'.layers
  /\ UNCHANGED <<log, retired>>

\* file:save, and a restart: load_or_create_shared_document.
SaveSnapshot ==
  /\ disk # rt.layers
  /\ snaps < MaxSnaps /\ Edits < MaxEdits
  /\ snaps' = snaps + 1
  /\ disk' = rt.layers
  /\ UNCHANGED <<rt, log, retired>>

Reloaded == Replay(disk, log)

Restart ==
  /\ rt' = Reloaded
  /\ UNCHANGED <<log, disk, retired, snaps>>

PanelEdit ==
  /\ Edits < MaxEdits /\ Structures < MaxStructures
  /\ \/ DragPushed \/ DragDestructive \/ DragSwap
     \/ SplitBlock \/ DuplicateBlock \/ BlankSolid \/ MergeBlank
     \/ CycleBlankMode \/ CycleBlankEase
     \/ AddRequested \/ DeleteLayer \/ ToggleTag

CanvasEdit == PaintStroke \/ UndoLast \/ RedoLast \/ CommitMove \/ CommitPivot

Next == PanelEdit \/ CanvasEdit \/ SaveSnapshot \/ Restart

Spec == Init /\ [][Next]_vars

-----------------------------------------------------------------------------
BlockType ==
  [id : Nat \X Nat, start : 0..MaxBreath, len : 1..MaxBreath, blank : BOOLEAN,
   value : {NoValue} \cup (-MaxOffset)..MaxOffset,
   mode : {Modes[k] : k \in DOMAIN Modes}, out : 0..(Eases - 1), in : 0..(Eases - 1)]

\* Types: layers with two tracks of blocks, stacks that name strokes.
PanelTypeOK ==
  /\ DOMAIN rt.layers \subseteq Layer /\ DOMAIN rt.layers # {}
  /\ \A t \in Tracks : \A i \in DOMAIN TrackOf(rt, t[1], t[2]) : TrackOf(rt, t[1], t[2])[i] \in BlockType
  /\ DOMAIN rt.applied = DOMAIN rt.layers /\ DOMAIN rt.undone = DOMAIN rt.layers
  /\ \A l \in DOMAIN rt.layers : \A id \in Range(rt.applied[l]) \cup Range(rt.undone[l]) :
       log[id].kind = "stroke" /\ log[id].layer = l
  /\ \A k \in DOMAIN rt.canvas : k[1] \in Layer /\ rt.canvas[k] \in Color

\* Whatever the order of edits, every track covers each breath from 0 on with
\* one block, no two empties touch, the last block is an empty, and no id is
\* held twice (retiled_property_track, storage.rs).  (And all is well-typed.)
Tiled == PanelTypeOK /\
  \A t \in Tracks :
    LET bs == TrackOf(rt, t[1], t[2]) IN
    /\ bs[1].start = 0 /\ Last(bs).blank
    /\ \A i \in 1..(Len(bs) - 1) : EndOf(bs[i]) = bs[i + 1].start /\ ~(bs[i].blank /\ bs[i + 1].blank)
    /\ Cardinality(Ids(bs)) = Len(bs)

\* A loop mode is only found on the blank at its edge of the track, and eases
\* only on a blank whose mode bends (interp_mode.rs).
LoopsAtEdges(bs) ==
  \A i \in DOMAIN bs :
    /\ bs[i].mode = "loop_out" => bs[i].blank /\ i = Len(bs)
    /\ bs[i].mode = "loop_in" => bs[i].blank /\ i = 1
    /\ bs[i].out + bs[i].in > 0 => CanEase(bs[i])

\* Playback runs through a loop without a seam: from the first keyframe on to
\* infinity, or from the last one back to the start, every breath shows what
\* the breath one region further shows, in pictures and in moves, and never
\* nothing; no edit before has carried a loop off its edge.
LoopsRepeat ==
  \A t \in Tracks :
    LET bs == TrackOf(rt, t[1], t[2])
        from == bs[Min(SolidAt(bs))].start
        end == EndOf(bs[Max(SolidAt(bs))])
        Alike(b) == /\ ResolveRaster(bs, b) = ResolveRaster(bs, b + end - from) /\ ResolveRaster(bs, b) # Nothing
                    /\ ResolveMove(bs, b) = ResolveMove(bs, b + end - from)
    IN  /\ LoopsAtEdges(bs)
        /\ SolidAt(bs) # {} /\ Last(bs).mode = "loop_out" => \A b \in from..(end + MaxBreath) : Alike(b)
        /\ SolidAt(bs) # {} /\ bs[1].mode = "loop_in" => \A b \in 0..(from - 1) : Alike(b)

\* Whatever the order of edits, every track can be played at every breath, once
\* and only once covered, and loops without a seam.
TracksPlay == Tiled /\ LoopsRepeat

\* A restart finds the undo and the redo stacks of every layer as they were
\* and, as long as no edit has blanked or removed a block that was worked on,
\* every raster track and every canvas too.
Replays ==
  LET r == Reloaded IN
  /\ r.applied = rt.applied /\ r.undone = rt.undone
  /\ retired = {} =>
        /\ r.canvas = rt.canvas
        /\ \A l \in DOMAIN rt.layers : r.layers[l].raster = rt.layers[l].raster
=============================================================================
