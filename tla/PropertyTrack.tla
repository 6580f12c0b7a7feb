--------------------------- MODULE PropertyTrack ---------------------------
(***************************************************************************)
(* The binary tiling of a property track (domain/file/storage/storage.rs): *)
(* a track is a sequence of blocks, solid or blank, that covers the breaths *)
(* from the layer's start to infinity; its last block is a blank that       *)
(* stands for all that follows.  Every edit reshapes some blocks and then   *)
(* tiles the track again.  The operators are pure: a track before the edit  *)
(* gives the track after it; an edit whose guard fails in the code (it      *)
(* returns false) has its guard in a predicate of its own.                  *)
(*                                                                         *)
(* Abstractions.  A block id is a pair: <<n, x>> is "block-n" followed by x *)
(* letters x, and TailId is "tail".  A move value is an integer, one axis   *)
(* of the offset.  An ease strength is its index in EASE_STRENGTHS.         *)
(* Breaths stay far below 2^32.                                             *)
(***************************************************************************)
EXTENDS Integers, Sequences, SequencesExt, FiniteSets, FiniteSetsExt

CONSTANTS NoValue,   \* a block without a payload
          Eases      \* the number of ease strengths

ASSUME TrackAssumption == NoValue \notin Int /\ Eases \in Nat \ {0}

TailId == <<0, 0>>
Modes == <<"interpolate", "hold", "smear", "loop_out", "loop_in">>
DefaultMode == Modes[1]

\* SharedDocumentPropertyBlock.
Solid(id, start, len, value) ==
  [id |-> id, start |-> start, len |-> len, blank |-> FALSE, value |-> value,
   mode |-> DefaultMode, out |-> 0, in |-> 0]
BlankBlock(id, start, len) == [Solid(id, start, len, NoValue) EXCEPT !.blank = TRUE]

EndOf(b) == b.start + b.len
Covers(b, breath) == b.start <= breath /\ breath < EndOf(b)
Ids(bs) == {bs[i].id : i \in DOMAIN bs}
ByStart(bs) ==
  LET order == SortSeq([i \in DOMAIN bs |-> i],
                       LAMBDA i, j : \/ bs[i].start < bs[j].start
                                     \/ bs[i].start = bs[j].start /\ i < j)
  IN  [k \in DOMAIN bs |-> bs[order[k]]]

\* next_property_block_id: the least number that no "block-n" of the track has.
NextBlockId(bs) == <<Min({n \in 1..(Len(bs) + 1) : <<n, 0>> \notin Ids(bs)}), 0>>

\* next_free_block_id: the same over what is tiled so far, kept apart from all used ids.
FreeBlockId(used, tiled) ==
  LET n == NextBlockId(tiled)[1]
  IN  <<n, Min({x \in 0..Cardinality(used) : <<n, x>> \notin used})>>

\* push_tiled_block.
PushTiled(bs, b) ==
  IF bs # <<>> /\ b.blank /\ Last(bs).blank
  THEN [bs EXCEPT ![Len(bs)].len = @ + b.len]
  ELSE Append(bs, b)

\* enforce_loop_mode_edges.
AtHome(bs, i) == CASE bs[i].mode = "loop_out" -> bs[i].blank /\ i = Len(bs)
                   [] bs[i].mode = "loop_in"  -> bs[i].blank /\ i = 1
                   [] OTHER -> TRUE
EnforceLoopEdges(bs) ==
  [i \in DOMAIN bs |-> IF AtHome(bs, i) /\ bs[i].blank THEN bs[i]
                       ELSE [bs[i] EXCEPT !.mode = DefaultMode, !.out = 0, !.in = 0]]

\* retiled_property_track, over a span: what lies left of it is cut off, gaps
\* become blanks, and an overlapped block is trimmed to its uncovered rest.
Clipped(bs, from) ==
  LET cut == [i \in DOMAIN bs |->
                IF bs[i].start >= from THEN bs[i]
                ELSE [bs[i] EXCEPT !.start = from, !.len = EndOf(bs[i]) - from]]
  IN  ByStart(SelectSeq(cut, LAMBDA b : b.len > 0))

Gap(t, b, id) ==
  [t EXCEPT !.tiled = PushTiled(@, BlankBlock(id, t.cursor, b.start - t.cursor)),
            !.cursor = b.start, !.used = @ \cup {id}]

Rest(t, b) ==
  [t EXCEPT !.tiled = PushTiled(@, [b EXCEPT !.start = t.cursor, !.len = EndOf(b) - t.cursor]),
            !.cursor = EndOf(b)]

TileOne(t, b) ==
  CASE EndOf(b) <= t.cursor -> t
    [] EndOf(b) > t.cursor /\ b.start > t.cursor -> Rest(Gap(t, b, FreeBlockId(t.used, t.tiled)), b)
    [] OTHER -> Rest(t, b)

Tiling(clipped, from) ==
  FoldLeft(TileOne, [tiled |-> <<>>, cursor |-> from, used |-> Ids(clipped)], clipped)

Covered(t, end) ==
  IF t.cursor < end
  THEN [t EXCEPT !.tiled = PushTiled(@, BlankBlock(FreeBlockId(t.used, t.tiled), t.cursor, end - t.cursor))]
  ELSE t

Closed(t) ==
  IF t.tiled = <<>> \/ Last(t.tiled).blank THEN t.tiled
  ELSE Append(t.tiled,
              BlankBlock(IF TailId \in t.used THEN FreeBlockId(t.used, t.tiled) ELSE TailId,
                         EndOf(Last(t.tiled)), 1))

Retile(bs, from, len) ==
  EnforceLoopEdges(Closed(Covered(Tiling(Clipped(bs, from), from), from + len)))

\* default_property_track.
DefaultTrack(start, len) == Retile(<<Solid(<<1, 0>>, start, len, NoValue)>>, start, len)

\* pushed_breath_span: the new start of another block when block i of bs goes
\* to the span (start, len).
PushedStart(b, o, start, len) ==
  CASE start # b.start /\ EndOf(o) <= b.start -> Max({o.start + start - b.start, 0})
    [] start + len # EndOf(b) /\ o.start >= EndOf(b) -> Max({o.start + start + len - EndOf(b), 0})
    [] OTHER -> o.start

Pushed(bs, i, start, len) ==
  [j \in DOMAIN bs |->
     IF j = i THEN [bs[i] EXCEPT !.start = start, !.len = len]
     ELSE [bs[j] EXCEPT !.start = PushedStart(bs[i], bs[j], start, len)]]

\* destructive_breath_span and the crops of set_property_block_timing_destructive:
\* a block inside the new span goes, a block around it is cropped on both
\* sides, and its second rest takes a new id.
Enclosed(b, start, len) == start <= b.start /\ EndOf(b) <= start + len
Straddles(b, start, len) == b.start < start /\ start + len < EndOf(b)

Cropped(b, start, len, splitId) ==
  LET end == start + len
      left == [b EXCEPT !.len = start - b.start]
      right == [b EXCEPT !.start = end, !.len = EndOf(b) - end]
  IN  CASE EndOf(b) <= start \/ b.start >= end -> <<b>>
        [] Enclosed(b, start, len) -> <<>>
        [] Straddles(b, start, len) ->
             <<left, [right EXCEPT !.id = splitId, !.mode = DefaultMode, !.out = 0, !.in = 0]>>
        [] b.start < start /\ start < EndOf(b) /\ EndOf(b) <= end -> <<left>>
        [] start <= b.start /\ b.start < end /\ end < EndOf(b) -> <<right>>

Destructive(bs, i, start, len) ==
  FlattenSeq([j \in DOMAIN bs |->
                IF j = i THEN <<[bs[i] EXCEPT !.start = start, !.len = len]>>
                ELSE Cropped(bs[j], start, len, NextBlockId(bs))])

DestructiveDrops(bs, i, start, len) ==
  {bs[j].id : j \in {k \in DOMAIN bs \ {i} : Enclosed(bs[k], start, len)}}
DestructiveAdds(bs, i, start, len) ==
  IF \E j \in DOMAIN bs \ {i} : Straddles(bs[j], start, len) THEN {NextBlockId(bs)} ELSE {}

\* split_property_block.
CanSplit(b, at) == ~b.blank /\ b.start < at /\ at < EndOf(b)
Split(bs, i, at) ==
  LET left == [bs EXCEPT ![i].len = at - bs[i].start]
  IN  InsertAt(left, i + 1, Solid(NextBlockId(bs), at, EndOf(bs[i]) - at, bs[i].value))

\* merge_empty_property_block: the solid neighbour that takes the span of a
\* blank, the preferred side first.
MergeTargets(bs, i) == {j \in {i - 1, i + 1} \cap DOMAIN bs : ~bs[j].blank}
CanMerge(bs, i) == bs[i].blank /\ MergeTargets(bs, i) # {}
MergeEmpty(bs, i, preferLeft) ==
  LET j == IF preferLeft THEN Min(MergeTargets(bs, i)) ELSE Max(MergeTargets(bs, i))
      grown == [bs EXCEPT ![j].start = Min({@, bs[i].start}), ![j].len = @ + bs[i].len]
  IN  RemoveAt(grown, i)

\* swap_property_blocks and duplicate_property_block.
Swap(bs, i, j) ==
  [bs EXCEPT ![i].start = bs[j].start, ![i].len = bs[j].len,
             ![j].start = bs[i].start, ![j].len = bs[i].len]

Duplicate(bs, i) ==
  LET pushed == [j \in DOMAIN bs |-> IF bs[j].start >= EndOf(bs[i])
                                     THEN [bs[j] EXCEPT !.start = @ + bs[i].len] ELSE bs[j]]
      copy == [Solid(NextBlockId(bs), EndOf(bs[i]), bs[i].len, bs[i].value)
                 EXCEPT !.blank = bs[i].blank]
  IN  InsertAt(pushed, i + 1, copy)

\* mode_allowed_for_property_at, next_mode and cycle_property_block_interp_mode.
ModeAllowed(mode, property, isFirst, isLast) ==
  /\ mode = "loop_out" => isLast
  /\ mode = "loop_in" => isFirst
  /\ mode = "smear" => property = "raster" /\ ~isFirst /\ ~isLast
EaseAdjustable(mode) == mode \in {"interpolate", "smear"}

NextMode(bs, i, property) ==
  LET k == CHOOSE k \in DOMAIN Modes : Modes[k] = bs[i].mode
      After(n) == Modes[((k - 1 + n) % Len(Modes)) + 1]
      n == Min({m \in 1..Len(Modes) : ModeAllowed(After(m), property, i = 1, i = Len(bs))})
  IN  After(n)

CycleMode(bs, i, property) ==
  LET mode == NextMode(bs, i, property)
      eased == [bs EXCEPT ![i].mode = mode]
  IN  IF EaseAdjustable(mode) THEN eased ELSE [eased EXCEPT ![i].out = 0, ![i].in = 0]

CanEase(b) == b.blank /\ EaseAdjustable(b.mode)
CycleEaseOut(bs, i) == [bs EXCEPT ![i].out = (@ + 1) % Eases]
CycleEaseIn(bs, i) == [bs EXCEPT ![i].in = (@ + 1) % Eases]

(***************************************************************************)
(* The move channel (interp_move.rs): the offsets that a breath may         *)
(* resolve to.  The rounded, eased and staggered blend of two keyframes is  *)
(* any offset between them.                                                 *)
(***************************************************************************)
KeyValue(b) == IF b.value = NoValue THEN 0 ELSE b.value
SolidAt(bs) == {j \in DOMAIN bs : ~bs[j].blank}
SolidBefore(bs, i) == {j \in SolidAt(bs) : j < i}
SolidAfter(bs, i) == {j \in SolidAt(bs) : j > i}

Hold(bs, i) ==
  CASE SolidBefore(bs, i) # {} -> {KeyValue(bs[Max(SolidBefore(bs, i))])}
    [] SolidBefore(bs, i) = {} /\ SolidAfter(bs, i) # {} -> {KeyValue(bs[Min(SolidAfter(bs, i))])}
    [] OTHER -> {0}

Interpolate(bs, i) ==
  IF SolidBefore(bs, i) = {} \/ SolidAfter(bs, i) = {} THEN Hold(bs, i)
  ELSE LET from == KeyValue(bs[Max(SolidBefore(bs, i))])
           to   == KeyValue(bs[Min(SolidAfter(bs, i))])
       IN  Min({from, to})..Max({from, to})

ResolveInside(bs, i) ==
  CASE ~bs[i].blank -> {KeyValue(bs[i])}
    [] bs[i].blank /\ bs[i].mode = "hold" -> Hold(bs, i)
    [] OTHER -> Interpolate(bs, i)

\* Mutant: a loop-in is mirrored about the end of the last keyframe, one too far.
LoopedBreathPast(bs, i, breath) ==
  LET from == bs[Min(SolidAt(bs))].start
      end  == EndOf(bs[Max(SolidAt(bs))])
  IN  IF bs[i].mode = "loop_in"
      THEN end - 1 - ((EndOf(bs[i]) - breath) % (end - from))
      ELSE from + ((breath - bs[i].start) % (end - from))

LoopedBreath(bs, i, breath) ==
  LET from == bs[Min(SolidAt(bs))].start
      end  == EndOf(bs[Max(SolidAt(bs))])
  IN  IF bs[i].mode = "loop_in"
      THEN end - 1 - ((EndOf(bs[i]) - 1 - breath) % (end - from))
      ELSE from + ((breath - bs[i].start) % (end - from))

BlockAt(bs, breath) == {i \in DOMAIN bs : Covers(bs[i], breath)}

\* resolve_move_offset: a breath past the stored extent resolves as the last blank.
ResolveMove(bs, breath) ==
  LET i == IF BlockAt(bs, breath) = {} THEN Len(bs) ELSE Min(BlockAt(bs, breath))
  IN  CASE bs[i].mode \in {"loop_out", "loop_in"} /\ SolidAt(bs) = {} -> {0}
        [] bs[i].mode \in {"loop_out", "loop_in"} /\ SolidAt(bs) # {} ->
             ResolveInside(bs, Min(BlockAt(bs, LoopedBreath(bs, i, breath))))
        [] OTHER -> ResolveInside(bs, i)

(***************************************************************************)
(* The raster channel (interp_raster.rs): what a breath shows is nothing,   *)
(* the canvas of one keyframe, or a tween of two.  Every solid block has a  *)
(* canvas.  The progress of a tween is a fraction, before its eases bend it *)
(* (empty_progress): it is neither 0 nor 1 inside an empty.                 *)
(***************************************************************************)
Nothing == [shows |-> "nothing"]
Still(j) == [shows |-> "still", key |-> j]
Tween(how, i, j, b, breath) ==
  [shows |-> how, from |-> i, to |-> j, out |-> b.out, in |-> b.in,
   num |-> breath - b.start + 1, den |-> b.len + 1]

\* hold, and a tween that lacks a side: the keyframe before, else the one after.
Kept(bs, i) ==
  CASE SolidBefore(bs, i) # {} -> Still(Max(SolidBefore(bs, i)))
    [] SolidBefore(bs, i) = {} /\ SolidAfter(bs, i) # {} -> Still(Min(SolidAfter(bs, i)))
    [] OTHER -> Nothing

RasterInside(bs, i, breath) ==
  CASE ~bs[i].blank -> Still(i)
    [] bs[i].blank /\ bs[i].mode # "hold" /\ SolidBefore(bs, i) # {} /\ SolidAfter(bs, i) # {} ->
         Tween(bs[i].mode, Max(SolidBefore(bs, i)), Min(SolidAfter(bs, i)), bs[i], breath)
    [] OTHER -> Kept(bs, i)

\* resolve_loop: a loop shows the breath of the authored region it maps to,
\* and nothing when there is no region.
RasterLooped(bs, i, breath) ==
  IF SolidAt(bs) = {} THEN Nothing
  ELSE LET mapped == LoopedBreath(bs, i, breath)
       IN  RasterInside(bs, Min(BlockAt(bs, mapped)), mapped)

\* resolve_raster_canvas: past the stored extent the last blank goes on.
ResolveRaster(bs, breath) ==
  LET i == IF BlockAt(bs, breath) = {} THEN Len(bs) ELSE Min(BlockAt(bs, breath))
  IN  IF bs[i].mode \in {"loop_out", "loop_in"} THEN RasterLooped(bs, i, breath)
      ELSE RasterInside(bs, i, breath)

(***************************************************************************)
(* add_move_offset_inner: the keyframe that a drag at a breath authors;     *)
(* `value` is the resolved offset plus the drag.                            *)
(***************************************************************************)
\* Auto-key strictly inside a valued solid: the solid, an empty, the new key.
Keyed(bs, i, breath, value) ==
  LET left  == breath - bs[i].start
      carve == Min({Max({left \div 2, 1}), left - 1})
      kept  == [bs EXCEPT ![i].len = left - carve]
      gap   == BlankBlock(NextBlockId(kept), breath - carve, carve)
      opened == IF carve > 0 THEN InsertAt(kept, i + 1, gap) ELSE kept
      key   == Solid(NextBlockId(opened), breath, EndOf(bs[i]) - breath, value)
  IN  InsertAt(opened, IF carve > 0 THEN i + 2 ELSE i + 1, key)

\* A drag inside an empty: a key of one breath, with the empty on both sides.
KeyInEmpty(bs, i, breath, value) ==
  LET atStart == breath = bs[i].start
      inPlace == [bs EXCEPT ![i] = Solid(@.id, breath, 1, value)]
      beside  == InsertAt([bs EXCEPT ![i].len = breath - bs[i].start], i + 1,
                          Solid(NextBlockId(bs), breath, 1, value))
      keyed   == IF atStart THEN inPlace ELSE beside
      rest    == [BlankBlock(NextBlockId(keyed), breath + 1, EndOf(bs[i]) - breath - 1)
                    EXCEPT !.mode = bs[i].mode, !.out = bs[i].out, !.in = bs[i].in]
  IN  IF breath + 1 < EndOf(bs[i])
      THEN InsertAt(keyed, IF atStart THEN i + 1 ELSE i + 2, rest) ELSE keyed

MoveKeyed(bs, breath, value, authoring) ==
  LET i == Min(BlockAt(bs, breath))
  IN  CASE BlockAt(bs, breath) = {} ->
             Append(bs, Solid(NextBlockId(bs), breath, 1, value))
        [] BlockAt(bs, breath) # {} /\ bs[i].blank -> KeyInEmpty(bs, i, breath, value)
        [] BlockAt(bs, breath) # {} /\ ~bs[i].blank /\ authoring
             /\ bs[i].value # NoValue /\ breath > bs[i].start -> Keyed(bs, i, breath, value)
        [] OTHER -> [bs EXCEPT ![i].value = value]
=============================================================================
