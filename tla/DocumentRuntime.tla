-------------------------- MODULE DocumentRuntime --------------------------
(***************************************************************************)
(* The content half of a document's runtime (SharedDocumentRuntime in      *)
(* domain/file/storage/storage.rs): the painted cells of each layer, the   *)
(* history of action records, the undo and redo stacks, and the fold of    *)
(* old history into baseline records.  The operators are pure: each takes  *)
(* a runtime and returns the runtime a method leaves behind.               *)
(*                                                                         *)
(* Abstractions.  A layer has one raster block, so a canvas is a function  *)
(* from cells to contents for each layer; Empty is a cell that the code's  *)
(* map does not hold.  patches_by_action_id is read off the history, which *)
(* holds the same patches under the same id.  The legacy Undo and Redo     *)
(* records, which no code writes any more, and StructureSet are left out.  *)
(***************************************************************************)
EXTENDS Naturals, Sequences, SequencesExt

CONSTANTS Layer, Cell, Color,
          Empty,    \* no painted cell
          Depth     \* UNDO_HISTORY_DEPTH

ASSUME RuntimeAssumption ==
  /\ Empty \notin Color
  /\ IsFiniteSet(Layer)
  /\ Depth \in Nat

Content == Color \cup {Empty}

\* SharedCellPatch: the patches of a record, at most one for a cell.
Patches == UNION {[S -> [before : Content, after : Content]] : S \in SUBSET Cell}

Blank == [c \in Cell |-> Empty]

NewRuntime ==
  [canvas   |-> [l \in Layer |-> Blank],
   applied  |-> [l \in Layer |-> <<>>],
   undone   |-> [l \in Layer |-> <<>>],
   actions  |-> <<>>,
   baseline |-> <<>>,
   squashed |-> 0]

\* A record: a stroke, the passive revert of an undo or redo (`reverts` is
\* the id of the stroke), or a passive baseline.
Stroke(id, u, l, ps) ==
  [kind |-> "stroke", id |-> id, user |-> u, layer |-> l, patches |-> ps, reverts |-> id]
Revert(id, u, l, ps, of) ==
  [kind |-> "revert", id |-> id, user |-> u, layer |-> l, patches |-> ps, reverts |-> of]

\* apply_patches, in its two directions.
ApplyAfter(canvas, ps) ==
  [c \in Cell |-> IF c \in DOMAIN ps THEN ps[c].after ELSE canvas[c]]
ApplyBefore(canvas, ps) ==
  [c \in Cell |-> IF c \in DOMAIN ps THEN ps[c].before ELSE canvas[c]]

\* SharedCellPatch::inverse, and collect_canvas_patches.
Inversed(ps) == [c \in DOMAIN ps |-> [before |-> ps[c].after, after |-> ps[c].before]]

CollectPatches(before, after) ==
  [c \in {d \in Cell : before[d] # after[d]} |-> [before |-> before[c], after |-> after[c]]]

\* stage_canvas_patches: paint without a record.
Stage(rt, l, c, v) == [rt EXCEPT !.canvas[l][c] = v]

PatchesOf(rt, id) ==
  rt.actions[CHOOSE i \in DOMAIN rt.actions :
               rt.actions[i].kind = "stroke" /\ rt.actions[i].id = id].patches

\* What a sequence holds of a set, in order.
Kept(s, S) ==
  LET kept[n \in 0 .. Len(s)] ==
        IF n = 0 THEN <<>>
        ELSE IF s[n] \in S THEN Append(kept[n - 1], s[n]) ELSE kept[n - 1]
  IN  kept[Len(s)]

Drop(s, x) == Kept(s, Range(s) \ {x})

\* Mutant: a foreign revert paints and leaves the stacks alone.
ToggleNothing(rt, l, x) == rt

\* The stacks after a revert record: an applied action is undone, an undone
\* one is applied again, one that neither stack holds is left alone.
Toggle(rt, l, x) ==
  IF Contains(rt.applied[l], x)
  THEN [rt EXCEPT !.applied[l] = Drop(@, x), !.undone[l] = Append(@, x)]
  ELSE IF Contains(rt.undone[l], x)
  THEN [rt EXCEPT !.undone[l] = Drop(@, x), !.applied[l] = Append(@, x)]
  ELSE rt

\* apply_action_record.  The record always enters the history; one without
\* patches does nothing else.
ApplyActionRecord(rt, r) ==
  LET l == r.layer
      painted == [rt EXCEPT !.canvas[l] = ApplyAfter(@, r.patches)]
      effect ==
        IF DOMAIN r.patches = {} THEN rt
        ELSE CASE r.kind = "stroke" ->
                    [painted EXCEPT !.applied[l] = Append(@, r.id), !.undone[l] = <<>>]
               [] r.kind = "revert" -> Toggle(painted, l, r.reverts)
               [] OTHER -> painted
  IN  [effect EXCEPT !.actions = Append(@, r)]

\* replay: the records, one after the other, from an empty runtime.
Replay(rs) ==
  LET done[n \in 0 .. Len(rs)] ==
        IF n = 0 THEN NewRuntime ELSE ApplyActionRecord(done[n - 1], rs[n])
  IN  done[Len(rs)]

\* undo_top_action and redo_top_action: the canvas and the stacks, and the
\* patches that the caller records as a revert.
TopApplied(rt, l) == Last(rt.applied[l])
TopUndone(rt, l) == Last(rt.undone[l])

UndoTop(rt, l) ==
  LET x == TopApplied(rt, l) IN
  [rt EXCEPT !.canvas[l] = ApplyBefore(@, PatchesOf(rt, x)),
             !.applied[l] = Front(@), !.undone[l] = Append(@, x)]

RedoTop(rt, l) ==
  LET x == TopUndone(rt, l) IN
  [rt EXCEPT !.canvas[l] = ApplyAfter(@, PatchesOf(rt, x)),
             !.undone[l] = Front(@), !.applied[l] = Append(@, x)]

\* push_history_record.
PushHistoryRecord(rt, r) == [rt EXCEPT !.actions = Append(@, r)]

BaselineOf(l, canvas) ==
  [kind |-> "baseline", id |-> 0, user |-> "history-squash", layer |-> l,
   patches |-> CollectPatches(Blank, canvas), reverts |-> 0]

\* Mutant: the last record that is folded is not in the baseline.
FoldHistoryShort(rt) ==
  LET cut == Len(rt.actions) - Depth
      head == Replay(SubSeq(rt.actions, 1, cut - 1))
      solid == SetToSeq({l \in Layer : head.canvas[l] # Blank})
  IN  IF Len(rt.actions) - rt.squashed <= Depth THEN rt
      ELSE [rt EXCEPT !.squashed = cut,
              !.baseline = [i \in DOMAIN solid |-> BaselineOf(solid[i], head.canvas[solid[i]])]]

\* fold_history: what is older than the undo depth becomes one passive record
\* for each layer that has content there.
FoldHistory(rt) ==
  LET cut == Len(rt.actions) - Depth
      head == Replay(SubSeq(rt.actions, 1, cut))
      solid == SetToSeq({l \in Layer : head.canvas[l] # Blank})
  IN  IF Len(rt.actions) - rt.squashed <= Depth THEN rt
      ELSE [rt EXCEPT !.squashed = cut,
              !.baseline = [i \in DOMAIN solid |-> BaselineOf(solid[i], head.canvas[solid[i]])]]

\* actions_for_file: the baselines and the records that are not folded.
ActionsForFile(rt) == rt.baseline \o SubSeq(rt.actions, rt.squashed + 1, Len(rt.actions))
=============================================================================
