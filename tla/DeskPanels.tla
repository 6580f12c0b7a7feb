----------------------------- MODULE DeskPanels -----------------------------
(* The rows of three panels as a painter meets them: the toolbox, the        *)
(* properties of the two hands and the presets.  What a press does depends   *)
(* on the row drawn in the slot it hits, and the rows move: the properties   *)
(* panel lists the rows the equipped tools declare, the presets panel grows  *)
(* and folds, both scrolled panels keep an offset from an earlier list or    *)
(* height.  Slots count from the top, from 1.  PainterDesk has what the      *)
(* hands then hold and how it is saved; graphic and color stay there.        *)
EXTENDS Integers, SequencesExt, FiniteSetsExt, Functions

CONSTANTS
  ToolDefs,      \* the toolbox, top down
  Pressed,       \* bound: the columns a press may hit
  Heights,       \* bound: the rows a panel may have room for
  Farthest,      \* 9 in the code: the range of a number field
  Typed,         \* bound: what a typed buffer may read as
  MaxSlots,      \* bound: presets
  MaxPresses,    \* bound: inputs
  Nothing

VARIABLES
  tool,          \* left_tool and right_tool
  marks,         \* the marked columns of each matrix row, for each hand
  steps,         \* text_options: the typing steps, one number per axis
  offset,        \* ScrollState of the toolbox and of the properties
  height,        \* the rows each panel has room for
  edit,          \* number_edit
  slots,         \* the presets
  captured,      \* capture_keys
  open,          \* save_options_open
  twice,         \* the preset a second click in time would double, per button
  renaming,      \* rename: the row it is bound to
  presses

vars == <<tool, marks, steps, offset, height, edit, slots, captured, open, twice,
          renaming, presses>>
preset_vars == <<slots, captured, open, twice, renaming>>
hand_vars == <<tool, marks, steps>>

Sides == {"left", "right"}
Channels == {"graphic", "color", "weight"}

-----------------------------------------------------------------------------
(* Rows.                                                                  *)

(* The registry: the rows a tool asks for.                                *)
Declares ==
  [brush |-> {"brush_size"}, fill |-> {"fill_connectivity", "fill_3d"},
   lasso |-> {"fill_3d"}, stamp |-> {}, move |-> {},
   text |-> {"text_char_step", "text_enter_step"},
   picker |-> {"picker_opposite_hand", "brush_size"}]

HandRows == <<"weight", "select", "edit", "target", "selection_mode">>

ToolRows == <<"brush_size", "fill_connectivity", "fill_3d", "picker_opposite_hand",
              "text_char_step", "text_enter_step">>

NumberRows == {"text_char_step", "text_enter_step"}

MatrixRows == Range(HandRows \o ToolRows) \ NumberRows

(* The columns of a matrix row, and those marked when nothing was set.    *)
Columns ==
  [weight |-> {"0", "1", "2", "3"}, select |-> Channels, edit |-> Channels,
   target |-> {"selection", "image"}, selection_mode |-> {"replace", "add", "sub", "mul"},
   brush_size |-> {"1", "2", "3", "4", "5"}, fill_connectivity |-> {"adj", "diag", "all"},
   fill_3d |-> {"off", "on"}, picker_opposite_hand |-> {"self", "opp"}]

Unset ==
  [weight |-> {"2"}, select |-> Channels, edit |-> Channels, target |-> {"image"},
   selection_mode |-> {"replace"}, brush_size |-> {"1"}, fill_connectivity |-> {"adj"},
   fill_3d |-> {"off"}, picker_opposite_hand |-> {"self"}]

HandDeclares(side, row) == row \in Declares[tool[side]]

(* The rows of a tool show while either hand has one that declares them.  *)
BuildRows == HandRows \o SelectSeq(ToolRows, LAMBDA r : \E s \in Sides : HandDeclares(s, r))

(* The marks of a hand's own rows can always be set, those of a tool's    *)
(* row where the hand has such a tool.                                    *)
Enabled(side, row) == row \in Range(HandRows) \/ HandDeclares(side, row)

-----------------------------------------------------------------------------
(* Windows over a list.                                                   *)

MaxOffset(list, room) == Max({0, Len(list) - room})

Window(list, from, room) == SubSeq(list, from + 1, Min({from + room, Len(list)}))

\* Mutant: the offset is read as it was left.
VisibleRowsStale == Window(BuildRows, offset["props"], height["props"])

(* The properties clamp the offset wherever they read it.                 *)
VisibleRows ==
  Window(BuildRows, Min({offset["props"], MaxOffset(BuildRows, height["props"])}), height["props"])

(* The toolbox takes it as it is.                                         *)
VisibleTools == Window(ToolDefs, offset["tools"], height["tools"])

Lists == [tools |-> ToolDefs, props |-> BuildRows]

MaxScroll(panel) == MaxOffset(Lists[panel], height[panel])

(* Every left press passes the bar first, which leaves the offset in range. *)
PassBar(side) ==
  offset' = IF side = "right" THEN offset
            ELSE [p \in DOMAIN offset |-> Min({offset[p], MaxScroll(p)})]

(* A press or a drag on the bar, which shows where the list overflows.    *)
Bar(panel) ==
  /\ MaxScroll(panel) > 0
  /\ \E o \in 0..MaxScroll(panel) : offset' = [offset EXCEPT ![panel] = o]
  /\ UNCHANGED <<hand_vars, height, edit, preset_vars>>

(* The wheel; a toolbox that shows every tool lets it pass.               *)
Scroll(panel) ==
  /\ panel = "tools" => MaxScroll(panel) > 0
  /\ \E d \in {-1, 1} : offset' =
       [offset EXCEPT ![panel] = Max({0, Min({offset[panel] + d, MaxScroll(panel)})})]
  /\ UNCHANGED <<hand_vars, height, edit, preset_vars>>

(* A dragged edge: the offset is not looked at.                           *)
Resize ==
  /\ \E p \in DOMAIN height, h \in Heights : height' = [height EXCEPT ![p] = h]
  /\ UNCHANGED <<hand_vars, offset, edit, preset_vars>>

-----------------------------------------------------------------------------
(* The toolbox.  A press reads the slot after the bar had its turn.       *)

ToolAt(slot, from) ==
  IF slot <= height["tools"] /\ from + slot <= Len(ToolDefs) THEN ToolDefs[from + slot] ELSE Nothing

ClickTools(side, slot) ==
  /\ PassBar(side)
  /\ LET t == ToolAt(slot, offset'["tools"]) IN
     tool' = IF t = Nothing THEN tool ELSE [tool EXCEPT ![side] = t]
  /\ UNCHANGED <<marks, steps, height, edit, preset_vars>>

(* The hands a row is marked for: both, one or none.                      *)
Holders(t) == {s \in Sides : tool[s] = t}

-----------------------------------------------------------------------------
(* The properties.                                                        *)

Toggled(set, e) == IF e \in set THEN set \ {e} ELSE set \cup {e}

(* Channels are toggled, the selection mode is one for both hands, and    *)
(* every other row has one mark per hand.                                 *)
Marked(side, row, column) ==
  [s \in Sides |->
    IF row = "selection_mode" THEN [marks[s] EXCEPT ![row] = {column}]
    ELSE IF s # side THEN marks[s]
    ELSE [marks[s] EXCEPT ![row] =
            IF row \in {"select", "edit"} THEN Toggled(@, column) ELSE {column}]]

ClickMark(side, slot, column) ==
  /\ VisibleRows[slot] \in MatrixRows
  /\ column \in Columns[VisibleRows[slot]]
  /\ marks' = IF Enabled(side, VisibleRows[slot]) THEN Marked(side, VisibleRows[slot], column)
              ELSE marks
  /\ UNCHANGED edit

ClickNumber(slot, axis) ==
  /\ VisibleRows[slot] \in NumberRows
  /\ edit' = [row |-> VisibleRows[slot], axis |-> axis, value |-> steps[VisibleRows[slot]][axis]]
  /\ UNCHANGED marks

ClickProps(side, slot) ==
  /\ \/ \E column \in Pressed : ClickMark(side, slot, column)
     \/ \E axis \in 1..3 : ClickNumber(slot, axis)
  /\ PassBar(side)
  /\ UNCHANGED <<tool, steps, height, preset_vars>>

Within(n) == Max({-Farthest, Min({n, Farthest})})

(* The wheel over a number turns it, elsewhere it scrolls the rows.       *)
WheelNumber ==
  /\ \E r \in NumberRows \cap Range(VisibleRows), axis \in 1..3, d \in {-1, 1} :
       steps' = [steps EXCEPT ![r][axis] = Within(@ + d)]
  /\ UNCHANGED <<tool, marks, offset, height, edit, preset_vars>>

(* An open edit takes every key; Enter commits what the buffer reads as.  *)
EditKey ==
  /\ \/ \E v \in Typed \cup {Nothing} : edit' = [edit EXCEPT !.value = v] /\ UNCHANGED steps
     \/ /\ edit' = Nothing
        /\ steps' = IF edit.value = Nothing THEN steps
                    ELSE [steps EXCEPT ![edit.row][edit.axis] = Within(edit.value)]
     \/ edit' = Nothing /\ UNCHANGED steps
  /\ UNCHANGED <<tool, marks, offset, height, preset_vars>>

(* A click elsewhere, which nothing else gets to see, closes it.          *)
EditClick == edit' = Nothing /\ UNCHANGED <<hand_vars, offset, height, preset_vars>>

-----------------------------------------------------------------------------
(* The presets.                                                           *)

FieldKeys == <<"weight", "brush_size", "fill_connectivity", "fill_3d",
               "picker_opposite_hand", "edit", "select", "target">>

Row(kind, i) == [kind |-> kind, at |-> i]

(* Presets on top, then SAVE, then the options and what they unfold.      *)
PresetRows ==
  [i \in DOMAIN slots |-> Row("preset", i)] \o <<Row("save", 0), Row("save_options", 0)>>
  \o (IF open THEN [i \in DOMAIN FieldKeys |-> Row("toggle", i)] ELSE <<>>)

(* The digit drawn before a preset, Nothing being the dot.                *)
Digit(i) == IF i <= 9 THEN i ELSE Nothing

(* The hands that carry the tools of a preset, as marked on its row.      *)
Carriers(i) == {s \in Sides : tool[s] = slots[i][s].tool}

Captures ==
  [s \in Sides |-> [tool |-> tool[s], fields |-> Restrict(marks[s], captured)]]

Laid(i, sides) ==
  /\ tool' = [s \in Sides |-> IF s \in sides THEN slots[i][s].tool ELSE tool[s]]
  /\ marks' = [s \in Sides |-> IF s \in sides THEN slots[i][s].fields @@ marks[s] ELSE marks[s]]

ClickSave ==
  /\ Len(slots) < MaxSlots
  /\ slots' = Append(slots, Captures)
  /\ UNCHANGED <<tool, marks, captured, open, twice, renaming>>

ClickOptions == open' = ~open /\ UNCHANGED <<tool, marks, slots, captured, twice, renaming>>

ClickToggle(i) ==
  /\ captured' = Toggled(captured, FieldKeys[i])
  /\ UNCHANGED <<tool, marks, slots, open, twice, renaming>>

(* The second click in time: the left one renames, the right one deletes. *)
ClickAgain(side, i) ==
  /\ twice[side] = i
  /\ twice' = [twice EXCEPT ![side] = 0]
  /\ IF side = "left" THEN renaming' = i /\ UNCHANGED slots
     ELSE slots' = RemoveAt(slots, i) /\ UNCHANGED renaming
  /\ UNCHANGED <<tool, marks, captured, open>>

ClickOnce(side, i) ==
  /\ Laid(i, {side})
  /\ twice' = [twice EXCEPT ![side] = i]
  /\ UNCHANGED <<slots, captured, open, renaming>>

(* The middle button is for both hands and never a double click.          *)
ClickMiddle(i) == Laid(i, Sides) /\ UNCHANGED preset_vars

ClickPresets(side, slot) ==
  /\ slot <= height["presets"]
  /\ LET row == PresetRows[slot] IN
     \/ row.kind = "preset" /\ (ClickOnce(side, row.at) \/ ClickAgain(side, row.at) \/ ClickMiddle(row.at))
     \/ row.kind = "save" /\ side = "left" /\ ClickSave
     \/ row.kind = "save_options" /\ side = "left" /\ ClickOptions
     \/ row.kind = "toggle" /\ side = "left" /\ ClickToggle(row.at)
  /\ UNCHANGED <<steps, offset, height, edit>>

(* painter_preset_N: both halves of the N-th preset.                      *)
PresetKey(n) ==
  /\ renaming = 0
  /\ n \in DOMAIN slots
  /\ Laid(n, Sides)
  /\ UNCHANGED <<steps, offset, height, edit, preset_vars>>

(* A rename under way takes the keys until it ends.                       *)
RenameKey ==
  /\ renaming # 0
  /\ renaming' = 0
  /\ UNCHANGED <<hand_vars, offset, height, edit, slots, captured, open, twice>>

-----------------------------------------------------------------------------
Init ==
  /\ tool = [s \in Sides |-> "brush"]
  /\ marks = [s \in Sides |-> Unset]
  /\ steps = [text_char_step |-> <<1, 0, 0>>, text_enter_step |-> <<0, 1, 0>>]
  /\ offset = [tools |-> 0, props |-> 0]
  /\ height \in [{"tools", "props", "presets"} -> Heights]
  /\ edit = Nothing
  /\ slots = << [left |-> [tool |-> "lasso", fields |-> <<>>], right |-> [tool |-> "move", fields |-> <<>>]],
                [left |-> [tool |-> "brush", fields |-> <<>>],
                 right |-> [tool |-> "picker", fields |-> [picker_opposite_hand |-> {"opp"}]]] >>
  /\ captured = Range(FieldKeys) /\ open = FALSE
  /\ twice = [s \in Sides |-> 0] /\ renaming = 0
  /\ presses = 0

Input == presses' = presses + 1

(* Typing mode, which an open edit turns on, keeps panels, wheel and       *)
(* hotkeys away.                                                          *)
Next ==
  /\ presses < MaxPresses
  /\ Input
  /\ \/ /\ edit = Nothing
        /\ \/ \E s \in Sides, slot \in 1..height["tools"] : ClickTools(s, slot)
           \/ \E s \in Sides, slot \in DOMAIN VisibleRows : ClickProps(s, slot)
           \/ \E s \in Sides, slot \in DOMAIN PresetRows : ClickPresets(s, slot)
           \/ \E n \in 1..9 : PresetKey(n)
           \/ \E p \in {"tools", "props"} : Bar(p) \/ Scroll(p)
           \/ WheelNumber \/ Resize \/ RenameKey
     \/ edit # Nothing /\ (EditKey \/ EditClick)

-----------------------------------------------------------------------------
(* A change of tools or of height never leaves the properties with empty   *)
(* slots while rows are hidden above, whatever the stored offset           *)
(* (visible_rows).                                                        *)
WindowFull == Len(VisibleRows) = Min({Len(BuildRows), height["props"]})

(* The field being typed into stays in sight and its row stays declared    *)
(* until the edit is over, since nothing that moves rows gets through.     *)
EditInSight == edit # Nothing => edit.row \in Range(VisibleRows)

(* A press on the toolbox equips the tool drawn in its slot, and a press   *)
(* on the properties leaves every row where the pointer found it.  Not so  *)
(* for the left button in a toolbox that grew since it was scrolled.       *)
PressMeetsDrawn ==
  /\ \A s \in Sides, slot \in DOMAIN VisibleTools : \A drawn \in {VisibleTools[slot]} :
       offset["tools"] <= MaxScroll("tools") /\ s \notin Holders(drawn)' => ~ClickTools(s, slot)
  /\ VisibleRows' # VisibleRows => \A s \in Sides, slot \in DOMAIN VisibleRows : ~ClickProps(s, slot)

(* The digit on a row is the key that lays that row over both hands, and   *)
(* a press lays it over the hand of its button: the row says so next.      *)
PresetMeetsDigit ==
  /\ \A n \in 1..9 : PresetKey(n) => \E i \in DOMAIN slots : Digit(i) = n /\ Carriers(i)' = Sides
  /\ slots' = slots /\ renaming' = renaming =>
       \A s \in Sides, row \in DOMAIN PresetRows : \A i \in {PresetRows[row].at} :
         PresetRows[row].kind = "preset" /\ s \notin Carriers(i)' => ~ClickPresets(s, row)
=============================================================================
