----------------------------- MODULE PainterDesk -----------------------------
(* The painter's desk in the frame loop of main.rs: the panels that equip   *)
(* the hands, the presets, the palette with its color entry, the typing mode *)
(* that owns the keyboard, and the session file the whole is saved to at the *)
(* end of a frame and revived from at boot.                                  *)
(*                                                                          *)
(* A step is one frame: at most one input, then the save.  A frame without   *)
(* input returns early unless something is due.                              *)
EXTENDS ToolHands

CONSTANTS
  First,         \* the color every hand and palette starts with
  Equip,         \* bound: the tools a toolbox click may choose
  MaxPalette,    \* bound: colors in the palette
  MaxPresets,    \* bound: presets kept
  MaxInputs,     \* bound: inputs
  MaxBoots       \* bound: boots

ASSUME DeskAssumption == /\ First \in Colors /\ Equip \subseteq Tools
                         /\ MaxPresets \in Nat /\ 2 <= MaxPresets

VARIABLES
  hands,         \* tool_state: left_hand, right_hand and their tools
  active,        \* tool_state.active_hand
  palette,       \* tool_state.file_palette
  swatch,        \* the swatch selected in the palette module
  entry,         \* palette_color_entry
  number,        \* number_edit is open
  text,          \* text_entry is open
  pending,       \* text_stroke_start: typed cells no record holds yet
  typing,        \* typing_mode.is_active()
  presets,       \* tool_presets
  keys,          \* capture_keys of the presets module
  clicked,       \* the preset row of the last click, for each button
  rename,        \* the row a rename is bound to
  camera,        \* the camera, as far as the session file tells
  session,       \* the session file
  saved,         \* last_saved_session_text: the file is this run's
  recent,        \* less than 150 ms since last_save_at
  dirty,         \* session_dirty
  inputs, boots

hand_vars == <<hands, active>>
palette_vars == <<palette, swatch>>
typing_vars == <<entry, number, text, pending, typing>>
preset_vars == <<presets, keys, clicked, rename>>
desk == <<hand_vars, palette_vars, typing_vars, preset_vars, camera>>
file_vars == <<session, saved, recent, dirty>>
vars == <<desk, file_vars, inputs, boots>>

NoClick == [s \in Sides |-> 0]

-----------------------------------------------------------------------------
(* Panels.  Each is reached by a click while typing mode is off.          *)

Equipped(side, field, value) ==
  /\ hands' = [hands EXCEPT ![side][field] = value]
  /\ active' = side

(* A row of the toolbox, or a tool's hotkey for the active hand.          *)
ClickTool(side) ==
  \E t \in Equip : Equipped(side, "tool", t)

ClickGraphic(side) == \E g \in Graphics : Equipped(side, "graphic", g)

(* A material is a color of its own.                                      *)
ClickMaterial(side) == \E c \in Colors : Equipped(side, "color", c)

(* The color block first takes the hand's color, and equips a new one only. *)
ClickBlock(side) == \E c \in Colors \ {hands[side].color} : Equipped(side, "color", c)

(* The matrix rows of the hand settings; the number rows open an edit.    *)
ClickSettings(side) ==
  \/ \E w \in 0..MaxWeight : Equipped(side, "weight", w)
  \/ Equipped(side, "opposite", ~hands[side].opposite)

(* A swatch: the module keeps one selection for both hands, and a click   *)
(* on the selected swatch equips nothing.                                 *)
ClickSwatch(side) ==
  \E c \in Range(palette) :
    /\ swatch' = c
    /\ IF c = swatch THEN UNCHANGED hand_vars ELSE Equipped(side, "color", c)
    /\ entry' = None
    /\ UNCHANGED palette

(* The minus of the strip: the next selection is the color that moves up. *)
ClickMinus ==
  /\ palette' = IF swatch = None THEN palette ELSE WithoutColor(palette, swatch)
  /\ IF palette' = palette THEN swatch' = swatch
     ELSE swatch' \in Range(palette')
  /\ entry' = None
  /\ UNCHANGED hand_vars

(* The plus: an open entry commits what its active field reads as, and    *)
(* stays open if that is nothing.                                         *)
ClickPlus ==
  LET c == IF entry = None THEN hands[active].color ELSE Reading(entry) IN
  /\ palette' = IF c = None THEN palette ELSE WithColor(palette, c)
  /\ Len(palette') <= MaxPalette
  /\ entry' = IF c = None THEN entry ELSE None
  /\ UNCHANGED <<hand_vars, swatch>>

(* A click on an entry field opens the entry there or moves its focus.    *)
ClickField ==
  /\ \E f \in EntryFields :
       entry' = IF entry = None THEN BeginEntry(hands[active].color, f)
                ELSE [entry EXCEPT !.field = f]
  /\ UNCHANGED <<hand_vars, palette_vars>>

ClickPalette(side) ==
  \/ ClickSwatch(side)
  \/ side = "left" /\ (ClickMinus \/ ClickPlus \/ ClickField)

-----------------------------------------------------------------------------
(* The presets module.                                                    *)

SavePreset ==
  /\ Len(presets) < MaxPresets
  /\ presets' = Append(presets, Capture(hands, keys))
  /\ UNCHANGED <<keys, clicked, rename, hand_vars>>

ToggleField ==
  /\ \E f \in Fields : keys' = IF f \in keys THEN keys \ {f} ELSE keys \cup {f}
  /\ UNCHANGED <<presets, clicked, rename, hand_vars>>

Apply(preset, sides) ==
  /\ hands' = [s \in Sides |-> IF s \in sides THEN Overlay(hands[s], preset[s])
                               ELSE hands[s]]
  /\ active' = IF "right" \in sides THEN "right" ELSE "left"

(* A second click on the row that had the last one is a double click, if  *)
(* it comes in time: the left one starts the rename, the right one        *)
(* deletes the row.  A rename stays bound to its row number.              *)
ClickPreset(side) ==
  \E i \in DOMAIN presets :
    \/ /\ Apply(presets[i], {side})
       /\ clicked' = [clicked EXCEPT ![side] = i]
       /\ UNCHANGED <<presets, keys, rename>>
    \/ /\ clicked[side] = i
       /\ clicked' = [clicked EXCEPT ![side] = 0]
       /\ IF side = "left" THEN rename' = i /\ UNCHANGED presets
          ELSE presets' = RemoveAt(presets, i) /\ UNCHANGED rename
       /\ UNCHANGED <<keys, hand_vars>>

ClickPresets(side) ==
  \/ side = "left" /\ (SavePreset \/ ToggleField)
  \/ ClickPreset(side)

(* A number key applies both halves.                                      *)
PresetKey ==
  /\ \E i \in DOMAIN presets : Apply(presets[i], Sides)
  /\ UNCHANGED <<palette_vars, typing_vars, preset_vars, camera>>

-----------------------------------------------------------------------------
(* A press on the drawing surface: the text tool opens a typing session,  *)
(* the picker samples a cell.                                             *)
ClickCanvas(side) ==
  \/ /\ hands[side].tool = "text"
     /\ ~text
     /\ text' = TRUE
     /\ pending' = FALSE
     /\ UNCHANGED hand_vars
  \/ /\ hands[side].tool = "picker"
     /\ \E cell \in Cells : hands' = Picked(hands, side, cell)
     /\ active' = Receiver(hands, side)
     /\ UNCHANGED <<text, pending>>

(* The typed cells become one record; without a record they are staged     *)
(* in the document only.                                                  *)
DropTyped == UNCHANGED pending

RecordTyped == pending' = FALSE

(* After a click, an open entry or number field takes the keyboard.       *)
TypingBegins == typing' = (text' \/ number' \/ entry' # None)

(* A click while typing mode is off.                                      *)
Click(side) ==
  /\ ~typing
  /\ \/ /\ \/ ClickTool(side) \/ ClickGraphic(side) \/ ClickMaterial(side)
           \/ ClickBlock(side) \/ ClickSettings(side)
        /\ UNCHANGED <<palette_vars, entry, number, text, pending, preset_vars>>
     \/ /\ ClickPresets(side)
        /\ UNCHANGED <<palette_vars, entry, number, text, pending>>
     \/ /\ ClickPalette(side)
        /\ UNCHANGED <<number, text, pending, preset_vars>>
     \/ /\ number' = TRUE
        /\ UNCHANGED <<hand_vars, palette_vars, entry, text, pending, preset_vars>>
     \/ /\ ClickCanvas(side)
        /\ UNCHANGED <<palette_vars, entry, number, preset_vars>>
  /\ TypingBegins
  /\ UNCHANGED camera

(* A left click while typing ends it, whatever it hits.  With a color      *)
(* entry in front the palette module still gets the click; with a text     *)
(* session in front the typed cells are recorded.                          *)
TypingClick ==
  /\ typing
  /\ \/ entry # None /\ ClickPalette("left") /\ UNCHANGED <<number, pending>>
     \/ /\ entry # None /\ entry' = None
        /\ UNCHANGED <<hand_vars, palette_vars, number, pending>>
     \/ /\ entry = None /\ number /\ number' = FALSE
        /\ UNCHANGED <<hand_vars, palette_vars, entry, pending>>
     \/ /\ entry = None /\ ~number /\ RecordTyped
        /\ UNCHANGED <<hand_vars, palette_vars, entry, number>>
  /\ text' = FALSE
  /\ typing' = FALSE
  /\ UNCHANGED <<preset_vars, camera>>

-----------------------------------------------------------------------------
(* Keys while typing mode is on: the color entry takes them first, then   *)
(* the number field, then the text session.                               *)

EntryKey ==
  /\ entry # None
  /\ \/ entry' \in Pushed(entry) \cup Erased(entry) /\ UNCHANGED palette
     \/ entry' = None /\ UNCHANGED palette
     \/ /\ entry' = None
        /\ palette' = IF Reading(entry) = None THEN palette
                      ELSE WithColor(palette, Reading(entry))
        /\ Len(palette') <= MaxPalette
  /\ UNCHANGED <<number, text, pending>>

NumberKey ==
  /\ entry = None /\ number
  /\ number' \in BOOLEAN
  /\ UNCHANGED <<palette, entry, text, pending>>

TextKey ==
  /\ entry = None /\ ~number /\ text
  /\ \/ text' = TRUE /\ pending' = TRUE
     \/ text' \in BOOLEAN /\ RecordTyped
  /\ UNCHANGED <<palette, entry, number>>

TypingEnds == typing' = (entry' # None \/ number' \/ text')

TypingKey ==
  /\ typing
  /\ EntryKey \/ NumberKey \/ TextKey
  /\ TypingEnds
  /\ UNCHANGED <<hand_vars, swatch, preset_vars, camera>>

(* Other keys: a rename under way takes its keys first.                   *)
RenameKey ==
  /\ ~typing
  /\ rename # 0
  /\ rename' = 0
  /\ UNCHANGED <<hand_vars, palette_vars, typing_vars, presets, keys, clicked, camera>>

FreeKey ==
  /\ ~typing
  /\ rename = 0
  /\ \/ PresetKey
     \/ /\ \E t \in Equip : Equipped(active, "tool", t)
        /\ UNCHANGED <<palette_vars, typing_vars, preset_vars, camera>>

-----------------------------------------------------------------------------
(* The session file.                                                      *)

Projection == [hands |-> Persisted(active, hands), presets |-> presets,
               camera |-> camera]

(* The end of a frame.  A change within 150 ms of the last save waits.     *)
Save(dirtied) ==
  IF saved /\ session = Projection' THEN
    dirty' = FALSE /\ UNCHANGED <<session, saved, recent>>
  ELSE IF recent THEN
    dirty' = dirtied /\ UNCHANGED <<session, saved, recent>>
  ELSE
    session' = Projection' /\ saved' = TRUE /\ recent' = TRUE /\ dirty' = FALSE

Input ==
  /\ inputs < MaxInputs
  /\ inputs' = inputs + 1
  /\ \/ /\ \E side \in Sides : Click(side)
        /\ Save(dirty)
     \/ TypingClick /\ Save(dirty)
     \/ TypingKey /\ Save(dirty)
     \/ RenameKey /\ Save(dirty)
     \/ FreeKey /\ Save(dirty)
  /\ UNCHANGED boots

(* The wheel over the camera rows marks the session dirty.                *)
CameraWheel ==
  /\ inputs < MaxInputs
  /\ inputs' = inputs + 1
  /\ camera' = 1 - camera
  /\ UNCHANGED <<hand_vars, palette_vars, typing_vars, preset_vars, boots>>
  /\ Save(TRUE)

(* The cursor blinks while typing, and the picker's preview alternates     *)
(* between two weights.                                                    *)
DueForTyping == typing \/ hands["left"].weight # hands["right"].weight

Due == dirty \/ typing \/ hands["left"].weight # hands["right"].weight

(* A frame without input, if something is due.                            *)
IdleFrame ==
  /\ Due
  /\ UNCHANGED <<desk, inputs, boots>>
  /\ Save(dirty)

Elapse == recent /\ recent' = FALSE /\ UNCHANGED <<desk, session, saved, dirty, inputs, boots>>

-----------------------------------------------------------------------------
(* Boot.  A file that does not parse is removed, and without a file the    *)
(* desk is the default one.                                                *)
Defaults == [hands |-> Persisted("left", DefaultHands(First)),
             presets |-> StarterPresets, camera |-> 0]

Known(file) == IF file = None THEN Defaults ELSE file

Init ==
  /\ session = None /\ boots = 0 /\ inputs = 0
  /\ hands = DefaultHands(First) /\ active = "left"
  /\ presets = StarterPresets /\ camera = 0
  /\ palette = <<First>> /\ swatch = None
  /\ entry = None /\ number = FALSE /\ text = FALSE /\ pending = FALSE
  /\ typing = FALSE
  /\ keys = Fields /\ clicked = NoClick /\ rename = 0
  /\ saved = FALSE /\ recent = FALSE /\ dirty = TRUE

Restart(file) ==
  /\ boots < MaxBoots
  /\ boots' = boots + 1
  /\ session' = file /\ UNCHANGED inputs
  /\ hands' = Revived(Known(file).hands) /\ active' = Known(file).hands.active
  /\ presets' = Known(file).presets /\ camera' = Known(file).camera
  /\ palette' = <<First>> /\ swatch' = None
  /\ entry' = None /\ number' = FALSE /\ text' = FALSE /\ pending' = FALSE
  /\ typing' = FALSE
  /\ keys' = Fields /\ clicked' = NoClick /\ rename' = 0
  /\ saved' = FALSE /\ recent' = FALSE /\ dirty' = TRUE

(* The app stops between two frames.                                      *)
Stop == Restart(session)

(* It stops in the middle of a write, which leaves a file cut short.      *)
TornWrite == ~recent /\ ~(saved /\ session = Projection) /\ Restart(None)

Next == Input \/ CameraWheel \/ IdleFrame \/ Elapse \/ Stop \/ TornWrite

Spec == Init /\ [][Next]_vars

(* The frame loop runs and time passes; the user owes nothing.            *)
FairSpec == Spec /\ WF_vars(IdleFrame) /\ WF_vars(Elapse)

-----------------------------------------------------------------------------
(* The desk is well-typed; the palette holds no color twice and is never   *)
(* empty, which nearest-color resolution relies on.                        *)
DeskTypeOK ==
  /\ hands \in [Sides -> Hand] /\ active \in Sides
  /\ palette # <<>> /\ IsInjective(palette) /\ Range(palette) \subseteq Colors
  /\ swatch \in Range(palette) \cup {None}
  /\ entry = None \/ entry.seen \in Colors
  /\ \A v \in {number, text, pending, typing, saved, recent, dirty} : v \in BOOLEAN
  /\ keys \subseteq Fields /\ rename \in 0..MaxPresets
  /\ clicked \in [Sides -> 0..MaxPresets]

(* Typing mode is on only while some surface takes its keys: a key that    *)
(* typing mode owns finds a color entry, a number field or a text session  *)
(* (main.rs expects a text session after the two others).  And no cell     *)
(* typed into the canvas is left without a record when its text session is *)
(* over, whichever click, key or other edit ended it.                      *)
TypingEndsWell ==
  /\ typing => entry # None \/ number \/ text
  /\ ~text => ~pending

(* What Enter or the plus adds to the palette is the color the entry's     *)
(* preview shows, or nothing, whatever was typed into which of the two     *)
(* linked fields; and the palette stays what resolution relies on.         *)
PreviewCommits == DeskTypeOK /\ (entry # None => Reading(entry) \in {None, entry.seen})

(* A booted desk is the one in the session file: what boot revives would   *)
(* be written back as the very file it was read from.                      *)
RoundTrip == [][Stop /\ session # None => Projection' = session]_vars

(* A session marked dirty reaches the disk, after a throttled save too.    *)
DirtyIsSaved == dirty ~> session = Projection
=============================================================================
