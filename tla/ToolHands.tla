------------------------------ MODULE ToolHands ------------------------------
(* What a painter's two hands hold, the presets captured from them, and the *)
(* color entry of the palette module: the operators of tool_state.rs,        *)
(* tool_presets.rs, user_session_state.rs, indexed_palette.rs and             *)
(* color_entry.rs.  A hand keeps four fields: graphic and color stand for     *)
(* themselves, weight for the clamped numbers (and the brush size), opposite  *)
(* for the switches (fill through depth, channels, target, connectivity).     *)
EXTENDS Integers, Sequences, FiniteSets, SequencesExt, Functions

CONSTANTS
  Colors,        \* the colors a hand, a cell or a palette can have
  Tools,         \* the registered tools; "text" and "picker" act here
  MaxWeight,     \* 3 in the code
  None

ASSUME HandsAssumption == /\ {"brush", "text", "picker", "lasso", "move"} \subseteq Tools
                          /\ MaxWeight \in Nat
                          /\ None \notin Colors

Sides == {"left", "right"}

Other(side) == CHOOSE s \in Sides : s # side

Graphics == {"glyph", "blank"}

Hand == [tool : Tools, graphic : Graphics, color : Colors,
         weight : 0..MaxWeight, opposite : BOOLEAN]

Fields == {"graphic", "color", "weight", "opposite"}

Clamp(n, low, high) == IF n < low THEN low ELSE IF n > high THEN high ELSE n

-----------------------------------------------------------------------------
(* Presets.                                                               *)

(* One half of a preset: the tool always, the other fields as opted in.   *)
CaptureHalf(hand, keys) == [tool |-> hand.tool, fields |-> Restrict(hand, keys)]

Capture(hands, keys) == [s \in Sides |-> CaptureHalf(hands[s], keys)]

(* Equip the tool and lay the captured fields over the hand's own; every  *)
(* value passes through the persisted shape, which clamps.                *)
Overlay(hand, half) ==
  LET laid(f) == IF f \in DOMAIN half.fields THEN half.fields[f] ELSE hand[f]
  IN  [tool |-> half.tool, graphic |-> laid("graphic"), color |-> laid("color"),
       weight |-> Clamp(laid("weight"), 0, MaxWeight), opposite |-> laid("opposite")]

ToolOnly(tool) == [tool |-> tool, fields |-> [f \in {} |-> None]]

Halves(left, right) == [s \in Sides |-> IF s = "left" THEN left ELSE right]

(* The two presets every user starts with.                                *)
StarterPresets ==
  << Halves(ToolOnly("lasso"), ToolOnly("move")),
     Halves(ToolOnly("brush"),
            [tool |-> "picker", fields |-> [f \in {"opposite"} |-> TRUE]]) >>

-----------------------------------------------------------------------------
(* The hands on disk.  What is written is the hands as they are; what is   *)
(* read back passes the clamps of the persisted shape.                     *)

DefaultHand(c) == [tool |-> "brush", graphic |-> "glyph", color |-> c,
                   weight |-> Clamp(2, 0, MaxWeight), opposite |-> FALSE]

(* The right hand starts with the clear character.                         *)
DefaultHands(c) ==
  Halves(DefaultHand(c), [DefaultHand(c) EXCEPT !.graphic = "blank"])

Persisted(active, hands) == [active |-> active, hands |-> hands]

RevivedOneTool(file) ==
  [s \in Sides |-> [file.hands[s] EXCEPT !.tool = file.hands["left"].tool]]

Revived(file) ==
  [s \in Sides |-> [file.hands[s] EXCEPT !.weight = Clamp(@, 0, MaxWeight)]]

-----------------------------------------------------------------------------
(* The picker: a click samples a cell into the picking hand or, if that   *)
(* hand says so, into the other one.  An empty cell blanks the graphic    *)
(* and leaves the rest.                                                   *)

Cells == [color : Colors, weight : 0..MaxWeight] \cup {None}

Receiver(hands, side) == IF hands[side].opposite THEN Other(side) ELSE side

Picked(hands, side, cell) ==
  LET r == Receiver(hands, side) IN
  [hands EXCEPT ![r] =
     IF cell = None THEN [@ EXCEPT !.graphic = "blank"]
     ELSE [@ EXCEPT !.graphic = "glyph", !.color = cell.color,
                    !.weight = Clamp(cell.weight, 0, MaxWeight)]]

-----------------------------------------------------------------------------
(* The file palette: it holds no color twice and is never emptied.        *)

WithColor(palette, c) ==
  IF c \in Range(palette) THEN palette ELSE Append(palette, c)

(* A color to take away is there once.                                    *)
WithoutColor(palette, c) ==
  IF Len(palette) <= 1 \/ c \notin Range(palette) THEN palette
  ELSE RemoveAt(palette, CHOOSE i \in DOMAIN palette : palette[i] = c)

-----------------------------------------------------------------------------
(* The color entry.  Two buffers show one color; a buffer reads as a color *)
(* or, half typed, as None.  Only the rgb buffer has readings that are     *)
(* not at its full width, and only there can a digit follow a color.       *)

EntryFields == {"hex", "rgb"}

Buffer == [reads : Colors \cup {None}, full : BOOLEAN]

Canonical(c) == [reads |-> c, full |-> TRUE]

BeginEntry(c, field) ==
  [field |-> field, buffer |-> [f \in EntryFields |-> Canonical(c)],
   seen |-> c, touched |-> FALSE]

(* commit: what the active field parses as.                               *)
Reading(e) == e.buffer[e.field].reads

MirrorNoSeen(e) ==
  IF Reading(e) = None THEN e
  ELSE [e EXCEPT !.buffer = [f \in EntryFields |->
                    IF f = e.field THEN @[f] ELSE Canonical(Reading(e))]]

(* mirror: a complete active field rewrites the other one.                *)
Mirror(e) ==
  IF Reading(e) = None THEN e
  ELSE [e EXCEPT !.seen = Reading(e),
                 !.buffer = [f \in EntryFields |->
                    IF f = e.field THEN @[f] ELSE Canonical(Reading(e))]]

(* What the active buffer may hold once a character went in or out.       *)
Readings(field) ==
  {b \in Buffer : /\ b.reads = None => ~b.full
                  /\ (field = "hex" /\ b.reads # None) => b.full}

WithBuffer(e, b) == Mirror([e EXCEPT !.buffer[e.field] = b, !.touched = TRUE])

(* push: the first character replaces what is there, a full buffer takes  *)
(* none.                                                                  *)
Pushed(e) ==
  IF ~e.touched
  THEN {WithBuffer(e, [reads |-> None, full |-> FALSE])}
  ELSE IF e.buffer[e.field].full THEN {e}
  ELSE {WithBuffer(e, b) : b \in Readings(e.field)}

(* backspace: a hex buffer that loses a digit reads as nothing.           *)
Erased(e) ==
  {Mirror([e EXCEPT !.buffer[e.field] = b]) :
     b \in {r \in Readings(e.field) : ~r.full}}
=============================================================================
