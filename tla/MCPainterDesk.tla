---------------------------- MODULE MCPainterDesk ----------------------------
(* One painter, two colors, a few inputs between boots; and, sharing no state *)
(* with it, the rows of the panels (DeskPanels).  A behaviour runs one.       *)
EXTENDS PainterDesk, FiniteSetsExt

CONSTANTS Heights, MaxPresses

VARIABLES
  runs,   \* which of the two
  tool, marks, steps, offset, height, edit, slots, captured, open, twice, renaming, presses

panel_vars == <<tool, marks, steps, offset, height, edit, slots, captured, open, twice,
                renaming, presses>>

Panels == INSTANCE DeskPanels WITH
            ToolDefs <- <<"brush", "text", "picker">>, Pressed <- {"1", "opp"}, Farthest <- 9,
            Typed <- {5, 12}, MaxSlots <- MaxPresets, Nothing <- None

\* The panels start at one size and are dragged to others; beside the desk they
\* are nothing.
DeskInit ==
  /\ Init
  /\ \/ /\ runs = "panels" /\ Panels!Init
        /\ height = [tools |-> Min(Heights), props |-> Max(Heights), presets |-> Max(Heights)]
     \/ /\ runs = "desk"
        /\ tool = None /\ marks = None /\ steps = None /\ offset = None /\ height = None
        /\ edit = None /\ slots = None /\ captured = None /\ open = None /\ twice = None
        /\ renaming = None /\ presses = None

DeskNext ==
  /\ UNCHANGED runs
  /\ \/ runs = "desk" /\ Next /\ UNCHANGED panel_vars
     \/ runs = "panels" /\ ~dirty /\ ~recent /\ Panels!Next /\ UNCHANGED vars
     \/ runs = "panels" /\ (IdleFrame \/ Elapse) /\ UNCHANGED panel_vars

DeskSpec ==
  /\ DeskInit /\ [][DeskNext]_<<runs, vars, panel_vars>>
  /\ WF_vars(IdleFrame) /\ WF_vars(Elapse)

\* What a panel shows is what a press on it does, and what is typed stays in
\* sight (DeskPanels).
PanelsServe ==
  /\ [](runs = "panels" => Panels!WindowFull /\ Panels!EditInSight)
  /\ [][runs = "panels" /\ Panels!Input => Panels!PressMeetsDrawn /\ Panels!PresetMeetsDigit]_panel_vars
=============================================================================
