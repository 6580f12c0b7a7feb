--------------------------- MODULE MCLayersPanel ---------------------------
(* The layers panel at both scales: PanelGestures, its pointer frame by frame,
   with what the panel shows of it (PanelFace), and LayersPanel, each gesture as
   one step with its records and files.  The two share no state: a behaviour
   runs the one or the other. *)
EXTENDS PanelFace

CONSTANTS MaxEdits, MaxStructures, MaxSnaps, MaxOffset, MoveBreaths

VARIABLES
  runs,  \* which of the two
  doc, log, disk, retired, snaps

Edit == INSTANCE LayersPanel WITH rt <- doc, MaxBreath <- View, Grips <- Bars

docVars == <<doc, log, disk, retired, snaps>>

Plain(blocks) == [NewLayer EXCEPT !.raster = Retile(blocks, 0, Span)]
Block(n, start, len) == Solid(<<n, 0>>, start, len, NoValue)

Document(layers, start, end) == [layers |-> layers, window |-> [start |-> start, end |-> end]]

\* A layer with two solids about an empty; what a peer makes of it: its second
\* block elsewhere beside another layer, or another layer in its place.
MCOpened == {Document(1 :> Plain(<<Block(1, 0, 1), Block(2, 2, 3)>>), 0, 3)}
MCOthers == {Document((1 :> Plain(<<Block(2, 0, 2), Block(3, 3, 1)>>)) @@ (2 :> NewLayer), 2, 2),
             Document(2 :> NewLayer, 1, 3)}

PanelInit ==
  /\ Init
  /\ \/ runs = "edits" /\ Edit!Init
     \/ /\ runs = "gestures"
        /\ doc = None /\ log = None /\ disk = None /\ retired = None /\ snaps = None

PanelNext ==
  /\ UNCHANGED runs
  /\ \/ runs = "gestures" /\ Next /\ UNCHANGED docVars
     \/ runs = "edits" /\ Edit!Next /\ UNCHANGED vars

PanelSpec == PanelInit /\ [][PanelNext]_<<vars, runs, docVars>> /\ WF_vars(runs = "gestures" /\ Tick)

\* What a cell of the panel shows is what a press on it acts on (PanelFace).
ShownIsHit == runs = "gestures" => FaceTrue

\* Every track is tiled and loops without a seam, whatever was edited
\* (retiled_property_track; LayersPanel).
TracksPlay == runs = "edits" => Edit!TracksPlay

\* A restart rebuilds stacks, canvases and tracks from snapshot and log
\* (layers_runtime.rs; LayersPanel).
Replays == runs = "edits" => Edit!Replays
=============================================================================
