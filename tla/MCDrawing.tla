----------------------------- MODULE MCDrawing -----------------------------
(* Small instances of CanvasTools, what a press of a painting tool does, and
   of RasterTween, what a breath between two painted keyframes shows.  The two
   share no state: a behaviour runs the one or the other, and what it does not
   run stays as it was. *)
EXTENDS CanvasTools, RasterTween
CONSTANTS g, red, blue, inkA, inkB, sprite, matter
VARIABLE runs  \* which of the two

At(points, cell) == [p \in Point |-> IF p \in points THEN cell ELSE None]
CellOf(gr, co) == [graphic |-> gr, color |-> co]

\* An empty document, and an old one that stores a blank beside what it shows.
MCOpened == {At({}, None),
             [p \in Point |-> CASE p \in {<<1, 0, 0>>, <<0, 1, 0>>} -> CellOf(g, red)
                                [] p = <<1, 1, 0>> -> CellOf(Blank, blue)
                                [] p = <<1, 0, 1>> -> CellOf(g, blue)
                                [] OTHER -> None]}

\* A click, a triangle, and a path that crosses itself.
MCLoop == {<<<<0, 0>>>>, <<<<0, 0>>, <<2, 2>>, <<0, 2>>>>, <<<<0, 0>>, <<2, 2>>, <<2, 0>>, <<0, 2>>>>}

\* The settings that matter together: whole and partly locked hands, with and
\* without depth, in each mode.
Plain == [tool |-> "brush", target |-> "image", graphic |-> g, color |-> blue, size |-> 2,
          edit |-> Channel, select |-> Channel, reach |-> "adjacent", deep |-> FALSE,
          mode |-> "replace"]
Brushes == {Plain, [Plain EXCEPT !.graphic = Blank, !.edit = {"graphic"}],
            [Plain EXCEPT !.color = red, !.edit = {"color"}]}
Fill == [Plain EXCEPT !.tool = "fill"]
Fills == {[Fill EXCEPT !.select = {"graphic"}, !.reach = "all"],
          [Fill EXCEPT !.edit = {"color"}, !.deep = TRUE]}
Lasso == [Plain EXCEPT !.tool = "lasso", !.color = red]
Lassos == {Lasso, [Lasso EXCEPT !.deep = TRUE, !.edit = {"graphic"}],
           [Lasso EXCEPT !.deep = TRUE, !.target = "selection"]}
Selector == [Fill EXCEPT !.target = "selection"]
Selectors == {Selector, [Selector EXCEPT !.mode = "subtract"],
              [Selector EXCEPT !.deep = TRUE, !.mode = "additive"],
              [Selector EXCEPT !.deep = TRUE, !.mode = "intersect"]}
Stamper == [Plain EXCEPT !.tool = "stamp"]
MCHand == Brushes \cup Fills \cup Lassos \cup Selectors
            \cup {Stamper, [Stamper EXCEPT !.edit = {"color"}]}

\* A row of three cells and one off the row, so that paths cross and bend.
MCPosition == {<<0, 0, 0>>, <<1, 0, 0>>, <<2, 0, 0>>, <<2, 1, 0>>}

StainOf(graphic, color, weight) == [graphic |-> graphic, color |-> color, weight |-> weight]

\* The palette lacks the color between its two.
MCPalette == <<0, 200>>
MCStain == {StainOf(inkA, 0, 3), StainOf(inkB, 200, 2), StainOf(sprite, matter, 1)}

\* An empty canvas, and an old one with a stored blank and a color that is not
\* in the palette.
MCKeyframes == {[q \in {} |-> q],
                [q \in {<<0, 0, 0>>, <<1, 0, 0>>} |->
                   IF q = <<0, 0, 0>> THEN StainOf(inkA, 120, 3) ELSE StainOf(Space, 0, 0)]}

\* The press is an input: what follows does not depend on it.
Drawing == <<canvas, cells, level, clip, edits, runs, keyframe, track>>

DrawInit ==
  \/ runs = "tools" /\ Init /\ keyframe = {} /\ track = {}
  \/ /\ runs = "tween" /\ TweenInit
     /\ canvas = {} /\ cells = {} /\ level = 0 /\ clip = None /\ stroke = None /\ edits = 0

DrawNext ==
  /\ UNCHANGED runs
  /\ \/ runs = "tools" /\ Next /\ UNCHANGED tweenVars
     \/ runs = "tween" /\ TweenNext /\ UNCHANGED vars

DrawSpec == DrawInit /\ [][DrawNext]_<<vars, runs, keyframe, track>>

\* The floods of CanvasTools are regions (fill.rs, FloodIsRegion).
FloodsAreRegions == runs = "tools" => FloodIsRegion

\* The tween of two keyframes keeps still what they share, pairs cells one to
\* one and best first, and hides no real cell under a trail (raster_smear.rs;
\* StillStays and SmearIsSound of RasterTween).
TweenIsSound == runs = "tween" => StillStays /\ SmearIsSound
=============================================================================
