---------------------------- MODULE RasterTween ----------------------------
(***************************************************************************)
(* What a raster track shows between two painted keyframes (interp_raster,  *)
(* raster_smear).  A layer of one track is painted and cycles the mode of   *)
(* the empty between its keyframes; playback resolves each breath to a      *)
(* canvas: a keyframe's own, a blend of two, cell by cell, or a smear, which *)
(* matches cells of the two keyframes and sweeps each along a line.         *)
(*                                                                         *)
(* Abstractions.  A canvas is a function of the cells it holds.  A flat     *)
(* color is one of its three channels; a material color is a model value.   *)
(* Shader stack and facing ride the halfway cutoff with the graphic.  No    *)
(* shape fade is injected, so a glyph changes at the halfway cutoff.  The   *)
(* eases are left at zero: they bend a progress into another one.           *)
(***************************************************************************)
EXTENDS PropertyTrack

CONSTANTS Position,    \* the cells that may be painted, as <<x, y, z>>
          Glyph,       \* graphics that are glyphs; Stain may hold sprites too
          Space,       \* the graphic of an authored blank
          Flat,        \* the flat colors, a set of numbers
          Palette,     \* the file palette, a sequence of flat colors
          Stain,       \* the cells that a stroke may leave
          Keyframes,   \* the canvases that a document may open with
          Lead, Middle, \* the breaths of the leading empty and of the one between
          MaxCells     \* bounds the cells of a keyframe

ASSUME TweenAssumption ==
  /\ Position \subseteq Int \X Int \X Int
  /\ Flat \subseteq 0..255 /\ Range(Palette) \subseteq Flat /\ Palette # <<>>
  /\ \A c \in Stain : c.graphic # Space /\ c.weight \in 0..3
  /\ Lead \in Nat \ {0} /\ Middle \in Nat \ {0} /\ MaxCells \in Nat

VARIABLES keyframe,  \* the canvas of each solid block (block_canvases)
          track      \* the blocks of the raster track

tweenVars == <<keyframe, track>>
-----------------------------------------------------------------------------
(* Arithmetic of the appearance channels.  A progress is a fraction.       *)

Magnitude(n) == IF n < 0 THEN -n ELSE n

\* f32::round: to the nearest integer, halves away from zero.
RoundedRatio(n, d) == IF n >= 0 THEN (2 * n + d) \div (2 * d) ELSE -((d - 2 * n) \div (2 * d))
Lerp(a, b, p) == RoundedRatio(a * p.den + (b - a) * p.num, p.den)
FromActive(p) == 2 * p.num < p.den
Active(a, b, p) == IF FromActive(p) THEN a ELSE b

\* nearest_indexed_rgb: the first of the nearest colors of the palette.
NearestIndexed(level) ==
  LET Off(i) == Magnitude(Palette[i] - level)
  IN  Palette[Min({i \in DOMAIN Palette : \A j \in DOMAIN Palette : Off(i) <= Off(j)})]

BlendColors(a, b, p) ==
  IF {a, b} \subseteq Flat THEN NearestIndexed(Lerp(a, b, p)) ELSE Active(a, b, p)

\* blend_cells_with_weight_scale.
BlendCells(a, b, p, scale) ==
  [graphic |-> Active(a.graphic, b.graphic, p),
   color   |-> BlendColors(a.color, b.color, p),
   weight  |-> RoundedRatio(Lerp(a.weight, b.weight, p) * scale.num, scale.den)]
Whole == [num |-> 1, den |-> 1]

\* fade_one_sided_cell: full weight at its keyframe, none at the halfway point.
FadeCell(c, p) == [c EXCEPT !.weight = RoundedRatio(@ * Magnitude(2 * p.num - p.den), p.den)]

\* effective_cell, over a canvas: an authored blank is no cell.
ShownCells(cv) == [q \in {q \in DOMAIN cv : cv[q].graphic # Space} |-> cv[q]]

\* blend_canvases.
BlendCanvases(from, to, p) ==
  LET a == ShownCells(from) b == ShownCells(to)
      shown == (DOMAIN a \cap DOMAIN b) \cup (IF FromActive(p) THEN DOMAIN a ELSE DOMAIN b)
  IN  [q \in shown |->
         CASE q \in DOMAIN a \cap DOMAIN b -> BlendCells(a[q], b[q], p, Whole)
           [] q \in DOMAIN a \ DOMAIN b -> FadeCell(a[q], p)
           [] OTHER -> FadeCell(b[q], p)]
-----------------------------------------------------------------------------
(* Smear: which cell becomes which.                                        *)

MaxMatchDistance == 8
MinMatchScore == 64
ManhattanDistance(s, t) ==
  Magnitude(s[1] - t[1]) + Magnitude(s[2] - t[2]) + Magnitude(s[3] - t[3])

\* match_score: None is a sprite that is not the same one.
Compatible(a, b) == a.graphic = b.graphic \/ {a.graphic, b.graphic} \subseteq Glyph
MatchScore(s, a, t, b) ==
  (IF a.graphic = b.graphic THEN 80 ELSE 40) + (IF a.color = b.color THEN 32 ELSE 0)
    + 24 - Min({Magnitude(a.weight - b.weight), 24}) - ManhattanDistance(s, t)

Candidates(from, to) ==
  LET a == ShownCells(from) b == ShownCells(to)
      near == {st \in (DOMAIN a) \X (DOMAIN b) :
                 /\ ManhattanDistance(st[1], st[2]) <= MaxMatchDistance
                 /\ Compatible(a[st[1]], b[st[2]])}
  IN  {c \in {[source |-> st[1], target |-> st[2],
               score |-> MatchScore(st[1], a[st[1]], st[2], b[st[2]])] : st \in near} :
         c.score >= MinMatchScore}

Before(p, q) ==
  \/ p[1] < q[1]
  \/ p[1] = q[1] /\ p[2] < q[2]
  \/ p[1] = q[1] /\ p[2] = q[2] /\ p[3] < q[3]

Better(c, d) ==
  \/ c.score > d.score
  \/ c.score = d.score /\ Before(c.source, d.source)
  \/ c.score = d.score /\ c.source = d.source /\ Before(c.target, d.target)

\* What may still be taken once c is.
Left(rest, c) == {d \in rest : d.source # c.source /\ d.target # c.target}

\* correspondences: greedy, the best candidate first.
Correspondences(from, to) ==
  LET all == Candidates(from, to)
      Best(rest) == CHOOSE c \in rest : \A d \in rest \ {c} : Better(c, d)
      Pick(g, i) == IF g.rest = {} THEN g
                    ELSE [taken |-> Append(g.taken, Best(g.rest)), rest |-> Left(g.rest, Best(g.rest))]
  IN  FoldLeft(Pick, [taken |-> <<>>, rest |-> all], [i \in 1..Cardinality(all) |-> i]).taken
-----------------------------------------------------------------------------
(* Smear: the swept cells.                                                 *)

\* trail_window: a trail starts where p - 2p(1 - p) is.
Exposed(p) == Max({2 * p.num * p.num - p.num * p.den, 0})

\* swept_path: one step along the longest axis at a time, so no two samples
\* share a cell; the last one has the progress of the tween itself.
Swept(c, p) ==
  LET d == [x \in 1..3 |-> c.target[x] - c.source[x]]
      steps == Max({Magnitude(d[x]) : x \in 1..3})
      first == RoundedRatio(Exposed(p) * steps, p.den * p.den)
      last  == Max({first, RoundedRatio(p.num * steps, p.den)})
      At(s) == [x \in 1..3 |-> c.source[x] + RoundedRatio(d[x] * s, steps)]
  IN  IF steps = 0 THEN <<[at |-> c.source, p |-> p]>>
      ELSE [i \in 1..(last - first + 1) |->
              [at |-> At(first + i - 1),
               p  |-> IF first + i - 1 = last THEN p ELSE [num |-> first + i - 1, den |-> steps]]]

\* A trail keeps 35 % of the weight at its end and all of it at its head.
TrailScale(i, len) == IF len = 1 THEN Whole ELSE [num |-> 35 * (len - 1) + 65 * (i - 1), den |-> 100 * (len - 1)]

Splats(cs, k, from, to, p) ==
  LET path == Swept(cs[k], p) n == Len(path) IN
  {[at |-> path[i].at, head |-> i = n, score |-> cs[k].score, behind |-> n - i, turn |-> k,
    cell |-> BlendCells(from[cs[k].source], to[cs[k].target], path[i].p, TrailScale(i, n))] : i \in 1..n}

\* What no cell of the other keyframe answers to fades in place, as a head.
Fallback(cs, from, to, p) ==
  LET rest(cv, gone) == [q \in DOMAIN cv \ gone |-> cv[q]]
      faded == BlendCanvases(rest(from, {c.source : c \in Range(cs)}),
                             rest(to, {c.target : c \in Range(cs)}), p)
  IN  {[at |-> q, head |-> TRUE, score |-> 0, behind |-> 0, turn |-> 0, cell |-> faded[q]]
         : q \in DOMAIN faded}

\* insert_splat: a head beats a trail, then the better match, then the sample
\* nearer to its head; the earlier of two equals stays.
\* Mutant: the better match first, heads or not.
OutranksByScore(s, t) ==
  \/ s.score > t.score
  \/ s.score = t.score /\ s.behind < t.behind
  \/ s.score = t.score /\ s.behind = t.behind /\ s.turn < t.turn

Outranks(s, t) ==
  \/ s.head /\ ~t.head
  \/ s.head = t.head /\ s.score > t.score
  \/ s.head = t.head /\ s.score = t.score /\ s.behind < t.behind
  \/ s.head = t.head /\ s.score = t.score /\ s.behind = t.behind /\ s.turn < t.turn

AllSplats(from, to, p) ==
  LET cs == Correspondences(from, to)
  IN  Fallback(cs, from, to, p) \cup UNION {Splats(cs, k, from, to, p) : k \in DOMAIN cs}

\* smear_canvases, strictly between its ends.
SmearCanvases(from, to, p) ==
  LET splats == AllSplats(from, to, p)
      Winner(q) == CHOOSE s \in splats : s.at = q /\ \A t \in splats \ {s} : t.at = q => Outranks(s, t)
  IN  [q \in {s.at : s \in splats} |-> Winner(q).cell]
-----------------------------------------------------------------------------
(* The layer: an empty that loops in, a keyframe, an empty, a keyframe, an  *)
(* empty that loops out.                                                   *)

KeyOf(j) == keyframe[track[j].id]
FractionOf(r) == [num |-> r.num, den |-> r.den]

\* resolved_canvas_for_layer.
ResolvedCanvas(breath) ==
  LET r == ResolveRaster(track, breath) IN
  CASE r.shows = "nothing" -> [q \in {} |-> q]
    [] r.shows = "still" -> KeyOf(r.key)
    [] r.shows = "smear" -> SmearCanvases(KeyOf(r.from), KeyOf(r.to), FractionOf(r))
    [] OTHER -> BlendCanvases(KeyOf(r.from), KeyOf(r.to), FractionOf(r))

Blocks ==
  LET first == Lead middle == first + 1 second == middle + Middle tail == second + 1
  IN  <<[BlankBlock(<<4, 0>>, 0, Lead) EXCEPT !.mode = "loop_in"],
        Solid(<<1, 0>>, first, 1, NoValue),
        BlankBlock(<<3, 0>>, middle, Middle),
        Solid(<<2, 0>>, second, 1, NoValue),
        [BlankBlock(TailId, tail, 1) EXCEPT !.mode = "loop_out"]>>

TweenInit == track = Blocks /\ keyframe \in [{<<1, 0>>, <<2, 0>>} -> Keyframes]

\* A stroke on a keyframe leaves one more cell as the hand's ink (write_cell).
PaintKey(id, q, c) ==
  /\ Cardinality(DOMAIN keyframe[id] \cup {q}) <= MaxCells
  /\ keyframe' = [keyframe EXCEPT ![id] = (q :> c) @@ @]
  /\ UNCHANGED track

\* An erasing stroke writes a blank, which removes the cell.
EraseKey(id, q) ==
  /\ q \in DOMAIN keyframe[id]
  /\ keyframe' = [keyframe EXCEPT ![id] = [r \in DOMAIN @ \ {q} |-> @[r]]]
  /\ UNCHANGED track

\* cycle_property_block_interp_mode on the empty between the keyframes.
Cycle == track' = CycleMode(track, 3, "raster") /\ UNCHANGED keyframe

TweenNext ==
  \/ \E id \in DOMAIN keyframe, q \in Position :
       (\E c \in Stain : PaintKey(id, q, c)) \/ EraseKey(id, q)
  \/ Cycle

TweenSpec == TweenInit /\ [][TweenNext]_tweenVars
-----------------------------------------------------------------------------
Breaths == 0..(Lead + 2 * Middle + 6)
Between == {b \in Breaths : Covers(track[3], b)}
First == ShownCells(keyframe[<<1, 0>>])
Second == ShownCells(keyframe[<<2, 0>>])

\* What both keyframes show alike at one place does not move, fade or flicker
\* at any breath of the track, blended, smeared or looped, whatever sweeps
\* across it ("exact graphics are strongest", raster_smear.rs), as long as its
\* color is one that interpolation can show.
StillStays ==
  \A q \in DOMAIN First \cap DOMAIN Second :
    First[q] = Second[q] /\ First[q].color \notin Flat \ Range(Palette) =>
      \A b \in Breaths : LET cv == ResolvedCanvas(b) IN q \in DOMAIN cv /\ cv[q] = First[q]

\* A trail never covers a real cell ("a speculative trail cannot cover a real
\* appearing/disappearing cell"): where a cell stands or fades, one that
\* stands or fades is shown.
HeadsShow ==
  track[3].mode = "smear" => \A b \in Between :
    LET r == ResolveRaster(track, b)
        splats == AllSplats(KeyOf(r.from), KeyOf(r.to), FractionOf(r))
    IN  \A h \in {s \in splats : s.head} :
          \E s \in splats : s.head /\ s.at = h.at /\ s.score >= h.score /\ ResolvedCanvas(b)[h.at] = s.cell

\* The matching gives each cell one partner at most, and leaves out no pair
\* that is better than the partners its two cells got ("a stable global order
\* makes the greedy one-to-one assignment scrub-safe"); and what it smears
\* shows its heads.
SmearIsSound ==
  LET cs == Range(Correspondences(keyframe[<<1, 0>>], keyframe[<<2, 0>>])) IN
  /\ \A c, d \in cs : c.source = d.source \/ c.target = d.target => c = d
  /\ \A c \in Candidates(keyframe[<<1, 0>>], keyframe[<<2, 0>>]) :
       \E d \in cs : (d.source = c.source \/ d.target = c.target) /\ d.score >= c.score
  /\ HeadsShow
=============================================================================
