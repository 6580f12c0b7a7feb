------------------------- MODULE PainterDeskProofs -------------------------
(***************************************************************************)
(* Proofs about PainterDesk, for every set of colors and tools and every   *)
(* bound: typing mode always has a surface and leaves no cell unrecorded,  *)
(* an entry adds the color it shows, and a desk revived from the session   *)
(* file is the one that was saved.  One inductive invariant, DeskInv,      *)
(* types the desk and its file, relates the two fields of an open entry,   *)
(* and says which surfaces may be open together.                           *)
(***************************************************************************)
EXTENDS PainterDesk, SequenceTheorems, TLAPS

-----------------------------------------------------------------------------
(* The invariant.                                                          *)

Hands == [Sides -> Hand]

\* The values a captured field may have.
ValueOf(f) ==
  CASE f = "graphic" -> Graphics
    [] f = "color" -> Colors
    [] f = "weight" -> 0 .. MaxWeight
    [] OTHER -> BOOLEAN

Value == UNION {ValueOf(f) : f \in Fields}

Half ==
  {h \in [tool : Tools, fields : UNION {[K -> Value] : K \in SUBSET Fields}] :
     \A f \in DOMAIN h.fields : h.fields[f] \in ValueOf(f)}

Preset == [Sides -> Half]

PresetsWhole(ps) == ps \in Seq(Preset) /\ Len(ps) <= MaxPresets

PaletteWhole(p) == p \in Seq(Colors) /\ p # <<>> /\ IsInjective(p)

Entries == [field : EntryFields, buffer : [EntryFields -> Buffer],
            seen : Colors, touched : BOOLEAN]

\* Either field of an entry reads as the color that the preview shows, if it
\* reads as one at all.
EntryWhole(e) ==
  /\ e \in Entries
  /\ \A f \in EntryFields : e.buffer[f].reads \in {None, e.seen}

Files == [hands : [active : Sides, hands : Hands], presets : Seq(Preset), camera : 0 .. 1]

FileWhole(file) == file \in Files /\ PresetsWhole(file.presets)

\* Text takes the keyboard as long as it is open, and holds cells without a
\* record only while it is in front.
Surfaces ==
  /\ number \in BOOLEAN /\ text \in BOOLEAN /\ pending \in BOOLEAN /\ typing \in BOOLEAN
  /\ typing => entry # None \/ number \/ text
  /\ text => typing
  /\ pending => text /\ ~number /\ entry = None

HandsWhole == hands \in Hands /\ active \in Sides

ColorsWhole ==
  /\ PaletteWhole(palette) /\ swatch \in Range(palette) \cup {None}
  /\ entry # None => EntryWhole(entry)

ListWhole ==
  /\ PresetsWhole(presets) /\ keys \subseteq Fields
  /\ clicked \in [Sides -> 0 .. MaxPresets] /\ rename \in 0 .. MaxPresets

DeskWhole == HandsWhole /\ ColorsWhole /\ Surfaces /\ ListWhole /\ camera \in 0 .. 1

DeskInv ==
  /\ DeskWhole
  /\ session # None => FileWhole(session)
  /\ saved \in BOOLEAN /\ recent \in BOOLEAN /\ dirty \in BOOLEAN

-----------------------------------------------------------------------------
(* Hands and presets.                                                      *)

\* The clamps keep a number in range, and leave one that is in range alone.
LEMMA ClampFacts ==
  ASSUME NEW n \in Int
  PROVE  /\ Clamp(n, 0, MaxWeight) \in 0 .. MaxWeight
         /\ n \in 0 .. MaxWeight => Clamp(n, 0, MaxWeight) = n
BY HandsAssumption DEF Clamp

\* The desk a painter starts with is whole.
LEMMA StartsWhole ==
  /\ DefaultHands(First) \in Hands
  /\ StarterPresets \in Seq(Preset) /\ Len(StarterPresets) = 2
<1>1. DefaultHand(First) \in Hand
  <2>1. Clamp(2, 0, MaxWeight) \in 0 .. MaxWeight
    BY ClampFacts
  <2>. QED
    BY <2>1, HandsAssumption, DeskAssumption DEF DefaultHand, Hand, Graphics
<1>2. [DefaultHand(First) EXCEPT !.graphic = "blank"] \in Hand
  BY <1>1 DEF Hand, Graphics
<1>3. \A t \in Tools : ToolOnly(t) \in Half
  <2>1. TAKE t \in Tools
  <2> DEFINE none == [f \in {} |-> None]
  <2>2. none \in [{} -> Value] /\ {} \in SUBSET Fields
    OBVIOUS
  <2>3. none \in UNION {[K -> Value] : K \in SUBSET Fields} /\ DOMAIN none = {}
    BY <2>2
  <2> HIDE DEF none
  <2>4. [tool |-> t, fields |-> none] \in Half
    BY <2>3 DEF Half
  <2>. QED
    BY <2>4 DEF ToolOnly, none
<1>4. [tool |-> "picker", fields |-> [f \in {"opposite"} |-> TRUE]] \in Half
  <2> DEFINE one == [f \in {"opposite"} |-> TRUE]
  <2>0. TRUE \in ValueOf("opposite")
    BY DEF ValueOf
  <2>1. TRUE \in Value
    BY <2>0 DEF Value, Fields
  <2>2. one \in [{"opposite"} -> Value] /\ {"opposite"} \in SUBSET Fields
    BY <2>1 DEF Fields
  <2>3. one \in UNION {[K -> Value] : K \in SUBSET Fields} /\ DOMAIN one = {"opposite"}
        /\ one["opposite"] = TRUE
    BY <2>2
  <2> HIDE DEF one
  <2>4. [tool |-> "picker", fields |-> one] \in Half
    BY <2>0, <2>3, HandsAssumption DEF Half
  <2>. QED
    BY <2>4 DEF one
<1>5. \A l, r \in Half : Halves(l, r) \in Preset
  BY DEF Halves, Preset
<1>6. \A l, r \in Hand : Halves(l, r) \in Hands
  BY DEF Halves, Hands
<1>7. \A a, b \in Preset : <<a, b>> \in Seq(Preset) /\ Len(<<a, b>>) = 2
  OBVIOUS
<1>. QED
  BY <1>1, <1>2, <1>3, <1>4, <1>5, <1>6, <1>7, HandsAssumption DEF DefaultHands, StarterPresets

\* What a click equips is a value of its field.
LEMMA EquipWhole ==
  ASSUME NEW hs \in Hands, NEW s \in Sides
  PROVE  /\ \A t \in Tools : [hs EXCEPT ![s]["tool"] = t] \in Hands
         /\ \A g \in Graphics : [hs EXCEPT ![s]["graphic"] = g] \in Hands
         /\ \A c \in Colors : [hs EXCEPT ![s]["color"] = c] \in Hands
         /\ \A w \in 0 .. MaxWeight : [hs EXCEPT ![s]["weight"] = w] \in Hands
         /\ \A o \in BOOLEAN : [hs EXCEPT ![s]["opposite"] = o] \in Hands
<1>1. hs[s] \in Hand
  BY DEF Hands
<1>2. \A h \in Hand : [hs EXCEPT ![s] = h] \in Hands
  BY DEF Hands
<1>3. /\ \A t \in Tools : [hs[s] EXCEPT !["tool"] = t] \in Hand
      /\ \A g \in Graphics : [hs[s] EXCEPT !["graphic"] = g] \in Hand
      /\ \A c \in Colors : [hs[s] EXCEPT !["color"] = c] \in Hand
      /\ \A w \in 0 .. MaxWeight : [hs[s] EXCEPT !["weight"] = w] \in Hand
      /\ \A o \in BOOLEAN : [hs[s] EXCEPT !["opposite"] = o] \in Hand
  BY <1>1 DEF Hand
<1>. QED
  BY <1>2, <1>3

\* A preset laid over a hand leaves a hand.
LEMMA OverlayWhole ==
  ASSUME NEW hand \in Hand, NEW half \in Half
  PROVE  Overlay(hand, half) \in Hand
<1> DEFINE laid(f) == IF f \in DOMAIN half.fields THEN half.fields[f] ELSE hand[f]
<1>1. half.tool \in Tools /\ \A f \in DOMAIN half.fields : half.fields[f] \in ValueOf(f)
  BY DEF Half
<1>2. /\ hand["graphic"] \in Graphics /\ hand["color"] \in Colors
      /\ hand["weight"] \in 0 .. MaxWeight /\ hand["opposite"] \in BOOLEAN
  BY DEF Hand
<1>3. /\ ValueOf("graphic") = Graphics /\ ValueOf("color") = Colors
      /\ ValueOf("weight") = 0 .. MaxWeight /\ ValueOf("opposite") = BOOLEAN
  BY DEF ValueOf
<1>4. laid("graphic") \in Graphics
  BY <1>1, <1>2, <1>3
<1>5. laid("color") \in Colors
  BY <1>1, <1>2, <1>3
<1>6. laid("weight") \in 0 .. MaxWeight
  BY <1>1, <1>2, <1>3
<1>7. laid("opposite") \in BOOLEAN
  BY <1>1, <1>2, <1>3
<1> HIDE DEF laid
<1>8. Clamp(laid("weight"), 0, MaxWeight) \in 0 .. MaxWeight
  BY <1>6, ClampFacts
<1>9. [tool |-> half.tool, graphic |-> laid("graphic"), color |-> laid("color"),
       weight |-> Clamp(laid("weight"), 0, MaxWeight), opposite |-> laid("opposite")] \in Hand
  BY <1>1, <1>4, <1>5, <1>7, <1>8 DEF Hand
<1>. QED
  BY <1>9 DEF Overlay, laid

\* What is captured from the hands is a preset.
LEMMA CaptureWhole ==
  ASSUME NEW hs \in Hands, NEW K \in SUBSET Fields
  PROVE  Capture(hs, K) \in Preset
<1>1. ASSUME NEW s \in Sides
      PROVE  CaptureHalf(hs[s], K) \in Half
  <2> DEFINE held == [f \in K |-> hs[s][f]]
  <2>1. hs[s] \in Hand
    BY DEF Hands
  <2>2. \A f \in Fields : hs[s][f] \in ValueOf(f)
    BY <2>1 DEF Hand, Fields, ValueOf
  <2>3. \A f \in K : hs[s][f] \in ValueOf(f) /\ hs[s][f] \in Value
    BY <2>2 DEF Value
  <2>4. held \in [K -> Value] /\ DOMAIN held = K
    BY <2>3
  <2>5. held \in UNION {[J -> Value] : J \in SUBSET Fields}
    BY <2>4
  <2>6. \A f \in DOMAIN held : held[f] \in ValueOf(f)
    BY <2>3
  <2>7. hs[s].tool \in Tools
    BY <2>1 DEF Hand
  <2> HIDE DEF held
  <2>8. [tool |-> hs[s].tool, fields |-> held] \in Half
    BY <2>5, <2>6, <2>7 DEF Half
  <2>. QED
    BY <2>8 DEF CaptureHalf, Restrict, held
<1>. QED
  BY <1>1 DEF Capture, Preset

\* The picker leaves hands.
LEMMA PickedWhole ==
  ASSUME NEW hs \in Hands, NEW s \in Sides, NEW cell \in Cells
  PROVE  Picked(hs, s, cell) \in Hands /\ Receiver(hs, s) \in Sides
<1> DEFINE r == Receiver(hs, s)
           h == IF cell = None THEN [hs[r] EXCEPT !.graphic = "blank"]
                ELSE [hs[r] EXCEPT !.graphic = "glyph", !.color = cell.color,
                                   !.weight = Clamp(cell.weight, 0, MaxWeight)]
<1>1. r \in Sides
  <2>1. Other(s) \in Sides
    BY DEF Other, Sides
  <2>. QED
    BY <2>1 DEF Receiver
<1>2. hs[r] \in Hand
  BY <1>1 DEF Hands
<1>3. h \in Hand
  <2>1. CASE cell = None
    BY <1>2, <2>1 DEF Hand, Graphics
  <2>2. CASE cell # None
    <3>1. cell.color \in Colors /\ cell.weight \in 0 .. MaxWeight
      BY <2>2 DEF Cells
    <3>2. Clamp(cell.weight, 0, MaxWeight) \in 0 .. MaxWeight
      BY <3>1, ClampFacts
    <3>. QED
      BY <1>2, <2>2, <3>1, <3>2 DEF Hand, Graphics
  <2>. QED
    BY <2>1, <2>2
<1>4. Picked(hs, s, cell) = [hs EXCEPT ![r] = h]
  BY DEF Picked
<1> HIDE DEF h, r
<1>5. [hs EXCEPT ![r] = h] \in Hands
  BY <1>1, <1>3 DEF Hands
<1>. QED
  BY <1>1, <1>4, <1>5 DEF r

\* Hands that were written come back as they were.
LEMMA RevivedIs ==
  ASSUME NEW a \in Sides, NEW hs \in Hands
  PROVE  Revived(Persisted(a, hs)) = hs /\ Persisted(a, hs).active = a
<1> DEFINE back(s) == [hs[s] EXCEPT !.weight = Clamp(hs[s].weight, 0, MaxWeight)]
<1>1. ASSUME NEW s \in Sides
      PROVE  back(s) = hs[s]
  <2>1. hs[s] \in Hand
    BY DEF Hands
  <2>2. hs[s].weight \in Int /\ hs[s].weight \in 0 .. MaxWeight
    BY <2>1, HandsAssumption DEF Hand
  <2>3. Clamp(hs[s].weight, 0, MaxWeight) = hs[s].weight
    BY <2>2, ClampFacts
  <2>. QED
    BY <2>1, <2>3 DEF Hand
<1>2. Persisted(a, hs).hands = hs /\ Persisted(a, hs).active = a
  BY DEF Persisted
<1>3. Revived(Persisted(a, hs)) = [s \in Sides |-> back(s)]
  BY <1>2 DEF Revived
<1> HIDE DEF back
<1>4. [s \in Sides |-> back(s)] = [s \in Sides |-> hs[s]]
  BY <1>1
<1>5. hs = [s \in Sides |-> hs[s]]
  BY DEF Hands
<1>. QED
  BY <1>2, <1>3, <1>4, <1>5

-----------------------------------------------------------------------------
(* Sequences: the palette and the list of presets.                         *)

\* An element taken out leaves the others, in their order.
LEMMA RemoveAtIs ==
  ASSUME NEW S, NEW s \in Seq(S), NEW i \in 1 .. Len(s)
  PROVE  /\ RemoveAt(s, i) \in Seq(S)
         /\ Len(RemoveAt(s, i)) = Len(s) - 1
         /\ \A j \in 1 .. Len(s) - 1 :
              RemoveAt(s, i)[j] = IF j < i THEN s[j] ELSE s[j + 1]
<1> DEFINE a == SubSeq(s, 1, i - 1)
           b == SubSeq(s, i + 1, Len(s))
<1>1. Len(s) \in Nat /\ i \in Nat /\ 1 <= i /\ i <= Len(s)
  OBVIOUS
<1>2. /\ a \in Seq(S) /\ Len(a) = i - 1
      /\ \A j \in 1 .. i - 1 : a[j] = s[j]
  BY <1>1, SubSeqProperties
<1>3. /\ b \in Seq(S) /\ Len(b) = Len(s) - i
      /\ \A j \in 1 .. Len(s) - i : b[j] = s[i + j]
  BY <1>1, SubSeqProperties
<1>4. RemoveAt(s, i) = a \o b
  BY DEF RemoveAt
<1> HIDE DEF a, b
<1>5. /\ a \o b \in Seq(S)
      /\ Len(a \o b) = Len(a) + Len(b)
      /\ \A j \in 1 .. Len(a) + Len(b) :
           (a \o b)[j] = IF j <= Len(a) THEN a[j] ELSE b[j - Len(a)]
  BY <1>2, <1>3, ConcatProperties
<1>6. ASSUME NEW j \in 1 .. Len(s) - 1
      PROVE  (a \o b)[j] = IF j < i THEN s[j] ELSE s[j + 1]
  <2>1. CASE j < i
    <3>1. j \in 1 .. Len(a) + Len(b) /\ j <= Len(a) /\ j \in 1 .. i - 1
      BY <1>1, <1>2, <1>3, <2>1
    <3>. QED
      BY <1>2, <1>5, <2>1, <3>1
  <2>2. CASE ~(j < i)
    <3>1. j \in 1 .. Len(a) + Len(b) /\ ~(j <= Len(a)) /\ ~(j < i)
      BY <1>1, <1>2, <1>3, <2>2
    <3>2. j - Len(a) \in 1 .. Len(s) - i /\ i + (j - Len(a)) = j + 1
      BY <1>1, <1>2, <2>2
    <3>3. (a \o b)[j] = b[j - Len(a)]
      BY <1>5, <3>1
    <3>4. \A m \in 1 .. Len(s) - i : \A n : n = i + m => b[m] = s[n]
      BY <1>3
    <3>5. b[j - Len(a)] = s[j + 1]
      BY <3>2, <3>4
    <3>. QED
      BY <3>1, <3>3, <3>5, Zenon
  <2>. QED
    BY <2>1, <2>2, Zenon
<1>. QED
  BY <1>1, <1>2, <1>3, <1>4, <1>5, <1>6

\* A color that is added is added once, at the end, and takes none away.
LEMMA PaletteGrows ==
  ASSUME NEW p, PaletteWhole(p), NEW c \in Colors
  PROVE  PaletteWhole(WithColor(p, c)) /\ Range(p) \subseteq Range(WithColor(p, c))
<1>1. CASE c \in Range(p)
  BY <1>1 DEF WithColor
<1>2. CASE c \notin Range(p)
  <2>1. p \in Seq(Colors) /\ Len(p) \in Nat /\ DOMAIN p = 1 .. Len(p)
    BY DEF PaletteWhole
  <2>2. \A i \in 1 .. Len(p) : p[i] # c
    BY <1>2, <2>1 DEF Range
  <2>3. SUFFICES ASSUME NEW q, q = Append(p, c)
                 PROVE  PaletteWhole(q) /\ Range(p) \subseteq Range(q)
    BY <1>2 DEF WithColor
  <2>4. /\ q \in Seq(Colors) /\ Len(q) = Len(p) + 1 /\ DOMAIN q = 1 .. Len(p) + 1
        /\ \A i \in 1 .. Len(p) : q[i] = p[i]
        /\ q[Len(p) + 1] = c
    BY <2>1, <2>3, AppendProperties
  <2>5. q # <<>>
    BY <2>1, <2>4
  <2>6. ASSUME NEW i \in DOMAIN q, NEW j \in DOMAIN q, q[i] = q[j]
        PROVE  i = j
    BY <2>1, <2>2, <2>4, <2>6 DEF PaletteWhole, IsInjective
  <2>7. Range(p) \subseteq Range(q)
    BY <2>1, <2>4 DEF Range
  <2>. QED
    BY <2>4, <2>5, <2>6, <2>7 DEF PaletteWhole, IsInjective
<1>. QED
  BY <1>1, <1>2

\* A palette that loses a color keeps another one.
LEMMA PaletteShrinks ==
  ASSUME NEW p, PaletteWhole(p), NEW c
  PROVE  PaletteWhole(WithoutColor(p, c))
<1>1. CASE Len(p) <= 1 \/ c \notin Range(p)
  BY <1>1 DEF WithoutColor
<1>2. CASE ~(Len(p) <= 1) /\ c \in Range(p)
  <2>1. p \in Seq(Colors) /\ Len(p) \in Nat /\ DOMAIN p = 1 .. Len(p)
    BY DEF PaletteWhole
  <2> DEFINE k == CHOOSE i \in DOMAIN p : p[i] = c
  <2>2. k \in 1 .. Len(p)
    BY <1>2, <2>1 DEF Range
  <2>3. WithoutColor(p, c) = RemoveAt(p, k)
    BY <1>2 DEF WithoutColor
  <2> HIDE DEF k
  <2>4. SUFFICES ASSUME NEW q, q = RemoveAt(p, k)
                 PROVE  PaletteWhole(q)
    BY <2>3
  <2>5. /\ q \in Seq(Colors) /\ Len(q) = Len(p) - 1 /\ DOMAIN q = 1 .. Len(p) - 1
        /\ \A j \in 1 .. Len(p) - 1 : q[j] = IF j < k THEN p[j] ELSE p[j + 1]
    <3>1. /\ RemoveAt(p, k) \in Seq(Colors)
          /\ Len(RemoveAt(p, k)) = Len(p) - 1
          /\ \A j \in 1 .. Len(p) - 1 :
               RemoveAt(p, k)[j] = IF j < k THEN p[j] ELSE p[j + 1]
      BY <2>1, <2>2, RemoveAtIs
    <3>2. DOMAIN q = 1 .. Len(q)
      BY <2>4, <3>1
    <3>. QED
      BY <2>4, <3>1, <3>2
  <2>6. q # <<>>
    BY <1>2, <2>1, <2>5
  <2>7. ASSUME NEW i \in DOMAIN q, NEW j \in DOMAIN q, q[i] = q[j]
        PROVE  i = j
    <3> DEFINE at(n) == IF n < k THEN n ELSE n + 1
    <3>1. i \in 1 .. Len(p) - 1 /\ j \in 1 .. Len(p) - 1
      BY <2>5
    <3>2. /\ at(i) \in 1 .. Len(p) /\ at(j) \in 1 .. Len(p)
          /\ at(i) = at(j) => i = j
      BY <2>1, <2>2, <3>1
    <3>3. q[i] = p[at(i)] /\ q[j] = p[at(j)]
      BY <2>5, <3>1
    <3> HIDE DEF at
    <3>4. at(i) = at(j)
      BY <2>1, <2>7, <3>2, <3>3 DEF PaletteWhole, IsInjective
    <3>. QED
      BY <3>2, <3>4
  <2>. QED
    BY <2>5, <2>6, <2>7 DEF PaletteWhole, IsInjective
<1>. QED
  BY <1>1, <1>2

\* A preset more, while there is room, or one less.
LEMMA PresetsChange ==
  ASSUME NEW ps, PresetsWhole(ps)
  PROVE  /\ \A p \in Preset : Len(ps) < MaxPresets => PresetsWhole(Append(ps, p))
         /\ \A i \in DOMAIN ps : PresetsWhole(RemoveAt(ps, i))
         /\ \A i \in DOMAIN ps : ps[i] \in Preset /\ i \in 0 .. MaxPresets
<1>1. ps \in Seq(Preset) /\ Len(ps) \in Nat /\ DOMAIN ps = 1 .. Len(ps) /\ Len(ps) <= MaxPresets
  BY DEF PresetsWhole
<1>2. ASSUME NEW p \in Preset, Len(ps) < MaxPresets
      PROVE  PresetsWhole(Append(ps, p))
  <2>1. Append(ps, p) \in Seq(Preset) /\ Len(Append(ps, p)) = Len(ps) + 1
    BY <1>1, AppendProperties
  <2>. QED
    BY <1>1, <1>2, <2>1, DeskAssumption DEF PresetsWhole
<1>3. ASSUME NEW i \in DOMAIN ps
      PROVE  PresetsWhole(RemoveAt(ps, i))
  <2>1. RemoveAt(ps, i) \in Seq(Preset) /\ Len(RemoveAt(ps, i)) = Len(ps) - 1
    BY <1>1, RemoveAtIs
  <2>. QED
    BY <1>1, <2>1, DeskAssumption DEF PresetsWhole
<1>4. \A i \in DOMAIN ps : ps[i] \in Preset /\ i \in 0 .. MaxPresets
  BY <1>1, DeskAssumption
<1>. QED
  BY <1>2, <1>3, <1>4

-----------------------------------------------------------------------------
(* The color entry.                                                        *)

\* An entry opens with both fields at the hand's color.
LEMMA BeginWhole ==
  ASSUME NEW c \in Colors, NEW f \in EntryFields
  PROVE  EntryWhole(BeginEntry(c, f))
<1>1. Canonical(c) \in Buffer /\ Canonical(c).reads = c
  BY DEF Canonical, Buffer
<1>2. [g \in EntryFields |-> Canonical(c)] \in [EntryFields -> Buffer]
  BY <1>1
<1>3. BeginEntry(c, f) \in Entries
  BY <1>2 DEF BeginEntry, Entries
<1>4. BeginEntry(c, f).seen = c
      /\ \A g \in EntryFields : BeginEntry(c, f).buffer[g] = Canonical(c)
  BY DEF BeginEntry
<1>. QED
  BY <1>1, <1>3, <1>4 DEF EntryWhole

\* Moving the focus changes no buffer.
LEMMA FocusWhole ==
  ASSUME NEW e, EntryWhole(e), NEW f \in EntryFields
  PROVE  EntryWhole([e EXCEPT !.field = f])
BY DEF EntryWhole, Entries

\* Mirroring makes an entry whole, if the field that is not typed into was.
LEMMA MirrorWhole ==
  ASSUME NEW e \in Entries,
         \A f \in EntryFields : f # e.field => e.buffer[f].reads \in {None, e.seen}
  PROVE  EntryWhole(Mirror(e))
<1>1. e.field \in EntryFields /\ e.seen \in Colors /\ e.touched \in BOOLEAN
      /\ e.buffer \in [EntryFields -> Buffer]
  BY DEF Entries
<1>2. e.buffer[e.field] \in Buffer /\ Reading(e) \in Colors \cup {None}
  BY <1>1 DEF Reading, Buffer
<1>3. CASE Reading(e) = None
  BY <1>3 DEF Mirror, EntryWhole, Reading
<1>4. CASE Reading(e) # None
  <2> DEFINE c == Reading(e)
             b == [f \in EntryFields |-> IF f = e.field THEN e.buffer[f] ELSE Canonical(c)]
  <2>1. c \in Colors /\ Canonical(c) \in Buffer /\ Canonical(c).reads = c
    BY <1>2, <1>4 DEF Canonical, Buffer
  <2>2. b \in [EntryFields -> Buffer]
    BY <1>1, <2>1
  <2>3. \A f \in EntryFields : b[f].reads = c
    BY <2>1 DEF Reading
  <2>4. Mirror(e) = [e EXCEPT !.seen = c, !.buffer = b]
    BY <1>4 DEF Mirror
  <2> HIDE DEF b, c
  <2>5. SUFFICES ASSUME NEW m, m = [e EXCEPT !.seen = c, !.buffer = b]
                 PROVE  EntryWhole(m)
    BY <2>4
  <2>6. m = [field |-> e.field, buffer |-> b, seen |-> c, touched |-> e.touched]
    BY <2>5 DEF Entries
  <2>7. m \in Entries /\ m.buffer = b /\ m.seen = c
    BY <1>1, <2>1, <2>2, <2>6 DEF Entries
  <2>. QED
    BY <2>3, <2>7 DEF EntryWhole
<1>. QED
  BY <1>3, <1>4

\* So it is after every character that goes in or out.
LEMMA TypedWhole ==
  ASSUME NEW e, EntryWhole(e)
  PROVE  \A d \in Pushed(e) \cup Erased(e) : EntryWhole(d)
<1>1. e \in Entries /\ \A f \in EntryFields : e.buffer[f].reads \in {None, e.seen}
  BY DEF EntryWhole
<1>2. e.field \in EntryFields /\ e.seen \in Colors /\ e.touched \in BOOLEAN
      /\ e.buffer \in [EntryFields -> Buffer]
  BY <1>1 DEF Entries
<1>3. ASSUME NEW b \in Buffer, NEW t \in BOOLEAN
      PROVE  EntryWhole(Mirror([e EXCEPT !.buffer[e.field] = b, !.touched = t]))
  <2> DEFINE n == [e.buffer EXCEPT ![e.field] = b]
  <2>1. n \in [EntryFields -> Buffer] /\ \A f \in EntryFields : f # e.field => n[f] = e.buffer[f]
    BY <1>2
  <2>2. [e EXCEPT !.buffer[e.field] = b, !.touched = t]
          = [e EXCEPT !.buffer = n, !.touched = t]
    OBVIOUS
  <2> HIDE DEF n
  <2>3. SUFFICES ASSUME NEW d, d = [e EXCEPT !.buffer = n, !.touched = t]
                 PROVE  EntryWhole(Mirror(d))
    BY <2>2
  <2>4. d \in Entries /\ d.field = e.field /\ d.buffer = n /\ d.seen = e.seen
    BY <1>1, <1>2, <2>1, <2>3 DEF Entries
  <2>5. \A f \in EntryFields : f # d.field => d.buffer[f].reads \in {None, d.seen}
    BY <1>1, <2>1, <2>4
  <2>. QED
    BY <2>4, <2>5, MirrorWhole
<1>4. ASSUME NEW b \in Buffer
      PROVE  EntryWhole(Mirror([e EXCEPT !.buffer[e.field] = b]))
  <2>1. [e EXCEPT !.buffer[e.field] = b] = [e EXCEPT !.buffer[e.field] = b, !.touched = e.touched]
    BY <1>1 DEF Entries
  <2>. QED
    BY <1>2, <1>3, <2>1
<1>5. ASSUME NEW d \in Pushed(e)
      PROVE  EntryWhole(d)
  <2>1. [reads |-> None, full |-> FALSE] \in Buffer
    BY DEF Buffer
  <2>2. d = e \/ \E b \in Buffer : d = WithBuffer(e, b)
    BY <2>1 DEF Pushed, Readings
  <2>. QED
    BY <1>3, <2>2 DEF WithBuffer
<1>6. ASSUME NEW d \in Erased(e)
      PROVE  EntryWhole(d)
  <2>1. \E b \in Buffer : d = Mirror([e EXCEPT !.buffer[e.field] = b])
    BY DEF Erased, Readings
  <2>. QED
    BY <1>4, <2>1
<1>. QED
  BY <1>5, <1>6

\* What an entry commits is the color its preview shows.
LEMMA ReadingIsSeen ==
  ASSUME NEW e, EntryWhole(e)
  PROVE  Reading(e) \in {None, e.seen} /\ e.seen \in Colors
BY DEF EntryWhole, Entries, Reading

-----------------------------------------------------------------------------
(* Inputs.                                                                 *)

\* Equipping a value of the field leaves hands.
LEMMA EquippedWhole ==
  ASSUME HandsWhole, NEW side \in Sides
  PROVE  /\ \A t \in Tools : Equipped(side, "tool", t) => HandsWhole'
         /\ \A g \in Graphics : Equipped(side, "graphic", g) => HandsWhole'
         /\ \A c \in Colors : Equipped(side, "color", c) => HandsWhole'
         /\ \A w \in 0 .. MaxWeight : Equipped(side, "weight", w) => HandsWhole'
         /\ \A o \in BOOLEAN : Equipped(side, "opposite", o) => HandsWhole'
<1>1. hands \in Hands
  BY DEF HandsWhole
<1>2. ASSUME NEW t \in Tools, Equipped(side, "tool", t)
      PROVE  HandsWhole'
  <2>1. hands' = [hands EXCEPT ![side]["tool"] = t] /\ active' = side
    BY <1>2 DEF Equipped
  <2>2. hands' \in Hands
    BY <1>1, <2>1, EquipWhole
  <2>. QED
    BY <2>1, <2>2 DEF HandsWhole
<1>3. ASSUME NEW g \in Graphics, Equipped(side, "graphic", g)
      PROVE  HandsWhole'
  <2>1. hands' = [hands EXCEPT ![side]["graphic"] = g] /\ active' = side
    BY <1>3 DEF Equipped
  <2>2. hands' \in Hands
    BY <1>1, <2>1, EquipWhole
  <2>. QED
    BY <2>1, <2>2 DEF HandsWhole
<1>4. ASSUME NEW c \in Colors, Equipped(side, "color", c)
      PROVE  HandsWhole'
  <2>1. hands' = [hands EXCEPT ![side]["color"] = c] /\ active' = side
    BY <1>4 DEF Equipped
  <2>2. hands' \in Hands
    BY <1>1, <2>1, EquipWhole
  <2>. QED
    BY <2>1, <2>2 DEF HandsWhole
<1>5. ASSUME NEW w \in 0 .. MaxWeight, Equipped(side, "weight", w)
      PROVE  HandsWhole'
  <2>1. hands' = [hands EXCEPT ![side]["weight"] = w] /\ active' = side
    BY <1>5 DEF Equipped
  <2>2. hands' \in Hands
    BY <1>1, <2>1, EquipWhole
  <2>. QED
    BY <2>1, <2>2 DEF HandsWhole
<1>6. ASSUME NEW o \in BOOLEAN, Equipped(side, "opposite", o)
      PROVE  HandsWhole'
  <2>1. hands' = [hands EXCEPT ![side]["opposite"] = o] /\ active' = side
    BY <1>6 DEF Equipped
  <2>2. hands' \in Hands
    BY <1>1, <2>1, EquipWhole
  <2>. QED
    BY <2>1, <2>2 DEF HandsWhole
<1>. QED
  BY <1>2, <1>3, <1>4, <1>5, <1>6

\* Clicks that equip a hand leave hands.
LEMMA EquipClicks ==
  ASSUME HandsWhole, NEW side \in Sides,
         \/ ClickTool(side) \/ ClickGraphic(side) \/ ClickMaterial(side)
         \/ ClickBlock(side) \/ ClickSettings(side)
  PROVE  HandsWhole'
<1>1. CASE ClickTool(side)
  BY <1>1, EquippedWhole, DeskAssumption DEF ClickTool
<1>2. CASE ClickGraphic(side)
  BY <1>2, EquippedWhole DEF ClickGraphic
<1>3. CASE ClickMaterial(side)
  BY <1>3, EquippedWhole DEF ClickMaterial
<1>4. CASE ClickBlock(side)
  BY <1>4, EquippedWhole DEF ClickBlock
<1>5. CASE ClickSettings(side)
  <2>1. (~hands[side].opposite) \in BOOLEAN
    OBVIOUS
  <2>2. CASE \E w \in 0 .. MaxWeight : Equipped(side, "weight", w)
    BY <2>2, EquippedWhole
  <2>3. CASE Equipped(side, "opposite", ~hands[side].opposite)
    BY <2>1, <2>3, EquippedWhole
  <2>. QED
    BY <1>5, <2>2, <2>3 DEF ClickSettings
<1>. QED
  BY <1>1, <1>2, <1>3, <1>4, <1>5

\* So do the swatches of the palette; the strip's buttons keep a palette, and
\* its fields an entry.
LEMMA PaletteClicks ==
  ASSUME HandsWhole, ColorsWhole, NEW side \in Sides, ClickPalette(side)
  PROVE  HandsWhole' /\ ColorsWhole'
<1> USE DEF HandsWhole, ColorsWhole
<1>1. CASE ClickSwatch(side)
  <2>1. PICK c \in Range(palette) :
          /\ swatch' = c
          /\ IF c = swatch THEN UNCHANGED hand_vars ELSE Equipped(side, "color", c)
          /\ entry' = None
          /\ UNCHANGED palette
    BY <1>1 DEF ClickSwatch
  <2>2. c \in Colors
    BY <2>1 DEF Range, PaletteWhole
  <2>3. HandsWhole'
    <3>1. CASE c = swatch
      BY <2>1, <3>1 DEF hand_vars
    <3>2. CASE c # swatch
      BY <2>1, <2>2, <3>2, EquippedWhole
    <3>. QED
      BY <3>1, <3>2
  <2>4. ColorsWhole'
    BY <2>1
  <2>. QED
    BY <2>3, <2>4
<1>2. CASE ClickMinus
  <2>1. PaletteWhole(palette')
    BY <1>2, PaletteShrinks DEF ClickMinus
  <2>2. swatch' \in Range(palette') \cup {None}
    BY <1>2 DEF ClickMinus
  <2>. QED
    BY <1>2, <2>1, <2>2 DEF ClickMinus, hand_vars
<1>3. CASE ClickPlus
  <2> DEFINE c == IF entry = None THEN hands[active].color ELSE Reading(entry)
  <2>1. c \in Colors \cup {None}
    <3>1. CASE entry = None
      <4>1. hands[active] \in Hand
        BY DEF Hands
      <4>. QED
        BY <3>1, <4>1 DEF Hand
    <3>2. CASE entry # None
      BY <3>2, ReadingIsSeen
    <3>. QED
      BY <3>1, <3>2
  <2>2. /\ palette' = IF c = None THEN palette ELSE WithColor(palette, c)
        /\ entry' = IF c = None THEN entry ELSE None
        /\ UNCHANGED <<hand_vars, swatch>>
    BY <1>3 DEF ClickPlus
  <2> HIDE DEF c
  <2>3. CASE c = None
    BY <2>2, <2>3 DEF hand_vars
  <2>4. CASE c # None
    BY <2>1, <2>2, <2>4, PaletteGrows DEF hand_vars
  <2>. QED
    BY <2>3, <2>4
<1>4. CASE ClickField
  <2>1. PICK f \in EntryFields :
          entry' = IF entry = None THEN BeginEntry(hands[active].color, f)
                   ELSE [entry EXCEPT !.field = f]
    BY <1>4 DEF ClickField
  <2>2. EntryWhole(entry')
    <3>1. CASE entry = None
      <4>1. hands[active] \in Hand
        BY DEF Hands
      <4>2. hands[active].color \in Colors
        BY <4>1 DEF Hand
      <4>. QED
        BY <2>1, <3>1, <4>2, BeginWhole
    <3>2. CASE entry # None
      BY <2>1, <3>2, FocusWhole
    <3>. QED
      BY <3>1, <3>2
  <2>. QED
    BY <1>4, <2>2 DEF ClickField, hand_vars, palette_vars
<1>. QED
  BY <1>1, <1>2, <1>3, <1>4 DEF ClickPalette

\* Laying a preset over one hand or both leaves hands.
LEMMA ApplyWhole ==
  ASSUME HandsWhole, NEW p \in Preset, NEW ss \in SUBSET Sides, Apply(p, ss)
  PROVE  HandsWhole'
<1>1. \A s \in Sides : hands[s] \in Hand /\ p[s] \in Half
  BY DEF HandsWhole, Hands, Preset
<1>2. \A s \in Sides : Overlay(hands[s], p[s]) \in Hand
  BY <1>1, OverlayWhole
<1>3. hands' = [s \in Sides |-> IF s \in ss THEN Overlay(hands[s], p[s]) ELSE hands[s]]
  BY DEF Apply
<1>4. hands' \in Hands
  BY <1>1, <1>2, <1>3 DEF Hands
<1>5. active' \in Sides
  BY DEF Apply, Sides
<1>. QED
  BY <1>4, <1>5 DEF HandsWhole

\* The presets module keeps its list, and a number it remembers is of a row.
LEMMA PresetClicks ==
  ASSUME HandsWhole, ListWhole, NEW side \in Sides, ClickPresets(side)
  PROVE  HandsWhole' /\ ListWhole'
<1>1. CASE SavePreset
  <2>1. Capture(hands, keys) \in Preset
    BY CaptureWhole DEF HandsWhole, ListWhole
  <2>. QED
    BY <1>1, <2>1, PresetsChange DEF SavePreset, HandsWhole, ListWhole, hand_vars
<1>2. CASE ToggleField
  BY <1>2 DEF ToggleField, HandsWhole, ListWhole, hand_vars
<1>3. CASE ClickPreset(side)
  <2>1. PICK i \in DOMAIN presets :
          \/ /\ Apply(presets[i], {side})
             /\ clicked' = [clicked EXCEPT ![side] = i]
             /\ UNCHANGED <<presets, keys, rename>>
          \/ /\ clicked[side] = i
             /\ clicked' = [clicked EXCEPT ![side] = 0]
             /\ IF side = "left" THEN rename' = i /\ UNCHANGED presets
                ELSE presets' = RemoveAt(presets, i) /\ UNCHANGED rename
             /\ UNCHANGED <<keys, hand_vars>>
    BY <1>3 DEF ClickPreset
  <2>2. presets[i] \in Preset /\ i \in 0 .. MaxPresets /\ PresetsWhole(RemoveAt(presets, i))
    BY PresetsChange DEF ListWhole
  <2>3. CASE /\ Apply(presets[i], {side})
             /\ clicked' = [clicked EXCEPT ![side] = i]
             /\ UNCHANGED <<presets, keys, rename>>
    <3>1. HandsWhole'
      BY <2>2, <2>3, ApplyWhole
    <3>. QED
      BY <2>2, <2>3, <3>1 DEF ListWhole
  <2>4. CASE /\ clicked[side] = i
             /\ clicked' = [clicked EXCEPT ![side] = 0]
             /\ IF side = "left" THEN rename' = i /\ UNCHANGED presets
                ELSE presets' = RemoveAt(presets, i) /\ UNCHANGED rename
             /\ UNCHANGED <<keys, hand_vars>>
    <3>1. HandsWhole'
      BY <2>4 DEF HandsWhole, hand_vars
    <3>2. clicked' \in [Sides -> 0 .. MaxPresets]
      BY <2>4, DeskAssumption DEF ListWhole
    <3>3. PresetsWhole(presets') /\ rename' \in 0 .. MaxPresets
      BY <2>2, <2>4 DEF ListWhole
    <3>. QED
      BY <2>4, <3>1, <3>2, <3>3 DEF ListWhole
  <2>. QED
    BY <2>1, <2>3, <2>4
<1>. QED
  BY <1>1, <1>2, <1>3 DEF ClickPresets

\* A press on the canvas leaves hands; it opens a text session with no cell
\* yet, or changes neither the session nor its cells.
LEMMA CanvasClicks ==
  ASSUME HandsWhole, NEW side \in Sides, ClickCanvas(side)
  PROVE  /\ HandsWhole'
         /\ (text' = TRUE /\ pending' = FALSE) \/ UNCHANGED <<text, pending>>
<1>1. CASE hands[side].tool = "text" /\ ~text /\ text' = TRUE /\ pending' = FALSE
           /\ UNCHANGED hand_vars
  BY <1>1 DEF HandsWhole, hand_vars
<1>2. CASE /\ hands[side].tool = "picker"
           /\ \E cell \in Cells : hands' = Picked(hands, side, cell)
           /\ active' = Receiver(hands, side)
           /\ UNCHANGED <<text, pending>>
  <2>1. PICK cell \in Cells : hands' = Picked(hands, side, cell)
    BY <1>2
  <2>2. HandsWhole'
    BY <1>2, <2>1, PickedWhole DEF HandsWhole
  <2>. QED
    BY <1>2, <2>2
<1>. QED
  BY <1>1, <1>2 DEF ClickCanvas

\* A click outside typing mode: whatever it opens takes the keyboard at once.
LEMMA ClickKeeps ==
  ASSUME DeskWhole, NEW side \in Sides, Click(side)
  PROVE  DeskWhole'
<1>1. ~typing /\ ~text /\ ~pending /\ camera' = camera
      /\ typing' = (text' \/ number' \/ entry' # None)
  BY DEF Click, DeskWhole, Surfaces, TypingBegins
<1>2. CASE /\ \/ ClickTool(side) \/ ClickGraphic(side) \/ ClickMaterial(side)
              \/ ClickBlock(side) \/ ClickSettings(side)
           /\ UNCHANGED <<palette_vars, entry, number, text, pending, preset_vars>>
  <2>1. HandsWhole'
    BY <1>2, EquipClicks DEF DeskWhole
  <2>2. ColorsWhole' /\ ListWhole'
    BY <1>2 DEF DeskWhole, ColorsWhole, ListWhole, palette_vars, preset_vars
  <2>3. Surfaces'
    BY <1>1, <1>2 DEF DeskWhole, Surfaces
  <2>. QED
    BY <1>1, <2>1, <2>2, <2>3 DEF DeskWhole
<1>3. CASE ClickPresets(side) /\ UNCHANGED <<palette_vars, entry, number, text, pending>>
  <2>1. HandsWhole' /\ ListWhole'
    BY <1>3, PresetClicks DEF DeskWhole
  <2>2. ColorsWhole'
    BY <1>3 DEF DeskWhole, ColorsWhole, palette_vars
  <2>3. Surfaces'
    BY <1>1, <1>3 DEF DeskWhole, Surfaces
  <2>. QED
    BY <1>1, <2>1, <2>2, <2>3 DEF DeskWhole
<1>4. CASE ClickPalette(side) /\ UNCHANGED <<number, text, pending, preset_vars>>
  <2>1. HandsWhole' /\ ColorsWhole'
    BY <1>4, PaletteClicks DEF DeskWhole
  <2>2. ListWhole'
    BY <1>4 DEF DeskWhole, ListWhole, preset_vars
  <2>3. Surfaces'
    BY <1>1, <1>4 DEF DeskWhole, Surfaces
  <2>. QED
    BY <1>1, <2>1, <2>2, <2>3 DEF DeskWhole
<1>5. CASE /\ number' = TRUE
           /\ UNCHANGED <<hand_vars, palette_vars, entry, text, pending, preset_vars>>
  <2>1. HandsWhole' /\ ColorsWhole' /\ ListWhole'
    BY <1>5 DEF DeskWhole, HandsWhole, ColorsWhole, ListWhole, hand_vars, palette_vars, preset_vars
  <2>2. Surfaces'
    BY <1>1, <1>5 DEF DeskWhole, Surfaces
  <2>. QED
    BY <1>1, <2>1, <2>2 DEF DeskWhole
<1>6. CASE ClickCanvas(side) /\ UNCHANGED <<palette_vars, entry, number, preset_vars>>
  <2>1. HandsWhole' /\ ((text' = TRUE /\ pending' = FALSE) \/ UNCHANGED <<text, pending>>)
    BY <1>6, CanvasClicks DEF DeskWhole
  <2>2. ColorsWhole' /\ ListWhole'
    BY <1>6 DEF DeskWhole, ColorsWhole, ListWhole, palette_vars, preset_vars
  <2>3. Surfaces'
    <3>1. number' = number /\ entry' = entry /\ Surfaces
      BY <1>6 DEF DeskWhole
    <3>2. CASE text' = TRUE /\ pending' = FALSE
      <4>1. typing' = TRUE
        BY <1>1, <3>2
      <4>. QED
        BY <3>1, <3>2, <4>1 DEF Surfaces
    <3>3. CASE text' = text /\ pending' = pending
      BY <1>1, <3>1, <3>3 DEF Surfaces
    <3>. QED
      BY <2>1, <3>2, <3>3
  <2>. QED
    BY <1>1, <2>1, <2>2, <2>3 DEF DeskWhole
<1>. QED
  BY <1>2, <1>3, <1>4, <1>5, <1>6 DEF Click

\* A click in typing mode ends the session of the text, with its cells: an
\* entry or a number in front means that there are none.
LEMMA TypingClickKeeps ==
  ASSUME DeskWhole, TypingClick
  PROVE  DeskWhole'
<1>1. text' = FALSE /\ typing' = FALSE /\ UNCHANGED <<preset_vars, camera>>
      /\ "left" \in Sides
  BY DEF TypingClick, Sides
<1>2. ListWhole'
  BY <1>1 DEF DeskWhole, ListWhole, preset_vars
<1>3. CASE entry # None /\ ClickPalette("left") /\ UNCHANGED <<number, pending>>
  <2>1. HandsWhole' /\ ColorsWhole'
    BY <1>1, <1>3, PaletteClicks DEF DeskWhole
  <2>2. Surfaces'
    BY <1>1, <1>3 DEF DeskWhole, Surfaces
  <2>. QED
    BY <1>1, <1>2, <2>1, <2>2 DEF DeskWhole
<1>4. CASE entry # None /\ entry' = None /\ UNCHANGED <<hand_vars, palette_vars, number, pending>>
  <2>1. HandsWhole' /\ ColorsWhole'
    BY <1>4 DEF DeskWhole, HandsWhole, ColorsWhole, hand_vars, palette_vars
  <2>2. Surfaces'
    BY <1>1, <1>4 DEF DeskWhole, Surfaces
  <2>. QED
    BY <1>1, <1>2, <2>1, <2>2 DEF DeskWhole
<1>5. CASE /\ entry = None /\ number /\ number' = FALSE
           /\ UNCHANGED <<hand_vars, palette_vars, entry, pending>>
  <2>1. HandsWhole' /\ ColorsWhole'
    BY <1>5 DEF DeskWhole, HandsWhole, ColorsWhole, hand_vars, palette_vars
  <2>2. Surfaces'
    BY <1>1, <1>5 DEF DeskWhole, Surfaces
  <2>. QED
    BY <1>1, <1>2, <2>1, <2>2 DEF DeskWhole
<1>6. CASE /\ entry = None /\ ~number /\ RecordTyped
           /\ UNCHANGED <<hand_vars, palette_vars, entry, number>>
  <2>1. HandsWhole' /\ ColorsWhole'
    BY <1>6 DEF DeskWhole, HandsWhole, ColorsWhole, hand_vars, palette_vars
  <2>2. Surfaces'
    BY <1>1, <1>6 DEF DeskWhole, Surfaces, RecordTyped
  <2>. QED
    BY <1>1, <1>2, <2>1, <2>2 DEF DeskWhole
<1>. QED
  BY <1>3, <1>4, <1>5, <1>6 DEF TypingClick

\* A key in typing mode goes to the surface in front, and typing mode ends
\* with the last one.
LEMMA TypingKeyKeeps ==
  ASSUME DeskWhole, TypingKey
  PROVE  DeskWhole'
<1>1. typing' = (entry' # None \/ number' \/ text')
      /\ UNCHANGED <<hand_vars, swatch, preset_vars, camera>>
  BY DEF TypingKey, TypingEnds
<1>2. HandsWhole' /\ ListWhole'
  BY <1>1 DEF DeskWhole, HandsWhole, ListWhole, hand_vars, preset_vars
<1>3. CASE EntryKey
  <2>1. entry # None /\ UNCHANGED <<number, text, pending>> /\ EntryWhole(entry)
    BY <1>3 DEF EntryKey, DeskWhole, ColorsWhole
  <2>2. Surfaces'
    BY <1>1, <2>1 DEF DeskWhole, Surfaces
  <2>3. ColorsWhole'
    <3>1. CASE entry' \in Pushed(entry) \cup Erased(entry) /\ UNCHANGED palette
      BY <1>1, <2>1, <3>1, TypedWhole DEF DeskWhole, ColorsWhole
    <3>2. CASE entry' = None /\ UNCHANGED palette
      BY <1>1, <3>2 DEF DeskWhole, ColorsWhole
    <3>3. CASE /\ entry' = None
               /\ palette' = IF Reading(entry) = None THEN palette
                             ELSE WithColor(palette, Reading(entry))
      <4>1. PaletteWhole(palette) /\ Reading(entry) \in Colors \cup {None}
        BY <2>1, ReadingIsSeen DEF DeskWhole, ColorsWhole
      <4>2. PaletteWhole(palette') /\ Range(palette) \subseteq Range(palette')
        <5>1. CASE Reading(entry) = None
          BY <3>3, <4>1, <5>1
        <5>2. CASE Reading(entry) # None
          BY <3>3, <4>1, <5>2, PaletteGrows
        <5>. QED
          BY <5>1, <5>2
      <4>. QED
        BY <1>1, <3>3, <4>2 DEF DeskWhole, ColorsWhole
    <3>. QED
      BY <1>3, <3>1, <3>2, <3>3 DEF EntryKey
  <2>. QED
    BY <1>1, <1>2, <2>2, <2>3 DEF DeskWhole
<1>4. CASE NumberKey
  <2>1. ColorsWhole'
    BY <1>1, <1>4 DEF NumberKey, DeskWhole, ColorsWhole
  <2>2. Surfaces'
    BY <1>1, <1>4 DEF NumberKey, DeskWhole, Surfaces
  <2>. QED
    BY <1>1, <1>2, <2>1, <2>2 DEF DeskWhole
<1>5. CASE TextKey
  <2>1. ColorsWhole'
    BY <1>1, <1>5 DEF TextKey, DeskWhole, ColorsWhole
  <2>2. Surfaces'
    BY <1>1, <1>5 DEF TextKey, RecordTyped, DeskWhole, Surfaces
  <2>. QED
    BY <1>1, <1>2, <2>1, <2>2 DEF DeskWhole
<1>. QED
  BY <1>3, <1>4, <1>5 DEF TypingKey

\* Keys outside typing mode end a rename, apply a preset or equip a tool.
LEMMA OtherKeysKeep ==
  ASSUME DeskWhole, RenameKey \/ FreeKey
  PROVE  DeskWhole'
<1>1. CASE RenameKey
  BY <1>1, DeskAssumption DEF RenameKey, DeskWhole, HandsWhole, ColorsWhole, Surfaces, ListWhole,
     hand_vars, palette_vars, typing_vars
<1>2. CASE FreeKey
  <2>1. HandsWhole'
    <3>1. CASE PresetKey
      <4>1. PICK i \in DOMAIN presets : Apply(presets[i], Sides)
        BY <3>1 DEF PresetKey
      <4>2. presets[i] \in Preset
        BY PresetsChange DEF DeskWhole, ListWhole
      <4>. QED
        BY <4>1, <4>2, ApplyWhole DEF DeskWhole
    <3>2. CASE \E t \in Equip : Equipped(active, "tool", t)
      BY <3>2, EquippedWhole, DeskAssumption DEF DeskWhole, HandsWhole
    <3>. QED
      BY <1>2, <3>1, <3>2 DEF FreeKey
  <2>2. UNCHANGED <<palette_vars, typing_vars, preset_vars, camera>>
    BY <1>2 DEF FreeKey, PresetKey
  <2>. QED
    BY <2>1, <2>2 DEF DeskWhole, ColorsWhole, Surfaces, ListWhole, palette_vars, typing_vars,
       preset_vars
<1>. QED
  BY <1>1, <1>2

-----------------------------------------------------------------------------
(* The session file.                                                       *)

\* What is on the desk is what may be in the file.
LEMMA ProjectionWhole ==
  ASSUME NEW a \in Sides, NEW hs \in Hands, NEW ps, PresetsWhole(ps), NEW c \in 0 .. 1
  PROVE  FileWhole([hands |-> Persisted(a, hs), presets |-> ps, camera |-> c])
<1>1. Persisted(a, hs) \in [active : Sides, hands : Hands]
  BY DEF Persisted
<1>2. ps \in Seq(Preset)
  BY DEF PresetsWhole
<1>. QED
  BY <1>1, <1>2 DEF FileWhole, Files

\* A frame that leaves a whole desk leaves a whole file.
LEMMA SaveKeeps ==
  ASSUME DeskInv, DeskWhole', NEW d \in BOOLEAN, Save(d)
  PROVE  DeskInv'
<1>1. FileWhole(Projection')
  <2>1. Projection' = [hands |-> Persisted(active', hands'), presets |-> presets', camera |-> camera']
    BY DEF Projection
  <2>. QED
    BY <2>1, ProjectionWhole DEF DeskWhole, HandsWhole, ListWhole
<1>2. /\ session' \in {session, Projection'}
      /\ saved' \in BOOLEAN /\ recent' \in BOOLEAN /\ dirty' \in BOOLEAN
  BY DEF Save, DeskInv
<1>. QED
  BY <1>1, <1>2 DEF DeskInv

\* A boot from a whole file, or from none, revives a whole desk.
LEMMA RestartKeeps ==
  ASSUME NEW file, file # None => FileWhole(file), Restart(file)
  PROVE  DeskInv' /\ (file # None => Projection' = file)
<1> DEFINE known == Known(file)
<1>1. known.hands.hands \in Hands /\ known.hands.active \in Sides
      /\ known.hands = Persisted(known.hands.active, known.hands.hands)
      /\ PresetsWhole(known.presets) /\ known.camera \in 0 .. 1
      /\ known = [hands |-> known.hands, presets |-> known.presets, camera |-> known.camera]
  <2>1. CASE file = None
    <3>1. known = [hands |-> [active |-> "left", hands |-> DefaultHands(First)],
                   presets |-> StarterPresets, camera |-> 0]
      BY <2>1 DEF Known, Defaults, Persisted
    <3>2. DefaultHands(First) \in Hands /\ StarterPresets \in Seq(Preset) /\ Len(StarterPresets) = 2
      BY StartsWhole
    <3>3. PresetsWhole(StarterPresets)
      BY <3>2, DeskAssumption DEF PresetsWhole
    <3> HIDE DEF known
    <3>. QED
      BY <3>1, <3>2, <3>3 DEF Persisted, Sides
  <2>2. CASE file # None
    <3>1. known = file /\ file \in Files /\ PresetsWhole(file.presets)
      BY <2>2 DEF Known, FileWhole
    <3> HIDE DEF known
    <3>. QED
      BY <3>1 DEF Files, Persisted
  <2>. QED
    BY <2>1, <2>2
<1>2. /\ hands' = Revived(known.hands) /\ active' = known.hands.active
      /\ presets' = known.presets /\ camera' = known.camera
      /\ session' = file
  BY DEF Restart
<1>3. /\ palette' = <<First>> /\ swatch' = None
      /\ entry' = None /\ number' = FALSE /\ text' = FALSE /\ pending' = FALSE
      /\ typing' = FALSE
      /\ keys' = Fields /\ clicked' = NoClick /\ rename' = 0
      /\ saved' = FALSE /\ recent' = FALSE /\ dirty' = TRUE
  BY DEF Restart
<1>4. file # None => known = file
  BY DEF Known
<1> HIDE DEF known
<1>5. hands' = known.hands.hands
  <2>1. \A a \in Sides, hs \in Hands : Revived(Persisted(a, hs)) = hs
    BY RevivedIs
  <2>2. Revived(Persisted(known.hands.active, known.hands.hands)) = known.hands.hands
    BY <1>1, <2>1
  <2>. QED
    BY <1>1, <1>2, <2>2
<1>6. HandsWhole'
  BY <1>1, <1>2, <1>5 DEF HandsWhole
<1>7. ColorsWhole' /\ Surfaces' /\ ListWhole'
  <2>1. <<First>> \in Seq(Colors) /\ <<First>> # <<>> /\ IsInjective(<<First>>)
    BY DeskAssumption DEF IsInjective
  <2>2. NoClick \in [Sides -> 0 .. MaxPresets]
    BY DeskAssumption DEF NoClick
  <2>3. PaletteWhole(<<First>>)
    BY <2>1 DEF PaletteWhole
  <2>4. ColorsWhole'
    BY <1>3, <2>3 DEF ColorsWhole
  <2>5. Surfaces'
    BY <1>3 DEF Surfaces
  <2>6. ListWhole'
    BY <1>1, <1>2, <1>3, <2>2, DeskAssumption DEF ListWhole
  <2>. QED
    BY <2>4, <2>5, <2>6
<1>8. DeskInv'
  BY <1>1, <1>2, <1>3, <1>6, <1>7 DEF DeskInv, DeskWhole
<1>9. Projection' = [hands |-> Persisted(active', hands'), presets |-> presets', camera |-> camera']
  BY DEF Projection
<1>10. Projection' = known
  BY <1>1, <1>2, <1>5, <1>9
<1>. QED
  BY <1>4, <1>8, <1>10

-----------------------------------------------------------------------------
(* The invariant is one.                                                   *)

\* The first boot, without a file, starts it.
LEMMA StartsInOrder == Init => DeskInv
<1> SUFFICES ASSUME Init PROVE DeskInv
  OBVIOUS
<1>1. DefaultHands(First) \in Hands /\ PresetsWhole(StarterPresets)
  BY StartsWhole, DeskAssumption DEF PresetsWhole
<1>2. HandsWhole
  BY <1>1 DEF Init, HandsWhole, Sides
<1>3. <<First>> \in Seq(Colors) /\ <<First>> # <<>> /\ IsInjective(<<First>>)
  BY DeskAssumption DEF IsInjective
<1>4. NoClick \in [Sides -> 0 .. MaxPresets]
  BY DeskAssumption DEF NoClick
<1>5. PaletteWhole(<<First>>)
  BY <1>3 DEF PaletteWhole
<1>6. ColorsWhole
  BY <1>5 DEF Init, ColorsWhole
<1>7. Surfaces
  BY DEF Init, Surfaces
<1>8. ListWhole
  BY <1>1, <1>4, DeskAssumption DEF Init, ListWhole
<1>9. camera \in 0 .. 1 /\ session = None /\ saved = FALSE /\ recent = FALSE /\ dirty = TRUE
  BY DEF Init
<1>. QED
  BY <1>2, <1>6, <1>7, <1>8, <1>9 DEF DeskInv, DeskWhole

\* Every frame keeps it, and so do the passing of time and a boot.
LEMMA StaysInOrder == DeskInv /\ [Next]_vars => DeskInv'
<1> SUFFICES ASSUME DeskInv, [Next]_vars PROVE DeskInv'
  OBVIOUS
<1>1. DeskWhole /\ (session # None => FileWhole(session)) /\ dirty \in BOOLEAN
  BY DEF DeskInv
<1>2. CASE Input
  <2>1. \/ \E side \in Sides : Click(side)
        \/ TypingClick
        \/ TypingKey
        \/ RenameKey
        \/ FreeKey
    BY <1>2 DEF Input
  <2>2. DeskWhole'
    BY <1>1, <2>1, ClickKeeps, TypingClickKeeps, TypingKeyKeeps, OtherKeysKeep
  <2>3. Save(dirty)
    BY <1>2 DEF Input
  <2>. QED
    BY <1>1, <2>2, <2>3, SaveKeeps
<1>3. CASE CameraWheel
  <2>1. DeskWhole'
    BY <1>1, <1>3 DEF CameraWheel, DeskWhole, HandsWhole, ColorsWhole, Surfaces, ListWhole,
       hand_vars, palette_vars, typing_vars, preset_vars
  <2>. QED
    BY <1>3, <2>1, SaveKeeps DEF CameraWheel
<1>4. CASE IdleFrame
  <2>1. DeskWhole'
    BY <1>1, <1>4 DEF IdleFrame, DeskWhole, HandsWhole, ColorsWhole, Surfaces, ListWhole,
       desk, hand_vars, palette_vars, typing_vars, preset_vars
  <2>. QED
    BY <1>1, <1>4, <2>1, SaveKeeps DEF IdleFrame
<1>5. CASE Elapse
  BY <1>5 DEF Elapse, DeskInv, DeskWhole, HandsWhole, ColorsWhole, Surfaces, ListWhole,
     desk, hand_vars, palette_vars, typing_vars, preset_vars
<1>6. CASE Stop
  BY <1>1, <1>6, RestartKeeps DEF Stop
<1>7. CASE TornWrite
  BY <1>7, RestartKeeps DEF TornWrite
<1>8. CASE UNCHANGED vars
  BY <1>8 DEF vars, file_vars, DeskInv, DeskWhole, HandsWhole, ColorsWhole, Surfaces, ListWhole,
     desk, hand_vars, palette_vars, typing_vars, preset_vars
<1>. QED
  BY <1>2, <1>3, <1>4, <1>5, <1>6, <1>7, <1>8 DEF Next

-----------------------------------------------------------------------------
(* The desk.                                                               *)

\* The desk and the session file are in order after every frame and boot.
THEOREM DeskInOrder == Spec => []DeskInv
<1>1. Init => DeskInv
  BY StartsInOrder
<1>2. DeskInv /\ [Next]_vars => DeskInv'
  BY StaysInOrder
<1>. QED
  BY <1>1, <1>2, PTL DEF Spec

\* A key that typing mode owns finds a surface, and no cell typed into the
\* canvas outlives its text session without a record.
THEOREM TypingEndsWellCorrect == Spec => []TypingEndsWell
<1>1. DeskInv => TypingEndsWell
  BY DEF DeskInv, DeskWhole, Surfaces, TypingEndsWell
<1>. QED
  BY <1>1, DeskInOrder, PTL

\* What Enter or the plus adds is the color in the preview, or nothing; and
\* the palette it is added to is never empty and holds no color twice.
THEOREM PreviewCommitsCorrect == Spec => []PreviewCommits
<1>1. DeskInv => DeskTypeOK
  <2> SUFFICES ASSUME DeskInv PROVE DeskTypeOK
    OBVIOUS
  <2>1. HandsWhole /\ ColorsWhole /\ Surfaces /\ ListWhole
    BY DEF DeskInv, DeskWhole
  <2>2. hands \in [Sides -> Hand] /\ active \in Sides
    BY <2>1 DEF HandsWhole, Hands
  <2>3. palette # <<>> /\ IsInjective(palette) /\ Range(palette) \subseteq Colors
        /\ swatch \in Range(palette) \cup {None}
    BY <2>1 DEF ColorsWhole, PaletteWhole, Range
  <2>4. entry = None \/ entry.seen \in Colors
    BY <2>1, ReadingIsSeen DEF ColorsWhole
  <2>5. \A v \in {number, text, pending, typing, saved, recent, dirty} : v \in BOOLEAN
    BY <2>1 DEF DeskInv, Surfaces
  <2>. QED
    BY <2>1, <2>2, <2>3, <2>4, <2>5 DEF ListWhole, DeskTypeOK
<1>2. DeskInv => (entry # None => Reading(entry) \in {None, entry.seen})
  BY ReadingIsSeen DEF DeskInv, DeskWhole, ColorsWhole
<1>3. DeskInv => PreviewCommits
  BY <1>1, <1>2 DEF PreviewCommits
<1>. QED
  BY <1>3, DeskInOrder, PTL

\* A desk revived from the session file would be saved as that very file.
THEOREM RoundTripCorrect == Spec => RoundTrip
<1>1. DeskInv /\ [Next]_vars => [Stop /\ session # None => Projection' = session]_vars
  <2> SUFFICES ASSUME DeskInv, Stop, session # None PROVE Projection' = session
    OBVIOUS
  <2>. QED
    BY RestartKeeps DEF DeskInv, Stop
<1>. QED
  BY <1>1, DeskInOrder, PTL DEF Spec, RoundTrip
=============================================================================
