------------------------- MODULE DocumentSyncProofs -------------------------
(***************************************************************************)
(* Proofs about DocumentSync, for any number of sessions, layers, cells    *)
(* and records: sessions that take turns on the layers they share, and     *)
(* undo between strokes, converge; what a layer shows is what its applied  *)
(* stack paints; and a stroke records its user's work alone.               *)
(*                                                                         *)
(* A layer has a story: the strokes on its two stacks in one line, and a   *)
(* place in it.  A record moves the story on, and the invariant says that  *)
(* there is one book of stories, a page for each record, in which every    *)
(* session is at the page of the last record it has of the layer.          *)
(***************************************************************************)
EXTENDS DocumentSync, LeastNumber, SequenceTheorems

-----------------------------------------------------------------------------
(* Sequences.                                                              *)

\* Kept, one element at a time: g[n] is what is kept of the first n.
Keeps(g, s, S) ==
  /\ g[0] = <<>>
  /\ \A n \in 1 .. Len(s) : g[n] = IF s[n] \in S THEN Append(g[n - 1], s[n]) ELSE g[n - 1]
  /\ Kept(s, S) = g[Len(s)]

\* The recursive definition in Kept defines a function.
LEMMA KeptIs ==
  ASSUME NEW X, NEW s \in Seq(X), NEW S
  PROVE  \E g \in [0 .. Len(s) -> Seq(X)] : Keeps(g, s, S)
<1> DEFINE N == Len(s)
           V == Seq(X)
           G == [p \in V \X (1 .. N) |->
                   IF s[p[2]] \in S THEN Append(p[1], s[p[2]]) ELSE p[1]]
           Is(f) == f = [n \in 0 .. N |->
                     IF n = 0 THEN <<>>
                     ELSE IF s[n] \in S THEN Append(f[n - 1], s[n]) ELSE f[n - 1]]
           g == CHOOSE f : Is(f)
<1>1. N \in Nat /\ <<>> \in V /\ \A n \in 1 .. N : s[n] \in X
  OBVIOUS
<1>2. G \in [V \X (1 .. N) -> V]
  BY <1>1
<1> HIDE DEF V
<1>3. PICK f \in [0 .. N -> V] : f[0] = <<>> /\ \A n \in 1 .. N : f[n] = G[<<f[n - 1], n>>]
  <2> HIDE DEF G, N
  <2>1. PICK f \in [0 .. N -> V] : Iterates(f, <<>>, G, N)
    BY <1>1, <1>2, RecursionExists
  <2>. QED
    BY <2>1 DEF Iterates
<1>4. \A n \in 1 .. N : f[n] = IF s[n] \in S THEN Append(f[n - 1], s[n]) ELSE f[n - 1]
  <2>1. TAKE n \in 1 .. N
  <2>2. n - 1 \in 0 .. N
    BY <1>1
  <2>3. <<f[n - 1], n>> \in V \X (1 .. N)
    BY <1>3, <2>2
  <2>. QED
    BY <1>3, <2>3
<1>5. Is(f)
  <2>1. \A n \in 0 .. N : n # 0 => n \in 1 .. N
    BY <1>1
  <2>. QED
    BY <1>3, <1>4, <2>1
<1>6. Is(g)
  <2> HIDE DEF Is
  <2>. QED
    BY <1>5
<1>7. Kept(s, S) = g[N]
  BY Zenon DEF Kept
<1> HIDE DEF g
<1>8. /\ g[0] = <<>>
      /\ \A n \in 1 .. N : g[n] = IF s[n] \in S THEN Append(g[n - 1], s[n]) ELSE g[n - 1]
  <2>1. \A n \in 0 .. N : g[n] =
          IF n = 0 THEN <<>> ELSE IF s[n] \in S THEN Append(g[n - 1], s[n]) ELSE g[n - 1]
    BY <1>6
  <2>2. 0 \in 0 .. N /\ \A n \in 1 .. N : n \in 0 .. N /\ n # 0
    BY <1>1
  <2>. QED
    BY <2>1, <2>2
<1>9. g \in [0 .. N -> V]
  <2>1. \A n \in 0 .. N : g[n] = f[n]
    <3> DEFINE Same == {n \in 0 .. N : g[n] = f[n]}
    <3>1. 0 \in Same /\ \A n \in 0 .. N : n < N /\ n \in Same => n + 1 \in Same
      <4>1. 0 \in Same
        BY <1>1, <1>3, <1>8
      <4>2. ASSUME NEW n \in 0 .. N, n < N, g[n] = f[n]
            PROVE  g[n + 1] = f[n + 1] /\ n + 1 \in 0 .. N
        <5>1. n + 1 \in 1 .. N /\ (n + 1) - 1 = n /\ n + 1 \in 0 .. N
          BY <1>1, <4>2
        <5>. QED
          BY <1>4, <1>8, <4>2, <5>1
      <4>. QED
        BY <4>1, <4>2
    <3> HIDE DEF Same
    <3>2. \A n \in 0 .. N : n \in Same
      BY <1>1, <3>1, Reaches
    <3>. QED
      BY <3>2 DEF Same
  <2>2. DOMAIN g = 0 .. N /\ g = [n \in 0 .. N |-> g[n]]
    BY <1>6
  <2>. QED
    BY <1>3, <2>1, <2>2
<1>. QED
  BY <1>7, <1>8, <1>9 DEF V, Keeps

\* f holds what s holds of S, in the same order.
Picked(f, s, S) ==
  /\ \A i \in 1 .. Len(f) : \E a \in 1 .. Len(s) : f[i] = s[a] /\ s[a] \in S
  /\ \A a \in 1 .. Len(s) : s[a] \in S => \E i \in 1 .. Len(f) : f[i] = s[a]
  /\ \A i, j \in 1 .. Len(f) : i < j =>
       \E a, b \in 1 .. Len(s) : a < b /\ f[i] = s[a] /\ f[j] = s[b]

\* What is kept is the elements that lie in the set, and they keep their order.
LEMMA KeptFacts ==
  ASSUME NEW X, NEW s \in Seq(X), NEW S
  PROVE  Kept(s, S) \in Seq(X) /\ Picked(Kept(s, S), s, S)
<1>1. PICK g \in [0 .. Len(s) -> Seq(X)] :
           /\ g[0] = <<>>
           /\ \A n \in 1 .. Len(s) : g[n] = IF s[n] \in S THEN Append(g[n - 1], s[n]) ELSE g[n - 1]
           /\ Kept(s, S) = g[Len(s)]
  <2>1. PICK g \in [0 .. Len(s) -> Seq(X)] : Keeps(g, s, S)
    BY KeptIs
  <2>. QED
    BY <2>1 DEF Keeps
<1> DEFINE N == Len(s)
           From(q, n) == \A i \in 1 .. Len(q) : \E a \in 1 .. n : q[i] = s[a] /\ s[a] \in S
           Into(q, n) == \A a \in 1 .. n : s[a] \in S => \E i \in 1 .. Len(q) : q[i] = s[a]
           InOrder(q, n) ==
             \A i, j \in 1 .. Len(q) : i < j =>
               \E a, b \in 1 .. n : a < b /\ q[i] = s[a] /\ q[j] = s[b]
           Good == {n \in 0 .. N : From(g[n], n) /\ Into(g[n], n) /\ InOrder(g[n], n)}
<1>2. N \in Nat /\ \A n \in 1 .. N : s[n] \in X
  OBVIOUS
<1>3. 0 \in Good
  BY <1>1
<1>4. ASSUME NEW n \in 0 .. N, n < N, n \in Good
      PROVE  n + 1 \in Good
  <2>1. /\ n + 1 \in 1 .. N /\ n + 1 \in 0 .. N /\ (n + 1) - 1 = n /\ s[n + 1] \in X
        /\ g[n] \in Seq(X)
    <3>1. n + 1 \in 1 .. N /\ n + 1 \in 0 .. N /\ (n + 1) - 1 = n
      <4> HIDE DEF N
      <4>. QED
        BY <1>2, <1>4
    <3>. QED
      BY <1>1, <1>2, <3>1
  <2>2. g[n + 1] = IF s[n + 1] \in S THEN Append(g[n], s[n + 1]) ELSE g[n]
    BY <1>1, <2>1
  <2>3. From(g[n], n) /\ Into(g[n], n) /\ InOrder(g[n], n)
    BY <1>4
  <2>4. CASE s[n + 1] \notin S
    <3>1. g[n + 1] = g[n]
      BY <2>2, <2>4
    <3>2. \A a \in 1 .. n : a \in 1 .. n + 1
      BY <2>1
    <3>3. From(g[n], n + 1)
      BY <2>3, <3>2
    <3>4. Into(g[n], n + 1)
      <4>1. \A a \in 1 .. n + 1 : a = n + 1 \/ a \in 1 .. n
        BY <2>1
      <4>. QED
        BY <2>3, <2>4, <4>1
    <3>5. InOrder(g[n], n + 1)
      BY <2>3, <3>2
    <3>. QED
      BY <2>1, <3>1, <3>3, <3>4, <3>5
  <2>5. CASE s[n + 1] \in S
    <3> DEFINE q == Append(g[n], s[n + 1])
    <3>1. g[n + 1] = q
      BY <2>2, <2>5
    <3>2. /\ Len(q) = Len(g[n]) + 1 /\ q[Len(q)] = s[n + 1] /\ Len(g[n]) \in Nat
          /\ \A i \in 1 .. Len(g[n]) : q[i] = g[n][i]
      BY <2>1
    <3> HIDE DEF q
    <3>3. \A i \in 1 .. Len(q) : i = Len(q) \/ i \in 1 .. Len(g[n])
      BY <3>2
    <3>4. From(q, n + 1)
      <4>1. TAKE i \in 1 .. Len(q)
      <4>2. CASE i = Len(q)
        BY <2>1, <2>5, <3>2, <4>2
      <4>3. CASE i \in 1 .. Len(g[n])
        <5>1. PICK a \in 1 .. n : g[n][i] = s[a] /\ s[a] \in S
          BY <2>3, <4>3
        <5>2. a \in 1 .. n + 1
          BY <2>1, <5>1
        <5>. QED
          BY <3>2, <4>3, <5>1, <5>2
      <4>. QED
        BY <3>3, <4>2, <4>3
    <3>5. Into(q, n + 1)
      <4>1. TAKE a \in 1 .. n + 1
      <4>2. CASE a = n + 1
        BY <3>2, <4>2
      <4>3. CASE a # n + 1
        <5>1. a \in 1 .. n
          BY <2>1, <4>3
        <5>2. s[a] \in S => \E i \in 1 .. Len(g[n]) : g[n][i] = s[a]
          BY <2>3, <5>1
        <5>. QED
          BY <3>2, <5>2
      <4>. QED
        BY <4>2, <4>3
    <3>6. InOrder(q, n + 1)
      <4>1. TAKE i, j \in 1 .. Len(q)
      <4>2. SUFFICES ASSUME i < j
                     PROVE  \E a, b \in 1 .. n + 1 : a < b /\ q[i] = s[a] /\ q[j] = s[b]
        OBVIOUS
      <4>3. i \in 1 .. Len(g[n])
        BY <3>2, <4>2
      <4>4. CASE j = Len(q)
        <5>1. PICK a \in 1 .. n : g[n][i] = s[a]
          BY <2>3, <4>3
        <5>2. a \in 1 .. n + 1 /\ n + 1 \in 1 .. n + 1 /\ a < n + 1
          BY <2>1, <5>1
        <5>. QED
          BY <3>2, <4>3, <4>4, <5>1, <5>2
      <4>5. CASE j \in 1 .. Len(g[n])
        <5>1. PICK a \in 1 .. n, b \in 1 .. n : a < b /\ g[n][i] = s[a] /\ g[n][j] = s[b]
          BY <2>3, <4>2, <4>3, <4>5
        <5>2. a \in 1 .. n + 1 /\ b \in 1 .. n + 1
          BY <2>1, <5>1
        <5>. QED
          BY <3>2, <4>3, <4>5, <5>1, <5>2
      <4>. QED
        BY <3>3, <4>4, <4>5
    <3>. QED
      BY <2>1, <3>1, <3>4, <3>5, <3>6
  <2>. QED
    BY <2>4, <2>5
<1>5. N \in Good
  <2> HIDE DEF Good
  <2>1. \A n \in 0 .. N : n < N /\ n \in Good => n + 1 \in Good
    BY <1>4
  <2>2. \A n \in 0 .. N : n \in Good
    BY <1>2, <1>3, <2>1, Reaches
  <2>3. N \in 0 .. N
    BY <1>2
  <2>. QED
    BY <2>2, <2>3
<1>6. g[N] \in Seq(X)
  BY <1>1, <1>2
<1>. QED
  BY <1>1, <1>5, <1>6 DEF Picked

\* The first elements of a sequence.
LEMMA PrefixFacts ==
  ASSUME NEW X, NEW s \in Seq(X), NEW k \in 0 .. Len(s)
  PROVE  /\ SubSeq(s, 1, k) \in Seq(X) /\ Len(SubSeq(s, 1, k)) = k
         /\ \A i \in 1 .. k : SubSeq(s, 1, k)[i] = s[i]
<1>1. k \in Nat /\ 1 \in Int /\ k \in Int /\ \A i \in 1 .. k : s[i] \in X
  OBVIOUS
<1>2. /\ SubSeq(s, 1, k) \in Seq(X)
      /\ Len(SubSeq(s, 1, k)) = IF 1 <= k THEN k - 1 + 1 ELSE 0
      /\ \A i \in 1 .. k - 1 + 1 : SubSeq(s, 1, k)[i] = s[1 + i - 1]
  BY <1>1, SubSeqProperties
<1>. QED
  BY <1>1, <1>2

\* A stack of what lies past a place has the element after it on top.
LEMMA FromTheEnd ==
  ASSUME NEW e \in Nat, NEW at \in Nat, at < e
  PROVE  e - at \in 1 .. e - at /\ e - (e - at) + 1 = at + 1 /\ at + 1 \in 1 .. e
OBVIOUS

\* What lies lower in it comes after that element.
LEMMA BelowTop ==
  ASSUME NEW e \in Nat, NEW at \in Nat, at <= e, NEW j \in 1 .. (e - at) - 1
  PROVE  j \in 1 .. e - at /\ e - j + 1 \in 1 .. e /\ e - j + 1 # at + 1
OBVIOUS

\* Counting up to a place, and from the end past it, meets each place once.
LEMMA PlacesDiffer ==
  ASSUME NEW e \in Nat, NEW at \in Nat, at <= e
  PROVE  \A i, j \in 1 .. e :
           (IF i <= at THEN i ELSE e - (i - at) + 1) = (IF j <= at THEN j ELSE e - (j - at) + 1) => i = j
OBVIOUS

\* Dropping the last element of a stack that holds it once leaves the front.
LEMMA DropLast ==
  ASSUME NEW X, NEW s \in Seq(X), s # <<>>, \A i \in 1 .. Len(s) - 1 : s[i] # Last(s)
  PROVE  Drop(s, Last(s)) = Front(s)
<1> DEFINE N == Len(s)
           S == Range(s) \ {Last(s)}
<1>1. N \in Nat \ {0} /\ Last(s) = s[N] /\ \A n \in 1 .. N : s[n] \in X
  BY DEF Last
<1>2. PICK g \in [0 .. Len(s) -> Seq(X)] : Keeps(g, s, S)
  BY KeptIs
<1>3. /\ g[0] = <<>>
      /\ \A n \in 1 .. N : g[n] = IF s[n] \in S THEN Append(g[n - 1], s[n]) ELSE g[n - 1]
      /\ Kept(s, S) = g[N]
  BY <1>2 DEF Keeps
<1>4. s[N] \notin S /\ \A n \in 1 .. N - 1 : s[n] \in S
  BY <1>1 DEF Range
<1>5. \A n \in 0 .. N : n \in Nat /\ g[n] \in Seq(X)
  BY <1>1, <1>2
<1> HIDE DEF S
<1> DEFINE Good == {n \in 0 .. N - 1 : Len(g[n]) = n /\ \A i \in 1 .. n : g[n][i] = s[i]}
<1>6. 0 \in Good
  BY <1>1, <1>3
<1>7. ASSUME NEW n \in 0 .. N - 1, n < N - 1, n \in Good
      PROVE  n + 1 \in Good
  <2>1. n + 1 \in 1 .. N /\ n + 1 \in 1 .. N - 1 /\ n + 1 \in 0 .. N - 1 /\ (n + 1) - 1 = n /\ n \in 0 .. N
    BY <1>1, <1>7
  <2>2. g[n + 1] = Append(g[n], s[n + 1]) /\ g[n] \in Seq(X) /\ s[n + 1] \in X
    BY <1>1, <1>3, <1>4, <1>5, <2>1
  <2>3. Len(g[n]) = n /\ \A i \in 1 .. n : g[n][i] = s[i]
    BY <1>7
  <2>4. Len(g[n + 1]) = n + 1 /\ \A i \in 1 .. n + 1 : g[n + 1][i] = s[i]
    BY <2>1, <2>2, <2>3
  <2>. QED
    BY <2>1, <2>4
<1>8. N - 1 \in Good
  <2> HIDE DEF Good
  <2>0. N - 1 \in Nat
    BY <1>1
  <2>1. \A n \in 0 .. N - 1 : n < N - 1 /\ n \in Good => n + 1 \in Good
    BY <1>7
  <2>2. \A n \in 0 .. N - 1 : n \in Good
    BY <2>0, <1>6, <2>1, Reaches
  <2>. QED
    BY <2>0, <2>2
<1>9. g[N] = g[N - 1] /\ g[N - 1] \in Seq(X)
  <2> HIDE DEF N
  <2>1. N \in 1 .. N /\ N - 1 \in 0 .. N
    BY <1>1
  <2>2. g[N] = IF s[N] \in S THEN Append(g[N - 1], s[N]) ELSE g[N - 1]
    BY <1>3, <2>1
  <2>. QED
    BY <1>4, <1>5, <2>1, <2>2
<1>10. Front(s) \in Seq(X) /\ Len(Front(s)) = N - 1 /\ \A i \in 1 .. N - 1 : Front(s)[i] = s[i]
  <2>1. N - 1 \in 0 .. Len(s)
    BY <1>1
  <2>. QED
    BY <2>1, PrefixFacts DEF Front
<1>11. Kept(s, S) = Front(s)
  <2>1. Kept(s, S) = g[N - 1]
    BY <1>3, <1>9
  <2>2. PICK a \in Seq(X) : a = g[N - 1] /\ Len(a) = N - 1 /\ \A i \in 1 .. N - 1 : a[i] = s[i]
    BY <1>8, <1>9
  <2>3. PICK b \in Seq(X) : b = Front(s) /\ Len(b) = N - 1 /\ \A i \in 1 .. N - 1 : b[i] = s[i]
    BY <1>10
  <2>4. Len(a) = Len(b) /\ \A i \in 1 .. Len(a) : a[i] = b[i]
    BY <2>2, <2>3
  <2>5. a = b
    BY <2>4, SeqEqual
  <2>. QED
    BY <2>1, <2>2, <2>3, <2>5
<1>. QED
  BY <1>11 DEF Drop, S

-----------------------------------------------------------------------------
(* Runtimes.                                                               *)

Canvas == [Cell -> Content]
Id == 1 .. MaxActs

Runtimes ==
  [canvas : [Layer -> Canvas], applied : [Layer -> Seq(Id)], undone : [Layer -> Seq(Id)],
   actions : Seq(Records), baseline : Seq(Records), squashed : {0}]

\* Painting patches gives a canvas.
LEMMA PaintWhole ==
  ASSUME NEW canvas \in Canvas, NEW ps \in Patches
  PROVE  /\ ApplyAfter(canvas, ps) \in Canvas
         /\ ApplyBefore(canvas, ps) = ApplyAfter(canvas, Inversed(ps))
         /\ Inversed(ps) \in Patches /\ DOMAIN Inversed(ps) = DOMAIN ps
         /\ DOMAIN ps \subseteq Cell
<1>1. PICK S \in SUBSET Cell : ps \in [S -> [before : Content, after : Content]]
  BY DEF Patches
<1>2. DOMAIN ps = S /\ \A c \in S : ps[c] \in [before : Content, after : Content]
  BY <1>1
<1>3. \A c \in S : ps[c].before \in Content /\ ps[c].after \in Content
  BY <1>2
<1>4. ApplyAfter(canvas, ps) \in Canvas
  BY <1>2, <1>3 DEF ApplyAfter, Canvas
<1>5. Inversed(ps) \in [S -> [before : Content, after : Content]]
  BY <1>2, <1>3 DEF Inversed
<1>6. DOMAIN Inversed(ps) = S /\ \A c \in S : Inversed(ps)[c].after = ps[c].before
  BY <1>2 DEF Inversed
<1>7. ApplyBefore(canvas, ps) = ApplyAfter(canvas, Inversed(ps))
  BY <1>2, <1>6 DEF ApplyBefore, ApplyAfter
<1>8. Inversed(ps) \in Patches
  BY <1>5 DEF Patches
<1>. QED
  BY <1>2, <1>4, <1>6, <1>7, <1>8

\* The difference of two canvases.
LEMMA CollectWhole ==
  ASSUME NEW old \in Canvas, NEW new \in Canvas
  PROVE  /\ CollectPatches(old, new) \in Patches
         /\ DOMAIN CollectPatches(old, new) = {c \in Cell : old[c] # new[c]}
         /\ \A c \in DOMAIN CollectPatches(old, new) :
              CollectPatches(old, new)[c].before = old[c]
         /\ ApplyAfter(old, CollectPatches(old, new)) = new
         /\ ApplyAfter(new, CollectPatches(old, new)) = new
<1> DEFINE S == {c \in Cell : old[c] # new[c]}
           ps == CollectPatches(old, new)
<1>1. \A c \in Cell : old[c] \in Content /\ new[c] \in Content
  BY DEF Canvas
<1>2. ps \in [S -> [before : Content, after : Content]]
  BY <1>1 DEF CollectPatches
<1>3. DOMAIN ps = S /\ \A c \in S : ps[c].before = old[c] /\ ps[c].after = new[c]
  BY DEF CollectPatches
<1>4. ps \in Patches
  BY <1>2 DEF Patches
<1> HIDE DEF ps
<1>5. \A c \in Cell : ApplyAfter(old, ps)[c] = new[c] /\ ApplyAfter(new, ps)[c] = new[c]
  BY <1>3 DEF ApplyAfter
<1>6. ApplyAfter(old, ps) \in Canvas /\ ApplyAfter(new, ps) \in Canvas
  BY <1>4, PaintWhole
<1>7. ApplyAfter(old, ps) = new /\ ApplyAfter(new, ps) = new
  BY <1>5, <1>6 DEF Canvas
<1>. QED
  BY <1>3, <1>4, <1>7 DEF ps

\* What dropping leaves is still a stack.
LEMMA DropWhole ==
  ASSUME NEW s \in Seq(Id), NEW x
  PROVE  Drop(s, x) \in Seq(Id)
BY KeptFacts DEF Drop

\* A runtime with a new canvas or new stacks for a layer, or one more record.
WithCanvas(rt, l, cv) == [rt EXCEPT !.canvas[l] = cv]
WithStacks(rt, l, a, u) == [rt EXCEPT !.applied[l] = a, !.undone[l] = u]
WithRecord(rt, r) == [rt EXCEPT !.actions = Append(@, r)]
Changed(rt, l, cv, a, u, r) == WithRecord(WithStacks(WithCanvas(rt, l, cv), l, a, u), r)

\* The stacks can be written in either order.
Swapped(rt, l, d, x) ==
  [rt EXCEPT !.undone[l] = d, !.applied[l] = Append(@, x)]
    = [rt EXCEPT !.applied[l] = Append(rt.applied[l], x), !.undone[l] = d]

LEMMA StacksSwap ==
  ASSUME NEW rt \in Runtimes, NEW l \in Layer, NEW d, NEW x
  PROVE  Swapped(rt, l, d, x)
BY DEF Runtimes, Swapped

\* A runtime with a new canvas for a layer keeps all else.
LEMMA CanvasChanges ==
  ASSUME NEW rt \in Runtimes, NEW l \in Layer, NEW cv \in Canvas
  PROVE  /\ WithCanvas(rt, l, cv) \in Runtimes
         /\ WithCanvas(rt, l, cv).canvas = [rt.canvas EXCEPT ![l] = cv]
         /\ WithCanvas(rt, l, cv).applied = rt.applied
         /\ WithCanvas(rt, l, cv).undone = rt.undone
         /\ WithCanvas(rt, l, cv).actions = rt.actions
<1>1. /\ rt.canvas \in [Layer -> Canvas]
      /\ DOMAIN rt = {"canvas", "applied", "undone", "actions", "baseline", "squashed"}
  BY DEF Runtimes
<1>2. [rt.canvas EXCEPT ![l] = cv] \in [Layer -> Canvas]
  BY <1>1
<1>. QED
  BY <1>1, <1>2 DEF Runtimes, WithCanvas

\* A runtime with new stacks for a layer keeps all else.
LEMMA StacksChange ==
  ASSUME NEW rt \in Runtimes, NEW l \in Layer, NEW a \in Seq(Id), NEW u \in Seq(Id)
  PROVE  /\ WithStacks(rt, l, a, u) \in Runtimes
         /\ WithStacks(rt, l, a, u).applied = [rt.applied EXCEPT ![l] = a]
         /\ WithStacks(rt, l, a, u).undone = [rt.undone EXCEPT ![l] = u]
         /\ WithStacks(rt, l, a, u).canvas = rt.canvas
         /\ WithStacks(rt, l, a, u).actions = rt.actions
<1>1. /\ rt.applied \in [Layer -> Seq(Id)] /\ rt.undone \in [Layer -> Seq(Id)]
      /\ DOMAIN rt = {"canvas", "applied", "undone", "actions", "baseline", "squashed"}
  BY DEF Runtimes
<1>2. /\ [rt.applied EXCEPT ![l] = a] \in [Layer -> Seq(Id)]
      /\ [rt.undone EXCEPT ![l] = u] \in [Layer -> Seq(Id)]
  BY <1>1
<1>. QED
  BY <1>1, <1>2 DEF Runtimes, WithStacks

\* A runtime with one more record keeps all else.
LEMMA HistoryGrows ==
  ASSUME NEW rt \in Runtimes, NEW r \in Records
  PROVE  /\ WithRecord(rt, r) \in Runtimes
         /\ WithRecord(rt, r).actions = Append(rt.actions, r)
         /\ WithRecord(rt, r).canvas = rt.canvas
         /\ WithRecord(rt, r).applied = rt.applied
         /\ WithRecord(rt, r).undone = rt.undone
<1>1. /\ rt.actions \in Seq(Records)
      /\ DOMAIN rt = {"canvas", "applied", "undone", "actions", "baseline", "squashed"}
  BY DEF Runtimes
<1>2. Append(rt.actions, r) \in Seq(Records)
  BY <1>1, AppendProperties
<1>. QED
  BY <1>1, <1>2 DEF Runtimes, WithRecord

\* A runtime that differs from another in one layer, and by a record.
Differs(new, rt, l, cv, a, u, r) ==
  /\ new \in Runtimes
  /\ new.canvas = [rt.canvas EXCEPT ![l] = cv]
  /\ new.applied = [rt.applied EXCEPT ![l] = a] /\ new.undone = [rt.undone EXCEPT ![l] = u]
  /\ new.actions = Append(rt.actions, r)

\* All three changes, part by part.
LEMMA ChangedIs ==
  ASSUME NEW rt \in Runtimes, NEW l \in Layer, NEW cv \in Canvas,
         NEW a \in Seq(Id), NEW u \in Seq(Id), NEW r \in Records
  PROVE  Differs(Changed(rt, l, cv, a, u, r), rt, l, cv, a, u, r)
<1>1. PICK rt1 : rt1 = WithCanvas(rt, l, cv)
  OBVIOUS
<1>2. PICK rt2 : rt2 = WithStacks(rt1, l, a, u)
  OBVIOUS
<1>3. rt1 \in Runtimes /\ rt1.canvas = [rt.canvas EXCEPT ![l] = cv] /\ rt1.applied = rt.applied
      /\ rt1.undone = rt.undone /\ rt1.actions = rt.actions
  BY <1>1, CanvasChanges
<1>4. rt2 \in Runtimes /\ rt2.canvas = rt1.canvas /\ rt2.actions = rt1.actions
      /\ rt2.applied = [rt1.applied EXCEPT ![l] = a] /\ rt2.undone = [rt1.undone EXCEPT ![l] = u]
  BY <1>2, <1>3, StacksChange
<1>5. /\ WithRecord(rt2, r) \in Runtimes /\ WithRecord(rt2, r).actions = Append(rt2.actions, r)
      /\ WithRecord(rt2, r).canvas = rt2.canvas /\ WithRecord(rt2, r).applied = rt2.applied
      /\ WithRecord(rt2, r).undone = rt2.undone
  BY <1>4, HistoryGrows
<1>6. Changed(rt, l, cv, a, u, r) = WithRecord(rt2, r)
  BY <1>1, <1>2 DEF Changed
<1>. QED
  BY <1>3, <1>4, <1>5, <1>6 DEF Differs

-----------------------------------------------------------------------------
(* The story of a layer: the strokes of both its stacks in one line, the   *)
(* place in it, and the canvas at each place.                              *)

Stories == [line : Seq(Records), at : Nat, stage : [Nat -> Canvas]]

\* A stroke whose patches start from a canvas.
Starts(ps, canvas) == \A c \in DOMAIN ps : ps[c].before = canvas[c]

WholeStory(st, l, n) ==
  /\ st.at <= Len(st.line)
  /\ st.stage[0] = Blank
  /\ \A i \in 1 .. Len(st.line) :
       LET r == st.line[i] IN
       /\ r.kind = "stroke" /\ r.layer = l /\ r.id <= n /\ DOMAIN r.patches # {}
       /\ st.stage[i] = ApplyAfter(st.stage[i - 1], r.patches)
       /\ Starts(r.patches, st.stage[i - 1])
  /\ \A i, j \in 1 .. Len(st.line) : st.line[i].id = st.line[j].id => i = j

\* A record moves the story: a stroke ends the line at the place, a revert
\* takes the last stroke before the place back, or paints the next one again.
Draws(st, r, st2) ==
  /\ r.kind = "stroke" /\ Starts(r.patches, st.stage[st.at])
  /\ st2 = [line  |-> Append(SubSeq(st.line, 1, st.at), r),
            at    |-> st.at + 1,
            stage |-> [st.stage EXCEPT ![st.at + 1] = ApplyAfter(st.stage[st.at], r.patches)]]

TakesBack(st, r, st2) ==
  /\ r.kind = "revert" /\ st.at > 0
  /\ r.reverts = st.line[st.at].id
  /\ r.patches = Inversed(st.line[st.at].patches)
  /\ st2 = [line |-> st.line, at |-> st.at - 1, stage |-> st.stage]

Repeats(st, r, st2) ==
  /\ r.kind = "revert" /\ st.at < Len(st.line)
  /\ r.reverts = st.line[st.at + 1].id
  /\ r.patches = st.line[st.at + 1].patches
  /\ st2 = [line |-> st.line, at |-> st.at + 1, stage |-> st.stage]

Moves(st, r, st2) ==
  /\ DOMAIN r.patches # {}
  /\ Draws(st, r, st2) \/ TakesBack(st, r, st2) \/ Repeats(st, r, st2)

\* Taking patches back that started from a canvas gives that canvas.
LEMMA TakenBack ==
  ASSUME NEW canvas \in Canvas, NEW ps \in Patches, Starts(ps, canvas)
  PROVE  ApplyAfter(ApplyAfter(canvas, ps), Inversed(ps)) = canvas
<1> DEFINE new == ApplyAfter(canvas, ps)
           old == ApplyAfter(new, Inversed(ps))
<1>1. new \in Canvas /\ Inversed(ps) \in Patches /\ old \in Canvas
      /\ DOMAIN Inversed(ps) = DOMAIN ps
  BY PaintWhole
<1>2. \A c \in DOMAIN ps : Inversed(ps)[c].after = canvas[c]
  BY DEF Inversed, Starts
<1>3. \A c \in Cell : c \notin DOMAIN ps => new[c] = canvas[c]
  BY DEF ApplyAfter
<1> HIDE DEF new
<1>4. \A c \in Cell : old[c] = canvas[c]
  BY <1>1, <1>2, <1>3 DEF ApplyAfter
<1>5. old = canvas
  <2> HIDE DEF old
  <2>. QED
    BY <1>1, <1>4 DEF Canvas
<1>. QED
  BY <1>5 DEF new

\* A record moves a story to a story, and the canvas with it.
LEMMA StoryMoves ==
  ASSUME NEW l \in Layer, NEW n \in Nat, NEW st \in Stories, WholeStory(st, l, n),
         NEW r \in Records, r.layer = l, n < r.id, NEW st2, Moves(st, r, st2)
  PROVE  /\ st2 \in Stories /\ WholeStory(st2, l, r.id)
         /\ \A i \in 1 .. Len(st2.line) :
              st2.line[i] = r \/ \E j \in 1 .. Len(st.line) : st2.line[i] = st.line[j]
         /\ st2.stage[st2.at] = ApplyAfter(st.stage[st.at], r.patches)
<1>1. /\ st.line \in Seq(Records) /\ st.at \in Nat /\ st.stage \in [Nat -> Canvas]
      /\ \A i \in 1 .. Len(st.line) : st.line[i] \in Records /\ st.line[i].patches \in Patches
      /\ Len(st.line) \in Nat
  <2>1. st.line \in Seq(Records) /\ st.at \in Nat /\ st.stage \in [Nat -> Canvas]
    BY DEF Stories
  <2>2. \A q \in Records : q.patches \in Patches
    BY DEF Records
  <2>. QED
    BY <2>1, <2>2
<1>2. r.id \in Nat /\ r.patches \in Patches
  BY SyncAssumption DEF Records
<1>3. \A i \in 1 .. Len(st.line) : st.line[i].id \in Nat
  BY <1>1, SyncAssumption DEF Records
<1>4. /\ st.at <= Len(st.line)
      /\ st.stage[0] = Blank
      /\ \A i \in 1 .. Len(st.line) :
           /\ st.line[i].kind = "stroke" /\ st.line[i].layer = l /\ st.line[i].id <= n
           /\ DOMAIN st.line[i].patches # {}
           /\ st.stage[i] = ApplyAfter(st.stage[i - 1], st.line[i].patches)
           /\ Starts(st.line[i].patches, st.stage[i - 1])
      /\ \A i, j \in 1 .. Len(st.line) : st.line[i].id = st.line[j].id => i = j
  BY Zenon DEF WholeStory
<1>5. CASE Draws(st, r, st2)
  <2> DEFINE cut == SubSeq(st.line, 1, st.at)
             line == Append(cut, r)
             stage == [st.stage EXCEPT ![st.at + 1] = ApplyAfter(st.stage[st.at], r.patches)]
             at == st.at + 1
  <2>1. cut \in Seq(Records) /\ Len(cut) = st.at /\ \A i \in 1 .. st.at : cut[i] = st.line[i]
    BY <1>1, <1>4, PrefixFacts
  <2> HIDE DEF cut
  <2>2. /\ line \in Seq(Records) /\ Len(line) = at /\ line[at] = r
        /\ \A i \in 1 .. st.at : line[i] = st.line[i]
    BY <1>1, <2>1
  <2>3. /\ stage \in [Nat -> Canvas] /\ stage[at] = ApplyAfter(st.stage[st.at], r.patches)
        /\ \A i \in 0 .. st.at : stage[i] = st.stage[i]
    <3>1. ApplyAfter(st.stage[st.at], r.patches) \in Canvas
      BY <1>1, <1>2, PaintWhole
    <3>. QED
      BY <1>1, <3>1
  <2>4. st2.line = line /\ st2.at = at /\ st2.stage = stage /\ st2 = [line |-> line, at |-> at, stage |-> stage]
    BY <1>5 DEF Draws, cut
  <2>5. Starts(r.patches, st.stage[st.at]) /\ r.kind = "stroke" /\ DOMAIN r.patches # {}
    BY <1>5 DEF Draws, Moves
  <2> HIDE DEF line, stage
  <2>6. st2 \in Stories
    BY <1>1, <2>2, <2>3, <2>4 DEF Stories
  <2>7. ASSUME NEW i \in 1 .. at
        PROVE  /\ line[i].kind = "stroke" /\ line[i].layer = l /\ line[i].id <= r.id
               /\ DOMAIN line[i].patches # {}
               /\ stage[i] = ApplyAfter(stage[i - 1], line[i].patches)
               /\ Starts(line[i].patches, stage[i - 1])
    <3>1. CASE i = at
      <4>1. i - 1 = st.at /\ stage[i - 1] = st.stage[st.at]
        BY <1>1, <2>3, <3>1
      <4>. QED
        BY <1>2, <2>2, <2>3, <2>5, <3>1, <4>1
    <3>2. CASE i # at
      <4>1. i \in 1 .. st.at /\ i \in 1 .. Len(st.line) /\ i \in 0 .. st.at /\ i - 1 \in 0 .. st.at
        BY <1>1, <1>4, <3>2
      <4>2. line[i] = st.line[i] /\ stage[i] = st.stage[i] /\ stage[i - 1] = st.stage[i - 1]
        BY <2>2, <2>3, <4>1
      <4>3. st.line[i].id <= r.id
        BY <1>2, <1>3, <1>4, <4>1
      <4>. QED
        BY <1>4, <4>1, <4>2, <4>3
    <3>. QED
      BY <3>1, <3>2
  <2>8. ASSUME NEW i \in 1 .. at, NEW j \in 1 .. at, line[i].id = line[j].id
        PROVE  i = j
    <3>1. \A k \in 1 .. at : k = at \/ (k \in 1 .. st.at /\ k \in 1 .. Len(st.line))
      <4>1. st.at \in Nat /\ Len(st.line) \in Nat /\ st.at <= Len(st.line)
        BY <1>1, <1>4
      <4>. QED
        BY ONLY <4>1
    <3>2. ASSUME NEW k \in 1 .. Len(st.line)
          PROVE  st.line[k].id # r.id
      <4>1. st.line[k].id \in Nat /\ st.line[k].id <= n
        BY <1>3, <1>4
      <4>. QED
        BY <1>2, <4>1
    <3>3. CASE i = at
      BY <2>2, <2>8, <3>1, <3>2, <3>3
    <3>4. CASE j = at
      BY <2>2, <2>8, <3>1, <3>2, <3>4
    <3>5. CASE i # at /\ j # at
      <4>1. /\ i \in 1 .. Len(st.line) /\ j \in 1 .. Len(st.line)
            /\ line[i] = st.line[i] /\ line[j] = st.line[j]
        BY <2>2, <3>1, <3>5
      <4>. QED
        BY <1>4, <2>8, <4>1
    <3>. QED
      BY <3>3, <3>4, <3>5
  <2>9. WholeStory(st2, l, r.id)
    <3>1. at <= Len(line) /\ stage[0] = Blank
      BY <1>1, <1>4, <2>2, <2>3
    <3>. QED
      BY <2>2, <2>4, <2>7, <2>8, <3>1 DEF WholeStory
  <2>10. \A i \in 1 .. at : line[i] = r \/ \E j \in 1 .. Len(st.line) : line[i] = st.line[j]
    <3>1. \A i \in 1 .. at : i # at => i \in 1 .. st.at /\ i \in 1 .. Len(st.line)
      BY <1>1, <1>4
    <3>. QED
      BY <2>2, <3>1
  <2>. QED
    BY <2>2, <2>3, <2>4, <2>6, <2>9, <2>10
<1>6. CASE TakesBack(st, r, st2)
  <2>1. /\ st2 = [line |-> st.line, at |-> st.at - 1, stage |-> st.stage]
        /\ st.at > 0 /\ r.patches = Inversed(st.line[st.at].patches)
    BY <1>6 DEF TakesBack
  <2>2. st2.line = st.line /\ st2.at = st.at - 1 /\ st2.stage = st.stage
    BY <2>1
  <2>3. st.at - 1 \in Nat /\ st.at - 1 <= Len(st.line) /\ st.at \in 1 .. Len(st.line)
    BY <1>1, <1>4, <2>1
  <2>4. st2 \in Stories
    BY <1>1, <2>1, <2>3 DEF Stories
  <2>5. \A i \in 1 .. Len(st.line) : st.line[i].id <= r.id
    BY <1>2, <1>3, <1>4
  <2>6. WholeStory(st2, l, r.id)
    BY <1>4, <2>2, <2>3, <2>5 DEF WholeStory
  <2>7. st.stage[st.at - 1] = ApplyAfter(st.stage[st.at], r.patches)
    <3>1. /\ st.stage[st.at] = ApplyAfter(st.stage[st.at - 1], st.line[st.at].patches)
          /\ Starts(st.line[st.at].patches, st.stage[st.at - 1])
          /\ st.line[st.at].patches \in Patches /\ st.stage[st.at - 1] \in Canvas
      BY <1>1, <1>4, <2>3
    <3>2. ApplyAfter(ApplyAfter(st.stage[st.at - 1], st.line[st.at].patches), Inversed(st.line[st.at].patches))
            = st.stage[st.at - 1]
      BY <3>1, TakenBack
    <3>. QED
      BY <2>1, <3>1, <3>2
  <2>. QED
    BY <2>2, <2>4, <2>6, <2>7
<1>7. CASE Repeats(st, r, st2)
  <2>1. /\ st2 = [line |-> st.line, at |-> st.at + 1, stage |-> st.stage]
        /\ st.at < Len(st.line) /\ r.patches = st.line[st.at + 1].patches
    BY <1>7 DEF Repeats
  <2>2. st2.line = st.line /\ st2.at = st.at + 1 /\ st2.stage = st.stage
    BY <2>1
  <2>3. /\ st.at + 1 \in Nat /\ st.at + 1 <= Len(st.line) /\ st.at + 1 \in 1 .. Len(st.line)
        /\ (st.at + 1) - 1 = st.at
    BY <1>1, <1>4, <2>1
  <2>4. st2 \in Stories
    BY <1>1, <2>1, <2>3 DEF Stories
  <2>5. \A i \in 1 .. Len(st.line) : st.line[i].id <= r.id
    BY <1>2, <1>3, <1>4
  <2>6. WholeStory(st2, l, r.id)
    BY <1>4, <2>2, <2>3, <2>5 DEF WholeStory
  <2>7. st.stage[st.at + 1] = ApplyAfter(st.stage[st.at], r.patches)
    BY <1>4, <2>1, <2>3
  <2>. QED
    BY <2>2, <2>4, <2>6, <2>7
<1>. QED
  BY <1>5, <1>6, <1>7 DEF Moves
-----------------------------------------------------------------------------
(* The stacks of a layer, as its story has them.                           *)

Stacked(rt, l, st) ==
  /\ Len(rt.applied[l]) = st.at
  /\ \A i \in 1 .. st.at : rt.applied[l][i] = st.line[i].id
  /\ Len(rt.undone[l]) = Len(st.line) - st.at
  /\ \A j \in 1 .. Len(st.line) - st.at : rt.undone[l][j] = st.line[Len(st.line) - j + 1].id

\* The top of each stack is the stroke beside the place, and is on it once.
LEMMA Tops ==
  ASSUME NEW rt \in Runtimes, NEW l \in Layer, NEW n \in Nat,
         NEW st \in Stories, WholeStory(st, l, n), Stacked(rt, l, st)
  PROVE  /\ rt.applied[l] \in Seq(Id) /\ rt.undone[l] \in Seq(Id)
         /\ st.at > 0 => LET x == st.line[st.at].id IN
              /\ rt.applied[l] # <<>> /\ Last(rt.applied[l]) = x /\ x \in Id
              /\ Contains(rt.applied[l], x)
              /\ Drop(rt.applied[l], x) = Front(rt.applied[l])
         /\ st.at < Len(st.line) => LET x == st.line[st.at + 1].id IN
              /\ rt.undone[l] # <<>> /\ Last(rt.undone[l]) = x /\ x \in Id
              /\ ~ Contains(rt.applied[l], x) /\ Contains(rt.undone[l], x)
              /\ Drop(rt.undone[l], x) = Front(rt.undone[l])
         /\ rt.applied[l] # <<>> <=> st.at > 0
         /\ rt.undone[l] # <<>> <=> st.at < Len(st.line)
<1> DEFINE a == rt.applied[l]
           u == rt.undone[l]
           N == Len(st.line)
<1>1. a \in Seq(Id) /\ u \in Seq(Id) /\ st.at \in Nat /\ N \in Nat /\ st.at <= N
  BY DEF Runtimes, Stories, WholeStory
<1>2. /\ Len(a) = st.at /\ \A i \in 1 .. st.at : a[i] = st.line[i].id
      /\ Len(u) = N - st.at /\ \A j \in 1 .. N - st.at : u[j] = st.line[N - j + 1].id
  BY DEF Stacked
<1>3. \A i, j \in 1 .. N : st.line[i].id = st.line[j].id => i = j
  BY DEF WholeStory
<1> HIDE DEF a, u, N
<1>4. (a # <<>> <=> st.at > 0) /\ (u # <<>> <=> st.at < N)
  BY <1>1, <1>2
<1>5. ASSUME st.at > 0
      PROVE  LET x == st.line[st.at].id IN
              /\ a # <<>> /\ Last(a) = x /\ x \in Id /\ Contains(a, x) /\ Drop(a, x) = Front(a)
  <2>1. a # <<>> /\ Len(a) \in 1 .. Len(a) /\ Len(a) \in 1 .. N /\ Len(a) = st.at
    BY <1>1, <1>2, <1>4, <1>5
  <2>2. a[Len(a)] = st.line[st.at].id /\ a[Len(a)] \in Id /\ Last(a) = a[Len(a)]
    BY <1>1, <1>2, <2>1 DEF Last
  <2>3. Contains(a, Last(a))
    BY <2>1, <2>2 DEF Contains
  <2>4. ASSUME NEW i \in 1 .. Len(a) - 1
        PROVE  a[i] # Last(a)
    <3>1. i \in 1 .. st.at /\ i \in 1 .. N /\ st.at \in 1 .. N /\ i # st.at
      BY <1>1, <2>1
    <3>. QED
      BY <1>2, <1>3, <2>2, <3>1
  <2>5. Drop(a, Last(a)) = Front(a)
    BY <1>1, <2>1, <2>4, DropLast
  <2>. QED
    BY <2>1, <2>2, <2>3, <2>5
<1>6. ASSUME st.at < N
      PROVE  LET x == st.line[st.at + 1].id IN
              /\ u # <<>> /\ Last(u) = x /\ x \in Id
              /\ ~ Contains(a, x) /\ Contains(u, x) /\ Drop(u, x) = Front(u)
  <2>1. u # <<>> /\ Len(u) \in 1 .. Len(u) /\ Len(u) \in 1 .. N - st.at
        /\ N - Len(u) + 1 = st.at + 1 /\ st.at + 1 \in 1 .. N
    <3>1. u # <<>>
      BY <1>4, <1>6
    <3>2. st.at \in Nat /\ N \in Nat /\ st.at < N
      BY <1>1, <1>6
    <3>3. Len(u) = N - st.at
      BY <1>2
    <3>4. /\ N - st.at \in 1 .. N - st.at /\ N - (N - st.at) + 1 = st.at + 1
          /\ st.at + 1 \in 1 .. N
      BY <3>2, FromTheEnd, Zenon
    <3>. QED
      BY <3>1, <3>3, <3>4, Zenon
  <2>2. u[Len(u)] = st.line[st.at + 1].id /\ u[Len(u)] \in Id /\ Last(u) = u[Len(u)]
    <3>1. u[Len(u)] = st.line[N - Len(u) + 1].id
      BY <1>2, <2>1, Zenon
    <3>2. u[Len(u)] \in Id
      BY <1>1, <2>1
    <3>. QED
      BY <2>1, <3>1, <3>2, Zenon DEF Last
  <2>3. Contains(u, Last(u))
    BY <2>1, <2>2 DEF Contains
  <2>4. ASSUME NEW j \in 1 .. Len(u) - 1
        PROVE  u[j] # Last(u)
    <3>1. j \in 1 .. N - st.at /\ N - j + 1 \in 1 .. N /\ N - j + 1 # st.at + 1
      <4>1. N \in Nat /\ st.at \in Nat /\ st.at <= N
        BY <1>1
      <4>2. j \in 1 .. (N - st.at) - 1
        BY <1>2
      <4>. QED
        BY <4>1, <4>2, BelowTop, Zenon
    <3>. QED
      BY <1>2, <1>3, <2>1, <2>2, <3>1
  <2>5. Drop(u, Last(u)) = Front(u)
    BY <1>1, <2>1, <2>4, DropLast
  <2>6. ASSUME NEW i \in 1 .. Len(a)
        PROVE  a[i] # Last(u)
    <3>1. i \in 1 .. st.at /\ i \in 1 .. N /\ i # st.at + 1
      BY <1>1, <1>2
    <3>. QED
      BY <1>2, <1>3, <2>1, <2>2, <3>1
  <2>7. ~ Contains(a, Last(u))
    BY <2>6 DEF Contains
  <2>. QED
    BY <2>1, <2>2, <2>3, <2>5, <2>7
<1>. QED
  BY <1>1, <1>4, <1>5, <1>6 DEF a, u, N

\* All but the last of a stack.
LEMMA FrontOf ==
  ASSUME NEW X, NEW s \in Seq(X), s # <<>>
  PROVE  /\ Front(s) \in Seq(X) /\ Len(Front(s)) = Len(s) - 1
         /\ \A i \in 1 .. Len(s) - 1 : Front(s)[i] = s[i]
<1>1. Len(s) - 1 \in 0 .. Len(s)
  OBVIOUS
<1>. QED
  BY <1>1, PrefixFacts DEF Front

\* The stacks after a move of the story.
Restacked(st, r, st2, a, u, a2, u2) ==
  \/ Draws(st, r, st2) /\ a2 = Append(a, r.id) /\ u2 = <<>>
  \/ TakesBack(st, r, st2) /\ a2 = Front(a) /\ u2 = Append(u, r.reverts)
  \/ Repeats(st, r, st2) /\ a2 = Append(a, r.reverts) /\ u2 = Front(u)

\* A record does to the stacks what it does to the story.
LEMMA StacksMove ==
  ASSUME NEW rt \in Runtimes, NEW l \in Layer, NEW n \in Nat,
         NEW st \in Stories, WholeStory(st, l, n), Stacked(rt, l, st),
         NEW r \in Records, NEW st2, NEW new,
         Restacked(st, r, st2, rt.applied[l], rt.undone[l], new.applied[l], new.undone[l])
  PROVE  Stacked(new, l, st2) /\ new.applied[l] \in Seq(Id) /\ new.undone[l] \in Seq(Id)
<1> DEFINE a == rt.applied[l]
           u == rt.undone[l]
           N == Len(st.line)
           a2 == new.applied[l]
           u2 == new.undone[l]
<1>1. /\ a \in Seq(Id) /\ u \in Seq(Id) /\ st.at \in Nat /\ N \in Nat /\ st.at <= N
      /\ st.line \in Seq(Records) /\ \A i \in 1 .. N : st.line[i].id \in Id
  <2>1. a \in Seq(Id) /\ u \in Seq(Id)
    BY DEF Runtimes
  <2>2. st.line \in Seq(Records) /\ st.at \in Nat /\ st.at <= N
    BY DEF Stories, WholeStory
  <2>3. \A q \in Records : q.id \in Id
    BY DEF Records, Id
  <2>4. \A i \in 1 .. N : st.line[i] \in Records
    BY <2>2
  <2>. QED
    BY <2>1, <2>2, <2>3, <2>4
<1>2. /\ Len(a) = st.at /\ \A i \in 1 .. st.at : a[i] = st.line[i].id
      /\ Len(u) = N - st.at /\ \A j \in 1 .. N - st.at : u[j] = st.line[N - j + 1].id
  BY DEF Stacked
<1>3. r.id \in Id
  BY DEF Records, Id
<1>4. (a # <<>> <=> st.at > 0) /\ (u # <<>> <=> st.at < N)
  <2> HIDE DEF a, u, N
  <2>. QED
    BY <1>1, <1>2
<1>5. CASE Draws(st, r, st2) /\ a2 = Append(a, r.id) /\ u2 = <<>>
  <2> DEFINE cut == SubSeq(st.line, 1, st.at)
  <2>1. cut \in Seq(Records) /\ Len(cut) = st.at /\ \A i \in 1 .. st.at : cut[i] = st.line[i]
    BY <1>1, PrefixFacts
  <2>2. st2.line = Append(cut, r) /\ st2.at = st.at + 1
    BY <1>5 DEF Draws
  <2> HIDE DEF cut, a, u, N, a2, u2
  <2>3. /\ Len(st2.line) = st.at + 1 /\ st2.line[st.at + 1] = r
        /\ \A i \in 1 .. st.at : st2.line[i] = st.line[i]
    BY <1>1, <2>1, <2>2
  <2>4. /\ a2 \in Seq(Id) /\ Len(a2) = st.at + 1 /\ a2[st.at + 1] = r.id
        /\ \A i \in 1 .. st.at : a2[i] = a[i]
    BY <1>1, <1>2, <1>3, <1>5
  <2>5. \A i \in 1 .. st2.at : a2[i] = st2.line[i].id
    <3>1. \A i \in 1 .. st2.at : i = st.at + 1 \/ i \in 1 .. st.at
      BY <1>1, <2>2
    <3>. QED
      BY <1>2, <2>3, <2>4, <3>1
  <2>6. u2 \in Seq(Id) /\ Len(u2) = Len(st2.line) - st2.at /\ \A j \in 1 .. Len(st2.line) - st2.at : FALSE
    BY <1>1, <1>5, <2>2, <2>3
  <2>. QED
    BY <2>2, <2>4, <2>5, <2>6 DEF Stacked, a2, u2
<1>6. CASE TakesBack(st, r, st2) /\ a2 = Front(a) /\ u2 = Append(u, r.reverts)
  <2>1. st2.line = st.line /\ st2.at = st.at - 1 /\ st.at > 0 /\ r.reverts = st.line[st.at].id
    BY <1>6 DEF TakesBack
  <2> HIDE DEF a, u, N, a2, u2
  <2>2. a # <<>> /\ st.at \in 1 .. N /\ r.reverts \in Id
    BY <1>1, <1>4, <2>1
  <2>3. a2 \in Seq(Id) /\ Len(a2) = st.at - 1 /\ \A i \in 1 .. st.at - 1 : a2[i] = a[i]
    BY <1>1, <1>2, <1>6, <2>2, FrontOf
  <2>4. \A i \in 1 .. st.at - 1 : a2[i] = st.line[i].id
    <3>1. \A i \in 1 .. st.at - 1 : i \in 1 .. st.at
      BY <1>1
    <3>. QED
      BY <1>2, <2>3, <3>1
  <2>5. /\ u2 \in Seq(Id) /\ Len(u2) = N - st.at + 1 /\ u2[N - st.at + 1] = r.reverts
        /\ \A j \in 1 .. N - st.at : u2[j] = u[j]
    BY <1>1, <1>2, <1>6, <2>2
  <2>6. \A j \in 1 .. N - (st.at - 1) : u2[j] = st.line[N - j + 1].id
    <3>1. \A j \in 1 .. N - (st.at - 1) : j \in 1 .. N - st.at \/ (j = N - st.at + 1 /\ N - j + 1 = st.at)
      BY <1>1
    <3>. QED
      BY <1>2, <2>1, <2>5, <3>1
  <2>7. Len(u2) = N - (st.at - 1)
    BY <1>1, <2>5
  <2>. QED
    BY <2>1, <2>3, <2>4, <2>5, <2>6, <2>7 DEF Stacked, a2, u2, N
<1>7. CASE Repeats(st, r, st2) /\ a2 = Append(a, r.reverts) /\ u2 = Front(u)
  <2>1. st2.line = st.line /\ st2.at = st.at + 1 /\ st.at < N /\ r.reverts = st.line[st.at + 1].id
    BY <1>7 DEF Repeats
  <2> HIDE DEF a, u, N, a2, u2
  <2>2. u # <<>> /\ st.at + 1 \in 1 .. N /\ r.reverts \in Id
    BY <1>1, <1>4, <2>1
  <2>3. /\ a2 \in Seq(Id) /\ Len(a2) = st.at + 1 /\ a2[st.at + 1] = r.reverts
        /\ \A i \in 1 .. st.at : a2[i] = a[i]
    BY <1>1, <1>2, <1>7, <2>2
  <2>4. \A i \in 1 .. st.at + 1 : a2[i] = st.line[i].id
    <3>1. \A i \in 1 .. st.at + 1 : i \in 1 .. st.at \/ i = st.at + 1
      BY <1>1
    <3>. QED
      BY <1>2, <2>1, <2>3, <3>1
  <2>5. /\ u2 \in Seq(Id) /\ Len(u2) = Len(u) - 1 /\ \A j \in 1 .. Len(u) - 1 : u2[j] = u[j]
    BY <1>1, <1>7, <2>2, FrontOf
  <2>6. Len(u2) = N - (st.at + 1)
    BY <1>1, <1>2, <2>5
  <2>7. \A j \in 1 .. N - (st.at + 1) : u2[j] = st.line[N - j + 1].id
    <3>1. \A j \in 1 .. N - (st.at + 1) : j \in 1 .. Len(u) - 1 /\ j \in 1 .. N - st.at
      BY <1>1, <1>2
    <3>. QED
      BY <1>2, <2>5, <3>1
  <2>. QED
    BY <2>1, <2>3, <2>4, <2>5, <2>6, <2>7 DEF Stacked, a2, u2, N
<1>. QED
  BY <1>5, <1>6, <1>7 DEF Restacked

\* A record changes the canvas and the stacks of its layer, as its kind says.
LEMMA RecordChanges ==
  ASSUME NEW rt \in Runtimes, NEW l \in Layer, NEW n \in Nat,
         NEW st \in Stories, WholeStory(st, l, n), Stacked(rt, l, st),
         NEW r \in Records, r.layer = l, NEW st2, Moves(st, r, st2)
  PROVE  \E a, u \in Seq(Id) :
           /\ Restacked(st, r, st2, rt.applied[l], rt.undone[l], a, u)
           /\ ApplyActionRecord(rt, r) = Changed(rt, l, ApplyAfter(rt.canvas[l], r.patches), a, u, r)
<1> DEFINE cv == ApplyAfter(rt.canvas[l], r.patches)
           painted == WithCanvas(rt, l, cv)
<1>1. cv \in Canvas /\ r.id \in Id /\ r.patches \in Patches
  <2>1. rt.canvas[l] \in Canvas /\ r.patches \in Patches /\ r.id \in Id
    BY DEF Runtimes, Records, Id
  <2>. QED
    BY <2>1, PaintWhole
<1>2. painted \in Runtimes /\ painted.applied = rt.applied /\ painted.undone = rt.undone
  <2> HIDE DEF cv
  <2>. QED
    BY <1>1, CanvasChanges, Zenon
<1>3. /\ rt.applied[l] \in Seq(Id) /\ rt.undone[l] \in Seq(Id)
      /\ st.at > 0 => LET x == st.line[st.at].id IN
              /\ rt.applied[l] # <<>> /\ Last(rt.applied[l]) = x /\ x \in Id
              /\ Contains(rt.applied[l], x)
              /\ Drop(rt.applied[l], x) = Front(rt.applied[l])
      /\ st.at < Len(st.line) => LET x == st.line[st.at + 1].id IN
              /\ rt.undone[l] # <<>> /\ Last(rt.undone[l]) = x /\ x \in Id
              /\ ~ Contains(rt.applied[l], x) /\ Contains(rt.undone[l], x)
              /\ Drop(rt.undone[l], x) = Front(rt.undone[l])
  BY Tops
<1> DEFINE effect == IF r.kind = "stroke"
                     THEN [painted EXCEPT !.applied[l] = Append(@, r.id), !.undone[l] = <<>>]
                     ELSE Toggle(painted, l, r.reverts)
<1>4. ASSUME r.kind \in {"stroke", "revert"}
      PROVE  ApplyActionRecord(rt, r) = [effect EXCEPT !.actions = Append(@, r)]
  <2>1. DOMAIN r.patches # {}
    BY DEF Moves
  <2>2. painted = [rt EXCEPT !.canvas[l] = ApplyAfter(@, r.patches)]
    BY DEF WithCanvas
  <2> HIDE DEF cv, painted
  <2>3. r.layer = l
    OBVIOUS
  <2>4. ApplyActionRecord(rt, r) =
          LET whole == IF DOMAIN r.patches = {} THEN rt
                       ELSE CASE r.kind = "stroke" ->
                                   [painted EXCEPT !.applied[l] = Append(@, r.id), !.undone[l] = <<>>]
                              [] r.kind = "revert" -> Toggle(painted, l, r.reverts)
                              [] OTHER -> painted
          IN  [whole EXCEPT !.actions = Append(@, r)]
    BY <2>2, <2>3, Zenon DEF ApplyActionRecord
  <2>5. CASE r.kind = "stroke"
    BY <2>1, <2>4, <2>5
  <2>6. CASE r.kind = "revert"
    BY <2>1, <2>4, <2>6
  <2>. QED
    BY <1>4, <2>5, <2>6
<1> HIDE DEF painted, cv
<1>5. \A a, u \in Seq(Id) : effect = [painted EXCEPT !.applied[l] = a, !.undone[l] = u] /\ r.kind \in {"stroke", "revert"}
        => ApplyActionRecord(rt, r) = Changed(rt, l, cv, a, u, r)
  BY <1>4 DEF Changed, WithRecord, WithStacks, painted
<1>6. CASE Draws(st, r, st2)
  <2>1. r.kind = "stroke"
    BY <1>6 DEF Draws
  <2>2. Append(rt.applied[l], r.id) \in Seq(Id) /\ <<>> \in Seq(Id)
    BY <1>1, <1>3, AppendProperties
  <2>3. effect = [painted EXCEPT !.applied[l] = Append(rt.applied[l], r.id), !.undone[l] = <<>>]
    BY <1>2, <2>1
  <2>4. ApplyActionRecord(rt, r) = Changed(rt, l, cv, Append(rt.applied[l], r.id), <<>>, r)
    BY <1>5, <2>1, <2>2, <2>3
  <2>5. Restacked(st, r, st2, rt.applied[l], rt.undone[l], Append(rt.applied[l], r.id), <<>>)
    BY <1>6 DEF Restacked
  <2>. QED
    BY <2>2, <2>4, <2>5 DEF cv
<1>7. CASE TakesBack(st, r, st2)
  <2>1. r.kind = "revert" /\ r.kind # "stroke" /\ st.at > 0 /\ r.reverts = st.line[st.at].id
    BY <1>7 DEF TakesBack
  <2> DEFINE a == Front(rt.applied[l])
             u == Append(rt.undone[l], r.reverts)
  <2>2. a \in Seq(Id) /\ u \in Seq(Id)
    BY <1>3, <2>1, FrontOf, AppendProperties
  <2>3. Contains(painted.applied[l], r.reverts) /\ Drop(painted.applied[l], r.reverts) = a
    BY <1>2, <1>3, <2>1
  <2>4. effect = [painted EXCEPT !.applied[l] = Drop(@, r.reverts), !.undone[l] = Append(@, r.reverts)]
    BY <2>1, <2>3 DEF Toggle
  <2>5. effect = [painted EXCEPT !.applied[l] = a, !.undone[l] = u]
    BY <1>2, <2>3, <2>4
  <2> HIDE DEF effect
  <2>6. ApplyActionRecord(rt, r) = Changed(rt, l, cv, a, u, r)
    BY <1>5, <2>1, <2>2, <2>5
  <2>7. Restacked(st, r, st2, rt.applied[l], rt.undone[l], a, u)
    BY <1>7 DEF Restacked
  <2>. QED
    BY <2>2, <2>6, <2>7 DEF cv
<1>8. CASE Repeats(st, r, st2)
  <2>1. r.kind = "revert" /\ r.kind # "stroke" /\ st.at < Len(st.line) /\ r.reverts = st.line[st.at + 1].id
    BY <1>8 DEF Repeats
  <2> DEFINE a == Append(rt.applied[l], r.reverts)
             u == Front(rt.undone[l])
  <2>2. a \in Seq(Id) /\ u \in Seq(Id)
    BY <1>3, <2>1, FrontOf, AppendProperties
  <2>3. /\ ~ Contains(painted.applied[l], r.reverts) /\ Contains(painted.undone[l], r.reverts)
        /\ Drop(painted.undone[l], r.reverts) = u
    BY <1>2, <1>3, <2>1
  <2>4. effect = [painted EXCEPT !.undone[l] = Drop(@, r.reverts), !.applied[l] = Append(@, r.reverts)]
    BY <2>1, <2>3 DEF Toggle
  <2>5. effect = [painted EXCEPT !.applied[l] = a, !.undone[l] = u]
    <3>1. effect = [painted EXCEPT !.undone[l] = u, !.applied[l] = Append(@, r.reverts)]
      BY <2>3, <2>4
    <3> HIDE DEF effect, u
    <3>2. Swapped(painted, l, u, r.reverts)
      BY <1>2, StacksSwap
    <3>3. effect = [painted EXCEPT !.applied[l] = Append(painted.applied[l], r.reverts), !.undone[l] = u]
      BY <3>1, <3>2, Zenon DEF Swapped
    <3>. QED
      BY <1>2, <3>3
  <2> HIDE DEF effect
  <2>6. ApplyActionRecord(rt, r) = Changed(rt, l, cv, a, u, r)
    BY <1>5, <2>1, <2>2, <2>5
  <2>7. Restacked(st, r, st2, rt.applied[l], rt.undone[l], a, u)
    BY <1>8 DEF Restacked
  <2>. QED
    BY <2>2, <2>6, <2>7 DEF cv
<1>. QED
  BY <1>6, <1>7, <1>8 DEF Moves

\* A record moves the story of its layer, the canvas and the stacks with it,
\* and leaves the other layers alone.
LEMMA RecordApplied ==
  ASSUME NEW rt \in Runtimes, NEW l \in Layer, NEW n \in Nat,
         NEW st \in Stories, WholeStory(st, l, n), Stacked(rt, l, st),
         NEW r \in Records, r.layer = l, NEW st2, Moves(st, r, st2),
         NEW new, new = ApplyActionRecord(rt, r)
  PROVE  /\ new \in Runtimes /\ Stacked(new, l, st2)
         /\ new.canvas[l] = ApplyAfter(rt.canvas[l], r.patches)
         /\ new.actions = Append(rt.actions, r)
         /\ \A k \in Layer : k # l => /\ new.canvas[k] = rt.canvas[k]
                                      /\ new.applied[k] = rt.applied[k]
                                      /\ new.undone[k] = rt.undone[k]
<1>1. PICK a \in Seq(Id), u \in Seq(Id) :
        /\ Restacked(st, r, st2, rt.applied[l], rt.undone[l], a, u)
        /\ ApplyActionRecord(rt, r) = Changed(rt, l, ApplyAfter(rt.canvas[l], r.patches), a, u, r)
  BY RecordChanges
<1>2. /\ ApplyAfter(rt.canvas[l], r.patches) \in Canvas
      /\ rt.canvas \in [Layer -> Canvas] /\ rt.applied \in [Layer -> Seq(Id)]
      /\ rt.undone \in [Layer -> Seq(Id)]
  <2>1. rt.canvas[l] \in Canvas /\ r.patches \in Patches
    BY DEF Runtimes, Records
  <2>. QED
    BY <2>1, PaintWhole DEF Runtimes
<1>3. /\ new \in Runtimes
      /\ new.canvas = [rt.canvas EXCEPT ![l] = ApplyAfter(rt.canvas[l], r.patches)]
      /\ new.applied = [rt.applied EXCEPT ![l] = a] /\ new.undone = [rt.undone EXCEPT ![l] = u]
      /\ new.actions = Append(rt.actions, r)
  <2>1. PICK cv \in Canvas : cv = ApplyAfter(rt.canvas[l], r.patches)
    BY <1>2
  <2>2. Differs(Changed(rt, l, cv, a, u, r), rt, l, cv, a, u, r)
    BY ChangedIs
  <2>3. new = Changed(rt, l, cv, a, u, r)
    BY <1>1, <2>1
  <2>. QED
    BY <2>1, <2>2, <2>3 DEF Differs
<1>4. new.applied[l] = a /\ new.undone[l] = u
  BY <1>2, <1>3
<1>5. Stacked(new, l, st2)
  <2>1. Restacked(st, r, st2, rt.applied[l], rt.undone[l], new.applied[l], new.undone[l])
    BY <1>1, <1>4
  <2>. QED
    BY <2>1, StacksMove
<1>. QED
  BY <1>2, <1>3, <1>5

\* No two records have one id.
Apart(S) == \A q, r \in S : q.id = r.id => q = r

\* The patches under an id are those of the one stroke that has it.
LEMMA PatchesAre ==
  ASSUME NEW rt \in Runtimes, NEW q \in Range(rt.actions), q.kind = "stroke",
         Apart(Range(rt.actions))
  PROVE  PatchesOf(rt, q.id) = q.patches
<1> DEFINE P(i) == rt.actions[i].kind = "stroke" /\ rt.actions[i].id = q.id
           j == CHOOSE i \in DOMAIN rt.actions : P(i)
<1>1. \E i \in DOMAIN rt.actions : P(i)
  BY DEF Range
<1>2. j \in DOMAIN rt.actions /\ P(j)
  <2> HIDE DEF P
  <2>. QED
    BY <1>1
<1>3. PatchesOf(rt, q.id) = rt.actions[j].patches
  BY DEF PatchesOf
<1>4. rt.actions[j] \in Range(rt.actions)
  BY <1>2 DEF Range
<1>. QED
  BY <1>2, <1>3, <1>4 DEF Apart

\* To undo is to apply the revert of the stroke before the place.
LEMMA UndoIsRecord ==
  ASSUME NEW rt \in Runtimes, NEW l \in Layer, NEW n \in Nat,
         NEW st \in Stories, WholeStory(st, l, n), Stacked(rt, l, st), rt.applied[l] # <<>>,
         PatchesOf(rt, st.line[st.at].id) = st.line[st.at].patches,
         NEW r \in Records, r.layer = l, r.kind = "revert",
         r.patches = Inversed(PatchesOf(rt, TopApplied(rt, l))), r.reverts = TopApplied(rt, l)
  PROVE  /\ Moves(st, r, [line |-> st.line, at |-> st.at - 1, stage |-> st.stage])
         /\ PushHistoryRecord(UndoTop(rt, l), r) = ApplyActionRecord(rt, r)
<1> DEFINE x == st.line[st.at].id
           ps == st.line[st.at].patches
           st2 == [line |-> st.line, at |-> st.at - 1, stage |-> st.stage]
<1>1. st.at > 0 /\ Last(rt.applied[l]) = x
  <2>1. rt.applied[l] # <<>> <=> st.at > 0
    BY Tops, Zenon
  <2>2. st.at > 0 => Last(rt.applied[l]) = st.line[st.at].id
    BY Tops, Zenon
  <2>. QED
    BY <2>1, <2>2
<1>2. /\ st.line[st.at] \in Records /\ DOMAIN ps # {} /\ st.at \in Nat
      /\ ps \in Patches
  <2>1. st.at \in 1 .. Len(st.line) /\ st.line \in Seq(Records) /\ st.at \in Nat
    BY <1>1 DEF Stories, WholeStory
  <2>2. st.line[st.at] \in Records
    BY <2>1
  <2>. QED
    BY <2>1, <2>2 DEF WholeStory, Records
<1>3. r.reverts = x /\ r.patches = Inversed(ps) /\ PatchesOf(rt, Last(rt.applied[l])) = ps
  BY <1>1 DEF TopApplied
<1>4. TakesBack(st, r, st2)
  BY <1>1, <1>3, Zenon DEF TakesBack
<1>5. Moves(st, r, st2)
  BY <1>2, <1>3, <1>4, PaintWhole DEF Moves, Runtimes, Inversed
<1>6. PICK a \in Seq(Id), u \in Seq(Id) :
        /\ Restacked(st, r, st2, rt.applied[l], rt.undone[l], a, u)
        /\ ApplyActionRecord(rt, r) = Changed(rt, l, ApplyAfter(rt.canvas[l], r.patches), a, u, r)
  BY <1>5, RecordChanges
<1>7. a = Front(rt.applied[l]) /\ u = Append(rt.undone[l], x)
  <2>1. ~ Draws(st, r, st2) /\ ~ Repeats(st, r, st2)
    BY <1>2 DEF Draws, Repeats
  <2>. QED
    BY <1>3, <1>6, <2>1 DEF Restacked
<1>8. ApplyBefore(rt.canvas[l], ps) = ApplyAfter(rt.canvas[l], r.patches)
  <2>1. rt.canvas[l] \in Canvas
    BY DEF Runtimes
  <2>. QED
    BY <1>2, <1>3, <2>1, PaintWhole
<1>9. UndoTop(rt, l) = [rt EXCEPT !.canvas[l] = ApplyBefore(@, ps),
                                  !.applied[l] = Front(@), !.undone[l] = Append(@, x)]
  BY <1>1, <1>3, Zenon DEF UndoTop, TopApplied
<1>10. UndoTop(rt, l) = WithStacks(WithCanvas(rt, l, ApplyAfter(rt.canvas[l], r.patches)), l, a, u)
  BY <1>7, <1>8, <1>9 DEF WithStacks, WithCanvas, Runtimes
<1>. QED
  BY <1>5, <1>6, <1>10 DEF Changed, WithRecord, PushHistoryRecord

\* To redo is to apply the revert of the stroke after the place.
LEMMA RedoIsRecord ==
  ASSUME NEW rt \in Runtimes, NEW l \in Layer, NEW n \in Nat,
         NEW st \in Stories, WholeStory(st, l, n), Stacked(rt, l, st), rt.undone[l] # <<>>,
         PatchesOf(rt, st.line[st.at + 1].id) = st.line[st.at + 1].patches,
         NEW r \in Records, r.layer = l, r.kind = "revert",
         r.patches = PatchesOf(rt, TopUndone(rt, l)), r.reverts = TopUndone(rt, l)
  PROVE  /\ Moves(st, r, [line |-> st.line, at |-> st.at + 1, stage |-> st.stage])
         /\ PushHistoryRecord(RedoTop(rt, l), r) = ApplyActionRecord(rt, r)
<1> DEFINE x == st.line[st.at + 1].id
           ps == st.line[st.at + 1].patches
           st2 == [line |-> st.line, at |-> st.at + 1, stage |-> st.stage]
<1>1. st.at < Len(st.line) /\ Last(rt.undone[l]) = x
  <2>1. rt.undone[l] # <<>> <=> st.at < Len(st.line)
    BY Tops, Zenon
  <2>2. st.at < Len(st.line) => Last(rt.undone[l]) = st.line[st.at + 1].id
    BY Tops, Zenon
  <2>. QED
    BY <2>1, <2>2
<1>2. DOMAIN ps # {} /\ st.at \in Nat
  <2>1. st.at + 1 \in 1 .. Len(st.line) /\ st.at \in Nat
    BY <1>1 DEF Stories, WholeStory
  <2>. QED
    BY <2>1 DEF WholeStory
<1>3. r.reverts = x /\ r.patches = ps /\ PatchesOf(rt, Last(rt.undone[l])) = ps
  BY <1>1 DEF TopUndone
<1>4. Repeats(st, r, st2)
  BY <1>1, <1>3, Zenon DEF Repeats
<1>5. Moves(st, r, st2)
  BY <1>2, <1>3, <1>4 DEF Moves
<1>6. PICK a \in Seq(Id), u \in Seq(Id) :
        /\ Restacked(st, r, st2, rt.applied[l], rt.undone[l], a, u)
        /\ ApplyActionRecord(rt, r) = Changed(rt, l, ApplyAfter(rt.canvas[l], r.patches), a, u, r)
  BY <1>5, RecordChanges
<1>7. a = Append(rt.applied[l], x) /\ u = Front(rt.undone[l])
  <2>1. ~ Draws(st, r, st2) /\ ~ TakesBack(st, r, st2)
    BY <1>2 DEF Draws, TakesBack
  <2>. QED
    BY <1>3, <1>6, <2>1 DEF Restacked
<1>9. RedoTop(rt, l) = [rt EXCEPT !.canvas[l] = ApplyAfter(@, ps),
                                  !.undone[l] = Front(@), !.applied[l] = Append(@, x)]
  BY <1>1, <1>3, Zenon DEF RedoTop, TopUndone
<1>10. RedoTop(rt, l) = WithStacks(WithCanvas(rt, l, ApplyAfter(rt.canvas[l], r.patches)), l, a, u)
  <2>1. PICK cv : cv = ApplyAfter(rt.canvas[l], ps)
    OBVIOUS
  <2>2. PICK rt1 : rt1 = WithCanvas(rt, l, cv)
    OBVIOUS
  <2>3. RedoTop(rt, l) = [rt1 EXCEPT !.undone[l] = Front(@), !.applied[l] = Append(@, x)]
    BY <1>9, <2>1, <2>2 DEF WithCanvas
  <2>4. rt1.applied = rt.applied /\ rt1.undone = rt.undone
    BY <2>2 DEF WithCanvas, Runtimes
  <2>5. RedoTop(rt, l) = [rt1 EXCEPT !.applied[l] = a, !.undone[l] = u]
    <3> HIDE DEF x
    <3>1. RedoTop(rt, l) = [rt1 EXCEPT !.undone[l] = u, !.applied[l] = Append(@, x)]
      BY <1>7, <2>3, <2>4
    <3>2. rt1 \in Runtimes
      <4>1. cv \in Canvas
        <5>1. rt.canvas[l] \in Canvas /\ r.patches \in Patches
          BY DEF Runtimes, Records
        <5>. QED
          BY <1>3, <2>1, <5>1, PaintWhole
      <4>. QED
        BY <2>2, <4>1, CanvasChanges, Zenon
    <3>3. Swapped(rt1, l, u, x)
      BY <3>2, StacksSwap
    <3>4. RedoTop(rt, l) = [rt1 EXCEPT !.applied[l] = Append(rt1.applied[l], x), !.undone[l] = u]
      BY <3>1, <3>3, Zenon DEF Swapped
    <3>. QED
      BY <1>7, <2>4, <3>4
  <2>. QED
    BY <1>3, <2>1, <2>2, <2>5 DEF WithStacks
<1>. QED
  BY <1>5, <1>6, <1>10 DEF Changed, WithRecord, PushHistoryRecord

-----------------------------------------------------------------------------
(* Records: where they are, and how they are numbered.                     *)

\* Undo waits for the end of the stroke, and a layer that is not painted in
\* turns has one user.
Disciplined ==
  /\ ~ Midway
  /\ \A l \in Layer \ Turns : \A s, t \in Session : l \in Works[s] /\ l \in Works[t] => s = t

History(s) == runtime[s].actions
All == Range(bus) \cup UNION {Range(History(s)) : s \in Session}
Read(s) == {bus[i] : i \in 1 .. consumed[s]}
Ahead(s) == {bus[i] : i \in consumed[s] + 1 .. Len(bus)}
Mine(s) == {r \in {History(s)[i] : i \in published[s] + 1 .. Len(History(s))} : r.user = s}
On(S, l) == {r \in S : r.layer = l}

StrokesInHand == [layers : SUBSET Layer, start : Canvas, touched : SUBSET Cell]

Typed ==
  /\ bus \in Seq(Records)
  /\ runtime \in [Session -> Runtimes]
  /\ published \in [Session -> Nat] /\ consumed \in [Session -> Nat]
  /\ stroke \in [Session -> StrokesInHand]
  /\ minted \in 0 .. MaxActs
  /\ \A s \in Session :
       /\ published[s] <= Len(History(s)) /\ consumed[s] <= Len(bus)
       /\ stroke[s].layers = {} => stroke[s] = NoStroke

\* The tail of a sequence.
LEMMA TailFacts ==
  ASSUME NEW X, NEW s \in Seq(X), NEW k \in 0 .. Len(s)
  PROVE  /\ SubSeq(s, k + 1, Len(s)) \in Seq(X) /\ Len(SubSeq(s, k + 1, Len(s))) = Len(s) - k
         /\ \A i \in 1 .. Len(s) - k : SubSeq(s, k + 1, Len(s))[i] = s[k + i]
<1>1. k + 1 \in Int /\ Len(s) \in Nat /\ k \in Nat /\ k <= Len(s)
      /\ \A i \in k + 1 .. Len(s) : s[i] \in X
  OBVIOUS
<1>2. /\ SubSeq(s, k + 1, Len(s)) \in Seq(X)
      /\ Len(SubSeq(s, k + 1, Len(s))) = IF k + 1 <= Len(s) THEN Len(s) - (k + 1) + 1 ELSE 0
      /\ \A i \in 1 .. Len(s) - (k + 1) + 1 : SubSeq(s, k + 1, Len(s))[i] = s[k + 1 + i - 1]
  BY <1>1, SubSeqProperties
<1>3. \A i \in 1 .. Len(s) - k : i \in 1 .. Len(s) - (k + 1) + 1 /\ k + 1 + i - 1 = k + i
  BY <1>1
<1>. QED
  BY <1>1, <1>2, <1>3

\* The records of a user, and those of the others.
By(q, s) == {r \in Range(q) : r.user = s}
NotBy(q, s) == {r \in Range(q) : r.user # s}

\* What is kept of a session's own records, or of the others', in order.
LEMMA OwnFacts ==
  ASSUME NEW q \in Seq(Records), NEW s
  PROVE  /\ Own(s, q) \in Seq(Records) /\ Picked(Own(s, q), q, By(q, s))
         /\ Foreign(s, q) \in Seq(Records) /\ Picked(Foreign(s, q), q, NotBy(q, s))
BY KeptFacts DEF Own, Foreign, By, NotBy

\* U is what a session has yet to publish, in the order of its history.
Waiting(U, s) ==
  /\ U \in Seq(Records)
  /\ \A i \in 1 .. Len(U) : U[i] \in Mine(s) /\ U[i].user = s
  /\ \A r \in Mine(s) : \E i \in 1 .. Len(U) : U[i] = r
  /\ \A i, j \in 1 .. Len(U) : i < j =>
       \E a, b \in 1 .. Len(History(s)) : a < b /\ U[i] = History(s)[a] /\ U[j] = History(s)[b]

\* The records that a frame publishes.
LEMMA UnpublishedFacts ==
  ASSUME Typed, NEW s \in Session
  PROVE  Waiting(Unpublished(s), s)
<1> DEFINE H == History(s)
           k == published[s]
           q == SubSeq(H, k + 1, Len(H))
           U == Unpublished(s)
<1>1. H \in Seq(Records) /\ k \in 0 .. Len(H) /\ k \in Nat /\ Len(H) \in Nat
  BY DEF Typed, Runtimes, History
<1>2. U = Own(s, q)
  BY DEF Unpublished, History
<1> HIDE DEF H, k, U
<1>3. q \in Seq(Records) /\ Len(q) = Len(H) - k /\ \A i \in 1 .. Len(H) - k : q[i] = H[k + i]
  BY <1>1, TailFacts
<1> HIDE DEF q
<1>4. /\ U \in Seq(Records)
      /\ \A i \in 1 .. Len(U) : \E a \in 1 .. Len(q) : U[i] = q[a] /\ q[a].user = s
      /\ \A a \in 1 .. Len(q) : q[a].user = s => \E i \in 1 .. Len(U) : U[i] = q[a]
      /\ \A i, j \in 1 .. Len(U) : i < j => \E a, b \in 1 .. Len(q) : a < b /\ U[i] = q[a] /\ U[j] = q[b]
  <2>1. U \in Seq(Records) /\ Picked(U, q, By(q, s))
    BY <1>2, <1>3, OwnFacts
  <2>2. \A a \in 1 .. Len(q) : q[a] \in By(q, s) <=> q[a].user = s
    BY DEF By, Range
  <2>3. /\ \A i \in 1 .. Len(U) : \E a \in 1 .. Len(q) : U[i] = q[a] /\ q[a] \in By(q, s)
        /\ \A a \in 1 .. Len(q) : q[a] \in By(q, s) => \E i \in 1 .. Len(U) : U[i] = q[a]
        /\ \A i, j \in 1 .. Len(U) : i < j => \E a, b \in 1 .. Len(q) : a < b /\ U[i] = q[a] /\ U[j] = q[b]
    BY <2>1, Zenon DEF Picked
  <2>4. \A i \in 1 .. Len(U) : \E a \in 1 .. Len(q) : U[i] = q[a] /\ q[a].user = s
    BY <2>2, <2>3, Zenon
  <2>5. \A a \in 1 .. Len(q) : q[a].user = s => \E i \in 1 .. Len(U) : U[i] = q[a]
    BY <2>2, <2>3, Zenon
  <2>. QED
    BY <2>1, <2>3, <2>4, <2>5, Zenon
<1>5. \A a \in 1 .. Len(q) : k + a \in k + 1 .. Len(H) /\ k + a \in 1 .. Len(H) /\ q[a] = H[k + a]
  <2>1. TAKE a \in 1 .. Len(q)
  <2>2. a \in 1 .. Len(H) - k /\ q[a] = H[k + a]
    BY <1>3
  <2>. QED
    BY <1>1, <2>2
<1>6. \A i \in k + 1 .. Len(H) : i - k \in 1 .. Len(q) /\ q[i - k] = H[i]
  <2>1. TAKE i \in k + 1 .. Len(H)
  <2>2. i - k \in 1 .. Len(H) - k /\ k + (i - k) = i
    BY <1>1
  <2>. QED
    BY <1>3, <2>2
<1>7. \A r : r \in Mine(s) <=> r.user = s /\ \E i \in k + 1 .. Len(H) : r = H[i]
  BY DEF Mine, H, k
<1>8. \A i \in 1 .. Len(U) : U[i] \in Mine(s) /\ U[i].user = s
  <2>1. TAKE i \in 1 .. Len(U)
  <2>2. PICK a \in 1 .. Len(q) : U[i] = q[a] /\ q[a].user = s
    BY <1>4
  <2>3. \E j \in k + 1 .. Len(H) : U[i] = H[j]
    BY <1>5, <2>2
  <2>. QED
    BY <1>7, <2>2, <2>3
<1>9. \A r \in Mine(s) : \E i \in 1 .. Len(U) : U[i] = r
  <2>1. TAKE r \in Mine(s)
  <2>2. PICK i \in k + 1 .. Len(H) : r = H[i] /\ r.user = s
    BY <1>7
  <2>3. i - k \in 1 .. Len(q) /\ q[i - k] = r
    BY <1>6, <2>2
  <2>. QED
    BY <1>4, <2>2, <2>3
<1>10. ASSUME NEW i \in 1 .. Len(U), NEW j \in 1 .. Len(U), i < j
       PROVE  \E a, b \in 1 .. Len(H) : a < b /\ U[i] = H[a] /\ U[j] = H[b]
  <2>1. PICK a \in 1 .. Len(q), b \in 1 .. Len(q) : a < b /\ U[i] = q[a] /\ U[j] = q[b]
    BY <1>4, <1>10
  <2>2. k + a < k + b
    BY <1>1, <2>1
  <2>. QED
    BY <1>5, <2>1, <2>2
<1>. QED
  BY <1>4, <1>8, <1>9, <1>10 DEF H, U, Waiting

\* F is what others did that lies ahead of a session, in the log's order.
Fetched(F, s) ==
  /\ F \in Seq(Records)
  /\ \A i \in 1 .. Len(F) : F[i] \in Ahead(s) /\ F[i].user # s
  /\ \A r \in Ahead(s) : r.user # s => \E i \in 1 .. Len(F) : F[i] = r
  /\ \A i, j \in 1 .. Len(F) : i < j =>
       \E a, b \in consumed[s] + 1 .. Len(bus) : a < b /\ F[i] = bus[a] /\ F[j] = bus[b]

AllBy(q, s) == \A i \in 1 .. Len(q) : q[i].user = s

\* What a frame reads when it has published its own records.
LEMMA FrameReads ==
  ASSUME Typed, NEW s \in Session, NEW U \in Seq(Records), AllBy(U, s),
         NEW F, F = Foreign(s, SubSeq(bus \o U, consumed[s] + 1, Len(bus \o U)))
  PROVE  Fetched(F, s)
<1> DEFINE log == bus \o U
           k == consumed[s]
           q == SubSeq(log, k + 1, Len(log))
<1>1. bus \in Seq(Records) /\ k \in Nat /\ k <= Len(bus) /\ Len(bus) \in Nat /\ Len(U) \in Nat
  BY DEF Typed
<1> HIDE DEF k
<1>2. /\ log \in Seq(Records) /\ Len(log) = Len(bus) + Len(U)
      /\ \A i \in 1 .. Len(log) : log[i] = IF i <= Len(bus) THEN bus[i] ELSE U[i - Len(bus)]
  BY <1>1, ConcatProperties
<1> HIDE DEF log
<1>3. k \in 0 .. Len(log)
  BY <1>1, <1>2
<1>4. q \in Seq(Records) /\ Len(q) = Len(log) - k /\ \A i \in 1 .. Len(log) - k : q[i] = log[k + i]
  BY <1>2, <1>3, TailFacts
<1>5. F = Foreign(s, q)
  BY DEF log, k
<1> HIDE DEF q
<1>6. /\ F \in Seq(Records)
      /\ \A i \in 1 .. Len(F) : \E a \in 1 .. Len(q) : F[i] = q[a] /\ q[a].user # s
      /\ \A a \in 1 .. Len(q) : q[a].user # s => \E i \in 1 .. Len(F) : F[i] = q[a]
      /\ \A i, j \in 1 .. Len(F) : i < j => \E a, b \in 1 .. Len(q) : a < b /\ F[i] = q[a] /\ F[j] = q[b]
  <2>1. F \in Seq(Records) /\ Picked(F, q, NotBy(q, s))
    BY <1>4, <1>5, OwnFacts
  <2>2. \A a \in 1 .. Len(q) : q[a] \in NotBy(q, s) <=> q[a].user # s
    BY DEF NotBy, Range
  <2>3. /\ \A i \in 1 .. Len(F) : \E a \in 1 .. Len(q) : F[i] = q[a] /\ q[a] \in NotBy(q, s)
        /\ \A a \in 1 .. Len(q) : q[a] \in NotBy(q, s) => \E i \in 1 .. Len(F) : F[i] = q[a]
        /\ \A i, j \in 1 .. Len(F) : i < j => \E a, b \in 1 .. Len(q) : a < b /\ F[i] = q[a] /\ F[j] = q[b]
    BY <2>1, Zenon DEF Picked
  <2>4. \A i \in 1 .. Len(F) : \E a \in 1 .. Len(q) : F[i] = q[a] /\ q[a].user # s
    BY <2>2, <2>3, Zenon
  <2>5. \A a \in 1 .. Len(q) : q[a].user # s => \E i \in 1 .. Len(F) : F[i] = q[a]
    BY <2>2, <2>3, Zenon
  <2>. QED
    BY <2>1, <2>3, <2>4, <2>5, Zenon
<1>7. ASSUME NEW a \in 1 .. Len(q), q[a].user # s
      PROVE  k + a \in k + 1 .. Len(bus) /\ q[a] = bus[k + a]
  <2>1. k + a \in 1 .. Len(log) /\ k + a >= k + 1 /\ q[a] = log[k + a] /\ a \in Nat
    BY <1>1, <1>2, <1>4
  <2>2. k + a <= Len(bus)
    <3>1. SUFFICES ASSUME k + a > Len(bus)
                   PROVE  FALSE
      BY <1>1, <2>1
    <3>2. k + a - Len(bus) \in 1 .. Len(U)
      <4>1. PICK w \in Int : w = k + a
        BY <2>1
      <4>2. w <= Len(bus) + Len(U) /\ w > Len(bus)
        BY <1>2, <2>1, <3>1, <4>1
      <4>. QED
        BY <1>1, <4>1, <4>2
    <3>3. q[a] = U[k + a - Len(bus)]
      BY <1>1, <1>2, <2>1, <3>1
    <3>. QED
      BY <1>7, <3>2, <3>3 DEF AllBy
  <2>. QED
    BY <1>1, <1>2, <2>1, <2>2
<1>8. ASSUME NEW i \in k + 1 .. Len(bus)
      PROVE  i - k \in 1 .. Len(q) /\ q[i - k] = bus[i]
  <2>1. i - k \in 1 .. Len(log) - k /\ k + (i - k) = i /\ i \in 1 .. Len(log) /\ i <= Len(bus)
    BY <1>1, <1>2
  <2>. QED
    BY <1>2, <1>4, <2>1
<1>9. \A r : r \in Ahead(s) <=> \E i \in k + 1 .. Len(bus) : r = bus[i]
  BY DEF Ahead, k
<1>10. \A i \in 1 .. Len(F) : F[i] \in Ahead(s) /\ F[i].user # s
  <2>1. TAKE i \in 1 .. Len(F)
  <2>2. PICK a \in 1 .. Len(q) : F[i] = q[a] /\ q[a].user # s
    BY <1>6
  <2>3. k + a \in k + 1 .. Len(bus) /\ q[a] = bus[k + a]
    BY <1>7, <2>2
  <2>. QED
    BY <1>9, <2>2, <2>3
<1>11. \A r \in Ahead(s) : r.user # s => \E i \in 1 .. Len(F) : F[i] = r
  <2>1. SUFFICES ASSUME NEW r \in Ahead(s), r.user # s
                 PROVE  \E i \in 1 .. Len(F) : F[i] = r
    OBVIOUS
  <2>2. PICK i \in k + 1 .. Len(bus) : r = bus[i]
    BY <1>9
  <2>3. i - k \in 1 .. Len(q) /\ q[i - k] = r
    BY <1>8, <2>2
  <2>. QED
    BY <1>6, <2>1, <2>3
<1>12. ASSUME NEW i \in 1 .. Len(F), NEW j \in 1 .. Len(F), i < j
       PROVE  \E a, b \in k + 1 .. Len(bus) : a < b /\ F[i] = bus[a] /\ F[j] = bus[b]
  <2>1. PICK a \in 1 .. Len(q), b \in 1 .. Len(q) : a < b /\ F[i] = q[a] /\ F[j] = q[b]
    BY <1>6, <1>12
  <2>2. k + a < k + b /\ q[a].user # s /\ q[b].user # s
    BY <1>1, <1>10, <2>1
  <2>. QED
    BY <1>7, <2>1, <2>2
<1>. QED
  BY <1>6, <1>10, <1>11, <1>12 DEF k, Fetched

\* A layer's records lie in the order of their ids.
Ordered(q) ==
  \A i, j \in 1 .. Len(q) : i < j /\ q[i].layer = q[j].layer => q[i].id < q[j].id

\* Ids tell records apart; a user's records lie in their order.
Numbered ==
  /\ \A r \in All : r.id <= minted /\ r.layer \in Works[r.user]
  /\ Apart(All)
  /\ Ordered(bus)
  /\ \A s \in Session : \A i, j \in 1 .. Len(History(s)) :
       i < j /\ History(s)[i].user = s /\ History(s)[j].user = s
         => History(s)[i].id < History(s)[j].id

\* A session has what it read and what it has yet to publish; the log has,
\* with a record, the earlier ones of its layer.
Spread ==
  /\ \A s \in Session :
       /\ Range(History(s)) = Read(s) \cup Mine(s)
       /\ \A r \in Ahead(s) : r.user # s
       /\ Mine(s) \cap Range(bus) = {}
  /\ \A r \in Range(bus), q \in All : q.layer = r.layer /\ q.id < r.id => q \in Range(bus)

\* A session works on a layer: it paints there, or has yet to publish.
Busy(s, l) == l \in stroke[s].layers \/ On(Mine(s), l) # {}

\* Nobody else works on the layer, and all the others did has arrived.
Solo(s, l) ==
  /\ \A t \in Session \ {s} : ~ Busy(t, l)
  /\ On(Ahead(s), l) = {}

Sole == \A s \in Session, l \in Layer : Busy(s, l) => Solo(s, l) /\ l \in Works[s]

\* Where the records are.
LEMMA Whereabouts ==
  ASSUME Typed
  PROVE  /\ \A r \in Range(bus) : r \in All
         /\ \A s \in Session : \A r \in Range(History(s)) : r \in All
         /\ \A r \in All : /\ r \in Records /\ r.id \in Nat /\ r.id > 0 /\ r.layer \in Layer
                           /\ r \in Range(bus) \/ \E s \in Session : r \in Range(History(s))
         /\ \A s \in Session : \A r \in Range(bus) : r \in Read(s) \/ r \in Ahead(s)
         /\ \A s \in Session : \A r \in Read(s) : r \in Range(bus)
         /\ \A s \in Session : \A r \in Ahead(s) : r \in Range(bus)
<1>1. bus \in Seq(Records) /\ \A s \in Session : History(s) \in Seq(Records)
  BY DEF Typed, History, Runtimes
<1>2. \A r \in Records : r.id \in Nat /\ r.id > 0 /\ r.layer \in Layer
  BY SyncAssumption DEF Records
<1>3. \A r \in Range(bus) : r \in Records
  BY <1>1 DEF Range
<1>4. \A s \in Session : \A r \in Range(History(s)) : r \in Records
  BY <1>1 DEF Range
<1>5. \A r \in All : r \in Range(bus) \/ \E s \in Session : r \in Range(History(s))
  BY DEF All
<1>6. \A s \in Session : consumed[s] \in Nat /\ consumed[s] <= Len(bus) /\ Len(bus) \in Nat
  BY <1>1 DEF Typed
<1>7. ASSUME NEW s \in Session, NEW r \in Range(bus)
      PROVE  r \in Read(s) \/ r \in Ahead(s)
  <2>1. PICK i \in 1 .. Len(bus) : r = bus[i]
    BY <1>1 DEF Range
  <2>2. i \in 1 .. consumed[s] \/ i \in consumed[s] + 1 .. Len(bus)
    BY <1>6, <2>1
  <2>. QED
    BY <2>1, <2>2 DEF Read, Ahead
<1>8. ASSUME NEW s \in Session, NEW r, r \in Read(s) \/ r \in Ahead(s)
      PROVE  r \in Range(bus)
  <2>1. PICK i \in Nat : r = bus[i] /\ (i \in 1 .. consumed[s] \/ i \in consumed[s] + 1 .. Len(bus))
    BY <1>6, <1>8 DEF Read, Ahead
  <2>2. i \in 1 .. Len(bus)
    BY <1>6, <2>1
  <2>. QED
    BY <1>1, <2>1, <2>2 DEF Range
<1>9. (\A r \in Range(bus) : r \in All) /\ \A s \in Session : \A r \in Range(History(s)) : r \in All
  BY DEF All
<1>. QED
  BY <1>2, <1>3, <1>4, <1>5, <1>7, <1>8, <1>9

\* Working alone on a layer, a session has every record of it.
LEMMA UpToDate ==
  ASSUME Typed, Spread, NEW s \in Session, NEW l \in Layer, Solo(s, l),
         NEW q \in All, q.layer = l
  PROVE  q \in Range(History(s))
<1>1. CASE q \in Range(bus)
  <2>1. q \notin Ahead(s)
    BY DEF Solo, On
  <2>2. q \in Read(s)
    BY <1>1, <2>1, Whereabouts
  <2>. QED
    BY <2>2 DEF Spread
<1>2. ASSUME NEW t \in Session, q \in Range(History(t)), q \notin Range(bus)
      PROVE  q \in Range(History(s))
  <2>1. q \in Mine(t)
    <3>1. q \notin Read(t)
      BY <1>2, Whereabouts
    <3>. QED
      BY <1>2, <3>1 DEF Spread
  <2>2. Busy(t, l)
    BY <2>1 DEF Busy, On
  <2>3. t = s
    BY <2>2 DEF Solo
  <2>. QED
    BY <1>2, <2>3
<1>. QED
  BY <1>1, <1>2, Whereabouts

\* With a record, a session has the earlier ones of its layer.
LEMMA HistoryClosed ==
  ASSUME Typed, Numbered, Spread, Sole, NEW s \in Session, NEW r \in Range(History(s)),
         NEW q \in All, q.layer = r.layer, q.id < r.id
  PROVE  q \in Range(History(s))
<1>0. r \in All /\ r.layer \in Layer /\ r.id \in Nat /\ q.id \in Nat
  BY Whereabouts
<1>1. CASE r \in Mine(s)
  <2>1. Busy(s, r.layer)
    BY <1>1 DEF Busy, On
  <2>2. Solo(s, r.layer)
    BY <1>0, <2>1 DEF Sole
  <2>. QED
    BY <1>0, <2>2, UpToDate
<1>2. CASE r \in Read(s)
  <2>1. r \in Range(bus)
    BY <1>2, Whereabouts
  <2>2. q \in Range(bus)
    BY <2>1 DEF Spread
  <2>3. PICK i \in 1 .. consumed[s] : r = bus[i]
    BY <1>2 DEF Read
  <2>4. PICK j \in 1 .. Len(bus) : q = bus[j]
    BY <2>2 DEF Range, Typed
  <2>5. i \in 1 .. Len(bus) /\ consumed[s] \in Nat
    BY <2>3 DEF Typed
  <2>6. ~ (i < j)
    <3>1. i < j => r.id < q.id
      BY <2>3, <2>4, <2>5 DEF Numbered, Ordered
    <3>. QED
      BY <1>0, <3>1
  <2>7. j \in 1 .. consumed[s]
    BY <2>3, <2>4, <2>5, <2>6
  <2>8. q \in Read(s)
    BY <2>4, <2>7 DEF Read
  <2>. QED
    BY <2>8 DEF Spread
<1>. QED
  BY <1>1, <1>2 DEF Spread

\* Whoever takes a turn works alone.
LEMMA TurnSolo ==
  ASSUME Typed, Numbered, Spread, Sole, Disciplined,
         NEW s \in Session, NEW l \in Layer, Turn(s, l)
  PROVE  Solo(s, l) /\ l \in Works[s]
<1>1. l \in Works[s]
  BY DEF Turn
<1>2. CASE l \in Turns
  <2>1. Quiet(s, l)
    BY <1>2 DEF Turn
  <2>2. ASSUME NEW t \in Session
        PROVE  On(Mine(t), l) = {}
    <3>1. SUFFICES ASSUME NEW r \in Mine(t), r.layer = l
                   PROVE  FALSE
      BY DEF On
    <3>2. PICK U : U = Unpublished(t)
      OBVIOUS
    <3>3. U \in Seq(Records) /\ \E i \in 1 .. Len(U) : U[i] = r
      <4>1. Waiting(U, t)
        BY <3>2, UnpublishedFacts
      <4>. QED
        BY <3>1, <4>1 DEF Waiting
    <3>4. Touches(U, l)
      BY <3>1, <3>3 DEF Touches
    <3>. QED
      BY <2>1, <3>2, <3>4 DEF Quiet
  <2>3. \A t \in Session \ {s} : l \notin stroke[t].layers
    BY <2>1 DEF Quiet
  <2>4. On(Ahead(s), l) = {}
    <3>1. SUFFICES ASSUME NEW r \in Ahead(s), r.layer = l
                   PROVE  FALSE
      BY DEF On
    <3>2. PICK F : F = Unread(s)
      OBVIOUS
    <3> DEFINE U == <<>>
    <3>0. U = <<>> /\ U \in Seq(Records)
      OBVIOUS
    <3> HIDE DEF U
    <3>3. F = Foreign(s, SubSeq(bus \o U, consumed[s] + 1, Len(bus \o U)))
      <4>1. bus \o U = bus
        BY <3>0 DEF Typed
      <4>. QED
        BY <3>2, <4>1 DEF Unread
    <3>4. F \in Seq(Records) /\ (r.user # s => \E i \in 1 .. Len(F) : F[i] = r)
      <4>1. AllBy(U, s)
        BY <3>0 DEF AllBy
      <4>2. Fetched(F, s)
        BY <3>0, <3>3, <4>1, FrameReads
      <4>. QED
        BY <3>1, <4>2 DEF Fetched
    <3>5. r.user # s
      BY DEF Spread
    <3>6. PICK i \in 1 .. Len(F) : F[i] = r
      BY <3>4, <3>5
    <3>7. i \in DOMAIN F
      BY <3>4, <3>6
    <3>8. Touches(F, l)
      BY <3>1, <3>6, <3>7 DEF Touches
    <3>. QED
      BY <2>1, <3>2, <3>8 DEF Quiet
  <2>. QED
    BY <1>1, <2>2, <2>3, <2>4 DEF Solo, Busy
<1>3. CASE l \notin Turns
  <2>1. ASSUME NEW t \in Session, Busy(t, l)
        PROVE  t = s
    <3>1. l \in Works[t]
      BY <2>1 DEF Sole
    <3>. QED
      BY <1>1, <1>3, <3>1 DEF Disciplined
  <2>2. On(Ahead(s), l) = {}
    <3>1. SUFFICES ASSUME NEW r \in Ahead(s), r.layer = l
                   PROVE  FALSE
      BY DEF On
    <3>2. r \in All
      BY Whereabouts
    <3>3. l \in Works[r.user] /\ r.user \in Session
      BY <3>1, <3>2, Whereabouts DEF Numbered, Records
    <3>4. r.user = s
      BY <1>1, <1>3, <3>3 DEF Disciplined
    <3>. QED
      BY <3>4 DEF Spread
  <2>. QED
    BY <1>1, <2>1, <2>2 DEF Solo
<1>. QED
  BY <1>2, <1>3

-----------------------------------------------------------------------------
(* How the records move.                                                   *)

\* A step that makes one session busy, on a layer where it is alone, and
\* brings nothing into the log, leaves the busy ones alone on their layers.
LEMMA StaysSole ==
  ASSUME Sole, NEW s \in Session, NEW l \in Layer, Solo(s, l), l \in Works[s],
         \A t \in Session, k \in Layer : Busy(t, k)' => Busy(t, k) \/ (t = s /\ k = l),
         \A t \in Session : Ahead(t)' = Ahead(t)
  PROVE  Sole'
<1>1. SUFFICES ASSUME NEW t \in Session, NEW k \in Layer, Busy(t, k)'
               PROVE  Solo(t, k)' /\ k \in Works[t]
  BY DEF Sole
<1>2. Solo(t, k) /\ k \in Works[t]
  BY <1>1 DEF Sole
<1>3. ASSUME NEW u \in Session \ {t}, Busy(u, k)'
      PROVE  FALSE
  <2>1. ~ Busy(u, k)
    BY <1>2 DEF Solo
  <2>2. u = s /\ k = l
    BY <1>3, <2>1
  <2>3. ~ Busy(t, k)
    BY <2>2 DEF Solo
  <2>. QED
    BY <1>1, <1>3, <2>2, <2>3
<1>4. On(Ahead(t)', k) = {}
  BY <1>2 DEF Solo
<1>. QED
  BY <1>2, <1>3, <1>4 DEF Solo, On

\* A step that makes no record keeps what is said of the records.
LEMMA Unrecorded ==
  ASSUME Numbered, Spread, bus' = bus, published' = published, consumed' = consumed,
         minted' = minted, \A t \in Session : History(t)' = History(t)
  PROVE  /\ Numbered' /\ Spread' /\ All' = All
         /\ \A t \in Session : Ahead(t)' = Ahead(t) /\ Mine(t)' = Mine(t)
<1>1. All' = All
  BY DEF All
<1>2. \A t \in Session : Ahead(t)' = Ahead(t) /\ Mine(t)' = Mine(t) /\ Read(t)' = Read(t)
  BY DEF Ahead, Mine, Read
<1>3. Numbered'
  BY <1>1 DEF Numbered
<1>4. Spread'
  BY <1>1, <1>2 DEF Spread
<1>. QED
  BY <1>1, <1>2, <1>3, <1>4

\* One more record at the end.
LEMMA OneMore ==
  ASSUME NEW q \in Seq(Records), NEW r \in Records
  PROVE  /\ Append(q, r) \in Seq(Records) /\ Len(Append(q, r)) = Len(q) + 1
         /\ Append(q, r)[Len(q) + 1] = r
         /\ \A i \in 1 .. Len(q) : Append(q, r)[i] = q[i]
         /\ \A i \in 1 .. Len(q) + 1 : i \in 1 .. Len(q) \/ i = Len(q) + 1
         /\ Range(Append(q, r)) = Range(q) \cup {r}
<1>1. /\ Append(q, r) \in Seq(Records) /\ Len(Append(q, r)) = Len(q) + 1
      /\ Append(q, r)[Len(q) + 1] = r /\ Len(q) \in Nat
      /\ \A i \in 1 .. Len(q) : Append(q, r)[i] = q[i]
  BY AppendProperties
<1>2. \A i \in 1 .. Len(q) + 1 : i \in 1 .. Len(q) \/ i = Len(q) + 1
  BY <1>1
<1>3. DOMAIN q = 1 .. Len(q) /\ DOMAIN Append(q, r) = 1 .. Len(q) + 1
  BY <1>1
<1>4. ASSUME NEW x
      PROVE  x \in Range(Append(q, r)) <=> x \in Range(q) \cup {r}
  <2>1. ASSUME x \in Range(Append(q, r))
        PROVE  x \in Range(q) \cup {r}
    BY <1>1, <1>2, <1>3, <2>1 DEF Range
  <2>2. ASSUME x \in Range(q)
        PROVE  x \in Range(Append(q, r))
    <3>1. PICK i \in 1 .. Len(q) : x = q[i]
      BY <1>3, <2>2 DEF Range
    <3>2. i \in 1 .. Len(q) + 1 /\ x = Append(q, r)[i]
      BY <1>1, <3>1
    <3>. QED
      BY <1>3, <3>2 DEF Range
  <2>3. r \in Range(Append(q, r))
    <3>1. Len(q) + 1 \in 1 .. Len(q) + 1
      BY <1>1
    <3>. QED
      BY <1>1, <1>3, <3>1 DEF Range
  <2>. QED
    BY <2>1, <2>2, <2>3
<1>. QED
  BY <1>1, <1>2, <1>4

\* A session that records alone on a layer: the record is numbered after all
\* others, and waits to be published.
LEMMA RecordEnters ==
  ASSUME Typed, Numbered, Spread, Sole, NEW s \in Session, NEW l \in Layer, Solo(s, l), l \in Works[s],
         NEW r \in Records, r.layer = l, r.user = s, r.id = minted + 1,
         History(s)' = Append(History(s), r),
         \A t \in Session : t # s => History(t)' = History(t),
         bus' = bus, published' = published, consumed' = consumed, minted' = minted + 1,
         \A t \in Session : stroke'[t].layers \subseteq stroke[t].layers
  PROVE  Numbered' /\ Spread' /\ Sole' /\ All' = All \cup {r}
<1>0. minted \in Nat /\ \A q \in All : q.id \in Nat
  <2>1. \A q \in All : q.id \in Nat
    BY Whereabouts
  <2>2. minted \in Nat
    BY DEF Typed
  <2>. QED
    BY <2>1, <2>2
<1> DEFINE H == History(s)
<1>1. H \in Seq(Records) /\ Len(H) \in Nat /\ published[s] \in Nat /\ published[s] <= Len(H)
  BY DEF Typed, History, Runtimes
<1>2. PICK K : K = History(s)'
  OBVIOUS
<1>11. /\ Len(K) = Len(H) + 1 /\ K[Len(H) + 1] = r
       /\ \A i \in 1 .. Len(H) : K[i] = H[i]
       /\ \A i \in 1 .. Len(H) + 1 : i \in 1 .. Len(H) \/ i = Len(H) + 1
       /\ Range(K) = Range(H) \cup {r}
  BY <1>1, <1>2, OneMore
<1> HIDE DEF H
<1>3. Range(History(s)') = Range(History(s)) \cup {r}
  BY <1>2, <1>11 DEF H
<1>4. All' = All \cup {r}
  <2>1. All' = Range(bus) \cup UNION {Range(History(t)') : t \in Session}
    BY DEF All
  <2>2. \A t \in Session : Range(History(t)') = Range(History(t)) \cup IF t = s THEN {r} ELSE {}
    BY <1>3
  <2>3. \A x : x \in All' <=> x \in Range(bus) \/ \E t \in Session : x \in Range(History(t)')
    BY <2>1
  <2>4. \A x : x \in All <=> x \in Range(bus) \/ \E t \in Session : x \in Range(History(t))
    BY DEF All
  <2>5. \A x : x \in All' <=> x \in All \/ x = r
    BY <2>2, <2>3, <2>4
  <2>. QED
    BY <2>5
<1>5. \A t \in Session : Read(t)' = Read(t) /\ Ahead(t)' = Ahead(t) /\ (t # s => Mine(t)' = Mine(t))
  BY DEF Read, Ahead, Mine
<1>6. Mine(s)' = Mine(s) \cup {r}
  <2>1. \A x : x \in Mine(s) <=> x.user = s /\ \E i \in published[s] + 1 .. Len(H) : x = H[i]
    BY DEF Mine, H
  <2>2. \A x : x \in Mine(s)' <=> x.user = s /\ \E i \in published[s] + 1 .. Len(H) + 1 : x = K[i]
    <3>1. Mine(s)' = {x \in {K[i] : i \in published[s] + 1 .. Len(K)} : x.user = s}
      BY <1>2 DEF Mine
    <3>. QED
      BY <1>11, <3>1
  <2>3. ASSUME NEW x, x \in Mine(s)'
        PROVE  x \in Mine(s) \cup {r}
    <3>1. PICK i \in published[s] + 1 .. Len(H) + 1 : x = K[i] /\ x.user = s
      BY <2>2, <2>3
    <3>2. (i \in published[s] + 1 .. Len(H) /\ i \in 1 .. Len(H)) \/ i = Len(H) + 1
      BY <1>1, <3>1
    <3>. QED
      BY <1>11, <2>1, <3>1, <3>2
  <2>4. ASSUME NEW x, x \in Mine(s) \cup {r}
        PROVE  x \in Mine(s)'
    <3>1. CASE x = r
      <4>1. Len(H) + 1 \in published[s] + 1 .. Len(H) + 1
        BY <1>1
      <4>. QED
        BY <1>11, <2>2, <3>1, <4>1
    <3>2. CASE x \in Mine(s)
      <4>1. PICK i \in published[s] + 1 .. Len(H) : x = H[i] /\ x.user = s
        BY <2>1, <3>2
      <4>2. i \in published[s] + 1 .. Len(H) + 1 /\ i \in 1 .. Len(H)
        BY <1>1, <4>1
      <4>. QED
        BY <1>11, <2>2, <4>1, <4>2
    <3>. QED
      BY <2>4, <3>1, <3>2
  <2>. QED
    BY <2>3, <2>4
<1>7. \A q \in All : q.id < r.id /\ q # r /\ q.id \in Nat
  <2>1. TAKE q \in All
  <2>3. q.id <= minted
    BY DEF Numbered
  <2>2. q.id \in Nat /\ minted \in Nat
    BY <1>0
  <2>. QED
    BY <2>3, <2>2
<1>8. Numbered'
  <2>1. \A q \in All' : q.id <= minted' /\ q.layer \in Works[q.user]
    <3>1. TAKE q \in All'
    <3>2. CASE q = r
      <4>1. r.id <= minted'
        BY DEF Typed
      <4>. QED
        BY <3>2, <4>1
    <3>3. CASE q \in All
      <4>1. q.id <= minted /\ q.layer \in Works[q.user]
        BY <3>3 DEF Numbered
      <4>2. q.id \in Nat /\ minted \in Nat
        BY <1>0, <3>3
      <4>. QED
        BY <4>1, <4>2
    <3>. QED
      BY <1>4, <3>1, <3>2, <3>3
  <2>2. Apart(All')
    <3>1. ASSUME NEW q \in All \cup {r}, NEW p \in All \cup {r}, q.id = p.id
          PROVE  q = p
      <4>1. r.id \in Nat
        BY DEF Typed
      <4>2. CASE q \in All /\ p \in All
        BY <3>1, <4>2 DEF Numbered, Apart
      <4>3. CASE q = r \/ p = r
        BY <1>7, <3>1, <4>1, <4>3
      <4>. QED
        BY <4>2, <4>3
    <3>. QED
      BY <1>4, <3>1 DEF Apart
  <2>3. Ordered(bus)'
    BY DEF Numbered, Ordered
  <2>4. ASSUME NEW t \in Session, NEW i \in 1 .. Len(History(t)'), NEW j \in 1 .. Len(History(t)'),
               i < j, History(t)'[i].user = t, History(t)'[j].user = t
        PROVE  History(t)'[i].id < History(t)'[j].id
    <3>1. CASE t # s
      BY <2>4, <3>1 DEF Numbered
    <3>2. CASE t = s
      <4>0. History(t)' = K
        BY <1>2, <3>2
      <4>1. i \in 1 .. Len(H)
        BY <1>1, <1>11, <2>4, <4>0
      <4>2. H[i] \in All
        <5>1. H[i] \in Range(H)
          BY <1>1, <4>1 DEF Range
        <5>. QED
          BY <5>1, Whereabouts DEF H
      <4>3. CASE j \in 1 .. Len(H)
        BY <1>11, <2>4, <3>2, <4>0, <4>1, <4>3 DEF Numbered, H
      <4>4. CASE j = Len(H) + 1
        BY <1>7, <1>11, <4>0, <4>1, <4>2, <4>4
      <4>. QED
        BY <1>11, <4>0, <4>3, <4>4
    <3>. QED
      BY <3>1, <3>2
  <2>. QED
    BY <2>1, <2>2, <2>3, <2>4 DEF Numbered
<1>9. Spread'
  <2>1. ASSUME NEW t \in Session
        PROVE  /\ Range(History(t)') = Read(t)' \cup Mine(t)'
               /\ \A q \in Ahead(t)' : q.user # t
               /\ Mine(t)' \cap Range(bus) = {}
    <3>1. CASE t # s
      BY <1>5, <3>1 DEF Spread
    <3>2. CASE t = s
      <4>1. r \notin Range(bus)
        BY <1>7, Whereabouts
      <4>2. /\ Range(History(s)) = Read(s) \cup Mine(s) /\ Mine(s) \cap Range(bus) = {}
            /\ \A q \in Ahead(s) : q.user # s
        BY DEF Spread
      <4>3. Range(History(s)') = Read(s)' \cup Mine(s)'
        BY <1>3, <1>5, <1>6, <4>2
      <4>4. Mine(s)' \cap Range(bus) = {}
        BY <1>6, <4>1, <4>2
      <4>5. \A q \in Ahead(s)' : q.user # s
        BY <1>5, <4>2
      <4>. QED
        BY <3>2, <4>3, <4>4, <4>5
    <3>. QED
      BY <3>1, <3>2
  <2>2. ASSUME NEW p \in Range(bus), NEW q \in All \cup {r}, q.layer = p.layer, q.id < p.id
        PROVE  q \in Range(bus)
    <3>1. p \in All
      BY Whereabouts
    <3>2. q # r
      <4>1. p.id < r.id /\ p.id \in Nat /\ r.id \in Nat
        BY <1>7, <3>1 DEF Typed
      <4>. QED
        BY <2>2, <4>1
    <3>. QED
      BY <2>2, <3>2 DEF Spread
  <2>. QED
    BY <1>4, <2>1, <2>2 DEF Spread
<1>10. Sole'
  <2>1. ASSUME NEW t \in Session, NEW k \in Layer, Busy(t, k)'
        PROVE  Busy(t, k) \/ (t = s /\ k = l)
    <3>1. k \in stroke'[t].layers \/ \E q \in Mine(t)' : q.layer = k
      BY <2>1 DEF Busy, On
    <3>2. \A q \in Mine(t)' : q \in Mine(t) \/ (t = s /\ q = r)
      BY <1>5, <1>6
    <3>. QED
      BY <3>1, <3>2 DEF Busy, On
  <2>. QED
    BY <1>5, <2>1, StaysSole
<1>. QED
  BY <1>4, <1>8, <1>9, <1>10

\* One sequence after another.
Joined(c, q, p) ==
  /\ c \in Seq(Records) /\ Len(c) = Len(q) + Len(p)
  /\ \A i \in 1 .. Len(q) : c[i] = q[i] /\ i \in 1 .. Len(c)
  /\ \A j \in 1 .. Len(p) : c[Len(q) + j] = p[j] /\ Len(q) + j \in 1 .. Len(c)
  /\ \A i \in 1 .. Len(c) : i \in 1 .. Len(q) \/ \E j \in 1 .. Len(p) : i = Len(q) + j
  /\ Range(c) = Range(q) \cup Range(p)

\* Concatenation joins.
LEMMA Joins ==
  ASSUME NEW q \in Seq(Records), NEW p \in Seq(Records)
  PROVE  Joined(q \o p, q, p)
<1> DEFINE c == q \o p
<1>1. /\ c \in Seq(Records) /\ Len(c) = Len(q) + Len(p) /\ Len(q) \in Nat /\ Len(p) \in Nat
      /\ \A i \in 1 .. Len(c) : c[i] = IF i <= Len(q) THEN q[i] ELSE p[i - Len(q)]
  BY ConcatProperties
<1> HIDE DEF c
<1>2. \A i \in 1 .. Len(q) : c[i] = q[i] /\ i \in 1 .. Len(c)
  BY <1>1
<1>3. \A j \in 1 .. Len(p) : c[Len(q) + j] = p[j] /\ Len(q) + j \in 1 .. Len(c)
  <2>1. TAKE j \in 1 .. Len(p)
  <2>2. Len(q) + j \in 1 .. Len(c) /\ ~ (Len(q) + j <= Len(q)) /\ (Len(q) + j) - Len(q) = j
    BY <1>1
  <2>. QED
    BY <1>1, <2>2
<1>4. \A i \in 1 .. Len(c) : i \in 1 .. Len(q) \/ \E j \in 1 .. Len(p) : i = Len(q) + j
  <2>1. TAKE i \in 1 .. Len(c)
  <2>2. CASE i > Len(q)
    <3>1. i - Len(q) \in 1 .. Len(p) /\ i = Len(q) + (i - Len(q))
      BY <1>1, <2>2
    <3>. QED
      BY <3>1
  <2>. QED
    BY <1>1, <2>2
<1>5. Range(c) = Range(q) \cup Range(p)
  <2>1. DOMAIN c = 1 .. Len(c) /\ DOMAIN q = 1 .. Len(q) /\ DOMAIN p = 1 .. Len(p)
    BY <1>1
  <2>2. ASSUME NEW x, x \in Range(c)
        PROVE  x \in Range(q) \cup Range(p)
    <3>1. PICK i \in 1 .. Len(c) : x = c[i]
      BY <2>1, <2>2 DEF Range
    <3>2. CASE i \in 1 .. Len(q)
      BY <1>2, <2>1, <3>1, <3>2 DEF Range
    <3>3. ASSUME NEW j \in 1 .. Len(p), i = Len(q) + j
          PROVE  x \in Range(p)
      BY <1>3, <2>1, <3>1, <3>3 DEF Range
    <3>. QED
      BY <1>4, <3>2, <3>3
  <2>3. ASSUME NEW x, x \in Range(q)
        PROVE  x \in Range(c)
    BY <1>2, <2>1, <2>3 DEF Range
  <2>4. ASSUME NEW x, x \in Range(p)
        PROVE  x \in Range(c)
    <3>1. PICK j \in 1 .. Len(p) : x = p[j]
      BY <2>1, <2>4 DEF Range
    <3>. QED
      BY <1>3, <2>1, <3>1 DEF Range
  <2>. QED
    BY <2>2, <2>3, <2>4
<1>. QED
  BY <1>1, <1>2, <1>3, <1>4, <1>5 DEF Joined, c

\* A frame puts what its session has yet to publish into the log, and what
\* lies ahead of the session into its history.
LEMMA RecordsTravel ==
  ASSUME Typed, Numbered, Spread, Sole, NEW s \in Session,
         NEW U, U = Unpublished(s), NEW F, Fetched(F, s),
         NEW L, L = bus', Joined(L, bus, U), NEW K, K = History(s)', Joined(K, History(s), F),
         \A t \in Session : t # s => History(t)' = History(t),
         published' = [published EXCEPT ![s] = Len(History(s))],
         consumed' = [consumed EXCEPT ![s] = Len(L)],
         minted' = minted, stroke' = stroke
  PROVE  Numbered' /\ Spread' /\ Sole' /\ All' = All
<1>1. /\ U \in Seq(Records)
      /\ \A i \in 1 .. Len(U) : U[i] \in Mine(s) /\ U[i].user = s
      /\ \A r \in Mine(s) : \E i \in 1 .. Len(U) : U[i] = r
      /\ \A i, j \in 1 .. Len(U) : i < j =>
              \E a, b \in 1 .. Len(History(s)) : a < b /\ U[i] = History(s)[a] /\ U[j] = History(s)[b]
  <2>1. Waiting(U, s)
    BY UnpublishedFacts
  <2>. QED
    BY <2>1 DEF Waiting
<1>2. /\ F \in Seq(Records)
      /\ \A i \in 1 .. Len(F) : F[i] \in Ahead(s) /\ F[i].user # s
      /\ \A r \in Ahead(s) : \E i \in 1 .. Len(F) : F[i] = r
  <2>1. \A r \in Ahead(s) : r.user # s
    BY DEF Spread
  <2>. QED
    BY <2>1 DEF Fetched
<1>3. /\ bus \in Seq(Records) /\ Len(bus) \in Nat /\ History(s) \in Seq(Records)
      /\ Len(History(s)) \in Nat /\ Len(U) \in Nat /\ Len(F) \in Nat
      /\ published \in [Session -> Nat] /\ consumed \in [Session -> Nat]
      /\ \A t \in Session : consumed[t] \in Nat /\ consumed[t] <= Len(bus)
  BY <1>1, <1>2 DEF Typed, Runtimes, History
<1>4. /\ Len(L) = Len(bus) + Len(U)
      /\ \A i \in 1 .. Len(bus) : L[i] = bus[i] /\ i \in 1 .. Len(L)
      /\ \A j \in 1 .. Len(U) : L[Len(bus) + j] = U[j] /\ Len(bus) + j \in 1 .. Len(L)
      /\ \A i \in 1 .. Len(L) : i \in 1 .. Len(bus) \/ \E j \in 1 .. Len(U) : i = Len(bus) + j
  BY DEF Joined
<1>5. /\ Len(K) = Len(History(s)) + Len(F)
      /\ \A i \in 1 .. Len(History(s)) : K[i] = History(s)[i] /\ i \in 1 .. Len(K)
      /\ \A j \in 1 .. Len(F) : K[Len(History(s)) + j] = F[j] /\ Len(History(s)) + j \in 1 .. Len(K)
      /\ \A i \in 1 .. Len(K) : i \in 1 .. Len(History(s)) \/ \E j \in 1 .. Len(F) : i = Len(History(s)) + j
  BY DEF Joined
<1>6. Range(L) = Range(bus) \cup Mine(s)
  <2>1. Range(U) = Mine(s)
    BY <1>1 DEF Range
  <2>. QED
    BY <2>1 DEF Joined
<1>7. Range(K) = Range(History(s)) \cup Ahead(s)
  <2>1. Range(F) = Ahead(s)
    BY <1>2 DEF Range
  <2>. QED
    BY <2>1 DEF Joined
<1>8. Range(History(s)) = Read(s) \cup Mine(s) /\ Range(bus) = Read(s) \cup Ahead(s)
  <2>1. Range(bus) = Read(s) \cup Ahead(s)
    BY Whereabouts
  <2>. QED
    BY <2>1 DEF Spread
<1>9. All' = All
  <2>1. \A x : x \in All <=> x \in Range(bus) \/ \E t \in Session : x \in Range(History(t))
    BY DEF All
  <2>2. \A x : x \in All' <=> x \in Range(L) \/ \E t \in Session : x \in Range(History(t)')
    BY DEF All
  <2>3. \A t \in Session : t # s => Range(History(t)') = Range(History(t))
    OBVIOUS
  <2>4. Range(History(s)') = Range(History(s)) \cup Ahead(s)
    BY <1>7
  <2>5. ASSUME NEW x
        PROVE  x \in All' <=> x \in All
    <3>1. ASSUME x \in All'
          PROVE  x \in All
      <4>1. CASE x \in Range(L)
        BY <1>6, <1>8, <2>1, <4>1
      <4>2. ASSUME NEW t \in Session, x \in Range(History(t)')
            PROVE  x \in All
        <5>1. CASE t = s
          BY <1>8, <2>1, <2>4, <4>2, <5>1
        <5>2. CASE t # s
          BY <2>1, <2>3, <4>2, <5>2
        <5>. QED
          BY <5>1, <5>2
      <4>. QED
        BY <2>2, <3>1, <4>1, <4>2
    <3>2. ASSUME x \in All
          PROVE  x \in All'
      <4>1. CASE x \in Range(bus)
        BY <1>6, <2>2, <4>1
      <4>2. ASSUME NEW t \in Session, x \in Range(History(t))
            PROVE  x \in Range(History(t)')
        BY <2>3, <2>4, <4>2
      <4>. QED
        BY <2>1, <2>2, <3>2, <4>1, <4>2
    <3>. QED
      BY <3>1, <3>2
  <2>. QED
    BY <2>5
<1>10. Mine(s)' = {}
  <2>1. SUFFICES ASSUME NEW x, x \in Mine(s)'
                 PROVE  FALSE
    OBVIOUS
  <2>2. PICK i \in Len(History(s)) + 1 .. Len(K) : x = K[i] /\ x.user = s
    <3>1. published'[s] = Len(History(s))
      BY <1>3
    <3>. QED
      BY <2>1, <3>1 DEF Mine
  <2>3. i - Len(History(s)) \in 1 .. Len(F) /\ i = Len(History(s)) + (i - Len(History(s)))
    BY <1>3, <1>5, <2>2
  <2>4. K[i] = F[i - Len(History(s))]
    BY <1>5, <2>3
  <2>. QED
    BY <1>2, <2>2, <2>3, <2>4
<1>11. Read(s)' = Range(L) /\ Ahead(s)' = {}
  <2>1. consumed'[s] = Len(L)
    BY <1>3
  <2>2. DOMAIN L = 1 .. Len(L) /\ Len(L) \in Nat
    BY DEF Joined
  <2>3. Read(s)' = {L[i] : i \in 1 .. Len(L)} /\ Ahead(s)' = {L[i] : i \in Len(L) + 1 .. Len(L)}
    BY <2>1 DEF Read, Ahead
  <2>. QED
    BY <2>2, <2>3 DEF Range
<1>12. ASSUME NEW t \in Session, t # s
       PROVE  Read(t)' = Read(t) /\ Ahead(t)' = Ahead(t) \cup Mine(s) /\ Mine(t)' = Mine(t)
  <2>1. consumed'[t] = consumed[t] /\ published'[t] = published[t]
    BY <1>3, <1>12
  <2>2. Mine(t)' = Mine(t)
    BY <1>12, <2>1 DEF Mine
  <2>3. Read(t)' = {L[i] : i \in 1 .. consumed[t]} /\ Ahead(t)' = {L[i] : i \in consumed[t] + 1 .. Len(L)}
    BY <2>1 DEF Read, Ahead
  <2>4. \A i \in 1 .. consumed[t] : L[i] = bus[i]
    BY <1>3, <1>4
  <2>5. Read(t)' = Read(t)
    BY <2>3, <2>4 DEF Read
  <2>6. ASSUME NEW x, x \in Ahead(t)'
        PROVE  x \in Ahead(t) \cup Mine(s)
    <3>1. PICK i \in consumed[t] + 1 .. Len(L) : x = L[i]
      BY <2>3, <2>6
    <3>2. i \in 1 .. Len(L)
      BY <1>3, <3>1
    <3>3. CASE i \in 1 .. Len(bus)
      <4>1. i \in consumed[t] + 1 .. Len(bus)
        BY <1>3, <3>1, <3>3
      <4>. QED
        BY <1>4, <3>1, <3>3, <4>1 DEF Ahead
    <3>4. ASSUME NEW j \in 1 .. Len(U), i = Len(bus) + j
          PROVE  x \in Mine(s)
      BY <1>1, <1>4, <3>1, <3>4
    <3>5. i \in 1 .. Len(bus) \/ \E j \in 1 .. Len(U) : i = Len(bus) + j
      BY <1>4, <3>2
    <3>. QED
      BY <3>3, <3>4, <3>5
  <2>7. ASSUME NEW x, x \in Ahead(t)
        PROVE  x \in Ahead(t)'
    <3>1. PICK i \in consumed[t] + 1 .. Len(bus) : x = bus[i]
      BY <2>7 DEF Ahead
    <3>2. i \in 1 .. Len(bus)
      BY <1>3, <3>1
    <3>3. L[i] = x /\ i \in consumed[t] + 1 .. Len(L)
      BY <1>3, <1>4, <3>1, <3>2
    <3>. QED
      BY <2>3, <3>3
  <2>8. ASSUME NEW x, x \in Mine(s)
        PROVE  x \in Ahead(t)'
    <3>1. PICK j \in 1 .. Len(U) : x = U[j]
      BY <1>1, <2>8
    <3>2. L[Len(bus) + j] = x /\ Len(bus) + j \in consumed[t] + 1 .. Len(L)
      BY <1>3, <1>4, <3>1
    <3>. QED
      BY <2>3, <3>2
  <2>. QED
    BY <2>2, <2>5, <2>6, <2>7, <2>8
<1>13. Ordered(L)
  <2>1. SUFFICES ASSUME NEW i \in 1 .. Len(L), NEW j \in 1 .. Len(L), i < j, L[i].layer = L[j].layer
                 PROVE  L[i].id < L[j].id
    BY DEF Ordered
  <2>2. CASE j \in 1 .. Len(bus)
    <3>1. i \in 1 .. Len(bus)
      BY <1>3, <2>1, <2>2
    <3>. QED
      BY <1>4, <2>1, <2>2, <3>1 DEF Numbered, Ordered
  <2>3. ASSUME NEW b \in 1 .. Len(U), j = Len(bus) + b, i \in 1 .. Len(bus)
        PROVE  L[i].id < L[j].id
    <3>1. PICK p, r : p = L[i] /\ r = L[j]
      OBVIOUS
    <3>2. p \in Range(bus) /\ r \in Mine(s) /\ r.layer = p.layer
      <4>1. p = bus[i] /\ r = U[b]
        BY <1>4, <2>3, <3>1
      <4>2. p \in Range(bus)
        BY <1>3, <2>3, <4>1 DEF Range
      <4>. QED
        BY <1>1, <2>1, <2>3, <3>1, <4>1, <4>2
    <3>3. r \notin Range(bus) /\ r \in All /\ p \in All
      <4>1. r \in Range(History(s))
        BY <1>8, <3>2
      <4>. QED
        BY <3>2, <4>1, Whereabouts DEF Spread
    <3>4. p.id \in Nat /\ r.id \in Nat
      BY <3>3, Whereabouts
    <3>5. r.id # p.id
      BY <3>2, <3>3 DEF Numbered, Apart
    <3>6. ~ (r.id < p.id)
      BY <3>2, <3>3 DEF Spread
    <3>. QED
      BY <3>1, <3>4, <3>5, <3>6
  <2>4. ASSUME NEW a \in 1 .. Len(U), i = Len(bus) + a, NEW b \in 1 .. Len(U), j = Len(bus) + b
        PROVE  L[i].id < L[j].id
    <3>1. a < b
      BY <1>3, <2>1, <2>4
    <3>2. PICK c \in 1 .. Len(History(s)), d \in 1 .. Len(History(s)) :
                c < d /\ U[a] = History(s)[c] /\ U[b] = History(s)[d]
      BY <1>1, <3>1
    <3>3. U[a].user = s /\ U[b].user = s
      BY <1>1
    <3>4. U[a].id < U[b].id
      BY <3>2, <3>3 DEF Numbered
    <3>. QED
      BY <1>4, <2>4, <3>4
  <2>5. ASSUME NEW a \in 1 .. Len(U), i = Len(bus) + a, j \in 1 .. Len(bus)
        PROVE  FALSE
    BY <1>3, <2>1, <2>5
  <2>. QED
    BY <1>4, <2>2, <2>3, <2>4
<1>14. Numbered'
  <2>1. \A r \in All' : r.id <= minted' /\ r.layer \in Works[r.user]
    BY <1>9 DEF Numbered
  <2>2. Apart(All')
    BY <1>9 DEF Numbered
  <2>3. Ordered(bus)'
    BY <1>13 DEF Ordered
  <2>4. ASSUME NEW t \in Session, NEW i \in 1 .. Len(History(t)'), NEW j \in 1 .. Len(History(t)'),
               i < j, History(t)'[i].user = t, History(t)'[j].user = t
        PROVE  History(t)'[i].id < History(t)'[j].id
    <3>1. CASE t # s
      BY <2>4, <3>1 DEF Numbered
    <3>2. CASE t = s
      <4>1. \A a \in 1 .. Len(K) : K[a].user = s => a \in 1 .. Len(History(s)) /\ K[a] = History(s)[a]
        <5>1. SUFFICES ASSUME NEW a \in 1 .. Len(K), K[a].user = s
                       PROVE  a \in 1 .. Len(History(s)) /\ K[a] = History(s)[a]
          OBVIOUS
        <5>2. ASSUME NEW b \in 1 .. Len(F), a = Len(History(s)) + b
              PROVE  FALSE
          <6>1. K[a] = F[b] /\ F[b].user # s
            BY <1>2, <1>5, <5>2
          <6>. QED
            BY <5>1, <6>1
        <5>3. a \in 1 .. Len(History(s))
          BY <1>5, <5>2
        <5>. QED
          BY <1>5, <5>3
      <4>2. i \in 1 .. Len(History(s)) /\ K[i] = History(s)[i]
            /\ j \in 1 .. Len(History(s)) /\ K[j] = History(s)[j]
        BY <2>4, <3>2, <4>1
      <4>. QED
        BY <2>4, <3>2, <4>2 DEF Numbered
    <3>. QED
      BY <3>1, <3>2
  <2>. QED
    BY <2>1, <2>2, <2>3, <2>4 DEF Numbered
<1>15. \A t \in Session : Mine(t)' \subseteq Mine(t)
  BY <1>10, <1>12
<1>16. Spread'
  <2>1. ASSUME NEW t \in Session
        PROVE  /\ Range(History(t)') = Read(t)' \cup Mine(t)'
               /\ \A r \in Ahead(t)' : r.user # t
               /\ Mine(t)' \cap Range(L) = {}
    <3>1. CASE t = s
      BY <1>6, <1>7, <1>8, <1>10, <1>11, <3>1
    <3>2. CASE t # s
      <4>1. \A r \in Mine(s) : r.user = s
        BY DEF Mine
      <4>2. \A r \in Mine(t) : r.user = t
        BY DEF Mine
      <4>3. /\ Range(History(t)) = Read(t) \cup Mine(t) /\ Mine(t) \cap Range(bus) = {}
            /\ \A r \in Ahead(t) : r.user # t
        BY DEF Spread
      <4>. QED
        BY <1>6, <1>12, <3>2, <4>1, <4>2, <4>3
    <3>. QED
      BY <3>1, <3>2
  <2>2. ASSUME NEW r \in Range(L), NEW q \in All, q.layer = r.layer, q.id < r.id
        PROVE  q \in Range(L)
    <3>1. CASE r \in Range(bus)
      BY <1>6, <2>2, <3>1 DEF Spread
    <3>2. CASE r \in Mine(s)
      <4>1. r \in Range(History(s))
        BY <1>8, <3>2
      <4>2. q \in Range(History(s))
        BY <2>2, <4>1, HistoryClosed
      <4>. QED
        BY <1>6, <1>8, <4>2
    <3>. QED
      BY <1>6, <3>1, <3>2
  <2>. QED
    BY <1>9, <2>1, <2>2 DEF Spread
<1>17. Sole'
  <2>1. SUFFICES ASSUME NEW t \in Session, NEW k \in Layer, Busy(t, k)'
                 PROVE  Solo(t, k)' /\ k \in Works[t]
    BY DEF Sole
  <2>2. \A u \in Session : Busy(u, k)' => Busy(u, k)
    BY <1>15 DEF Busy, On
  <2>3. Busy(t, k) /\ Solo(t, k) /\ k \in Works[t]
    BY <2>1, <2>2 DEF Sole
  <2>4. \A u \in Session \ {t} : ~ Busy(u, k)'
    BY <2>2, <2>3 DEF Solo
  <2>5. On(Ahead(t)', k) = {}
    <3>1. CASE t = s
      BY <1>11, <3>1 DEF On
    <3>2. CASE t # s
      <4>1. ~ Busy(s, k)
        BY <2>3, <3>2 DEF Solo
      <4>. QED
        BY <1>12, <2>3, <3>2, <4>1 DEF Solo, Busy, On
    <3>. QED
      BY <3>1, <3>2
  <2>. QED
    BY <2>3, <2>4, <2>5 DEF Solo, On
<1>. QED
  BY <1>9, <1>14, <1>16, <1>17

-----------------------------------------------------------------------------
(* The book of stories: a page for each record, and a first page for each  *)
(* layer.  S is the set of all records.                                    *)

Pages == Layer \X (0 .. MaxActs)

Marked(S, l, n) == n = 0 \/ \E r \in S : r.layer = l /\ r.id = n

\* n is the number of the last record of the layer in T.
Top(n, T, l) ==
  /\ Marked(T, l, n)
  /\ \A r \in T : r.layer = l => r.id <= n

\* Between the page and the record is no other record of the layer.
Follows(S, n, r) ==
  /\ n < r.id
  /\ \A q \in S : q.layer = r.layer => q.id <= n \/ q.id >= r.id

Told(S, st, l, n) ==
  /\ WholeStory(st, l, n)
  /\ \A i \in 1 .. Len(st.line) : st.line[i] \in S

Written(A, S) ==
  /\ A \in [Pages -> Stories]
  /\ \A l \in Layer, n \in 0 .. MaxActs : Marked(S, l, n) => Told(S, A[<<l, n>>], l, n)
  /\ \A r \in S, n \in 0 .. MaxActs :
       Marked(S, r.layer, n) /\ Follows(S, n, r)
         => Moves(A[<<r.layer, n>>], r, A[<<r.layer, r.id>>])

\* A runtime, with what it shows of a layer, is at a page.
Sits(A, rt, canvas, l, n) ==
  /\ Top(n, Range(rt.actions), l)
  /\ Stacked(rt, l, A[<<l, n>>])
  /\ canvas = A[<<l, n>>].stage[A[<<l, n>>].at]

\* A record turns the page of its layer, and of no other.
LEMMA PageTurns ==
  ASSUME NEW A \in [Pages -> Stories], NEW rt \in Runtimes, NEW r \in Records, NEW l \in Layer, r.layer = l,
         NEW n \in 0 .. MaxActs, n < r.id, WholeStory(A[<<l, n>>], l, n),
         Moves(A[<<l, n>>], r, A[<<l, r.id>>]),
         NEW canvas, Sits(A, rt, canvas, l, n), NEW new, new = ApplyActionRecord(rt, r)
  PROVE  /\ new \in Runtimes /\ new.actions = Append(rt.actions, r)
         /\ Sits(A, new, ApplyAfter(canvas, r.patches), l, r.id)
         /\ new.canvas[l] = ApplyAfter(rt.canvas[l], r.patches)
         /\ \A k \in Layer : k # l => new.canvas[k] = rt.canvas[k]
         /\ \A k \in Layer, m \in 0 .. MaxActs : \A cw :
              k # l /\ Sits(A, rt, cw, k, m) => Sits(A, new, cw, k, m)
<1> DEFINE st == A[<<l, n>>]
           st2 == A[<<l, r.id>>]
<1>1. r.id \in 1 .. MaxActs /\ r.id \in Nat /\ n \in Nat
  BY DEF Records
<1>2. st \in Stories /\ st2 \in Stories
  <2>1. <<l, n>> \in Pages /\ <<l, r.id>> \in Pages
    BY <1>1 DEF Pages
  <2>. QED
    BY <2>1
<1>3. WholeStory(st, l, n) /\ Moves(st, r, st2)
  OBVIOUS
<1>4. /\ Top(n, Range(rt.actions), l) /\ Stacked(rt, l, st)
      /\ canvas = st.stage[st.at]
  BY DEF Sits
<1> HIDE DEF st, st2
<1>5. st2.stage[st2.at] = ApplyAfter(st.stage[st.at], r.patches)
  BY <1>1, <1>2, <1>3, StoryMoves
<1>6. /\ new \in Runtimes /\ Stacked(new, l, st2)
      /\ new.canvas[l] = ApplyAfter(rt.canvas[l], r.patches)
      /\ new.actions = Append(rt.actions, r)
      /\ \A k \in Layer : k # l => /\ new.canvas[k] = rt.canvas[k]
                                   /\ new.applied[k] = rt.applied[k]
                                   /\ new.undone[k] = rt.undone[k]
  BY <1>1, <1>2, <1>3, <1>4, RecordApplied
<1>7. Range(new.actions) = Range(rt.actions) \cup {r}
  <2>1. rt.actions \in Seq(Records)
    BY DEF Runtimes
  <2>2. Range(Append(rt.actions, r)) = Range(rt.actions) \cup {r}
    BY <2>1, OneMore
  <2>. QED
    BY <1>6, <2>2
<1>8. Top(r.id, Range(new.actions), l)
  <2>1. \A q \in Range(rt.actions) : q.layer = l => q.id <= r.id
    <3>1. \A q \in Range(rt.actions) : q.id \in Nat
      <4>1. rt.actions \in Seq(Records) /\ \A q \in Records : q.id \in Nat
        BY DEF Runtimes, Records
      <4>. QED
        BY <4>1 DEF Range
    <3>. QED
      BY <1>1, <1>4, <3>1 DEF Top
  <2>2. r.id <= r.id
    BY <1>1
  <2>. QED
    BY <1>7, <2>1, <2>2 DEF Top, Marked
<1>9. ASSUME NEW k \in Layer, NEW m \in 0 .. MaxActs, NEW cw, k # l, Sits(A, rt, cw, k, m)
      PROVE  Sits(A, new, cw, k, m)
  <2>1. Top(m, Range(new.actions), k)
    BY <1>7, <1>9 DEF Sits, Top, Marked
  <2>2. Stacked(new, k, A[<<k, m>>])
    <3>1. Stacked(rt, k, A[<<k, m>>])
      BY <1>9 DEF Sits
    <3>2. new.applied[k] = rt.applied[k] /\ new.undone[k] = rt.undone[k]
      BY <1>6, <1>9
    <3>. QED
      BY <3>1, <3>2, Zenon DEF Stacked
  <2>. QED
    BY <1>9, <2>1, <2>2 DEF Sits
<1>10. Sits(A, new, ApplyAfter(canvas, r.patches), l, r.id)
  BY <1>4, <1>5, <1>6, <1>8 DEF Sits, st2
<1>. QED
  BY <1>6, <1>9, <1>10

\* A record numbered after all others, and the book with its page added.
Latest(r, S) == \A q \in S : q.id < r.id
WithPage(A, l, n, st) == [A EXCEPT ![<<l, n>>] = st]

Added(B, A, S, r, l, n) ==
  /\ Written(B, S \cup {r})
  /\ n < r.id /\ WholeStory(B[<<l, n>>], l, n) /\ Moves(B[<<l, n>>], r, B[<<l, r.id>>])
  /\ \A k \in Layer, m \in 0 .. MaxActs : k # l \/ m < r.id => B[<<k, m>>] = A[<<k, m>>]

\* A record numbered after all others adds a page to the book.
LEMMA PageAdded ==
  ASSUME NEW S \in SUBSET Records, NEW A, Written(A, S), NEW r \in Records, NEW l \in Layer, r.layer = l,
         Latest(r, S), NEW n \in 0 .. MaxActs, Top(n, S, l), NEW st2, Moves(A[<<l, n>>], r, st2),
         NEW B, B = WithPage(A, l, r.id, st2)
  PROVE  Added(B, A, S, r, l, n)
<1> DEFINE T == S \cup {r}
<1>0. \A q \in S : q.id < r.id
  BY DEF Latest
<1>1. /\ r.id \in 1 .. MaxActs /\ r.id \in 0 .. MaxActs /\ r.id \in Nat /\ n \in Nat
      /\ \A q \in T : q.id \in Nat /\ q.id > 0 /\ q.id \in 0 .. MaxActs /\ q.layer \in Layer
  BY SyncAssumption DEF Records
<1>2. /\ A \in [Pages -> Stories]
      /\ \A k \in Layer, m \in 0 .. MaxActs : Marked(S, k, m) => Told(S, A[<<k, m>>], k, m)
      /\ \A q \in S, m \in 0 .. MaxActs :
           Marked(S, q.layer, m) /\ Follows(S, m, q) => Moves(A[<<q.layer, m>>], q, A[<<q.layer, q.id>>])
  BY DEF Written
<1>3. n < r.id
  BY <1>0, <1>1 DEF Top, Marked
<1>4. \A k \in Layer, m \in 0 .. MaxActs : <<k, m>> \in Pages
  BY DEF Pages
<1>5. WholeStory(A[<<l, n>>], l, n) /\ A[<<l, n>>] \in Stories /\ \A i \in 1 .. Len(A[<<l, n>>].line) : A[<<l, n>>].line[i] \in S
  BY <1>2, <1>4 DEF Top, Told
<1>6. /\ st2 \in Stories /\ WholeStory(st2, l, r.id)
      /\ \A i \in 1 .. Len(st2.line) : st2.line[i] = r \/ \E j \in 1 .. Len(A[<<l, n>>].line) : st2.line[i] = A[<<l, n>>].line[j]
  <2>1. PICK st \in Stories : st = A[<<l, n>>] /\ WholeStory(st, l, n) /\ Moves(st, r, st2)
    BY <1>5
  <2>2. n \in Nat
    BY <1>1
  <2>. QED
    BY <1>3, <2>1, <2>2, StoryMoves
<1>7. /\ B \in [Pages -> Stories] /\ B[<<l, r.id>>] = st2
      /\ \A k \in Layer, m \in 0 .. MaxActs : k # l \/ m # r.id => B[<<k, m>>] = A[<<k, m>>]
  BY <1>1, <1>2, <1>4, <1>6 DEF WithPage
<1>8. \A k \in Layer, m \in 0 .. MaxActs : Marked(T, k, m) => Marked(S, k, m) \/ (k = l /\ m = r.id)
  BY DEF Marked
<1>9. \A k \in Layer, m \in 0 .. MaxActs : Marked(S, k, m) => m < r.id /\ m # r.id
  BY <1>0, <1>1 DEF Marked
<1>10. ASSUME NEW k \in Layer, NEW m \in 0 .. MaxActs, Marked(T, k, m)
       PROVE  Told(T, B[<<k, m>>], k, m)
  <2>1. CASE k = l /\ m = r.id
    <3>1. B[<<k, m>>] = st2 /\ WholeStory(st2, k, m)
      BY <1>6, <1>7, <2>1
    <3>2. \A i \in 1 .. Len(st2.line) : st2.line[i] \in T
      BY <1>5, <1>6
    <3>. QED
      BY <3>1, <3>2 DEF Told
  <2>2. CASE Marked(S, k, m)
    <3>1. Told(S, B[<<k, m>>], k, m)
      BY <1>2, <1>7, <1>9, <2>2
    <3>. QED
      BY <3>1 DEF Told
  <2>. QED
    BY <1>8, <1>10, <2>1, <2>2
<1>11. ASSUME NEW q \in T, NEW m \in 0 .. MaxActs, Marked(T, q.layer, m), Follows(T, m, q)
       PROVE  Moves(B[<<q.layer, m>>], q, B[<<q.layer, q.id>>])
  <2>0. q.layer \in Layer /\ q.id \in 0 .. MaxActs /\ q.id \in Nat /\ m \in Nat
    BY <1>1
  <2>1. m < q.id
    BY <1>11 DEF Follows
  <2>2. q.id <= r.id
    BY <1>0, <1>1
  <2>3. Marked(S, q.layer, m)
    BY <1>1, <1>8, <1>11, <2>0, <2>1, <2>2
  <2>4. CASE q = r
    <3>1. n <= m
      <4>1. ASSUME NEW p \in S, p.layer = l
            PROVE  p.id <= m
        <5>1. p.id <= m \/ p.id >= r.id
          BY <1>11, <2>4, <4>1 DEF Follows
        <5>2. p.id < r.id /\ p.id \in Nat
          BY <1>0, <1>1
        <5>. QED
          BY <1>1, <2>0, <5>1, <5>2
      <4>2. n = 0 \/ \E p \in S : p.layer = l /\ p.id = n
        BY DEF Top, Marked
      <4>. QED
        BY <2>0, <4>1, <4>2
    <3>2. m <= n
      <4>1. m = 0 \/ \E p \in S : p.layer = l /\ p.id = m
        BY <2>3, <2>4 DEF Marked
      <4>2. \A p \in S : p.layer = l => p.id <= n
        BY DEF Top
      <4>. QED
        BY <1>1, <4>1, <4>2
    <3>3. m = n
      BY <1>1, <2>0, <3>1, <3>2
    <3>4. B[<<l, n>>] = A[<<l, n>>]
      BY <1>1, <1>3, <1>7
    <3>. QED
      BY <1>7, <2>4, <3>3, <3>4
  <2>5. CASE q \in S
    <3>1. Follows(S, m, q)
      BY <1>11 DEF Follows
    <3>2. q.id # r.id /\ m # r.id
      BY <1>0, <1>1, <2>0, <2>1, <2>5
    <3>3. B[<<q.layer, m>>] = A[<<q.layer, m>>] /\ B[<<q.layer, q.id>>] = A[<<q.layer, q.id>>]
      BY <1>7, <2>0, <3>2
    <3>. QED
      BY <1>2, <2>3, <2>5, <3>1, <3>3
  <2>. QED
    BY <2>4, <2>5
<1>12. Written(B, T)
  BY <1>7, <1>10, <1>11 DEF Written
<1>13. \A k \in Layer, m \in 0 .. MaxActs : k # l \/ m < r.id => B[<<k, m>>] = A[<<k, m>>]
  BY <1>1, <1>7
<1>. QED
  BY <1>3, <1>5, <1>7, <1>12, <1>13 DEF Added

-----------------------------------------------------------------------------
(* Reading the log.                                                        *)

\* A record leaves a runtime behind, whatever the runtime, and is its last.
LEMMA ApplyWhole ==
  ASSUME NEW rt \in Runtimes, NEW r \in Records
  PROVE  /\ ApplyActionRecord(rt, r) \in Runtimes
         /\ ApplyActionRecord(rt, r).actions = Append(rt.actions, r)
<1> DEFINE l == r.layer
           cv == ApplyAfter(rt.canvas[l], r.patches)
           painted == WithCanvas(rt, l, cv)
<1>1. l \in Layer /\ r.id \in Id /\ r.reverts \in Id /\ r.patches \in Patches /\ r.kind \in {"stroke", "revert"}
  BY DEF Records, Id
<1>2. cv \in Canvas
  <2>1. rt.canvas[l] \in Canvas
    BY <1>1 DEF Runtimes
  <2>. QED
    BY <1>1, <2>1, PaintWhole
<1>3. painted \in Runtimes /\ painted.actions = rt.actions
  <2> HIDE DEF cv, l
  <2>. QED
    BY <1>1, <1>2, CanvasChanges
<1>4. painted = [rt EXCEPT !.canvas[l] = ApplyAfter(@, r.patches)]
  BY DEF WithCanvas
<1> HIDE DEF painted, cv
<1>5. PICK whole : whole =
        IF DOMAIN r.patches = {} THEN rt
        ELSE CASE r.kind = "stroke" ->
                    [painted EXCEPT !.applied[l] = Append(@, r.id), !.undone[l] = <<>>]
               [] r.kind = "revert" -> Toggle(painted, l, r.reverts)
               [] OTHER -> painted
  OBVIOUS
<1>6. ApplyActionRecord(rt, r) = WithRecord(whole, r)
  BY <1>4, <1>5, Zenon DEF ApplyActionRecord, WithRecord
<1>7. whole \in Runtimes /\ whole.actions = rt.actions
  <2>0. painted.applied[l] \in Seq(Id) /\ painted.undone[l] \in Seq(Id)
    BY <1>1, <1>3 DEF Runtimes
  <2> HIDE DEF l
  <2>1. \A a, u \in Seq(Id) : /\ WithStacks(painted, l, a, u) \in Runtimes
                              /\ WithStacks(painted, l, a, u).actions = rt.actions
    <3>1. \A a, u \in Seq(Id) : WithStacks(painted, l, a, u) \in Runtimes
      BY <1>1, <1>3, StacksChange
    <3>2. ASSUME NEW a, NEW u
          PROVE  WithStacks(painted, l, a, u).actions = painted.actions
      BY <1>3 DEF WithStacks, Runtimes
    <3>. QED
      BY <1>3, <3>1, <3>2
  <2>2. CASE DOMAIN r.patches = {}
    BY <1>5, <2>2
  <2>3. CASE DOMAIN r.patches # {} /\ r.kind = "stroke"
    <3>1. Append(painted.applied[l], r.id) \in Seq(Id) /\ <<>> \in Seq(Id)
      BY <1>1, <2>0, AppendProperties
    <3>2. whole = WithStacks(painted, l, Append(painted.applied[l], r.id), <<>>)
      BY <1>5, <2>3 DEF WithStacks
    <3>. QED
      BY <2>1, <3>1, <3>2
  <2>4. CASE DOMAIN r.patches # {} /\ r.kind = "revert"
    <3>1. whole = Toggle(painted, l, r.reverts)
      BY <1>5, <2>4
    <3>2. /\ Drop(painted.applied[l], r.reverts) \in Seq(Id)
          /\ Drop(painted.undone[l], r.reverts) \in Seq(Id)
          /\ Append(painted.applied[l], r.reverts) \in Seq(Id)
          /\ Append(painted.undone[l], r.reverts) \in Seq(Id)
      BY <1>1, <2>0, DropWhole, AppendProperties
    <3>3. CASE Contains(painted.applied[l], r.reverts)
      <4>1. whole = WithStacks(painted, l, Drop(painted.applied[l], r.reverts), Append(painted.undone[l], r.reverts))
        BY <3>1, <3>3 DEF Toggle, WithStacks
      <4>. QED
        BY <2>1, <3>2, <4>1
    <3>4. CASE ~ Contains(painted.applied[l], r.reverts) /\ Contains(painted.undone[l], r.reverts)
      <4>1. PICK d, a : d = Drop(painted.undone[l], r.reverts) /\ a = Append(painted.applied[l], r.reverts)
        OBVIOUS
      <4>2. whole = [painted EXCEPT !.undone[l] = d, !.applied[l] = a]
        BY <3>1, <3>4, <4>1 DEF Toggle
      <4>3. [painted EXCEPT !.undone[l] = d, !.applied[l] = a] = [painted EXCEPT !.applied[l] = a, !.undone[l] = d]
        BY <1>3 DEF Runtimes
      <4>4. whole = WithStacks(painted, l, a, d)
        BY <4>2, <4>3 DEF WithStacks
      <4>. QED
        BY <2>1, <3>2, <4>1, <4>4
    <3>5. CASE ~ Contains(painted.applied[l], r.reverts) /\ ~ Contains(painted.undone[l], r.reverts)
      BY <1>3, <3>1, <3>5 DEF Toggle
    <3>. QED
      BY <3>3, <3>4, <3>5
  <2>. QED
    BY <1>1, <2>2, <2>3, <2>4
<1>. QED
  BY <1>6, <1>7, HistoryGrows

\* ApplyAll, one record at a time: g[n] is the runtime after the first n.
Applies(g, rt, F) ==
  /\ g[0] = rt
  /\ \A n \in 1 .. Len(F) : g[n] = ApplyActionRecord(g[n - 1], F[n])
  /\ ApplyAll(rt, F) = g[Len(F)]

\* The recursive definition in ApplyAll defines a function.
LEMMA ApplyAllIs ==
  ASSUME NEW rt \in Runtimes, NEW F \in Seq(Records)
  PROVE  \E g : Applies(g, rt, F)
<1> DEFINE N == Len(F)
           V == Runtimes
           G == [p \in V \X (1 .. N) |-> ApplyActionRecord(p[1], F[p[2]])]
           Is(f) == f = [n \in 0 .. N |-> IF n = 0 THEN rt ELSE ApplyActionRecord(f[n - 1], F[n])]
           g == CHOOSE f : Is(f)
<1>1. N \in Nat /\ rt \in V /\ \A n \in 1 .. N : F[n] \in Records
  OBVIOUS
<1>2. G \in [V \X (1 .. N) -> V]
  <2>1. ASSUME NEW p \in V \X (1 .. N)
        PROVE  ApplyActionRecord(p[1], F[p[2]]) \in V
    <3>1. p[1] \in Runtimes /\ F[p[2]] \in Records
      BY <1>1
    <3>. QED
      BY <3>1, ApplyWhole
  <2>. QED
    BY <2>1
<1> HIDE DEF V
<1>3. PICK f \in [0 .. N -> V] : f[0] = rt /\ \A n \in 1 .. N : f[n] = G[<<f[n - 1], n>>]
  <2> HIDE DEF G, N
  <2>1. PICK f \in [0 .. N -> V] : Iterates(f, rt, G, N)
    BY <1>1, <1>2, RecursionExists
  <2>. QED
    BY <2>1 DEF Iterates
<1>4. \A n \in 1 .. N : f[n] = ApplyActionRecord(f[n - 1], F[n])
  <2>1. TAKE n \in 1 .. N
  <2>2. n - 1 \in 0 .. N
    BY <1>1
  <2>3. <<f[n - 1], n>> \in V \X (1 .. N)
    BY <1>3, <2>2
  <2>. QED
    BY <1>3, <2>3
<1>5. Is(f)
  <2>1. \A n \in 0 .. N : n # 0 => n \in 1 .. N
    BY <1>1
  <2>. QED
    BY <1>3, <1>4, <2>1
<1>6. Is(g)
  <2> HIDE DEF Is
  <2>. QED
    BY <1>5
<1>7. ApplyAll(rt, F) = g[N]
  BY Zenon DEF ApplyAll
<1> HIDE DEF g
<1>8. g[0] = rt /\ \A n \in 1 .. N : g[n] = ApplyActionRecord(g[n - 1], F[n])
  <2>1. \A n \in 0 .. N : g[n] = IF n = 0 THEN rt ELSE ApplyActionRecord(g[n - 1], F[n])
    BY <1>6
  <2>2. 0 \in 0 .. N /\ \A n \in 1 .. N : n \in 0 .. N /\ n # 0
    BY <1>1
  <2>. QED
    BY <2>1, <2>2
<1>. QED
  BY <1>7, <1>8 DEF Applies

\* X is the history of a session and the first k records of a fetch.
Gathered(X, s, F, k) == \A x : x \in X <=> x \in Range(History(s)) \/ \E j \in 1 .. k : x = F[j]

\* Record k + 1 of a fetch comes right after the last one its reader has of
\* that layer, on which the reader is not painting.
LEMMA InTurn ==
  ASSUME Typed, Numbered, Spread, Sole, NEW s \in Session, NEW F, Fetched(F, s),
         NEW k \in Nat, k < Len(F), NEW r, r = F[k + 1], NEW l, l = r.layer,
         NEW X, Gathered(X, s, F, k),
         NEW n \in 0 .. MaxActs, Top(n, X, l)
  PROVE  l \in Layer /\ r \in All /\ r \in Records /\ Follows(All, n, r) /\ l \notin stroke[s].layers
<1>1. /\ F \in Seq(Records) /\ Len(F) \in Nat
      /\ \A i \in 1 .. Len(F) : F[i] \in Ahead(s) /\ F[i].user # s
      /\ \A q \in Ahead(s) : \E i \in 1 .. Len(F) : F[i] = q
      /\ \A i, j \in 1 .. Len(F) : i < j =>
           \E a, b \in consumed[s] + 1 .. Len(bus) : a < b /\ F[i] = bus[a] /\ F[j] = bus[b]
  <2>1. \A q \in Ahead(s) : q.user # s
    BY DEF Spread
  <2>. QED
    BY <2>1 DEF Fetched
<1>2. k + 1 \in 1 .. Len(F)
  BY <1>1
<1>3. r \in Ahead(s) /\ r \in Range(bus) /\ r \in All /\ r \in Records /\ l \in Layer /\ r.id \in Nat /\ r.id > 0
  <2>1. r \in Ahead(s)
    BY <1>1, <1>2
  <2>2. r \in Range(bus)
    BY <2>1, Whereabouts
  <2>3. r \in All
    BY <2>2, Whereabouts
  <2>. QED
    BY <2>1, <2>2, <2>3, Whereabouts
<1>4. ~ Busy(s, l)
  <2>1. On(Ahead(s), l) # {}
    BY <1>3 DEF On
  <2>. QED
    BY <1>3, <2>1 DEF Sole, Solo
<1>5. \A q \in Mine(s) : q.layer # l
  BY <1>4 DEF Busy, On
<1>6. consumed[s] \in Nat /\ consumed[s] <= Len(bus) /\ Len(bus) \in Nat
  BY DEF Typed
<1>7. \A q \in All : q.id \in Nat
  BY Whereabouts
<1>8. \A i, j \in 1 .. Len(F) : i < j /\ F[i].layer = F[j].layer => F[i].id < F[j].id
  <2>1. SUFFICES ASSUME NEW i \in 1 .. Len(F), NEW j \in 1 .. Len(F), i < j, F[i].layer = F[j].layer
                 PROVE  F[i].id < F[j].id
    OBVIOUS
  <2>2. PICK a \in consumed[s] + 1 .. Len(bus), b \in consumed[s] + 1 .. Len(bus) :
               a < b /\ F[i] = bus[a] /\ F[j] = bus[b]
    BY <1>1, <2>1
  <2>3. a \in 1 .. Len(bus) /\ b \in 1 .. Len(bus)
    BY <1>6, <2>2
  <2>. QED
    BY <2>1, <2>2, <2>3 DEF Numbered, Ordered
<1>9. ASSUME NEW q \in X, q.layer = l
      PROVE  q.id < r.id
  <2>1. ASSUME NEW j \in 1 .. k, q = F[j]
        PROVE  q.id < r.id
    <3>1. j \in 1 .. Len(F) /\ j < k + 1
      BY <1>1, <2>1
    <3>. QED
      BY <1>2, <1>8, <1>9, <2>1, <3>1
  <2>2. CASE q \in Range(History(s))
    <3>1. q \in Read(s)
      BY <1>5, <1>9, <2>2 DEF Spread
    <3>2. PICK a \in 1 .. consumed[s] : q = bus[a]
      BY <3>1 DEF Read
    <3>3. PICK b \in consumed[s] + 1 .. Len(bus) : r = bus[b]
      BY <1>3 DEF Ahead
    <3>4. a \in 1 .. Len(bus) /\ b \in 1 .. Len(bus) /\ a < b
      BY <1>6, <3>2, <3>3
    <3>. QED
      BY <1>9, <3>2, <3>3, <3>4 DEF Numbered, Ordered
  <2>. QED
    BY <2>1, <2>2 DEF Gathered
<1>10. n < r.id
  <2>1. n = 0 \/ \E q \in X : q.layer = l /\ q.id = n
    BY DEF Top, Marked
  <2>. QED
    BY <1>3, <1>9, <2>1
<1>11. ASSUME NEW q \in All, q.layer = l, q.id < r.id
       PROVE  q.id <= n
  <2>1. q \in Range(bus)
    BY <1>3, <1>11 DEF Spread
  <2>2. q \in X
    <3>1. CASE q \in Read(s)
      BY <3>1 DEF Spread, Gathered
    <3>2. CASE q \in Ahead(s)
      <4>1. PICK j \in 1 .. Len(F) : F[j] = q
        BY <1>1, <3>2
      <4>2. j # k + 1 /\ ~ (k + 1 < j)
        <5>1. q.id \in Nat
          BY <1>7
        <5>2. j # k + 1
          BY <1>3, <1>11, <4>1, <5>1
        <5>3. k + 1 < j => r.id < q.id
          BY <1>2, <1>8, <1>11, <4>1
        <5>. QED
          BY <1>3, <1>11, <5>1, <5>2, <5>3
      <4>3. j \in 1 .. k
        BY <1>1, <4>1, <4>2
      <4>. QED
        BY <4>1, <4>3 DEF Gathered
    <3>. QED
      BY <2>1, <3>1, <3>2, Whereabouts
  <2>. QED
    BY <1>11, <2>2 DEF Top
<1>12. Follows(All, n, r)
  <2>1. \A q \in All : q.layer = l => q.id <= n \/ q.id >= r.id
    BY <1>3, <1>7, <1>11
  <2>. QED
    BY <1>10, <2>1 DEF Follows
<1>. QED
  BY <1>3, <1>4, <1>12 DEF Busy

\* What a session sees of a layer: under a stroke, the canvas it started from.
View(rt, s, l) == IF l \in stroke[s].layers THEN stroke[s].start ELSE rt.canvas[l]

\* A runtime of session s that has read k records of a fetch.
Halfway(A, s, F, rt, k) ==
  /\ rt \in Runtimes
  /\ Len(rt.actions) = Len(History(s)) + k
  /\ \A i \in 1 .. Len(History(s)) : rt.actions[i] = History(s)[i]
  /\ \A j \in 1 .. k : rt.actions[Len(History(s)) + j] = F[j]
  /\ \A x : x \in Range(rt.actions) <=> x \in Range(History(s)) \/ \E j \in 1 .. k : x = F[j]
  /\ \A l \in Layer : \E n \in 0 .. MaxActs : Sits(A, rt, View(rt, s, l), l, n)
  /\ \A l \in stroke[s].layers : rt.canvas[l] = runtime[s].canvas[l]

\* One more record of the fetch.
LEMMA ReadsOne ==
  ASSUME Typed, Numbered, Spread, Sole, NEW s \in Session, NEW F, Fetched(F, s),
         NEW A, Written(A, All), NEW k \in Nat, k < Len(F),
         NEW rt, Halfway(A, s, F, rt, k), NEW new, new = ApplyActionRecord(rt, F[k + 1])
  PROVE  Halfway(A, s, F, new, k + 1)
<1>1. PICK r, l : r = F[k + 1] /\ l = r.layer
  OBVIOUS
<1>2. /\ rt \in Runtimes /\ Len(rt.actions) = Len(History(s)) + k
      /\ \A i \in 1 .. Len(History(s)) : rt.actions[i] = History(s)[i]
      /\ \A j \in 1 .. k : rt.actions[Len(History(s)) + j] = F[j]
      /\ \A x : x \in Range(rt.actions) <=> x \in Range(History(s)) \/ \E j \in 1 .. k : x = F[j]
      /\ \A m \in Layer : \E n \in 0 .. MaxActs : Sits(A, rt, View(rt, s, m), m, n)
      /\ \A m \in stroke[s].layers : rt.canvas[m] = runtime[s].canvas[m]
  BY DEF Halfway
<1>3. l \in Layer
  <2>1. F \in Seq(Records) /\ k + 1 \in 1 .. Len(F)
    BY DEF Fetched
  <2>2. r \in Records
    BY <1>1, <2>1
  <2>. QED
    BY <1>1, <2>2 DEF Records
<1>4. PICK n \in 0 .. MaxActs : Sits(A, rt, View(rt, s, l), l, n)
  BY <1>2, <1>3
<1>5. r \in All /\ r \in Records /\ Follows(All, n, r) /\ l \notin stroke[s].layers
  <2>1. Top(n, Range(rt.actions), l)
    BY <1>4 DEF Sits
  <2>2. PICK X : X = Range(rt.actions)
    OBVIOUS
  <2>3. Top(n, X, l) /\ Gathered(X, s, F, k)
    BY <1>2, <2>1, <2>2 DEF Gathered
  <2>. QED
    BY <1>1, <2>3, InTurn
<1>6. Marked(All, l, n)
  <2>1. \A x \in Range(rt.actions) : x \in All
    <3>1. F \in Seq(Records) /\ \A i \in 1 .. Len(F) : F[i] \in Ahead(s)
      BY DEF Fetched
    <3>2. \A i \in 1 .. Len(F) : F[i] \in All
      BY <3>1, Whereabouts
    <3>3. \A j \in 1 .. k : F[j] \in All
      BY <3>1, <3>2
    <3>4. \A x \in Range(History(s)) : x \in All
      BY Whereabouts
    <3>5. \A x : x \in Range(rt.actions) <=> x \in Range(History(s)) \/ \E j \in 1 .. k : x = F[j]
      BY <1>2, Zenon
    <3>. QED
      BY <3>3, <3>4, <3>5, Zenon
  <2>. QED
    BY <1>4, <2>1 DEF Sits, Top, Marked
<1>7. A \in [Pages -> Stories] /\ WholeStory(A[<<l, n>>], l, n) /\ Moves(A[<<l, n>>], r, A[<<l, r.id>>])
  <2>1. Told(All, A[<<l, n>>], l, n)
    BY <1>3, <1>6 DEF Written
  <2>2. Moves(A[<<r.layer, n>>], r, A[<<r.layer, r.id>>])
    BY <1>1, <1>5, <1>6 DEF Written
  <2>. QED
    BY <1>1, <2>1, <2>2 DEF Written, Told
<1>8. n < r.id
  BY <1>5 DEF Follows
<1>9. View(rt, s, l) = rt.canvas[l]
  BY <1>5 DEF View
<1>10. /\ new \in Runtimes /\ new.actions = Append(rt.actions, r)
       /\ Sits(A, new, ApplyAfter(rt.canvas[l], r.patches), l, r.id)
       /\ new.canvas[l] = ApplyAfter(rt.canvas[l], r.patches)
       /\ \A m \in Layer : m # l => new.canvas[m] = rt.canvas[m]
       /\ \A m \in Layer, p \in 0 .. MaxActs : \A cw :
            m # l /\ Sits(A, rt, cw, m, p) => Sits(A, new, cw, m, p)
  <2>1. Sits(A, rt, rt.canvas[l], l, n)
    BY <1>4, <1>9
  <2>2. new = ApplyActionRecord(rt, r)
    BY <1>1
  <2>3. r.layer = l
    BY <1>1
  <2>. QED
    BY <1>2, <1>3, <1>5, <1>7, <1>8, <2>1, <2>2, <2>3, PageTurns
<1>11. \A m \in Layer : \E p \in 0 .. MaxActs : Sits(A, new, View(new, s, m), m, p)
  <2>1. TAKE m \in Layer
  <2>2. CASE m = l
    <3>1. View(new, s, l) = ApplyAfter(rt.canvas[l], r.patches)
      BY <1>5, <1>10 DEF View
    <3>2. r.id \in 0 .. MaxActs
      BY <1>5 DEF Records
    <3>. QED
      BY <1>10, <2>2, <3>1, <3>2
  <2>3. CASE m # l
    <3>1. PICK p \in 0 .. MaxActs : Sits(A, rt, View(rt, s, m), m, p)
      BY <1>2
    <3>2. View(new, s, m) = View(rt, s, m)
      BY <1>10, <2>3 DEF View
    <3>. QED
      BY <1>10, <2>3, <3>1, <3>2
  <2>. QED
    BY <2>2, <2>3
<1>12. PICK q : q = rt.actions
  OBVIOUS
<1>13. /\ Len(new.actions) = Len(q) + 1 /\ new.actions[Len(q) + 1] = r
       /\ \A i \in 1 .. Len(q) : new.actions[i] = q[i]
       /\ Range(new.actions) = Range(q) \cup {r}
  <2>1. q \in Seq(Records)
    BY <1>2, <1>12 DEF Runtimes
  <2>2. /\ Len(Append(q, r)) = Len(q) + 1
        /\ Append(q, r)[Len(q) + 1] = r
        /\ \A i \in 1 .. Len(q) : Append(q, r)[i] = q[i]
        /\ Range(Append(q, r)) = Range(q) \cup {r}
    BY <1>5, <2>1, OneMore
  <2>. QED
    BY <1>10, <1>12, <2>2
<1>14. Len(History(s)) \in Nat
  BY DEF Typed, Runtimes, History
<1>20. Len(q) = Len(History(s)) + k
  BY <1>2, <1>12
<1>15. Len(new.actions) = Len(History(s)) + (k + 1)
  BY <1>13, <1>14, <1>20
<1>16. \A i \in 1 .. Len(History(s)) : new.actions[i] = History(s)[i]
  <2>1. \A i \in 1 .. Len(History(s)) : i \in 1 .. Len(q)
    BY <1>14, <1>20
  <2>. QED
    BY <1>2, <1>12, <1>13, <2>1
<1>17. \A j \in 1 .. k + 1 : new.actions[Len(History(s)) + j] = F[j]
  <2>1. TAKE j \in 1 .. k + 1
  <2>2. CASE j = k + 1
    <3>1. Len(History(s)) + j = Len(q) + 1
      BY <1>14, <1>20, <2>2
    <3>. QED
      BY <1>1, <1>13, <2>2, <3>1
  <2>3. CASE j # k + 1
    <3>1. j \in 1 .. k /\ Len(History(s)) + j \in 1 .. Len(q)
      BY <1>14, <1>20, <2>3
    <3>. QED
      BY <1>2, <1>12, <1>13, <3>1
  <2>. QED
    BY <2>2, <2>3
<1>18. \A x : x \in Range(new.actions) <=> x \in Range(History(s)) \/ \E j \in 1 .. k + 1 : x = F[j]
  <2>1. \A j \in 1 .. k + 1 : j \in 1 .. k \/ j = k + 1
    OBVIOUS
  <2>2. k + 1 \in 1 .. k + 1 /\ \A j \in 1 .. k : j \in 1 .. k + 1
    OBVIOUS
  <2>3. \A x : x \in Range(new.actions) <=> x \in Range(q) \/ x = r
    BY <1>13
  <2>. QED
    BY <1>1, <1>2, <1>12, <2>1, <2>2, <2>3
<1>19. \A m \in stroke[s].layers : new.canvas[m] = runtime[s].canvas[m]
  <2>1. \A m \in stroke[s].layers : m \in Layer
    BY DEF Typed, StrokesInHand
  <2>. QED
    BY <1>2, <1>5, <1>10, <2>1
<1>. QED
  BY <1>10, <1>11, <1>15, <1>16, <1>17, <1>18, <1>19 DEF Halfway

\* The whole fetch.
LEMMA ReadsAll ==
  ASSUME Typed, Numbered, Spread, Sole, NEW s \in Session, NEW F, Fetched(F, s),
         NEW A, Written(A, All),
         \A l \in Layer : \E n \in 0 .. MaxActs : Sits(A, runtime[s], View(runtime[s], s, l), l, n)
  PROVE  Halfway(A, s, F, ApplyAll(runtime[s], F), Len(F))
<1> DEFINE rt == runtime[s]
<1>1. F \in Seq(Records) /\ rt \in Runtimes /\ Len(F) \in Nat
  BY DEF Fetched, Typed
<1>2. PICK g : Applies(g, rt, F)
  BY <1>1, ApplyAllIs
<1>3. Halfway(A, s, F, rt, 0)
  <2>1. Len(rt.actions) = Len(History(s)) + 0
    BY <1>1 DEF Runtimes, History
  <2>2. \A j \in 1 .. 0 : FALSE
    OBVIOUS
  <2>3. \A i \in 1 .. Len(History(s)) : rt.actions[i] = History(s)[i]
    BY DEF History
  <2>. QED
    BY <1>1, <2>1, <2>2, <2>3 DEF Halfway, History
<1> DEFINE Good == {k \in 0 .. Len(F) : Halfway(A, s, F, g[k], k)}
<1>4. 0 \in Good
  BY <1>1, <1>2, <1>3 DEF Applies
<1>5. ASSUME NEW k \in 0 .. Len(F), k < Len(F), k \in Good
      PROVE  k + 1 \in Good
  <2>1. k \in Nat /\ k + 1 \in 1 .. Len(F) /\ k + 1 \in 0 .. Len(F) /\ (k + 1) - 1 = k
    BY <1>1, <1>5
  <2>2. g[k + 1] = ApplyActionRecord(g[k], F[k + 1])
    BY <1>2, <2>1 DEF Applies
  <2>3. Halfway(A, s, F, g[k], k)
    BY <1>5
  <2>4. Halfway(A, s, F, g[k + 1], k + 1)
    BY <1>5, <2>1, <2>2, <2>3, ReadsOne
  <2>. QED
    BY <2>1, <2>4
<1> HIDE DEF Good
<1>6. \A k \in 0 .. Len(F) : k \in Good
  BY <1>1, <1>4, <1>5, Reaches
<1>7. Len(F) \in Good
  BY <1>1, <1>6
<1>8. Halfway(A, s, F, g[Len(F)], Len(F))
  BY <1>7 DEF Good
<1>. QED
  BY <1>2, <1>8 DEF Applies

-----------------------------------------------------------------------------
(* The inductive invariant.                                                *)

\* A stroke in hand is on one layer, which differs from the canvas it started
\* from in the cells the stroke touched alone.
Strokes ==
  \A s \in Session : \A l \in stroke[s].layers :
    /\ stroke[s].layers = {l}
    /\ \A c \in Cell \ stroke[s].touched : runtime[s].canvas[l][c] = stroke[s].start[c]

\* The book tells what every session shows.
Book(A) ==
  /\ Written(A, All)
  /\ \A s \in Session, l \in Layer :
       \E n \in 0 .. MaxActs : Sits(A, runtime[s], View(runtime[s], s, l), l, n)

SyncInv ==
  /\ Typed /\ Numbered /\ Spread /\ Sole /\ Strokes
  /\ \E A : Book(A)

\* A step that makes no record, and after which all layers show what they
\* showed before, keeps the book.
LEMMA BookKept ==
  ASSUME NEW A, Book(A), All' = All,
         \A t \in Session : History(t)' = History(t),
         \A t \in Session, k \in Layer :
           /\ View(runtime[t], t, k)' = View(runtime[t], t, k)
           /\ runtime'[t].applied[k] = runtime[t].applied[k]
           /\ runtime'[t].undone[k] = runtime[t].undone[k]
  PROVE  Book(A)'
<1>1. ASSUME NEW t \in Session, NEW k \in Layer
      PROVE  \E n \in 0 .. MaxActs : Sits(A, runtime'[t], View(runtime[t], t, k)', k, n)
  <2>1. PICK n \in 0 .. MaxActs : Sits(A, runtime[t], View(runtime[t], t, k), k, n)
    BY DEF Book
  <2>2. runtime'[t].actions = runtime[t].actions
    BY DEF History
  <2>3. Sits(A, runtime'[t], View(runtime[t], t, k), k, n)
    BY <2>1, <2>2 DEF Sits, Stacked
  <2>. QED
    BY <2>3
<1>2. Written(A, All)'
  BY DEF Book
<1>. QED
  BY <1>1, <1>2 DEF Book, View

\* Painting on the layer of a stroke.
LEMMA PaintKeeps ==
  ASSUME SyncInv, Disciplined, NEW s \in Session, NEW l \in Layer, NEW c \in Cell, NEW v \in Content,
         Paint(s, l, c, v)
  PROVE  SyncInv'
<1>0. Typed /\ Numbered /\ Spread /\ Sole /\ Strokes
  BY DEF SyncInv
<1>1. /\ stroke[s].layers \subseteq {l} /\ (stroke[s].layers = {} => Turn(s, l))
      /\ runtime' = [runtime EXCEPT ![s] = Stage(@, l, c, v)]
      /\ stroke' = [stroke EXCEPT ![s] =
           [layers |-> {l},
            start |-> IF @.layers = {} THEN runtime[s].canvas[l] ELSE @.start,
            touched |-> @.touched \cup {c}]]
      /\ bus' = bus /\ published' = published /\ consumed' = consumed /\ minted' = minted
  BY DEF Paint
<1>2. /\ runtime \in [Session -> Runtimes] /\ stroke \in [Session -> StrokesInHand]
      /\ runtime[s] \in Runtimes /\ runtime[s].canvas \in [Layer -> Canvas]
      /\ runtime[s].canvas[l] \in Canvas
      /\ stroke[s].start \in Canvas /\ stroke[s].touched \in SUBSET Cell /\ stroke[s].layers \in SUBSET Layer
  BY <1>0 DEF Typed, StrokesInHand, Runtimes
<1> DEFINE cv == [runtime[s].canvas[l] EXCEPT ![c] = v]
           start == IF stroke[s].layers = {} THEN runtime[s].canvas[l] ELSE stroke[s].start
<1>3. cv \in Canvas /\ \A d \in Cell : d # c => cv[d] = runtime[s].canvas[l][d]
  BY <1>2 DEF Canvas
<1>4. Stage(runtime[s], l, c, v) = WithCanvas(runtime[s], l, cv)
  BY <1>2 DEF Stage, WithCanvas
<1> HIDE DEF cv
<1>5. PICK new : new = WithCanvas(runtime[s], l, cv)
  OBVIOUS
<1>6. /\ new \in Runtimes /\ new.canvas = [runtime[s].canvas EXCEPT ![l] = cv]
      /\ new.applied = runtime[s].applied /\ new.undone = runtime[s].undone
      /\ new.actions = runtime[s].actions
  BY <1>2, <1>3, <1>5, CanvasChanges
<1>7. runtime' = [runtime EXCEPT ![s] = new] /\ runtime'[s] = new
      /\ \A t \in Session : t # s => runtime'[t] = runtime[t]
  BY <1>1, <1>2, <1>4, <1>5
<1>8. /\ stroke'[s] = [layers |-> {l}, start |-> start, touched |-> stroke[s].touched \cup {c}]
      /\ \A t \in Session : t # s => stroke'[t] = stroke[t]
  BY <1>1, <1>2
<1>9. start \in Canvas
  BY <1>2
<1>10. \A t \in Session : History(t)' = History(t)
  BY <1>6, <1>7 DEF History
<1>11. Typed'
  <2>1. runtime' \in [Session -> Runtimes]
    BY <1>2, <1>6, <1>7
  <2>2. [layers |-> {l}, start |-> start, touched |-> stroke[s].touched \cup {c}] \in StrokesInHand
    BY <1>2, <1>9 DEF StrokesInHand
  <2>3. stroke' \in [Session -> StrokesInHand]
    BY <1>1, <1>2, <2>2
  <2>4. ASSUME NEW t \in Session, stroke'[t].layers = {}
        PROVE  stroke'[t] = NoStroke
    <3>1. CASE t = s
      BY <1>8, <2>4, <3>1
    <3>2. CASE t # s
      BY <1>0, <1>8, <2>4, <3>2 DEF Typed
    <3>. QED
      BY <3>1, <3>2
  <2>. QED
    BY <1>0, <1>1, <1>10, <2>1, <2>3, <2>4 DEF Typed
<1>12. Numbered' /\ Spread' /\ All' = All /\ \A t \in Session : Ahead(t)' = Ahead(t) /\ Mine(t)' = Mine(t)
  BY <1>0, <1>1, <1>10, Unrecorded
<1>13. Solo(s, l) /\ l \in Works[s]
  <2>1. CASE stroke[s].layers = {}
    BY <1>0, <1>1, <2>1, TurnSolo
  <2>2. CASE l \in stroke[s].layers
    BY <1>0, <2>2 DEF Sole, Busy
  <2>. QED
    BY <1>1, <2>1, <2>2
<1>14. Sole'
  <2>1. ASSUME NEW t \in Session, NEW k \in Layer, Busy(t, k)'
        PROVE  Busy(t, k) \/ (t = s /\ k = l)
    <3>1. k \in stroke'[t].layers => k \in stroke[t].layers \/ (t = s /\ k = l)
      BY <1>8
    <3>. QED
      BY <1>12, <2>1, <3>1 DEF Busy
  <2>. QED
    BY <1>0, <1>12, <1>13, <2>1, StaysSole
<1>15. Strokes'
  <2>1. SUFFICES ASSUME NEW t \in Session, NEW k \in stroke'[t].layers
                 PROVE  /\ stroke'[t].layers = {k}
                        /\ \A d \in Cell \ stroke'[t].touched : runtime'[t].canvas[k][d] = stroke'[t].start[d]
    BY DEF Strokes
  <2>2. CASE t # s
    BY <1>0, <1>7, <1>8, <2>2 DEF Strokes
  <2>3. CASE t = s
    <3>1. stroke'[t].layers = {l} /\ k = l /\ stroke'[t].start = start /\ stroke'[t].touched = stroke[s].touched \cup {c}
      BY <1>8, <2>3
    <3>2. runtime'[t].canvas[k] = cv
      BY <1>2, <1>6, <1>7, <2>3, <3>1
    <3>3. ASSUME NEW d \in Cell \ (stroke[s].touched \cup {c})
          PROVE  cv[d] = start[d]
      <4>1. cv[d] = runtime[s].canvas[l][d]
        BY <1>3
      <4>2. CASE stroke[s].layers = {}
        BY <4>1, <4>2
      <4>3. CASE l \in stroke[s].layers
        BY <1>0, <4>1, <4>3 DEF Strokes
      <4>. QED
        BY <1>1, <4>2, <4>3
    <3>. QED
      BY <3>1, <3>2, <3>3
  <2>. QED
    BY <2>2, <2>3
<1>16. ASSUME NEW A, Book(A)
       PROVE  Book(A)'
  <2>1. ASSUME NEW t \in Session, NEW k \in Layer
        PROVE  /\ View(runtime[t], t, k)' = View(runtime[t], t, k)
               /\ runtime'[t].applied[k] = runtime[t].applied[k]
               /\ runtime'[t].undone[k] = runtime[t].undone[k]
    <3>1. CASE t # s
      BY <1>7, <1>8, <3>1 DEF View
    <3>2. CASE t = s /\ k # l
      <4>1. k \notin stroke[s].layers /\ k \notin stroke'[s].layers /\ new.canvas[k] = runtime[s].canvas[k]
        BY <1>1, <1>2, <1>6, <1>8, <3>2
      <4>. QED
        BY <1>6, <1>7, <3>2, <4>1 DEF View
    <3>3. CASE t = s /\ k = l
      <4>1. l \in stroke'[s].layers /\ stroke'[s].start = start
        BY <1>8
      <4>2. stroke[s].layers = {} \/ l \in stroke[s].layers
        BY <1>1
      <4>3. View(runtime[s], s, l) = start
        BY <4>2 DEF View
      <4>. QED
        BY <1>6, <1>7, <3>3, <4>1, <4>3 DEF View
    <3>. QED
      BY <3>1, <3>2, <3>3
  <2>. QED
    BY <1>10, <1>12, <1>16, <2>1, BookKept
<1>. QED
  BY <1>11, <1>12, <1>14, <1>15, <1>16 DEF SyncInv

\* The release of a stroke that changed nothing.
LEMMA EmptyCommitKeeps ==
  ASSUME SyncInv, NEW s \in Session, NEW l \in Layer, Commit(s, l),
         DOMAIN CollectPatches(stroke[s].start, runtime[s].canvas[l]) = {}
  PROVE  SyncInv'
<1>0. Typed /\ Numbered /\ Spread /\ Sole /\ Strokes
  BY DEF SyncInv
<1>1. /\ stroke[s].layers = {l} /\ runtime' = runtime /\ minted' = minted
      /\ stroke' = [stroke EXCEPT ![s] = NoStroke]
      /\ bus' = bus /\ published' = published /\ consumed' = consumed
  BY DEF Commit
<1>2. /\ stroke \in [Session -> StrokesInHand] /\ stroke[s].start \in Canvas
      /\ runtime[s].canvas[l] \in Canvas
  BY <1>0 DEF Typed, StrokesInHand, Runtimes
<1>3. stroke[s].start = runtime[s].canvas[l]
  <2>1. {d \in Cell : stroke[s].start[d] # runtime[s].canvas[l][d]} = {}
    BY <1>2, CollectWhole
  <2>. QED
    BY <1>2, <2>1 DEF Canvas
<1>4. stroke'[s] = NoStroke /\ \A t \in Session : t # s => stroke'[t] = stroke[t]
  BY <1>1, <1>2
<1>5. NoStroke \in StrokesInHand /\ NoStroke.layers = {}
  BY RuntimeAssumption DEF NoStroke, StrokesInHand, Blank, Canvas, Content
<1>6. \A t \in Session : History(t)' = History(t)
  BY <1>1 DEF History
<1>7. Numbered' /\ Spread' /\ All' = All /\ \A t \in Session : Ahead(t)' = Ahead(t) /\ Mine(t)' = Mine(t)
  BY <1>0, <1>1, <1>6, Unrecorded
<1>8. Typed'
  <2>1. stroke' \in [Session -> StrokesInHand]
    BY <1>1, <1>2, <1>5
  <2>2. \A t \in Session : stroke'[t].layers = {} => stroke'[t] = NoStroke
    BY <1>0, <1>4 DEF Typed
  <2>. QED
    BY <1>0, <1>1, <1>6, <2>1, <2>2 DEF Typed
<1>9. Sole'
  <2>1. Solo(s, l) /\ l \in Works[s]
    BY <1>0, <1>1 DEF Sole, Busy
  <2>2. \A t \in Session, k \in Layer : Busy(t, k)' => Busy(t, k)
    BY <1>4, <1>5, <1>7 DEF Busy
  <2>. QED
    BY <1>0, <1>7, <2>1, <2>2, StaysSole
<1>10. Strokes'
  BY <1>0, <1>1, <1>4, <1>5 DEF Strokes
<1>11. ASSUME NEW A, Book(A)
       PROVE  Book(A)'
  <2>1. ASSUME NEW t \in Session, NEW k \in Layer
        PROVE  /\ View(runtime[t], t, k)' = View(runtime[t], t, k)
               /\ runtime'[t].applied[k] = runtime[t].applied[k]
               /\ runtime'[t].undone[k] = runtime[t].undone[k]
    <3>1. View(runtime[t], t, k)' = View(runtime[t], t, k)
      BY <1>1, <1>3, <1>4, <1>5 DEF View
    <3>. QED
      BY <1>1, <3>1
  <2>. QED
    BY <1>6, <1>7, <1>11, <2>1, BookKept
<1>. QED
  BY <1>7, <1>8, <1>9, <1>10, <1>11 DEF SyncInv
\* A session that records alone on a layer moves that layer's story, and its
\* stroke is over.
LEMMA RecordedKeeps ==
  ASSUME Typed, Numbered, Spread, Sole, Strokes, NEW A, Book(A),
         NEW s \in Session, NEW l \in Layer, Solo(s, l), l \in Works[s], stroke[s].layers \subseteq {l},
         NEW r \in Records, r.layer = l, r.user = s, r.id = minted + 1,
         NEW n \in 0 .. MaxActs, Sits(A, runtime[s], View(runtime[s], s, l), l, n),
         NEW st2, Moves(A[<<l, n>>], r, st2),
         ApplyAfter(runtime[s].canvas[l], r.patches) = ApplyAfter(View(runtime[s], s, l), r.patches),
         runtime' = [runtime EXCEPT ![s] = ApplyActionRecord(runtime[s], r)],
         stroke' = [stroke EXCEPT ![s] = NoStroke], minted' = minted + 1,
         bus' = bus, published' = published, consumed' = consumed
  PROVE  SyncInv'
<1>1. /\ runtime \in [Session -> Runtimes] /\ stroke \in [Session -> StrokesInHand]
      /\ runtime[s] \in Runtimes /\ minted \in Nat
  BY SyncAssumption DEF Typed
<1>2. /\ \A t \in Session : \A q \in Range(History(t)) : q \in All
      /\ \A q \in All : q \in Records /\ q.id \in Nat
      /\ All \in SUBSET Records
  BY Whereabouts
<1>3. Top(n, All, l)
  <2>1. Top(n, Range(History(s)), l)
    BY DEF Sits, History
  <2>2. \A q \in All : q.layer = l => q \in Range(History(s))
    BY UpToDate
  <2>. QED
    BY <1>2, <2>1, <2>2 DEF Top, Marked
<1>4. \A q \in All : q.id < r.id
  <2>1. \A q \in All : q.id <= minted /\ q.id \in Nat
    BY <1>2 DEF Numbered
  <2>. QED
    BY <1>1, <2>1
<1>5. Written(A, All)
  BY DEF Book
<1>6. PICK B : B = WithPage(A, l, r.id, st2)
  OBVIOUS
<1>7. /\ Written(B, All \cup {r})
      /\ n < r.id /\ WholeStory(B[<<l, n>>], l, n) /\ Moves(B[<<l, n>>], r, B[<<l, r.id>>])
      /\ \A k \in Layer, m \in 0 .. MaxActs : k # l \/ m < r.id => B[<<k, m>>] = A[<<k, m>>]
  <2>1. Latest(r, All)
    BY <1>4 DEF Latest
  <2>2. Added(B, A, All, r, l, n)
    BY <1>2, <1>3, <1>5, <1>6, <2>1, PageAdded
  <2>. QED
    BY <2>2 DEF Added
<1>8. B \in [Pages -> Stories]
  BY <1>7 DEF Written
<1>9. Sits(B, runtime[s], View(runtime[s], s, l), l, n)
  <2>1. B[<<l, n>>] = A[<<l, n>>]
    BY <1>7
  <2>. QED
    BY <2>1 DEF Sits
<1>10. PICK new : new = ApplyActionRecord(runtime[s], r)
  OBVIOUS
<1>11. PICK seen : seen = View(runtime[s], s, l)
  OBVIOUS
<1>12. /\ new \in Runtimes /\ new.actions = Append(runtime[s].actions, r)
       /\ Sits(B, new, ApplyAfter(seen, r.patches), l, r.id)
       /\ new.canvas[l] = ApplyAfter(runtime[s].canvas[l], r.patches)
       /\ \A k \in Layer : k # l => new.canvas[k] = runtime[s].canvas[k]
       /\ \A k \in Layer, m \in 0 .. MaxActs : \A cw :
            k # l /\ Sits(B, runtime[s], cw, k, m) => Sits(B, new, cw, k, m)
  <2>1. Sits(B, runtime[s], seen, l, n)
    BY <1>9, <1>11
  <2>. QED
    BY <1>1, <1>7, <1>8, <1>10, <2>1, PageTurns
<1>13. runtime'[s] = new /\ runtime' \in [Session -> Runtimes]
       /\ \A t \in Session : t # s => runtime'[t] = runtime[t]
  BY <1>1, <1>10, <1>12
<1>14. NoStroke \in StrokesInHand /\ NoStroke.layers = {}
  BY RuntimeAssumption DEF NoStroke, StrokesInHand, Blank, Canvas, Content
<1>15. /\ stroke'[s] = NoStroke /\ stroke' \in [Session -> StrokesInHand]
       /\ \A t \in Session : t # s => stroke'[t] = stroke[t]
  BY <1>1, <1>14
<1>16. Numbered' /\ Spread' /\ Sole' /\ All' = All \cup {r}
  <2>1. History(s)' = Append(History(s), r) /\ \A t \in Session : t # s => History(t)' = History(t)
    BY <1>12, <1>13 DEF History
  <2>2. \A t \in Session : stroke'[t].layers \subseteq stroke[t].layers
    BY <1>14, <1>15
  <2>. QED
    BY <2>1, <2>2, RecordEnters
<1>17. Typed'
  <2>1. minted' \in 0 .. MaxActs
    BY <1>1, SyncAssumption DEF Records
  <2>2. ASSUME NEW t \in Session
        PROVE  /\ published[t] <= Len(History(t)') /\ consumed[t] <= Len(bus)
               /\ stroke'[t].layers = {} => stroke'[t] = NoStroke
    <3>1. CASE t # s
      BY <1>13, <1>15, <3>1 DEF Typed, History
    <3>2. CASE t = s
      <4>1. History(s) \in Seq(Records) /\ published[s] \in Nat /\ published[s] <= Len(History(s))
        BY <1>1 DEF Typed, History, Runtimes
      <4>2. Len(History(s)') = Len(History(s)) + 1
        BY <1>12, <1>13, <4>1, OneMore DEF History
      <4>3. published[s] <= Len(History(s)')
        BY <4>1, <4>2
      <4>. QED
        BY <1>15, <3>2, <4>3 DEF Typed
    <3>. QED
      BY <3>1, <3>2
  <2>3. History(s)' = runtime'[s].actions
    BY DEF History
  <2>. QED
    BY <1>13, <1>15, <2>1, <2>2 DEF Typed
<1>18. Strokes'
  BY <1>13, <1>14, <1>15 DEF Strokes
<1>19. Book(B)'
  <2>1. ASSUME NEW t \in Session, NEW k \in Layer
        PROVE  \E m \in 0 .. MaxActs : Sits(B, runtime'[t], View(runtime[t], t, k)', k, m)
    <3>1. PICK m \in 0 .. MaxActs : Sits(A, runtime[t], View(runtime[t], t, k), k, m)
      BY DEF Book
    <3>2. m < r.id
      <4>1. Marked(Range(History(t)), k, m)
        BY <3>1 DEF Sits, Top, History
      <4>2. 0 < r.id
        BY <1>1
      <4>. QED
        BY <1>2, <1>4, <4>1, <4>2 DEF Marked
    <3>3. Sits(B, runtime[t], View(runtime[t], t, k), k, m)
      <4>1. B[<<k, m>>] = A[<<k, m>>]
        BY <1>7, <3>2
      <4>. QED
        BY <3>1, <4>1 DEF Sits
    <3>4. CASE t # s
      <4>1. View(runtime[t], t, k)' = View(runtime[t], t, k)
        BY <1>13, <1>15, <3>4 DEF View
      <4>. QED
        BY <1>13, <3>3, <3>4, <4>1
    <3>5. CASE t = s /\ k # l
      <4>1. View(runtime[s], s, k)' = new.canvas[k] /\ View(runtime[s], s, k) = runtime[s].canvas[k]
        BY <1>13, <1>14, <1>15, <3>5 DEF View
      <4>2. Sits(B, new, View(runtime[s], s, k), k, m)
        BY <1>12, <3>3, <3>5
      <4>. QED
        BY <1>12, <1>13, <3>5, <4>1, <4>2
    <3>6. CASE t = s /\ k = l
      <4>1. View(runtime[s], s, l)' = ApplyAfter(seen, r.patches)
        BY <1>11, <1>12, <1>13, <1>14, <1>15 DEF View
      <4>2. r.id \in 0 .. MaxActs
        BY SyncAssumption DEF Records
      <4>. QED
        BY <1>12, <1>13, <3>6, <4>1, <4>2
    <3>. QED
      BY <3>4, <3>5, <3>6
  <2>2. Written(B, All)'
    BY <1>7, <1>16
  <2>. QED
    BY <2>1, <2>2 DEF Book
<1>. QED
  BY <1>16, <1>17, <1>18, <1>19 DEF SyncInv
\* The page at which a session sits is a story of records.
LEMMA PageRead ==
  ASSUME Typed, NEW A, Book(A), NEW s \in Session, NEW l \in Layer,
         NEW n \in 0 .. MaxActs, NEW canvas, Sits(A, runtime[s], canvas, l, n),
         NEW st, st = A[<<l, n>>]
  PROVE  /\ st \in Stories /\ WholeStory(st, l, n) /\ Stacked(runtime[s], l, st)
         /\ \A i \in 1 .. Len(st.line) : st.line[i] \in All
         /\ canvas = st.stage[st.at]
<1>1. <<l, n>> \in Pages
  BY DEF Pages
<1>2. A \in [Pages -> Stories]
  BY DEF Book, Written
<1>3. Marked(All, l, n)
  <2>1. Marked(Range(History(s)), l, n)
    BY DEF Sits, Top, History
  <2>. QED
    BY <2>1, Whereabouts DEF Marked
<1>4. Told(All, st, l, n)
  BY <1>3 DEF Book, Written
<1>. QED
  BY <1>1, <1>2, <1>4 DEF Told, Sits

\* The release of a stroke.
LEMMA CommitKeeps ==
  ASSUME SyncInv, NEW s \in Session, NEW l \in Layer, Commit(s, l)
  PROVE  SyncInv'
<1>0. Typed /\ Numbered /\ Spread /\ Sole /\ Strokes
  BY DEF SyncInv
<1> DEFINE start == stroke[s].start
           ps == CollectPatches(start, runtime[s].canvas[l])
           r == Stroke(minted + 1, s, l, ps)
<1>1. CASE DOMAIN ps = {}
  BY <1>1, EmptyCommitKeeps
<1>2. CASE DOMAIN ps # {}
  <2>1. /\ stroke[s].layers = {l} /\ minted < MaxActs /\ minted' = minted + 1
        /\ runtime' = [runtime EXCEPT ![s] = ApplyActionRecord(runtime[s], r)]
        /\ stroke' = [stroke EXCEPT ![s] = NoStroke]
        /\ bus' = bus /\ published' = published /\ consumed' = consumed
    BY <1>0, <1>2 DEF Commit, Typed
  <2>2. start \in Canvas /\ runtime[s].canvas[l] \in Canvas /\ minted \in Nat
    BY <1>0, SyncAssumption DEF Typed, StrokesInHand, Runtimes
  <2>3. /\ ps \in Patches /\ Starts(ps, start)
        /\ ApplyAfter(start, ps) = ApplyAfter(runtime[s].canvas[l], ps)
    BY <2>2, CollectWhole DEF Starts
  <2>4. PICK p : p = ps
    OBVIOUS
  <2>5. PICK q : q = r
    OBVIOUS
  <2>6. /\ q.kind = "stroke" /\ q.layer = l /\ q.user = s /\ q.id = minted + 1 /\ q.patches = ps
        /\ q \in Records
    <3>1. minted + 1 \in 1 .. MaxActs
      BY <2>1, <2>2, SyncAssumption
    <3> HIDE DEF ps
    <3>. QED
      BY <2>3, <2>5, <3>1 DEF Records, Stroke
  <2>7. Solo(s, l) /\ l \in Works[s]
    BY <1>0, <2>1 DEF Sole, Busy
  <2>8. PICK A : Book(A)
    BY DEF SyncInv
  <2>9. PICK n \in 0 .. MaxActs : Sits(A, runtime[s], View(runtime[s], s, l), l, n)
    BY <2>8 DEF Book
  <2>10. View(runtime[s], s, l) = start
    BY <2>1 DEF View
  <2>11. start = A[<<l, n>>].stage[A[<<l, n>>].at]
    BY <2>9, <2>10 DEF Sits
  <2>12. \E st2 : Moves(A[<<l, n>>], q, st2)
    BY <1>2, <2>3, <2>6, <2>11 DEF Moves, Draws
  <2>13. PICK st2 : Moves(A[<<l, n>>], q, st2)
    BY <2>12
  <2>14. ApplyAfter(runtime[s].canvas[l], q.patches) = ApplyAfter(View(runtime[s], s, l), q.patches)
    BY <2>3, <2>6, <2>10
  <2> HIDE DEF r, ps
  <2>15. runtime' = [runtime EXCEPT ![s] = ApplyActionRecord(runtime[s], q)]
    BY <2>1, <2>5
  <2>16. stroke[s].layers \subseteq {l}
    BY <2>1
  <2>. QED
    BY <1>0, <2>1, <2>6, <2>7, <2>8, <2>9, <2>13, <2>14, <2>15, <2>16, RecordedKeeps
<1>. QED
  BY <1>1, <1>2

\* Between strokes, an undo or redo leaves the stroke as it is.
LEMMA RevertsIdle ==
  ASSUME Typed, Disciplined, NEW s \in Session, NEW l \in Layer, NEW ps,
         stroke[s].layers \subseteq {l}, stroke[s].layers # {} => Midway,
         stroke' = TouchedToo(s, l, ps)
  PROVE  /\ stroke[s].layers = {} /\ stroke' = [stroke EXCEPT ![s] = NoStroke]
         /\ \A rt : View(rt, s, l) = rt.canvas[l]
<1>1. stroke[s].layers = {}
  BY DEF Disciplined
<1>2. stroke[s] = NoStroke /\ stroke \in [Session -> StrokesInHand]
  BY <1>1 DEF Typed
<1>3. l \notin stroke[s].layers
  BY <1>1
<1>4. stroke' = [stroke EXCEPT ![s].touched = stroke[s].touched \cup {}]
  BY <1>2, <1>3 DEF TouchedToo
<1>5. [stroke[s] EXCEPT !.touched = stroke[s].touched \cup {}] = NoStroke
  BY <1>2 DEF NoStroke
<1>6. stroke' = [stroke EXCEPT ![s] = NoStroke]
  BY <1>4, <1>5
<1>. QED
  BY <1>1, <1>3, <1>6 DEF View

\* The top stroke on a layer where a session is alone: its patches are known.
LEMMA StrokeKnown ==
  ASSUME Typed, Numbered, Spread, NEW s \in Session, NEW l \in Layer, Solo(s, l),
         NEW q \in All, q.kind = "stroke", q.layer = l
  PROVE  PatchesOf(runtime[s], q.id) = q.patches /\ q.patches \in Patches
<1>1. q \in Range(History(s)) /\ Apart(Range(History(s)))
  <2>1. q \in Range(History(s))
    BY UpToDate
  <2>2. \A r \in Range(History(s)) : r \in All
    BY Whereabouts
  <2>. QED
    BY <2>1, <2>2 DEF Apart, Numbered
<1>2. runtime[s] \in Runtimes
  BY DEF Typed
<1>3. q \in Records
  BY Whereabouts
<1>. QED
  BY <1>1, <1>2, <1>3, PatchesAre DEF History, Records

\* The undo of the top action of a layer.
LEMMA UndoKeeps ==
  ASSUME SyncInv, Disciplined, NEW s \in Session, NEW l \in Layer, Undo(s, l)
  PROVE  SyncInv'
<1>0. Typed /\ Numbered /\ Spread /\ Sole /\ Strokes
  BY DEF SyncInv
<1> DEFINE rt == runtime[s]
           x == TopApplied(rt, l)
           ps == Inversed(PatchesOf(rt, x))
<1>1. /\ stroke[s].layers \subseteq {l} /\ (stroke[s].layers # {} => Midway)
      /\ Turn(s, l) /\ minted < MaxActs /\ rt.applied[l] # <<>> /\ minted' = minted + 1
      /\ runtime' = [runtime EXCEPT ![s] =
           PushHistoryRecord(UndoTop(rt, l), Revert(minted + 1, s, l, ps, x))]
      /\ stroke' = TouchedToo(s, l, ps)
      /\ bus' = bus /\ published' = published /\ consumed' = consumed
  BY DEF Undo, MayRevert
<1>2. /\ stroke[s].layers = {} /\ stroke' = [stroke EXCEPT ![s] = NoStroke]
      /\ View(rt, s, l) = rt.canvas[l]
  <2> HIDE DEF ps
  <2>. QED
    BY <1>0, <1>1, RevertsIdle
<1>3. Solo(s, l) /\ l \in Works[s]
  BY <1>0, <1>1, TurnSolo
<1>4. PICK A : Book(A)
  BY DEF SyncInv
<1>5. PICK n \in 0 .. MaxActs : Sits(A, rt, View(rt, s, l), l, n)
  BY <1>4 DEF Book
<1>6. PICK st : st = A[<<l, n>>]
  OBVIOUS
<1>7. /\ st \in Stories /\ WholeStory(st, l, n) /\ Stacked(rt, l, st)
      /\ \A i \in 1 .. Len(st.line) : st.line[i] \in All
  BY <1>0, <1>4, <1>5, <1>6, PageRead
<1>8. rt \in Runtimes /\ minted \in Nat /\ rt.canvas[l] \in Canvas
  BY <1>0, SyncAssumption DEF Typed, Runtimes
<1>9. st.at > 0 /\ x = st.line[st.at].id /\ x \in Id
  BY <1>1, <1>7, <1>8, Tops DEF TopApplied
<1>10. PICK q : q = st.line[st.at]
  OBVIOUS
<1>11. q \in All /\ q.kind = "stroke" /\ q.layer = l /\ x = q.id
  <2>1. st.at \in 1 .. Len(st.line)
    BY <1>7, <1>9 DEF Stories, WholeStory
  <2>. QED
    BY <1>7, <1>9, <1>10, <2>1 DEF WholeStory
<1>12. PatchesOf(rt, q.id) = q.patches /\ q.patches \in Patches
  BY <1>0, <1>3, <1>11, StrokeKnown
<1>13. ps \in Patches
  BY <1>8, <1>11, <1>12, PaintWhole
<1>14. PICK r : r = Revert(minted + 1, s, l, ps, x)
  OBVIOUS
<1>15. /\ r.kind = "revert" /\ r.layer = l /\ r.user = s /\ r.id = minted + 1
       /\ r.patches = Inversed(PatchesOf(rt, TopApplied(rt, l))) /\ r.reverts = TopApplied(rt, l)
       /\ r \in Records
  <2>1. minted + 1 \in 1 .. MaxActs
    BY <1>1, <1>8, SyncAssumption
  <2>2. r.patches = ps /\ r.reverts = x
    BY <1>14 DEF Revert
  <2>3. r \in Records
    <3> HIDE DEF x, ps
    <3>. QED
      BY <1>9, <1>13, <1>14, <2>1 DEF Records, Revert, Id
  <2>. QED
    BY <1>14, <2>2, <2>3 DEF Revert
<1>16. PICK st2 : st2 = [line |-> st.line, at |-> st.at - 1, stage |-> st.stage]
  OBVIOUS
<1>17. Moves(st, r, st2) /\ PushHistoryRecord(UndoTop(rt, l), r) = ApplyActionRecord(rt, r)
  <2>1. PatchesOf(rt, st.line[st.at].id) = st.line[st.at].patches
    BY <1>10, <1>12
  <2> HIDE DEF rt
  <2>. QED
    BY <1>1, <1>7, <1>8, <1>15, <1>16, <2>1, UndoIsRecord
<1>18. runtime' = [runtime EXCEPT ![s] = ApplyActionRecord(runtime[s], r)]
  BY <1>1, <1>14, <1>17
<1>19. Moves(A[<<l, n>>], r, st2)
  BY <1>6, <1>17
<1>20. ApplyAfter(runtime[s].canvas[l], r.patches) = ApplyAfter(View(runtime[s], s, l), r.patches)
  BY <1>2
<1>21. minted' = minted + 1 /\ bus' = bus /\ published' = published /\ consumed' = consumed /\ stroke[s].layers \subseteq {l}
  BY <1>1
<1>. QED
  BY <1>0, <1>2, <1>3, <1>4, <1>5, <1>15, <1>18, <1>19, <1>20, <1>21, RecordedKeeps
\* The redo of the top action of a layer.
LEMMA RedoKeeps ==
  ASSUME SyncInv, Disciplined, NEW s \in Session, NEW l \in Layer, Redo(s, l)
  PROVE  SyncInv'
<1>0. Typed /\ Numbered /\ Spread /\ Sole /\ Strokes
  BY DEF SyncInv
<1> DEFINE rt == runtime[s]
           x == TopUndone(rt, l)
           ps == PatchesOf(rt, x)
<1>1. /\ stroke[s].layers \subseteq {l} /\ (stroke[s].layers # {} => Midway)
      /\ Turn(s, l) /\ minted < MaxActs /\ rt.undone[l] # <<>> /\ minted' = minted + 1
      /\ runtime' = [runtime EXCEPT ![s] =
           PushHistoryRecord(RedoTop(rt, l), Revert(minted + 1, s, l, ps, x))]
      /\ stroke' = TouchedToo(s, l, ps)
      /\ bus' = bus /\ published' = published /\ consumed' = consumed
  BY DEF Redo, MayRevert
<1>2. /\ stroke[s].layers = {} /\ stroke' = [stroke EXCEPT ![s] = NoStroke]
      /\ View(rt, s, l) = rt.canvas[l]
  <2> HIDE DEF ps
  <2>. QED
    BY <1>0, <1>1, RevertsIdle
<1>3. Solo(s, l) /\ l \in Works[s]
  BY <1>0, <1>1, TurnSolo
<1>4. PICK A : Book(A)
  BY DEF SyncInv
<1>5. PICK n \in 0 .. MaxActs : Sits(A, rt, View(rt, s, l), l, n)
  BY <1>4 DEF Book
<1>6. PICK st : st = A[<<l, n>>]
  OBVIOUS
<1>7. /\ st \in Stories /\ WholeStory(st, l, n) /\ Stacked(rt, l, st)
      /\ \A i \in 1 .. Len(st.line) : st.line[i] \in All
  BY <1>0, <1>4, <1>5, <1>6, PageRead
<1>8. rt \in Runtimes /\ minted \in Nat /\ rt.canvas[l] \in Canvas
  BY <1>0, SyncAssumption DEF Typed, Runtimes
<1>9. st.at < Len(st.line) /\ x = st.line[st.at + 1].id /\ x \in Id
  BY <1>1, <1>7, <1>8, Tops DEF TopUndone
<1>10. PICK q : q = st.line[st.at + 1]
  OBVIOUS
<1>11. q \in All /\ q.kind = "stroke" /\ q.layer = l /\ x = q.id
  <2>1. st.at + 1 \in 1 .. Len(st.line)
    BY <1>7, <1>9 DEF Stories, WholeStory
  <2>. QED
    BY <1>7, <1>9, <1>10, <2>1 DEF WholeStory
<1>12. PatchesOf(rt, q.id) = q.patches /\ q.patches \in Patches
  BY <1>0, <1>3, <1>11, StrokeKnown
<1>13. ps \in Patches
  BY <1>11, <1>12
<1>14. PICK r : r = Revert(minted + 1, s, l, ps, x)
  OBVIOUS
<1>15. /\ r.kind = "revert" /\ r.layer = l /\ r.user = s /\ r.id = minted + 1
       /\ r.patches = PatchesOf(rt, TopUndone(rt, l)) /\ r.reverts = TopUndone(rt, l)
       /\ r \in Records
  <2>1. minted + 1 \in 1 .. MaxActs
    BY <1>1, <1>8, SyncAssumption
  <2>2. r.patches = ps /\ r.reverts = x
    BY <1>14 DEF Revert
  <2>3. r \in Records
    <3> HIDE DEF x, ps
    <3>. QED
      BY <1>9, <1>13, <1>14, <2>1 DEF Records, Revert, Id
  <2>. QED
    BY <1>14, <2>2, <2>3 DEF Revert
<1>16. PICK st2 : st2 = [line |-> st.line, at |-> st.at + 1, stage |-> st.stage]
  OBVIOUS
<1>17. Moves(st, r, st2) /\ PushHistoryRecord(RedoTop(rt, l), r) = ApplyActionRecord(rt, r)
  <2>1. PatchesOf(rt, st.line[st.at + 1].id) = st.line[st.at + 1].patches
    BY <1>10, <1>12
  <2> HIDE DEF rt
  <2>. QED
    BY <1>1, <1>7, <1>8, <1>15, <1>16, <2>1, RedoIsRecord
<1>18. runtime' = [runtime EXCEPT ![s] = ApplyActionRecord(runtime[s], r)]
  BY <1>1, <1>14, <1>17
<1>19. Moves(A[<<l, n>>], r, st2)
  BY <1>6, <1>17
<1>20. ApplyAfter(runtime[s].canvas[l], r.patches) = ApplyAfter(View(runtime[s], s, l), r.patches)
  BY <1>2
<1>21. minted' = minted + 1 /\ bus' = bus /\ published' = published /\ consumed' = consumed /\ stroke[s].layers \subseteq {l}
  BY <1>1
<1>. QED
  BY <1>0, <1>2, <1>3, <1>4, <1>5, <1>15, <1>18, <1>19, <1>20, <1>21, RecordedKeeps
\* A frame: what is new and own goes into the log, what is new and foreign
\* is read.
LEMMA FrameKeeps ==
  ASSUME SyncInv, NEW s \in Session, Frame(s)
  PROVE  SyncInv'
<1>0. Typed /\ Numbered /\ Spread /\ Sole /\ Strokes
  BY DEF SyncInv
<1>1. /\ bus \in Seq(Records) /\ runtime \in [Session -> Runtimes] /\ runtime[s] \in Runtimes
      /\ History(s) \in Seq(Records) /\ consumed[s] \in Nat /\ Len(History(s)) \in Nat /\ Len(bus) \in Nat
      /\ published \in [Session -> Nat] /\ consumed \in [Session -> Nat]
  BY <1>0 DEF Typed, History, Runtimes
<1>2. PICK U : U = Unpublished(s)
  OBVIOUS
<1>3. U \in Seq(Records) /\ AllBy(U, s)
  BY <1>0, <1>2, UnpublishedFacts DEF Waiting, AllBy
<1>4. PICK L : L = bus \o U
  OBVIOUS
<1>5. Joined(L, bus, U)
  BY <1>1, <1>3, <1>4, Joins
<1>6. PICK F : F = Foreign(s, SubSeq(L, consumed[s] + 1, Len(L)))
  OBVIOUS
<1>7. Fetched(F, s)
  BY <1>0, <1>3, <1>4, <1>6, FrameReads
<1>8. PICK new : new = ApplyAll(runtime[s], F)
  OBVIOUS
<1>9. /\ bus' = L /\ runtime' = [runtime EXCEPT ![s] = new]
      /\ published' = [published EXCEPT ![s] = Len(History(s))]
      /\ consumed' = [consumed EXCEPT ![s] = Len(L)]
      /\ stroke' = stroke /\ minted' = minted
  BY <1>2, <1>4, <1>6, <1>8 DEF Frame, History
<1>10. PICK A : Book(A)
  BY DEF SyncInv
<1>11. Halfway(A, s, F, new, Len(F))
  <2>1. Written(A, All) /\ \A l \in Layer : \E n \in 0 .. MaxActs : Sits(A, runtime[s], View(runtime[s], s, l), l, n)
    BY <1>10 DEF Book
  <2>. QED
    BY <1>0, <1>7, <1>8, <2>1, ReadsAll
<1>12. /\ new \in Runtimes /\ runtime'[s] = new /\ runtime' \in [Session -> Runtimes]
       /\ \A t \in Session : t # s => runtime'[t] = runtime[t]
  BY <1>1, <1>9, <1>11 DEF Halfway
<1>13. PICK K : K = new.actions
  OBVIOUS
<1>14. History(s)' = K /\ \A t \in Session : t # s => History(t)' = History(t)
  BY <1>12, <1>13 DEF History
<1>15. F \in Seq(Records) /\ Len(F) \in Nat
  BY <1>7 DEF Fetched
<1>16. Joined(K, History(s), F)
  <2>1. K \in Seq(Records)
    BY <1>12, <1>13 DEF Runtimes
  <2>2. Len(K) = Len(History(s)) + Len(F)
    BY <1>11, <1>13 DEF Halfway
  <2>3. \A i \in 1 .. Len(History(s)) : K[i] = History(s)[i]
    BY <1>11, <1>13 DEF Halfway
  <2>4. \A j \in 1 .. Len(F) : K[Len(History(s)) + j] = F[j]
    BY <1>11, <1>13 DEF Halfway
  <2>5. /\ \A i \in 1 .. Len(History(s)) : i \in 1 .. Len(K)
        /\ \A j \in 1 .. Len(F) : Len(History(s)) + j \in 1 .. Len(K)
    BY <1>1, <1>15, <2>2
  <2>6. \A i \in 1 .. Len(K) : i \in 1 .. Len(History(s)) \/ \E j \in 1 .. Len(F) : i = Len(History(s)) + j
    <3>1. TAKE i \in 1 .. Len(K)
    <3>2. CASE i <= Len(History(s))
      BY <1>1, <3>2
    <3>3. CASE ~ (i <= Len(History(s)))
      <4>1. i - Len(History(s)) \in 1 .. Len(F) /\ i = Len(History(s)) + (i - Len(History(s)))
        BY <1>1, <1>15, <2>2, <3>3
      <4>. QED
        BY <4>1
    <3>. QED
      BY <3>2, <3>3
  <2>7. Range(K) = Range(History(s)) \cup Range(F)
    <3>1. \A x : x \in Range(K) <=> x \in Range(History(s)) \/ \E j \in 1 .. Len(F) : x = F[j]
      BY <1>11, <1>13 DEF Halfway
    <3>2. \A x : x \in Range(F) <=> \E j \in 1 .. Len(F) : x = F[j]
      BY <1>15 DEF Range
    <3>. QED
      BY <3>1, <3>2
  <2>. QED
    BY <2>1, <2>2, <2>3, <2>4, <2>5, <2>6, <2>7 DEF Joined
<1>17. Numbered' /\ Spread' /\ Sole' /\ All' = All
  <2>1. L = bus' /\ K = History(s)'
    BY <1>9, <1>14
  <2>. QED
    BY <1>0, <1>2, <1>5, <1>7, <1>9, <1>14, <1>16, <2>1, RecordsTravel
<1>18. Typed'
  <2>1. L \in Seq(Records) /\ Len(L) \in Nat /\ Len(bus) <= Len(L)
    BY <1>1, <1>3, <1>5 DEF Joined
  <2>2. Len(History(s)) <= Len(K)
    BY <1>1, <1>15, <1>16 DEF Joined
  <2>3. published' \in [Session -> Nat] /\ consumed' \in [Session -> Nat]
    BY <1>1, <1>9, <2>1
  <2>4. ASSUME NEW t \in Session
        PROVE  published'[t] <= Len(History(t)') /\ consumed'[t] <= Len(L)
    <3>1. CASE t = s
      <4>1. published'[s] = Len(History(s)) /\ consumed'[s] = Len(L) /\ Len(History(s)') = Len(K)
        BY <1>1, <1>9, <1>14
      <4>. QED
        BY <2>1, <2>2, <3>1, <4>1
    <3>2. CASE t # s
      <4>1. published'[t] = published[t] /\ consumed'[t] = consumed[t] /\ History(t)' = History(t)
        BY <1>1, <1>9, <1>14, <3>2
      <4>2. published[t] <= Len(History(t)) /\ consumed[t] <= Len(bus) /\ consumed[t] \in Nat
        BY <1>0, <1>1 DEF Typed
      <4>. QED
        BY <1>1, <2>1, <4>1, <4>2
    <3>. QED
      BY <3>1, <3>2
  <2>. QED
    BY <1>0, <1>9, <1>12, <2>1, <2>3, <2>4 DEF Typed
<1>19. Strokes'
  <2>1. SUFFICES ASSUME NEW t \in Session, NEW k \in stroke[t].layers
                 PROVE  /\ stroke[t].layers = {k}
                        /\ \A d \in Cell \ stroke[t].touched : runtime'[t].canvas[k][d] = stroke[t].start[d]
    BY <1>9 DEF Strokes
  <2>2. runtime'[t].canvas[k] = runtime[t].canvas[k]
    BY <1>11, <1>12 DEF Halfway
  <2>. QED
    BY <1>0, <2>2 DEF Strokes
<1>20. Book(A)'
  <2>1. ASSUME NEW t \in Session, NEW k \in Layer
        PROVE  \E m \in 0 .. MaxActs : Sits(A, runtime'[t], View(runtime[t], t, k)', k, m)
    <3>1. CASE t # s
      <4>1. View(runtime[t], t, k)' = View(runtime[t], t, k)
        BY <1>9, <1>12, <3>1 DEF View
      <4>. QED
        BY <1>10, <1>12, <3>1, <4>1 DEF Book
    <3>2. CASE t = s
      <4>1. View(runtime[s], s, k)' = View(new, s, k)
        BY <1>9, <1>12 DEF View
      <4>. QED
        BY <1>11, <1>12, <3>2, <4>1 DEF Halfway
    <3>. QED
      BY <3>1, <3>2
  <2>2. Written(A, All)'
    BY <1>10, <1>17 DEF Book
  <2>. QED
    BY <2>1, <2>2 DEF Book
<1>. QED
  BY <1>17, <1>18, <1>19, <1>20 DEF SyncInv

\* The first page of every story.
FirstPage == [line |-> <<>>, at |-> 0, stage |-> [n \in Nat |-> Blank]]

\* At the start there are no records and no strokes.
LEMMA SyncStarts ==
  ASSUME SyncInit
  PROVE  SyncInv
<1>1. /\ bus = <<>> /\ runtime = [s \in Session |-> NewRuntime]
      /\ published = [s \in Session |-> 0] /\ consumed = [s \in Session |-> 0]
      /\ stroke = [s \in Session |-> NoStroke] /\ minted = 0
  BY DEF SyncInit
<1>2. Blank \in Canvas
  BY DEF Blank, Canvas, Content
<1>3. NewRuntime \in Runtimes /\ NewRuntime.actions = <<>>
  BY <1>2 DEF NewRuntime, Runtimes
<1>4. NoStroke \in StrokesInHand /\ NoStroke.layers = {}
  BY <1>2 DEF NoStroke, StrokesInHand
<1>5. \A s \in Session : /\ runtime[s] = NewRuntime /\ stroke[s] = NoStroke
                         /\ History(s) = <<>> /\ published[s] = 0 /\ consumed[s] = 0
  BY <1>1, <1>3 DEF History
<1>6. Typed
  BY <1>1, <1>3, <1>4, <1>5, SyncAssumption DEF Typed
<1>7. Range(<<>>) = {}
  BY DEF Range
<1>8. All = {}
  BY <1>1, <1>5, <1>7 DEF All
<1>9. \A s \in Session : Mine(s) = {} /\ Ahead(s) = {} /\ Read(s) = {}
  BY <1>1, <1>5 DEF Mine, Ahead, Read
<1>10. Numbered
  BY <1>1, <1>5, <1>8 DEF Numbered, Apart, Ordered
<1>11. Spread
  BY <1>1, <1>5, <1>7, <1>9 DEF Spread
<1>12. Sole
  BY <1>4, <1>5, <1>9 DEF Sole, Busy, On
<1>13. Strokes
  BY <1>4, <1>5 DEF Strokes
<1>14. PICK A : A = [p \in Pages |-> FirstPage]
  OBVIOUS
<1>15. FirstPage \in Stories /\ \A l \in Layer, n \in Nat : WholeStory(FirstPage, l, n)
  BY <1>2 DEF FirstPage, Stories, WholeStory
<1>16. \A l \in Layer, n \in 0 .. MaxActs : A[<<l, n>>] = FirstPage
  BY <1>14 DEF Pages
<1>17. Written(A, All)
  <2>1. A \in [Pages -> Stories]
    BY <1>14, <1>15
  <2>2. ASSUME NEW l \in Layer, NEW n \in 0 .. MaxActs
        PROVE  Told(All, A[<<l, n>>], l, n)
    BY <1>15, <1>16 DEF Told, FirstPage
  <2>. QED
    BY <1>8, <2>1, <2>2 DEF Written
<1>18. ASSUME NEW s \in Session, NEW l \in Layer
       PROVE  Sits(A, runtime[s], View(runtime[s], s, l), l, 0)
  <2>1. View(runtime[s], s, l) = Blank
    BY <1>4, <1>5 DEF View, NewRuntime
  <2>2. Top(0, Range(runtime[s].actions), l)
    BY <1>3, <1>5, <1>7 DEF Top, Marked
  <2>3. A[<<l, 0>>] = FirstPage
    BY <1>16, SyncAssumption
  <2>4. Stacked(NewRuntime, l, FirstPage)
    BY DEF Stacked, NewRuntime, FirstPage
  <2>5. FirstPage.stage[FirstPage.at] = Blank
    BY DEF FirstPage
  <2>. QED
    BY <1>5, <2>1, <2>2, <2>3, <2>4, <2>5 DEF Sits
<1>19. Book(A)
  <2>1. 0 \in 0 .. MaxActs
    BY SyncAssumption
  <2>. QED
    BY <1>17, <1>18, <2>1 DEF Book
<1>. QED
  BY <1>6, <1>10, <1>11, <1>12, <1>13, <1>19 DEF SyncInv

\* Nothing happens.
LEMMA SyncStutters ==
  ASSUME SyncInv, UNCHANGED syncVars
  PROVE  SyncInv'
<1>1. /\ bus' = bus /\ runtime' = runtime /\ published' = published
      /\ consumed' = consumed /\ stroke' = stroke /\ minted' = minted
  BY DEF syncVars
<1>2. \A t \in Session : History(t)' = History(t) /\ Mine(t)' = Mine(t) /\ Ahead(t)' = Ahead(t) /\ Read(t)' = Read(t)
  BY <1>1 DEF History, Mine, Ahead, Read
<1>3. All' = All
  BY <1>1, <1>2 DEF All
<1>4. Typed' /\ Strokes'
  <2>1. Typed /\ Strokes
    BY DEF SyncInv
  <2>2. Typed'
    BY <1>1, <1>2, <2>1 DEF Typed
  <2>3. Strokes'
    BY <1>1, <2>1 DEF Strokes
  <2>. QED
    BY <2>2, <2>3
<1>5. Numbered' /\ Spread' /\ Sole'
  BY <1>1, <1>2, <1>3 DEF SyncInv, Numbered, Spread, Sole, Busy, Solo
<1>6. PICK A : Book(A)
  BY DEF SyncInv
<1>7. Book(A)'
  BY <1>1, <1>3, <1>6 DEF Book, View
<1>. QED
  BY <1>4, <1>5, <1>7 DEF SyncInv

\* Every step keeps the invariant.
LEMMA SyncKeeps ==
  ASSUME Disciplined, SyncInv, [SyncNext]_syncVars
  PROVE  SyncInv'
<1>1. CASE UNCHANGED syncVars
  BY <1>1, SyncStutters
<1>2. ASSUME NEW s \in Session, Frame(s)
      PROVE  SyncInv'
  BY <1>2, FrameKeeps
<1>3. ASSUME NEW s \in Session, NEW l \in Layer, Commit(s, l)
      PROVE  SyncInv'
  BY <1>3, CommitKeeps
<1>4. ASSUME NEW s \in Session, NEW l \in Layer, Undo(s, l)
      PROVE  SyncInv'
  BY <1>4, UndoKeeps
<1>5. ASSUME NEW s \in Session, NEW l \in Layer, Redo(s, l)
      PROVE  SyncInv'
  BY <1>5, RedoKeeps
<1>6. ASSUME NEW s \in Session, NEW l \in Layer, NEW c \in Cell, NEW v \in Content, Paint(s, l, c, v)
      PROVE  SyncInv'
  BY <1>6, PaintKeeps
<1>. QED
  BY <1>1, <1>2, <1>3, <1>4, <1>5, <1>6 DEF SyncNext

\* The invariant holds throughout.
THEOREM SyncInvariant ==
  ASSUME Disciplined
  PROVE  SyncSpec => []SyncInv
<1>1. SyncInit => SyncInv
  BY SyncStarts
<1>2. SyncInv /\ [SyncNext]_syncVars => SyncInv'
  BY SyncKeeps
<1>. QED
  BY <1>1, <1>2, PTL DEF SyncSpec
-----------------------------------------------------------------------------
(* What follows.                                                           *)

\* The patches under the ids of the story's strokes are theirs.
Known(rt, st) == \A i \in 1 .. Len(st.line) : PatchesOf(rt, st.line[i].id) = st.line[i].patches

\* A session has the strokes of the page at which it sits.
LEMMA LineKnown ==
  ASSUME Typed, Numbered, Spread, Sole, NEW A, Book(A), NEW s \in Session, NEW l \in Layer,
         NEW n \in 0 .. MaxActs, NEW canvas, Sits(A, runtime[s], canvas, l, n),
         NEW st, st = A[<<l, n>>]
  PROVE  Known(runtime[s], st)
<1>0. SUFFICES ASSUME NEW i \in 1 .. Len(st.line)
               PROVE  PatchesOf(runtime[s], st.line[i].id) = st.line[i].patches
  BY DEF Known
<1>1. /\ st \in Stories /\ WholeStory(st, l, n) /\ \A j \in 1 .. Len(st.line) : st.line[j] \in All
  BY PageRead
<1>2. PICK q : q = st.line[i]
  OBVIOUS
<1>3. q \in All /\ q.kind = "stroke" /\ q.layer = l /\ q.id <= n
  BY <1>1, <1>2 DEF WholeStory
<1>4. \A r \in Range(History(s)) : r \in All
  BY Whereabouts
<1>5. q.id \in Nat /\ q.id > 0 /\ q \in Records
  BY <1>3, Whereabouts
<1>6. PICK r \in Range(History(s)) : r.layer = l /\ r.id = n
  <2>1. Marked(Range(History(s)), l, n)
    BY DEF Sits, Top, History
  <2>2. n # 0
    BY <1>3, <1>5
  <2>. QED
    BY <2>1, <2>2 DEF Marked
<1>7. q \in Range(History(s))
  <2>1. CASE q.id < n
    BY <1>3, <1>6, <2>1, HistoryClosed
  <2>2. CASE q.id = n
    BY <1>3, <1>4, <1>6, <2>2 DEF Numbered, Apart
  <2>. QED
    BY <1>3, <1>5, <2>1, <2>2
<1>8. Apart(Range(History(s)))
  BY <1>4 DEF Numbered, Apart
<1>9. runtime[s] \in Runtimes
  BY DEF Typed
<1>. QED
  BY <1>2, <1>3, <1>7, <1>8, <1>9, PatchesAre DEF History

\* Painting the applied stack gives the canvas at the story's place.
LEMMA StackPainted ==
  ASSUME NEW rt, NEW l \in Layer, NEW n \in Nat, NEW st \in Stories, WholeStory(st, l, n), Stacked(rt, l, st),
         Known(rt, st)
  PROVE  Painted(rt, l) = st.stage[st.at]
<1> DEFINE N == Len(rt.applied[l])
           Is(f) == f = [k \in 0 .. N |-> IF k = 0 THEN Blank
                                          ELSE ApplyAfter(f[k - 1], PatchesOf(rt, rt.applied[l][k]))]
           g == CHOOSE f : Is(f)
<1>1. N = st.at /\ N \in Nat /\ st.at <= Len(st.line) /\ Len(st.line) \in Nat
  BY DEF Stacked, WholeStory, Stories
<1>2. Painted(rt, l) = g[N]
  BY Zenon DEF Painted
<1>3. \A k \in 1 .. N : st.stage[k] = ApplyAfter(st.stage[k - 1], PatchesOf(rt, rt.applied[l][k]))
  <2>1. TAKE k \in 1 .. N
  <2>2. k \in 1 .. st.at /\ k \in 1 .. Len(st.line)
    BY <1>1
  <2>3. PatchesOf(rt, rt.applied[l][k]) = st.line[k].patches
    BY <2>2 DEF Stacked, Known
  <2>. QED
    BY <2>2, <2>3 DEF WholeStory
<1>4. PICK f : f = [k \in 0 .. N |-> st.stage[k]]
  OBVIOUS
<1>5. f[0] = Blank /\ \A k \in 1 .. N : f[k] = ApplyAfter(f[k - 1], PatchesOf(rt, rt.applied[l][k]))
  <2>1. 0 \in 0 .. N /\ st.stage[0] = Blank
    BY <1>1 DEF WholeStory
  <2>2. \A k \in 1 .. N : k \in 0 .. N /\ k - 1 \in 0 .. N
    BY <1>1
  <2> HIDE DEF N
  <2>. QED
    BY <1>3, <1>4, <2>1, <2>2
<1>6. Is(f)
  <2>1. \A k \in 0 .. N : k # 0 => k \in 1 .. N
    BY <1>1
  <2> HIDE DEF N
  <2>2. f = [k \in 0 .. N |-> f[k]]
    BY <1>4
  <2>. QED
    BY <1>5, <2>1, <2>2
<1>7. Is(g)
  <2> HIDE DEF Is
  <2>. QED
    BY <1>6
<1> HIDE DEF g
<1>8. g[0] = Blank /\ \A k \in 1 .. N : g[k] = ApplyAfter(g[k - 1], PatchesOf(rt, rt.applied[l][k]))
  <2>1. \A k \in 0 .. N : g[k] = IF k = 0 THEN Blank ELSE ApplyAfter(g[k - 1], PatchesOf(rt, rt.applied[l][k]))
    BY <1>7
  <2>2. 0 \in 0 .. N /\ \A k \in 1 .. N : k \in 0 .. N /\ k # 0
    BY <1>1
  <2>. QED
    BY <2>1, <2>2
<1> DEFINE Good == {k \in 0 .. N : g[k] = st.stage[k]}
<1>9. 0 \in Good
  BY <1>1, <1>8 DEF WholeStory
<1>10. ASSUME NEW k \in 0 .. N, k < N, k \in Good
       PROVE  k + 1 \in Good
  <2>1. k + 1 \in 1 .. N /\ k + 1 \in 0 .. N /\ (k + 1) - 1 = k
    BY <1>1, <1>10
  <2>2. g[k] = st.stage[k]
    BY <1>10
  <2>3. g[k + 1] = st.stage[k + 1]
    <3> HIDE DEF N
    <3>. QED
      BY <1>3, <1>8, <2>1, <2>2
  <2>. QED
    BY <2>1, <2>3
<1>11. N \in Good
  <2> HIDE DEF Good
  <2>1. \A k \in 0 .. N : k \in Good
    BY <1>1, <1>9, <1>10, Reaches
  <2>. QED
    BY <1>1, <2>1
<1>. QED
  BY <1>1, <1>2, <1>11

\* The two stacks hold each stroke of the story once.
LEMMA StacksApart ==
  ASSUME NEW rt \in Runtimes, NEW l \in Layer, NEW n \in Nat,
         NEW st \in Stories, WholeStory(st, l, n), Stacked(rt, l, st)
  PROVE  OnceOnStacks(rt, l)
<1> DEFINE a == rt.applied[l]
           u == rt.undone[l]
           N == Len(st.line)
<1>1. a \in Seq(Id) /\ u \in Seq(Id)
  BY DEF Runtimes
<1>2. /\ Len(a) = st.at /\ Len(u) = N - st.at /\ st.at <= N /\ N \in Nat /\ st.at \in Nat
      /\ \A i \in 1 .. st.at : a[i] = st.line[i].id
      /\ \A j \in 1 .. N - st.at : u[j] = st.line[N - j + 1].id
      /\ \A i, j \in 1 .. N : st.line[i].id = st.line[j].id => i = j
  BY DEF Stacked, WholeStory, Stories
<1>3. PICK both : both = a \o u
  OBVIOUS
<1> HIDE DEF a, u
<1> DEFINE Place(i) == IF i <= st.at THEN i ELSE N - (i - st.at) + 1
<1>4. DOMAIN both = 1 .. N /\ \A i \in 1 .. N : Place(i) \in 1 .. N /\ both[i] = st.line[Place(i)].id
  <2>1. Len(both) = N /\ DOMAIN both = 1 .. N
    <3>1. both \in Seq(Id) /\ Len(both) = Len(a) + Len(u)
      BY <1>1, <1>3, ConcatProperties
    <3>2. Len(a) + Len(u) = N
      BY <1>2
    <3>. QED
      BY <3>1, <3>2
  <2>2. ASSUME NEW i \in 1 .. N
        PROVE  Place(i) \in 1 .. N /\ both[i] = st.line[Place(i)].id
    <3>1. CASE i <= st.at
      <4>1. i \in 1 .. Len(a) /\ i \in 1 .. st.at
        BY <1>2, <3>1
      <4>2. both[i] = a[i]
        BY <1>1, <1>3, <4>1, ConcatProperties
      <4>. QED
        BY <1>2, <3>1, <4>1, <4>2
    <3>2. CASE ~ (i <= st.at)
      <4>1. i - st.at \in 1 .. N - st.at /\ i > Len(a) /\ i \in 1 .. Len(a) + Len(u)
        BY <1>2, <3>2
      <4>2. both[i] = u[i - Len(a)]
        BY <1>1, <1>3, <4>1, ConcatProperties
      <4>3. u[i - st.at] = st.line[N - (i - st.at) + 1].id
        BY <1>2, <4>1
      <4>4. N - (i - st.at) + 1 \in 1 .. N
        BY <1>2, <3>2
      <4>. QED
        BY <1>2, <3>2, <4>2, <4>3, <4>4
    <3>. QED
      BY <3>1, <3>2
  <2>. QED
    BY <2>1, <2>2
<1>5. \A i, j \in 1 .. N : Place(i) = Place(j) => i = j
  <2>1. N \in Nat /\ st.at \in Nat /\ st.at <= N
    BY <1>2
  <2> HIDE DEF N
  <2>. QED
    BY <2>1, PlacesDiffer, Zenon
<1>6. \A i, j \in 1 .. N : both[i] = both[j] => i = j
  <2>1. \A i, j \in 1 .. N : st.line[i].id = st.line[j].id => i = j
    BY <1>2
  <2> HIDE DEF Place, N
  <2>. QED
    BY <1>4, <1>5, <2>1
<1>. QED
  BY <1>3, <1>4, <1>6 DEF OnceOnStacks, a, u

\* The canvas is what the applied stack paints.
LEMMA InvCanvasIsStack ==
  ASSUME SyncInv
  PROVE  CanvasIsStack
<1>0. Typed /\ Numbered /\ Spread /\ Sole
  BY DEF SyncInv
<1>1. SyncTypeOK
  <2>1. \A i \in DOMAIN bus : bus[i] \in Records
    BY <1>0 DEF Typed
  <2>2. ASSUME NEW s \in Session
        PROVE  /\ published[s] \in 0 .. Len(runtime[s].actions) /\ consumed[s] \in 0 .. Len(bus)
               /\ runtime[s].canvas \in [Layer -> [Cell -> Content]]
               /\ stroke[s].layers = {} => stroke[s] = NoStroke
    <3>1. runtime[s] \in Runtimes /\ Len(History(s)) \in Nat /\ Len(bus) \in Nat
          /\ published[s] \in Nat /\ consumed[s] \in Nat
          /\ published[s] <= Len(History(s)) /\ consumed[s] <= Len(bus)
      BY <1>0 DEF Typed, Runtimes, History
    <3>2. runtime[s].canvas \in [Layer -> [Cell -> Content]]
      BY <3>1 DEF Runtimes, Canvas
    <3>3. stroke[s].layers = {} => stroke[s] = NoStroke
      BY <1>0 DEF Typed
    <3>4. published[s] \in 0 .. Len(History(s)) /\ consumed[s] \in 0 .. Len(bus)
      BY <3>1
    <3>. QED
      BY <3>2, <3>3, <3>4 DEF History
  <2>. QED
    BY <1>0, <2>1, <2>2 DEF SyncTypeOK, Typed
<1>2. PICK A : Book(A)
  BY DEF SyncInv
<1>3. ASSUME NEW s \in Session, NEW l \in Layer
      PROVE  /\ OnceOnStacks(runtime[s], l)
             /\ l \notin stroke[s].layers => runtime[s].canvas[l] = Painted(runtime[s], l)
  <2>1. PICK n \in 0 .. MaxActs : Sits(A, runtime[s], View(runtime[s], s, l), l, n)
    BY <1>2 DEF Book
  <2>2. PICK st : st = A[<<l, n>>]
    OBVIOUS
  <2>3. PICK canvas : canvas = View(runtime[s], s, l)
    OBVIOUS
  <2>4. Sits(A, runtime[s], canvas, l, n)
    BY <2>1, <2>3
  <2>5. st \in Stories /\ WholeStory(st, l, n) /\ Stacked(runtime[s], l, st) /\ canvas = st.stage[st.at]
    <3>1. st \in Stories /\ WholeStory(st, l, n)
      BY <1>0, <1>2, <2>2, <2>4, PageRead
    <3>. QED
      BY <2>2, <2>4, <3>1 DEF Sits
  <2>6. Known(runtime[s], st)
    BY <1>0, <1>2, <2>2, <2>4, LineKnown
  <2>7. runtime[s] \in Runtimes /\ n \in Nat
    BY <1>0 DEF Typed
  <2>8. OnceOnStacks(runtime[s], l)
    BY <2>5, <2>7, StacksApart
  <2>9. PICK rt : rt = runtime[s]
    OBVIOUS
  <2>10. Painted(rt, l) = st.stage[st.at]
    BY <2>5, <2>6, <2>7, <2>9, StackPainted
  <2>. QED
    BY <2>3, <2>5, <2>8, <2>9, <2>10 DEF View
<1>. QED
  BY <1>1, <1>3 DEF CanvasIsStack

\* An idle session has the whole log, and nothing else.
LEMMA IdleHasAll ==
  ASSUME Typed, Spread, NEW s \in Session, Idle(s)
  PROVE  Range(History(s)) = Range(bus)
<1>1. Unpublished(s) = <<>> /\ Unread(s) = <<>>
  BY DEF Idle
<1>2. Mine(s) = {}
  <2>1. Waiting(<<>>, s)
    BY <1>1, UnpublishedFacts
  <2>. QED
    BY <2>1 DEF Waiting
<1>3. Ahead(s) = {}
  <2>1. bus \o <<>> = bus /\ <<>> \in Seq(Records) /\ AllBy(<<>>, s)
    BY DEF Typed, AllBy
  <2>2. <<>> = Foreign(s, SubSeq(bus \o <<>>, consumed[s] + 1, Len(bus \o <<>>)))
    BY <1>1, <2>1 DEF Unread
  <2>3. Fetched(<<>>, s)
    BY <2>1, <2>2, FrameReads
  <2>4. \A r \in Ahead(s) : r.user = s
    BY <2>3 DEF Fetched
  <2>5. \A r \in Ahead(s) : r.user # s
    BY DEF Spread
  <2>. QED
    BY <2>4, <2>5
<1>4. Range(History(s)) = Read(s)
  BY <1>2 DEF Spread
<1>5. /\ \A r \in Range(bus) : r \in Read(s) \/ r \in Ahead(s)
      /\ \A r \in Read(s) : r \in Range(bus)
  BY Whereabouts
<1>. QED
  BY <1>3, <1>4, <1>5

\* Two runtimes at one page have the same stacks.
LEMMA SamePage ==
  ASSUME NEW p \in Runtimes, NEW q \in Runtimes, NEW l \in Layer, NEW st \in Stories,
         Stacked(p, l, st), Stacked(q, l, st)
  PROVE  p.applied[l] = q.applied[l] /\ p.undone[l] = q.undone[l]
<1>1. p.applied[l] \in Seq(Id) /\ p.undone[l] \in Seq(Id) /\ q.applied[l] \in Seq(Id) /\ q.undone[l] \in Seq(Id)
  BY DEF Runtimes
<1>2. /\ Len(p.applied[l]) = Len(q.applied[l])
      /\ \A i \in 1 .. Len(p.applied[l]) : p.applied[l][i] = q.applied[l][i]
  BY DEF Stacked
<1>3. /\ Len(p.undone[l]) = Len(q.undone[l])
      /\ \A i \in 1 .. Len(p.undone[l]) : p.undone[l][i] = q.undone[l][i]
  BY DEF Stacked
<1>4. \A a, b \in Seq(Id) : Len(a) = Len(b) /\ (\A i \in 1 .. Len(a) : a[i] = b[i]) => a = b
  OBVIOUS
<1>. QED
  BY <1>1, <1>2, <1>3, <1>4

\* Idle sessions are on the same pages.
LEMMA InvConverge ==
  ASSUME SyncInv
  PROVE  Converge
<1>0. Typed /\ Numbered /\ Spread /\ Sole
  BY DEF SyncInv
<1>1. PICK A : Book(A)
  BY DEF SyncInv
<1>2. SUFFICES ASSUME NEW s \in Session, NEW t \in Session, Idle(s), Idle(t)
               PROVE  /\ runtime[s].canvas = runtime[t].canvas
                      /\ runtime[s].applied = runtime[t].applied
                      /\ runtime[s].undone = runtime[t].undone
  BY DEF Converge
<1>3. Range(History(s)) = Range(History(t))
  BY <1>0, <1>2, IdleHasAll
<1>4. runtime[s] \in Runtimes /\ runtime[t] \in Runtimes
  BY <1>0 DEF Typed
<1>5. ASSUME NEW l \in Layer
      PROVE  /\ runtime[s].canvas[l] = runtime[t].canvas[l]
             /\ runtime[s].applied[l] = runtime[t].applied[l]
             /\ runtime[s].undone[l] = runtime[t].undone[l]
  <2>1. View(runtime[s], s, l) = runtime[s].canvas[l] /\ View(runtime[t], t, l) = runtime[t].canvas[l]
    BY <1>2 DEF Idle, NoStroke, View
  <2>2. PICK n \in 0 .. MaxActs : Sits(A, runtime[s], runtime[s].canvas[l], l, n)
    BY <1>1, <2>1 DEF Book
  <2>3. PICK m \in 0 .. MaxActs : Sits(A, runtime[t], runtime[t].canvas[l], l, m)
    BY <1>1, <2>1 DEF Book
  <2>4. n = m
    <3>1. PICK T : T = Range(History(s))
      OBVIOUS
    <3>2. Top(n, T, l) /\ Top(m, T, l)
      BY <1>3, <2>2, <2>3, <3>1 DEF Sits, History
    <3>3. \A r \in T : r.id \in Nat /\ r.id > 0
      BY <1>0, <3>1, Whereabouts
    <3>. QED
      BY <3>2, <3>3 DEF Top, Marked
  <2>5. PICK st : st = A[<<l, n>>]
    OBVIOUS
  <2>6. /\ Stacked(runtime[s], l, st) /\ runtime[s].canvas[l] = st.stage[st.at]
        /\ Stacked(runtime[t], l, st) /\ runtime[t].canvas[l] = st.stage[st.at]
    BY <2>2, <2>3, <2>4, <2>5 DEF Sits
  <2>7. st \in Stories
    BY <1>1, <2>5 DEF Book, Written, Pages
  <2>. QED
    BY <1>4, <2>6, <2>7, SamePage
<1>6. /\ runtime[s].canvas = [l \in Layer |-> runtime[s].canvas[l]]
      /\ runtime[t].canvas = [l \in Layer |-> runtime[t].canvas[l]]
      /\ runtime[s].applied = [l \in Layer |-> runtime[s].applied[l]]
      /\ runtime[t].applied = [l \in Layer |-> runtime[t].applied[l]]
      /\ runtime[s].undone = [l \in Layer |-> runtime[s].undone[l]]
      /\ runtime[t].undone = [l \in Layer |-> runtime[t].undone[l]]
  BY <1>4 DEF Runtimes
<1>. QED
  BY <1>5, <1>6

\* The step of StrokeIsOwn.
OwnStep ==
  \A s \in Session :
    LET new == runtime'[s].actions[Len(runtime'[s].actions)] IN
    (stroke[s] # NoStroke /\ stroke'[s] = NoStroke /\ minted' # minted)
      => DOMAIN new.patches \subseteq stroke[s].touched

\* The record of a stroke is on the cells that the stroke touched.
LEMMA InvOwnStep ==
  ASSUME Disciplined, SyncInv, [SyncNext]_syncVars
  PROVE  OwnStep
<1>0. Typed /\ Strokes
  BY DEF SyncInv
<1>1. SUFFICES ASSUME NEW s \in Session, stroke[s] # NoStroke, stroke'[s] = NoStroke, minted' # minted
               PROVE  DOMAIN runtime'[s].actions[Len(runtime'[s].actions)].patches \subseteq stroke[s].touched
  BY DEF OwnStep
<1>2. /\ stroke \in [Session -> StrokesInHand] /\ runtime \in [Session -> Runtimes]
      /\ minted \in Nat /\ runtime[s] \in Runtimes /\ stroke[s].layers # {}
  <2>1. stroke[s].layers = {} => stroke[s] = NoStroke
    BY <1>0 DEF Typed
  <2>2. stroke \in [Session -> StrokesInHand] /\ runtime \in [Session -> Runtimes] /\ minted \in Nat
    BY <1>0, SyncAssumption DEF Typed
  <2>. QED
    BY <1>1, <2>1, <2>2
<1>3. CASE UNCHANGED syncVars
  BY <1>1, <1>3 DEF syncVars
<1>4. ASSUME NEW t \in Session, Frame(t)
      PROVE  FALSE
  BY <1>1, <1>4 DEF Frame
<1>5. ASSUME NEW t \in Session, NEW l \in Layer, NEW c \in Cell, NEW v \in Content, Paint(t, l, c, v)
      PROVE  FALSE
  BY <1>1, <1>5 DEF Paint
<1>6. ASSUME NEW t \in Session, NEW l \in Layer, NEW ps,
             stroke[t].layers \subseteq {l}, stroke[t].layers # {} => Midway, stroke' = TouchedToo(t, l, ps)
      PROVE  FALSE
  <2>1. stroke[t].layers = {} /\ stroke' = [stroke EXCEPT ![t] = NoStroke]
    BY <1>0, <1>6, RevertsIdle
  <2>2. t # s
    BY <1>2, <2>1
  <2>. QED
    BY <1>1, <1>2, <2>1, <2>2
<1>7. ASSUME NEW t \in Session, NEW l \in Layer, Undo(t, l) \/ Redo(t, l)
      PROVE  FALSE
  <2>1. stroke[t].layers \subseteq {l} /\ (stroke[t].layers # {} => Midway) /\ \E ps : stroke' = TouchedToo(t, l, ps)
    BY <1>7 DEF Undo, Redo, MayRevert
  <2>. QED
    BY <1>6, <2>1
<1>8. ASSUME NEW t \in Session, NEW l \in Layer, Commit(t, l)
      PROVE  DOMAIN runtime'[s].actions[Len(runtime'[s].actions)].patches \subseteq stroke[s].touched
  <2>1. stroke' = [stroke EXCEPT ![t] = NoStroke]
    BY <1>8 DEF Commit
  <2>2. t = s
    BY <1>1, <1>2, <2>1
  <2>3. PICK ps : ps = CollectPatches(stroke[s].start, runtime[s].canvas[l])
    OBVIOUS
  <2>4. PICK r : r = Stroke(minted + 1, s, l, ps)
    OBVIOUS
  <2>5. /\ stroke[s].layers = {l} /\ minted < MaxActs
        /\ runtime' = [runtime EXCEPT ![s] = ApplyActionRecord(runtime[s], r)]
    BY <1>1, <1>2, <1>8, <2>2, <2>3, <2>4 DEF Commit
  <2>6. stroke[s].start \in Canvas /\ runtime[s].canvas[l] \in Canvas
    BY <1>2 DEF StrokesInHand, Runtimes
  <2>7. ps \in Patches /\ DOMAIN ps = {c \in Cell : stroke[s].start[c] # runtime[s].canvas[l][c]}
    BY <2>3, <2>6, CollectWhole
  <2>8. DOMAIN ps \subseteq stroke[s].touched
    BY <1>0, <2>5, <2>7 DEF Strokes
  <2>9. r.patches = ps
    BY <2>4 DEF Stroke
  <2>10. r \in Records
    <3>1. minted + 1 \in 1 .. MaxActs
      BY <1>2, <2>5, SyncAssumption
    <3>. QED
      BY <2>4, <2>7, <3>1 DEF Records, Stroke
  <2>11. PICK q : q = runtime[s].actions
    OBVIOUS
  <2>12. PICK K : K = Append(q, r)
    OBVIOUS
  <2>13. runtime'[s].actions = K
    <3>1. runtime'[s] = ApplyActionRecord(runtime[s], r)
      BY <1>2, <2>5
    <3>2. ApplyActionRecord(runtime[s], r).actions = Append(runtime[s].actions, r)
      BY <1>2, <2>10, ApplyWhole
    <3>. QED
      BY <2>11, <2>12, <3>1, <3>2
  <2>14. q \in Seq(Records)
    BY <1>2, <2>11 DEF Runtimes
  <2>15. K[Len(K)] = r
    BY <2>10, <2>12, <2>14, OneMore
  <2>. QED
    BY <2>8, <2>9, <2>13, <2>15
<1>. QED
  BY <1>3, <1>4, <1>5, <1>7, <1>8 DEF SyncNext

\* A layer with several users is painted in turns, and undo waits for the end
\* of the stroke: then idle sessions hold the same document.
THEOREM ConvergeCorrect ==
  ASSUME Disciplined
  PROVE  SyncSpec => []Converge
<1>1. SyncInv => Converge
  BY InvConverge
<1>. QED
  BY <1>1, SyncInvariant, PTL

\* Then a canvas is what its applied stack paints, in every state.
THEOREM CanvasIsStackCorrect ==
  ASSUME Disciplined
  PROVE  SyncSpec => []CanvasIsStack
<1>1. SyncInv => CanvasIsStack
  BY InvCanvasIsStack
<1>. QED
  BY <1>1, SyncInvariant, PTL

\* Then a stroke records what its user did, and nothing else.
THEOREM StrokeIsOwnCorrect ==
  ASSUME Disciplined
  PROVE  SyncSpec => StrokeIsOwn
<1>1. SyncInv /\ [SyncNext]_syncVars => [OwnStep]_syncVars
  BY InvOwnStep
<1>2. SyncSpec => [][OwnStep]_syncVars
  BY <1>1, SyncInvariant, PTL DEF SyncSpec
<1>. QED
  BY <1>2 DEF StrokeIsOwn, OwnStep
=============================================================================
