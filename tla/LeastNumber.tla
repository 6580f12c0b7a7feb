---------------------------- MODULE LeastNumber ----------------------------
(***************************************************************************)
(* The least element of a set of numbers: what the proofs about recursive  *)
(* functions use in place of induction.  A claim about every n is proved   *)
(* by taking the least n it fails for.  With it, how sequences are put     *)
(* together, two, three or a sequence of them.                             *)
(***************************************************************************)
EXTENDS Naturals, WellFoundedInduction, SequenceTheorems, TLAPS

\* Three sequences one after the other, whichever two are put together first.
InRow(S, a, b, c) ==
  /\ a \o b \in Seq(S) /\ b \o c \in Seq(S) /\ a \o (b \o c) \in Seq(S)
  /\ (a \o b) \o c = a \o (b \o c)

\* A sequence followed by one more element.
AtEnd(S, q, m) ==
  <<m>> \in Seq(S) /\ Append(q, m) \in Seq(S) /\ Append(q, m) = q \o <<m>>

\* Three sequences can be put together in either order.
LEMMA InARow ==
  ASSUME NEW S, NEW a \in Seq(S), NEW b \in Seq(S), NEW c \in Seq(S)
  PROVE  InRow(S, a, b, c)
<1>1. a \o b \in Seq(S) /\ b \o c \in Seq(S)
  BY ConcatProperties, Zenon
<1>2. a \o (b \o c) \in Seq(S)
  BY <1>1, ConcatProperties, Zenon
<1>3. (a \o b) \o c = a \o (b \o c)
  BY ConcatAssociative
<1>. QED
  BY <1>1, <1>2, <1>3, Zenon DEF InRow

\* To append an element is to put the sequence of it alone behind.
LEMMA OneAtEnd ==
  ASSUME NEW S, NEW q \in Seq(S), NEW m \in S
  PROVE  AtEnd(S, q, m)
<1>1. <<m>> \in Seq(S) /\ Append(q, m) \in Seq(S)
  OBVIOUS
<1>2. Append(q, m) = q \o <<m>>
  BY AppendIsConcat, Zenon
<1>. QED
  BY <1>1, <1>2, Zenon DEF AtEnd

\* Every set of natural numbers that has an element has a least one.
THEOREM LeastExists ==
  ASSUME NEW T \in SUBSET Nat, T # {}
  PROVE  \E n \in T : \A m \in T : n <= m
<1>1. PICK n \in T : \A m \in T : <<m, n>> \notin OpToRel(<, Nat)
  BY WFMin, NatLessThanWellFounded, Zenon
<1>2. \A m \in T : ~ (m < n)
  BY <1>1, Zenon DEF OpToRel
<1>. QED
  BY <1>2

\* A set of numbers that holds 0 and, with every number below k, the next
\* one, holds all the numbers up to k.
THEOREM Reaches ==
  ASSUME NEW k \in Nat, NEW G, 0 \in G, \A n \in 0 .. k : n < k /\ n \in G => n + 1 \in G
  PROVE  \A n \in 0 .. k : n \in G
<1> DEFINE Bad == {n \in 0 .. k : n \notin G}
<1>1. SUFFICES ASSUME Bad # {}
               PROVE  FALSE
  OBVIOUS
<1>2. PICK n \in Bad : \A m \in Bad : n <= m
  <2>1. Bad \in SUBSET Nat
    OBVIOUS
  <2> HIDE DEF Bad
  <2>. QED
    BY <1>1, <2>1, LeastExists
<1>3. n \in 0 .. k /\ n \notin G /\ n # 0
  BY <1>2
<1>4. n - 1 \in 0 .. k /\ n - 1 < k /\ n - 1 \in G
  BY <1>2, <1>3
<1>5. (n - 1) + 1 \in G
  BY <1>4
<1>. QED
  BY <1>3, <1>5

\* f starts at a, and each value is what G makes of the one before.
Iterates(f, a, G, N) == f[0] = a /\ \A n \in 1 .. N : f[n] = G[<<f[n - 1], n>>]

\* A step from the values of a set to values of that set, taken N times from
\* one of them, gives a function: what recursion over a sequence defines.
THEOREM RecursionExists ==
  ASSUME NEW V, NEW N \in Nat, NEW a \in V, NEW G \in [V \X (1 .. N) -> V]
  PROVE  \E f \in [0 .. N -> V] : Iterates(f, a, G, N)
<1> DEFINE Some(k) == \E f \in [0 .. k -> V] :
                        f[0] = a /\ \A n \in 1 .. k : f[n] = G[<<f[n - 1], n>>]
           Good == {k \in 0 .. N : Some(k)}
<1>1. Some(0)
  <2>1. [n \in 0 .. 0 |-> a] \in [0 .. 0 -> V] /\ [n \in 0 .. 0 |-> a][0] = a
    OBVIOUS
  <2>2. \A n \in 1 .. 0 : FALSE
    OBVIOUS
  <2>. QED
    BY <2>1, <2>2
<1>2. ASSUME NEW k \in 0 .. N, k < N, Some(k)
      PROVE  Some(k + 1)
  <2>1. PICK f \in [0 .. k -> V] : f[0] = a /\ \A n \in 1 .. k : f[n] = G[<<f[n - 1], n>>]
    BY <1>2
  <2> DEFINE v == G[<<f[k], k + 1>>]
             g == [n \in 0 .. k + 1 |-> IF n = k + 1 THEN v ELSE f[n]]
  <2>2. v \in V
    <3>1. f[k] \in V /\ k + 1 \in 1 .. N
      BY <1>2, <2>1
    <3>. QED
      BY <3>1
  <2>3. /\ g \in [0 .. k + 1 -> V] /\ g[k + 1] = v
        /\ \A n \in 0 .. k : g[n] = f[n]
    BY <2>1, <2>2
  <2> HIDE DEF g
  <2>4. ASSUME NEW n \in 1 .. k + 1
        PROVE  g[n] = G[<<g[n - 1], n>>]
    <3>1. n - 1 \in 0 .. k /\ g[n - 1] = f[n - 1]
      BY <2>3
    <3>2. CASE n = k + 1
      BY <2>3, <3>1, <3>2
    <3>3. CASE n # k + 1
      <4>1. n \in 1 .. k /\ n \in 0 .. k
        BY <3>3
      <4>. QED
        BY <2>1, <2>3, <3>1, <4>1
    <3>. QED
      BY <3>2, <3>3
  <2>5. g[0] = a
    BY <2>1, <2>3
  <2>. QED
    BY <2>3, <2>4, <2>5
<1>3. 0 \in Good /\ \A n \in 0 .. N : n < N /\ n \in Good => n + 1 \in Good
  <2>1. \A n \in 0 .. N : n < N => n + 1 \in 0 .. N
    OBVIOUS
  <2> HIDE DEF Some
  <2>. QED
    BY <1>1, <1>2, <2>1
<1>4. Some(N)
  <2> HIDE DEF Good
  <2>1. \A n \in 0 .. N : n \in Good
    BY <1>3, Reaches
  <2>. QED
    BY <2>1 DEF Good
<1>. QED
  BY <1>4 DEF Iterates

-----------------------------------------------------------------------------
(* Sequences of sequences.                                                 *)

\* The sequences of F, one after the other.
Flat(F) ==
  LET upTo[i \in 0 .. Len(F)] == IF i = 0 THEN <<>> ELSE upTo[i - 1] \o F[i]
  IN  upTo[Len(F)]

\* Flat, one sequence at a time.
Strung(g, F) == /\ g[0] = <<>>
                /\ \A i \in 1 .. Len(F) : g[i] = g[i - 1] \o F[i]
                /\ Flat(F) = g[Len(F)]

\* The recursive definition in Flat defines a function.
LEMMA FlatIs ==
  ASSUME NEW X, NEW F \in Seq(Seq(X))
  PROVE  \E g \in [0 .. Len(F) -> Seq(X)] : Strung(g, F)
<1> DEFINE N == Len(F)
           V == Seq(X)
           G == [p \in V \X (1 .. N) |-> p[1] \o F[p[2]]]
           Is(f) == f = [i \in 0 .. N |-> IF i = 0 THEN <<>> ELSE f[i - 1] \o F[i]]
           g == CHOOSE f : Is(f)
<1>1. N \in Nat /\ <<>> \in V /\ \A i \in 1 .. N : F[i] \in V
  OBVIOUS
<1>2. \A v \in V, i \in 1 .. N : v \o F[i] \in V
  BY <1>1, ConcatProperties
<1>3. G \in [V \X (1 .. N) -> V]
  BY <1>2
<1> HIDE DEF V
<1>4. PICK f \in [0 .. N -> V] : f[0] = <<>> /\ \A i \in 1 .. N : f[i] = G[<<f[i - 1], i>>]
  <2> HIDE DEF G, N
  <2>1. PICK f \in [0 .. N -> V] : Iterates(f, <<>>, G, N)
    BY <1>1, <1>3, RecursionExists
  <2>. QED
    BY <2>1 DEF Iterates
<1>5. \A i \in 1 .. N : f[i] = f[i - 1] \o F[i]
  <2>1. TAKE i \in 1 .. N
  <2>2. i - 1 \in 0 .. N
    BY <1>1
  <2>3. <<f[i - 1], i>> \in V \X (1 .. N)
    BY <1>4, <2>2
  <2>. QED
    BY <1>4, <2>3
<1>6. Is(f)
  <2>1. \A i \in 0 .. N : i # 0 => i \in 1 .. N
    BY <1>1
  <2>. QED
    BY <1>4, <1>5, <2>1
<1>7. Is(g)
  <2> HIDE DEF Is
  <2>. QED
    BY <1>6
<1>8. Flat(F) = g[N]
  BY Zenon DEF Flat
<1> HIDE DEF g
<1>9. g[0] = <<>> /\ \A i \in 1 .. N : g[i] = g[i - 1] \o F[i]
  <2>1. \A i \in 0 .. N : g[i] = IF i = 0 THEN <<>> ELSE g[i - 1] \o F[i]
    BY <1>7
  <2>2. 0 \in 0 .. N /\ \A i \in 1 .. N : i \in 0 .. N /\ i # 0
    BY <1>1
  <2>. QED
    BY <2>1, <2>2
<1>10. \A i \in 0 .. N : g[i] \in V
  <2> DEFINE Good == {i \in 0 .. N : g[i] \in V}
  <2>1. 0 \in Good
    BY <1>1, <1>9
  <2>2. ASSUME NEW i \in 0 .. N, i < N, i \in Good
        PROVE  i + 1 \in Good
    <3>1. i + 1 \in 1 .. N /\ (i + 1) - 1 = i /\ i + 1 \in 0 .. N
      BY <1>1, <2>2
    <3>2. g[i + 1] = g[i] \o F[i + 1]
      BY <1>9, <3>1
    <3>3. g[i] \in V
      BY <2>2
    <3>. QED
      BY <1>2, <3>1, <3>2, <3>3
  <2>3. \A i \in 0 .. N : i \in Good
    <3> HIDE DEF Good
    <3>. QED
      BY <1>1, <2>1, <2>2, Reaches
  <2>. QED
    BY <2>3
<1>11. g \in [0 .. N -> V]
  <2>1. g = [i \in 0 .. N |-> g[i]]
    BY <1>7
  <2>. QED
    BY <1>10, <2>1
<1>. QED
  BY <1>8, <1>9, <1>11 DEF Strung, V

\* One more sequence.
LEMMA FlatAppend ==
  ASSUME NEW X, NEW F \in Seq(Seq(X)), NEW x \in Seq(X)
  PROVE  Flat(F) \in Seq(X) /\ Flat(Append(F, x)) = Flat(F) \o x
<1> DEFINE N == Len(F)
<1>1. /\ N \in Nat /\ Append(F, x) \in Seq(Seq(X)) /\ Len(Append(F, x)) = N + 1
      /\ \A i \in 1 .. N : Append(F, x)[i] = F[i]
      /\ Append(F, x)[N + 1] = x
  BY AppendProperties
<1>2. PICK g \in [0 .. N -> Seq(X)] : Strung(g, F)
  BY FlatIs
<1>3. PICK h \in [0 .. N + 1 -> Seq(X)] : Strung(h, Append(F, x))
  BY <1>1, FlatIs
<1> DEFINE Good == {i \in 0 .. N : g[i] = h[i]}
<1>4. 0 \in Good
  BY <1>1, <1>2, <1>3 DEF Strung
<1>5. ASSUME NEW i \in 0 .. N, i < N, i \in Good
      PROVE  i + 1 \in Good
  <2>1. i + 1 \in 1 .. N /\ i + 1 \in 1 .. N + 1 /\ (i + 1) - 1 = i /\ i + 1 \in 0 .. N
    BY <1>1, <1>5
  <2>2. g[i + 1] = g[i] \o F[i + 1]
    BY <1>2, <2>1 DEF Strung
  <2>3. h[i + 1] = h[i] \o F[i + 1]
    <3>1. h[i + 1] = h[(i + 1) - 1] \o Append(F, x)[i + 1]
      BY <1>1, <1>3, <2>1 DEF Strung
    <3>. QED
      BY <1>1, <2>1, <3>1
  <2>4. g[i] = h[i]
    BY <1>5
  <2>5. g[i + 1] = h[i + 1]
    BY <2>2, <2>3, <2>4
  <2>. QED
    BY <2>1, <2>5
<1>6. g[N] = h[N]
  <2>1. \A i \in 0 .. N : i \in Good
    <3> HIDE DEF Good
    <3>. QED
      BY <1>1, <1>4, <1>5, Reaches
  <2>. QED
    BY <1>1, <2>1
<1>7. h[N + 1] = h[N] \o x
  <2>1. N + 1 \in 1 .. N + 1 /\ (N + 1) - 1 = N
    BY <1>1
  <2>. QED
    BY <1>1, <1>3, <2>1 DEF Strung
<1>. QED
  BY <1>1, <1>2, <1>3, <1>6, <1>7 DEF Strung

\* Of none, and of two together.
LEMMA FlatConcat ==
  ASSUME NEW X, NEW F \in Seq(Seq(X)), NEW G \in Seq(Seq(X))
  PROVE  Flat(<<>>) = <<>> /\ Flat(F \o G) = Flat(F) \o Flat(G)
<1> DEFINE N == Len(G)
           V == Seq(X)
           P(i) == SubSeq(G, 1, i)
           Is(i) == Flat(F \o P(i)) = Flat(F) \o Flat(P(i))
           Good == {i \in 0 .. N : Is(i)}
<1>1. N \in Nat /\ F \in Seq(V) /\ G \in Seq(V) /\ \A i \in 1 .. N : G[i] \in V
  OBVIOUS
<1>2. \A i \in 0 .. N : P(i) \in Seq(V)
  BY <1>1, SubSeqProperties
<1>3. Flat(<<>>) = <<>>
  <2>1. <<>> \in Seq(Seq(X)) /\ Len(<<>>) = 0
    OBVIOUS
  <2>2. PICK g \in [0 .. 0 -> Seq(X)] : Strung(g, <<>>)
    BY <2>1, FlatIs
  <2>. QED
    BY <2>1, <2>2 DEF Strung
<1>4. P(0) = <<>>
  BY SubSeqEmpty
<1>5. P(N) = G
  BY SubSeqFull
<1>6. \A H \in Seq(V), x \in V : Flat(H) \in Seq(X) /\ Flat(Append(H, x)) = Flat(H) \o x
  BY FlatAppend
<1>7. ASSUME NEW i \in 0 .. N, i < N
      PROVE  i + 1 \in 1 .. N /\ P(i + 1) = P(i) \o <<G[i + 1]>>
  <2>1. i + 1 \in 1 .. N /\ (i + 1) - 1 = i /\ 1 \in 1 .. N
    BY <1>1, <1>7
  <2>. QED
    BY <1>1, <2>1, SubSeqRecursiveSecond
<1> HIDE DEF P, N
<1>8. Is(0)
  <2>1. F \o <<>> = F /\ Flat(F) \o <<>> = Flat(F)
    <3>1. Flat(F) \in Seq(X)
      BY <1>1, <1>6, EmptySeq
    <3> HIDE DEF V
    <3>. QED
      BY <1>1, <3>1, ConcatEmptySeq
  <2>. QED
    BY <1>3, <1>4, <2>1
<1>9. ASSUME NEW i \in 0 .. N, i < N, Is(i)
      PROVE  Is(i + 1)
  <2> DEFINE y == G[i + 1] H == P(i)
  <2>1. y \in V /\ H \in Seq(V) /\ P(i + 1) = H \o <<y>>
    BY <1>1, <1>2, <1>7, <1>9
  <2>2. Flat(F \o H) = Flat(F) \o Flat(H)
    BY <1>9
  <2> HIDE DEF y, H, V
  <2>3. F \o H \in Seq(V) /\ P(i + 1) = Append(H, y)
    <3>1. AtEnd(V, H, y)
      BY <2>1, OneAtEnd
    <3>. QED
      BY <1>1, <2>1, <3>1, ConcatProperties, Zenon DEF AtEnd
  <2>4. F \o P(i + 1) = Append(F \o H, y)
    <3>1. AtEnd(V, F \o H, y)
      BY <2>1, <2>3, OneAtEnd
    <3>2. InRow(V, F, H, <<y>>)
      BY <1>1, <2>1, <3>1, InARow DEF AtEnd
    <3>. QED
      BY <2>1, <3>1, <3>2, Zenon DEF AtEnd, InRow
  <2>5. Flat(F \o P(i + 1)) = (Flat(F) \o Flat(H)) \o y
    BY <1>6, <2>1, <2>2, <2>3, <2>4
  <2>6. Flat(P(i + 1)) = Flat(H) \o y
    BY <1>6, <2>1, <2>3
  <2>7. Flat(F) \in Seq(X) /\ Flat(H) \in Seq(X) /\ y \in Seq(X)
    <3>1. Flat(F) \in Seq(X) /\ Flat(H) \in Seq(X)
      BY <1>1, <1>6, <2>1
    <3>. QED
      BY <2>1, <3>1 DEF V
  <2>8. (Flat(F) \o Flat(H)) \o y = Flat(F) \o (Flat(H) \o y)
    <3>1. InRow(X, Flat(F), Flat(H), y)
      BY <2>7, InARow
    <3>. QED
      BY <3>1 DEF InRow
  <2>. QED
    BY <2>5, <2>6, <2>8
<1>10. Is(N)
  <2> HIDE DEF Is
  <2>1. 0 \in Good
    BY <1>1, <1>8
  <2>2. \A i \in 0 .. N : i < N /\ i \in Good => i + 1 \in Good
    <3>1. \A i \in 0 .. N : i < N => i + 1 \in 0 .. N
      BY <1>1
    <3>. QED
      BY <1>9, <3>1
  <2>3. \A i \in 0 .. N : i \in Good
    <3> HIDE DEF Good
    <3>. QED
      BY <1>1, <2>1, <2>2, Reaches
  <2>. QED
    BY <1>1, <2>3
<1>. QED
  BY <1>3, <1>5, <1>10

\* Nothing.
LEMMA FlatNone ==
  ASSUME NEW F \in Seq({<<>>})
  PROVE  Flat(F) = <<>>
<1>1. F \in Seq(Seq({}))
  <2>1. {<<>>} \subseteq Seq({})
    OBVIOUS
  <2>2. F \in Seq({<<>>})
    OBVIOUS
  <2> DEFINE S == {<<>>} T == Seq({})
  <2>3. S \subseteq T /\ F \in Seq(S)
    BY <2>1, <2>2
  <2> HIDE DEF S, T
  <2>4. F \in Seq(T)
    BY <2>3, SeqMonotonic
  <2>. QED
    BY <2>4 DEF T
<1>2. Flat(F) \in Seq({})
  BY <1>1, FlatAppend, EmptySeq
<1>3. Len(Flat(F)) \in Nat /\ (Len(Flat(F)) > 0 => Flat(F)[1] \in {})
  BY <1>2
<1>. QED
  BY <1>2, <1>3, EmptySeq
=============================================================================
