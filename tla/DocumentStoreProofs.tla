------------------------ MODULE DocumentStoreProofs ------------------------
(***************************************************************************)
(* The invariants of DocumentStore, for every value of the constants.      *)
(* FoldFaithful holds for any number of painters; what relates a painter   *)
(* to the files under it is proved for one painter.                        *)
(***************************************************************************)
EXTENDS DocumentStore, LeastNumber, SequenceTheorems, FiniteSetTheorems

(* What a runtime is, with no claim about what its records hold.           *)

\* A sequence, of whatever it holds.
List(s) == s \in Seq(Range(s))

\* A picture has a content for each cell of each layer.
Picture(cv) == cv = [l \in Layer |-> [c \in Cell |-> cv[l][c]]]

RuntimeFields == {"canvas", "applied", "undone", "actions", "baseline", "squashed"}

RuntimeWhole(rt) ==
  /\ DOMAIN rt = RuntimeFields
  /\ Picture(rt.canvas)
  /\ List(rt.actions) /\ List(rt.baseline)
  /\ rt.squashed \in 0 .. Len(rt.actions)

\* The canvas is what the history paints, and the baseline paints what the
\* records paint that are folded into it.
Accounted(rt) ==
  /\ RuntimeWhole(rt)
  /\ rt.canvas = Replay(rt.actions).canvas
  /\ Replay(rt.baseline).canvas = Replay(SubSeq(rt.actions, 1, rt.squashed)).canvas

(* The painters and the directories, any number of both.  n is the number  *)
(* of documents so far.                                                    *)

Users == {User(i) : i \in 1 .. UserRoots}
Works(n) == {Work(d) : d \in 1 .. n}
Vaults(n) == {Vault(d) : d \in 1 .. n}

FileWhole(d, n) ==
  /\ DOMAIN d = {"id", "rev", "logged", "log"}
  /\ d.id \in 0 .. n /\ d.rev \in 0 .. MaxRev
  /\ List(d.log)
  /\ ~d.logged => d.log = <<>>

PainterFields == {"rt", "doc", "rev", "hosting", "net", "path", "root", "vault"}

PainterWhole(q, n) ==
  /\ DOMAIN q = PainterFields
  /\ Accounted(q.rt)
  /\ q.doc \in 1 .. n /\ q.rev \in 0 .. MaxRev
  /\ q.net \in {"none", "host", "client"}
  /\ q.path \in Users \cup Works(n)
  /\ q.root \in Users \cup {NoRoot}
  /\ q.vault \in Vaults(n) \cup {NoRoot}

StoreWhole ==
  /\ docs \in 0 .. MaxDocs
  /\ disk = [r \in Roots |-> disk[r]] /\ painter = [p \in Painter |-> painter[p]]
  /\ \A r \in Roots : FileWhole(disk[r], docs)
  /\ \A p \in Painter : PainterWhole(painter[p], docs)

(* One painter q, and the files d in the directory it works in.            *)

\* The log shows what a painter shows that is in no session.
Shown(q, d) == q.net = "none" => Replay(d.log).canvas = q.rt.canvas

\* A painter that persists works in no directory of the user's without a
\* document.
Settled(q, d) == Persists(q) /\ q.path \in Users => d.id # 0

\* It accounts for the document it was saved to or opened from.
Counted(q, d) ==
  q.net = "none" /\ q.root = q.path => d.rev = q.rev /\ Len(d.log) = Len(ActionsForFile(q.rt))

\* The log of its own document is never ahead: another revision, the records
\* it accounts for, or fewer.
Behind(q, d) ==
  Persists(q) /\ d.id = q.doc =>
    /\ d.rev <= q.rev
    /\ d.rev = q.rev =>
         d.log = ActionsForFile(q.rt) \/ Len(d.log) < Len(ActionsForFile(q.rt))

Solo(q, d) ==
  /\ q.hosting => q.net = "host"
  /\ Shown(q, d) /\ Settled(q, d) /\ Counted(q, d) /\ Behind(q, d)

\* Directories nobody has come to are empty, and a log of the user's has its
\* document.
Virgin ==
  /\ \A n \in 1 .. MaxDocs : docs < n => disk[Work(n)] = NoFiles
  /\ \A r \in Users : disk[r].id = 0 => disk[r] = NoFiles

StoreInv == StoreWhole /\ Virgin /\ Solo(painter[1], disk[painter[1].path])
-----------------------------------------------------------------------------
(* Sequences, of whatever they hold.                                       *)

\* A member of Seq(S) is a list, for any S.
LEMMA ListOf ==
  ASSUME NEW S, NEW s \in Seq(S)
  PROVE  List(s) /\ Len(s) \in Nat /\ DOMAIN s = 1 .. Len(s)
<1>1. Len(s) \in Nat /\ DOMAIN s = 1 .. Len(s)
  BY LenProperties
<1>2. s = [i \in 1 .. Len(s) |-> s[i]]
  BY <1>1
<1>3. \A i \in 1 .. Len(s) : s[i] \in Range(s)
  BY <1>1 DEF Range
<1>4. [i \in 1 .. Len(s) |-> s[i]] \in Seq(Range(s))
  BY <1>1, <1>3, IsASeq
<1>. QED
  BY <1>1, <1>2, <1>4 DEF List

\* The length and the domain of a list.
LEMMA ListShape ==
  ASSUME NEW s, List(s)
  PROVE  Len(s) \in Nat /\ DOMAIN s = 1 .. Len(s)
BY LenProperties DEF List

\* The empty sequence is a list.
LEMMA EmptyList == List(<<>>) /\ Len(<<>>) = 0
<1>1. <<>> \in Seq({})
  BY EmptySeq
<1>. QED
  BY <1>1, ListOf, EmptySeq

\* Two lists and an element are over one set.
LEMMA CommonSet ==
  ASSUME NEW s, List(s), NEW t, List(t), NEW x
  PROVE  \E S : s \in Seq(S) /\ t \in Seq(S) /\ x \in S
<1> DEFINE S == Range(s) \cup Range(t) \cup {x}
<1>1. Range(s) \subseteq S /\ Range(t) \subseteq S /\ x \in S
  OBVIOUS
<1> HIDE DEF S
<1>2. s \in Seq(Range(s)) /\ t \in Seq(Range(t))
  BY DEF List
<1>3. s \in Seq(S) /\ t \in Seq(S)
  BY <1>1, <1>2
<1>. QED
  BY <1>1, <1>3

\* Append: a list again, the elements as they were and the new one at the end.
LEMMA AppendList ==
  ASSUME NEW s, List(s), NEW x
  PROVE  /\ List(Append(s, x)) /\ Len(Append(s, x)) = Len(s) + 1
         /\ Append(s, x)[Len(s) + 1] = x
         /\ \A i \in 1 .. Len(s) : Append(s, x)[i] = s[i]
<1>1. PICK S : s \in Seq(S) /\ x \in S
  BY CommonSet
<1>3. Append(s, x) \in Seq(S)
  BY <1>1, AppendProperties
<1>4. List(Append(s, x))
  BY <1>3, ListOf
<1>. QED
  BY <1>1, <1>4, AppendProperties

\* SubSeq: a list again, and its elements.
LEMMA SubList ==
  ASSUME NEW s, List(s), NEW m \in Nat, NEW n \in Nat, 1 <= m, m <= n + 1, n <= Len(s)
  PROVE  /\ List(SubSeq(s, m, n)) /\ Len(SubSeq(s, m, n)) = n - m + 1
         /\ \A i \in 1 .. n - m + 1 : SubSeq(s, m, n)[i] = s[m + i - 1]
<1>1. s \in Seq(Range(s))
  BY DEF List
<1>2. \A i \in m .. n : i \in 1 .. Len(s)
  BY ListShape
<1>3. SubSeq(s, m, n) \in Seq(Range(s))
  BY <1>1, SubSeqProperties, ListShape
<1>4. Len(SubSeq(s, m, n)) = n - m + 1
  BY <1>1, SubSeqProperties, ListShape
<1>5. \A i \in 1 .. n - m + 1 : SubSeq(s, m, n)[i] = s[m + i - 1]
  BY <1>1, SubSeqProperties, ListShape
<1>. QED
  BY <1>3, <1>4, <1>5, ListOf

\* Concatenation: a list again, and its elements.
LEMMA ConcatList ==
  ASSUME NEW s, List(s), NEW t, List(t)
  PROVE  /\ List(s \o t) /\ Len(s \o t) = Len(s) + Len(t)
         /\ \A i \in 1 .. Len(s) : (s \o t)[i] = s[i]
         /\ \A i \in 1 .. Len(t) : (s \o t)[Len(s) + i] = t[i]
<1>1. PICK S : s \in Seq(S) /\ t \in Seq(S)
  BY CommonSet
<1>2. Len(s) \in Nat /\ Len(t) \in Nat
  BY ListShape
<1>3. s \o t \in Seq(S) /\ Len(s \o t) = Len(s) + Len(t)
  BY <1>1, ConcatProperties
<1>4. List(s \o t)
  BY <1>3, ListOf
<1>5. \A i \in 1 .. Len(s) + Len(t) : (s \o t)[i] = IF i <= Len(s) THEN s[i] ELSE t[i - Len(s)]
  BY <1>1, ConcatProperties
<1>6. \A i \in 1 .. Len(s) : (s \o t)[i] = s[i]
  BY <1>2, <1>5
<1>7. ASSUME NEW i \in 1 .. Len(t)
      PROVE  (s \o t)[Len(s) + i] = t[i]
  <2>1. PICK j \in 1 .. Len(s) + Len(t) : j = Len(s) + i /\ ~(j <= Len(s)) /\ j - Len(s) = i
    BY <1>2
  <2>. QED
    BY <1>5, <2>1
<1>. QED
  BY <1>3, <1>4, <1>6, <1>7

\* Lists with the same elements are equal.
LEMMA ListsEqual ==
  ASSUME NEW s, List(s), NEW t, List(t), Len(s) = Len(t),
         \A i \in 1 .. Len(s) : s[i] = t[i]
  PROVE  s = t
BY ListShape, SeqEqual DEF List

\* A part of a list does not see what is appended.
LEMMA SubPrefix ==
  ASSUME NEW s, List(s), NEW x, NEW m \in Nat, NEW n \in Nat, 1 <= m, m <= n + 1, n <= Len(s)
  PROVE  SubSeq(Append(s, x), m, n) = SubSeq(s, m, n)
<1>1. SUFFICES ASSUME NEW t, t = Append(s, x)
               PROVE  SubSeq(t, m, n) = SubSeq(s, m, n)
  OBVIOUS
<1>2. List(t) /\ Len(t) = Len(s) + 1 /\ (\A i \in 1 .. Len(s) : t[i] = s[i]) /\ Len(s) \in Nat
  BY <1>1, AppendList, ListShape
<1>3. n <= Len(t)
  BY <1>2
<1>4. /\ List(SubSeq(t, m, n)) /\ Len(SubSeq(t, m, n)) = n - m + 1
      /\ \A i \in 1 .. n - m + 1 : SubSeq(t, m, n)[i] = t[m + i - 1]
  BY <1>2, <1>3, SubList
<1>5. /\ List(SubSeq(s, m, n)) /\ Len(SubSeq(s, m, n)) = n - m + 1
      /\ \A i \in 1 .. n - m + 1 : SubSeq(s, m, n)[i] = s[m + i - 1]
  BY SubList
<1>6. ASSUME NEW i \in 1 .. n - m + 1
      PROVE  SubSeq(t, m, n)[i] = SubSeq(s, m, n)[i]
  <2>1. PICK j \in 1 .. Len(s) : j = m + i - 1
    <3>1. m + i - 1 \in 1 .. Len(s)
      BY <1>2
    <3>. QED
      BY <3>1
  <2>2. SubSeq(t, m, n)[i] = t[j]
    BY <1>4, <2>1
  <2>3. SubSeq(s, m, n)[i] = s[j]
    BY <1>5, <2>1
  <2>. QED
    BY <1>2, <2>1, <2>2, <2>3
<1>. QED
  BY <1>4, <1>5, <1>6, ListsEqual

\* The tail of a list grows with it.
LEMMA SubAppend ==
  ASSUME NEW s, List(s), NEW x, NEW m \in Nat, 1 <= m, m <= Len(s) + 1, NEW n, n = Len(s) + 1
  PROVE  SubSeq(Append(s, x), m, n) = Append(SubSeq(s, m, Len(s)), x)
<1>1. SUFFICES ASSUME NEW t, t = Append(s, x)
               PROVE  SubSeq(t, m, n) = Append(SubSeq(s, m, Len(s)), x)
  OBVIOUS
<1>2. List(t) /\ Len(t) = n /\ t[n] = x /\ Len(s) \in Nat
  BY <1>1, AppendList, ListShape
<1>3. t \in Seq(Range(t)) /\ n \in Nat /\ m \in 1 .. Len(t) /\ n \in m .. Len(t) /\ n - 1 = Len(s)
  BY <1>2 DEF List
<1>4. SubSeq(t, m, n) = Append(SubSeq(t, m, n - 1), t[n])
  BY <1>3, SubSeqRecursiveSecond
<1>5. SubSeq(t, m, Len(s)) = SubSeq(s, m, Len(s))
  BY <1>1, <1>2, SubPrefix
<1>. QED
  BY <1>2, <1>3, <1>4, <1>5

\* Concatenation with a list that grows.
LEMMA ConcatAppend ==
  ASSUME NEW s, List(s), NEW t, List(t), NEW x
  PROVE  s \o Append(t, x) = Append(s \o t, x) /\ List(s \o t)
<1>1. PICK S : s \in Seq(S) /\ t \in Seq(S) /\ x \in S
  BY CommonSet
<1>2. s \o t \in Seq(S) /\ <<x>> \in Seq(S)
  BY <1>1, ConcatProperties
<1>3. Append(t, x) = t \o <<x>> /\ Append(s \o t, x) = (s \o t) \o <<x>>
  <2>1. AtEnd(S, t, x) /\ AtEnd(S, s \o t, x)
    BY <1>1, <1>2, OneAtEnd
  <2>. QED
    BY <2>1 DEF AtEnd
<1>4. s \o (t \o <<x>>) = (s \o t) \o <<x>>
  <2>1. InRow(S, s, t, <<x>>)
    BY <1>1, <1>2, InARow
  <2>. QED
    BY <2>1 DEF InRow
<1>. QED
  BY <1>2, <1>3, <1>4, ListOf

\* A list is its first k elements and the others.
LEMMA Halves ==
  ASSUME NEW s, List(s), NEW k \in 0 .. Len(s), NEW j, j = k + 1
  PROVE  /\ List(SubSeq(s, 1, k)) /\ List(SubSeq(s, j, Len(s)))
         /\ SubSeq(s, 1, k) \o SubSeq(s, j, Len(s)) = s
<1>1. Len(s) \in Nat /\ s \in Seq(Range(s))
  BY ListShape DEF List
<1>2. /\ k \in Nat /\ j \in Nat /\ 1 <= j /\ 1 <= k + 1 /\ j <= Len(s) + 1 /\ k <= Len(s)
      /\ k \in 1 - 1 .. Len(s) /\ 1 \in 1 .. Len(s) + 1 /\ Len(s) \in k .. Len(s)
  BY <1>1
<1>3. List(SubSeq(s, 1, k)) /\ List(SubSeq(s, j, Len(s)))
  BY <1>1, <1>2, SubList
<1>4. SubSeq(s, 1, k) \o SubSeq(s, k + 1, Len(s)) = SubSeq(s, 1, Len(s))
  BY <1>1, <1>2, ConcatAdjacentSubSeq
<1>5. SubSeq(s, 1, Len(s)) = s
  BY <1>1, SubSeqFull
<1>. QED
  BY <1>3, <1>4, <1>5

-----------------------------------------------------------------------------
(* Replay, one record at a time.                                           *)

\* done[n] is the runtime after n records.
Done(f, rs) ==
  f = [n \in 0 .. Len(rs) |->
         IF n = 0 THEN NewRuntime ELSE ApplyActionRecord(f[n - 1], rs[n])]

\* The recursive definition in Replay defines a function.
LEMMA DoneExists ==
  ASSUME NEW rs, Len(rs) \in Nat
  PROVE  \E f : Done(f, rs)
<1> DEFINE Step(f, n) == IF n = 0 THEN NewRuntime ELSE ApplyActionRecord(f[n - 1], rs[n])
           Some(k) == \E f : f = [n \in 0 .. k |-> Step(f, n)]
           Good == {k \in 0 .. Len(rs) : Some(k)}
<1>1. Some(0)
  <2>1. [n \in 0 .. 0 |-> NewRuntime] = [n \in 0 .. 0 |-> Step([k \in 0 .. 0 |-> NewRuntime], n)]
    OBVIOUS
  <2>. QED
    BY <2>1, Zenon
<1>2. ASSUME NEW k \in Nat, Some(k)
      PROVE  Some(k + 1)
  <2>1. PICK f : f = [n \in 0 .. k |-> Step(f, n)]
    BY <1>2
  <2> DEFINE g == [n \in 0 .. k + 1 |-> IF n = k + 1 THEN Step(f, n) ELSE f[n]]
  <2>2. \A n \in 0 .. k : g[n] = f[n] /\ f[n] = Step(f, n)
    <3>1. \A n \in 0 .. k : g[n] = f[n]
      OBVIOUS
    <3>2. \A n \in 0 .. k : f[n] = Step(f, n)
      BY <2>1
    <3>. QED
      BY <3>1, <3>2
  <2>3. DOMAIN g = 0 .. k + 1 /\ g[k + 1] = Step(f, k + 1)
    OBVIOUS
  <2>4. g = [n \in 0 .. k + 1 |-> g[n]]
    OBVIOUS
  <2> HIDE DEF g
  <2>5. \A n \in 0 .. k + 1 : n # 0 => n - 1 \in 0 .. k
    OBVIOUS
  <2>6. \A n \in 0 .. k + 1 : Step(g, n) = Step(f, n)
    BY <2>2, <2>5
  <2> HIDE DEF Step
  <2>7. \A n \in 0 .. k + 1 : g[n] = Step(g, n)
    BY <2>2, <2>3, <2>6
  <2>8. g = [n \in 0 .. k + 1 |-> Step(g, n)]
    BY <2>4, <2>7
  <2>. QED
    BY <2>8, Zenon
<1>3. Some(Len(rs))
  <2> HIDE DEF Some
  <2>1. 0 \in Good /\ \A n \in 0 .. Len(rs) : n < Len(rs) /\ n \in Good => n + 1 \in Good
    BY <1>1, <1>2
  <2> HIDE DEF Good
  <2>2. \A n \in 0 .. Len(rs) : n \in Good
    BY <2>1, Reaches
  <2>3. Len(rs) \in 0 .. Len(rs)
    OBVIOUS
  <2>. QED
    BY <2>2, <2>3 DEF Good
<1>. QED
  BY <1>3 DEF Done

\* The function, one record at a time.
LEMMA DoneValues ==
  ASSUME NEW rs, NEW f, Done(f, rs), Len(rs) \in Nat
  PROVE  /\ f[0] = NewRuntime
         /\ \A n \in Nat : n < Len(rs) => f[n + 1] = ApplyActionRecord(f[n], rs[n + 1])
<1>1. \A m \in 0 .. Len(rs) :
        f[m] = IF m = 0 THEN NewRuntime ELSE ApplyActionRecord(f[m - 1], rs[m])
  BY DEF Done
<1>2. ASSUME NEW n \in Nat, n < Len(rs)
      PROVE  f[n + 1] = ApplyActionRecord(f[n], rs[n + 1])
  <2>1. PICK m \in 0 .. Len(rs) : m = n + 1 /\ m # 0 /\ m - 1 = n
    BY <1>2
  <2>2. f[m] = ApplyActionRecord(f[n], rs[m])
    BY <1>1, <2>1
  <2>. QED
    BY <2>1, <2>2
<1>. QED
  BY <1>1, <1>2

\* Two logs give the same runtimes as far as they agree.
LEMMA DoneAgrees ==
  ASSUME NEW rs, NEW ts, NEW f, NEW g, Done(f, rs), Done(g, ts),
         Len(rs) \in Nat, Len(ts) \in Nat, Len(rs) <= Len(ts),
         \A j \in 1 .. Len(rs) : ts[j] = rs[j]
  PROVE  \A n \in 0 .. Len(rs) : f[n] = g[n]
<1> DEFINE Good == {n \in 0 .. Len(rs) : f[n] = g[n]}
<1>1. 0 \in Good
  BY DoneValues
<1>2. ASSUME NEW n \in 0 .. Len(rs), n < Len(rs), n \in Good
      PROVE  n + 1 \in Good
  <2>1. n \in Nat /\ n < Len(ts) /\ n + 1 \in 1 .. Len(rs) /\ n + 1 \in 0 .. Len(rs)
    BY <1>2
  <2>2. f[n + 1] = ApplyActionRecord(f[n], rs[n + 1])
    BY <1>2, <2>1, DoneValues
  <2>3. g[n + 1] = ApplyActionRecord(g[n], ts[n + 1])
    BY <2>1, DoneValues
  <2>4. ts[n + 1] = rs[n + 1] /\ f[n] = g[n]
    BY <1>2, <2>1
  <2>5. f[n + 1] = g[n + 1]
    BY <2>2, <2>3, <2>4
  <2>. QED
    BY <2>1, <2>5
<1> HIDE DEF Good
<1>3. \A n \in 0 .. Len(rs) : n \in Good
  <2>1. \A n \in 0 .. Len(rs) : n < Len(rs) /\ n \in Good => n + 1 \in Good
    BY <1>2
  <2>. QED
    BY <1>1, <2>1, Reaches
<1>. QED
  BY <1>3 DEF Good

\* Replay returns the last value of the function it defines.
LEMMA ReplayIs ==
  ASSUME NEW rs, NEW f, Done(f, rs), Len(rs) \in Nat
  PROVE  Replay(rs) = f[Len(rs)]
<1> DEFINE g == CHOOSE h : Done(h, rs)
<1>1. Done(g, rs)
  <2> HIDE DEF g
  <2>1. \E h : Done(h, rs)
    BY DoneExists, Zenon
  <2>. QED
    BY <2>1, Zenon DEF g
<1>2. Replay(rs) = g[Len(rs)]
  BY Zenon DEF Replay, Done
<1> HIDE DEF g
<1>. QED
  BY <1>1, <1>2, DoneAgrees

\* No record, no change.
LEMMA ReplayEmpty == Replay(<<>>) = NewRuntime
<1>1. Len(<<>>) = 0
  BY EmptyList
<1>2. PICK f : Done(f, <<>>)
  BY <1>1, DoneExists
<1>3. f[0] = NewRuntime /\ Replay(<<>>) = f[0]
  BY <1>1, <1>2, DoneValues, ReplayIs
<1>. QED
  BY <1>3

\* A record more is applied last.
LEMMA ReplayAppend ==
  ASSUME NEW rs, List(rs), NEW r
  PROVE  Replay(Append(rs, r)) = ApplyActionRecord(Replay(rs), r)
<1> DEFINE ts == Append(rs, r)
<1>1. /\ Len(rs) \in Nat /\ Len(ts) = Len(rs) + 1
      /\ \A j \in 1 .. Len(rs) : ts[j] = rs[j]
      /\ ts[Len(rs) + 1] = r
  BY AppendList, ListShape
<1> HIDE DEF ts
<1>2. PICK f : Done(f, rs)
  BY <1>1, DoneExists
<1>3. PICK g : Done(g, ts)
  BY <1>1, DoneExists
<1>4. f[Len(rs)] = g[Len(rs)]
  BY <1>1, <1>2, <1>3, DoneAgrees
<1>5. g[Len(rs) + 1] = ApplyActionRecord(g[Len(rs)], r)
  BY <1>1, <1>3, DoneValues
<1>6. Replay(rs) = f[Len(rs)] /\ Replay(ts) = g[Len(ts)]
  BY <1>1, <1>2, <1>3, ReplayIs
<1>7. Replay(ts) = ApplyActionRecord(Replay(rs), r)
  BY <1>1, <1>4, <1>5, <1>6
<1>. QED
  BY <1>7 DEF ts

\* What holds of no record, and with one record more if it held before, holds
\* of a log: G is the set of the lengths at which it holds.
LEMMA LogReaches ==
  ASSUME NEW rs, List(rs), NEW G, 0 \in G,
         \A n \in 0 .. Len(rs) : \A m \in 1 .. Len(rs) :
           /\ m = n + 1
           /\ n \in G
           /\ List(SubSeq(rs, 1, n)) /\ Len(SubSeq(rs, 1, n)) = n
           /\ SubSeq(rs, 1, m) = Append(SubSeq(rs, 1, n), rs[m])
           => m \in G
  PROVE  Len(rs) \in G
<1>1. Len(rs) \in Nat /\ rs \in Seq(Range(rs))
  BY ListShape DEF List
<1>2. ASSUME NEW n \in 0 .. Len(rs), n < Len(rs), n \in G
      PROVE  n + 1 \in G
  <2>1. PICK m \in 1 .. Len(rs) : m = n + 1
    BY <1>1, <1>2
  <2>2. /\ List(SubSeq(rs, 1, n)) /\ Len(SubSeq(rs, 1, n)) = n
        /\ \A i \in 1 .. n : SubSeq(rs, 1, n)[i] = rs[i]
    <3>1. n \in Nat /\ 1 <= n + 1 /\ n <= Len(rs) /\ n - 1 + 1 = n
      BY <1>1, <1>2
    <3>. QED
      BY <3>1, SubList
  <2>3. /\ List(SubSeq(rs, 1, m)) /\ Len(SubSeq(rs, 1, m)) = m
        /\ \A i \in 1 .. m : SubSeq(rs, 1, m)[i] = rs[i]
    <3>1. m \in Nat /\ 1 <= m + 1 /\ m <= Len(rs) /\ m - 1 + 1 = m
      BY <1>1, <2>1
    <3>. QED
      BY <3>1, SubList
  <2> DEFINE t == Append(SubSeq(rs, 1, n), rs[m])
  <2>4. /\ List(t) /\ Len(t) = n + 1
        /\ t[n + 1] = rs[m]
        /\ \A i \in 1 .. n : t[i] = SubSeq(rs, 1, n)[i]
    BY <2>2, AppendList
  <2> HIDE DEF t
  <2>5. \A i \in 1 .. m : SubSeq(rs, 1, m)[i] = t[i]
    BY <1>1, <2>1, <2>2, <2>3, <2>4
  <2>6. SubSeq(rs, 1, m) = t
    BY <2>1, <2>3, <2>4, <2>5, ListsEqual
  <2>7. m \in G
    BY <1>2, <2>1, <2>2, <2>6 DEF t
  <2>. QED
    BY <2>1, <2>7
<1>3. \A n \in 0 .. Len(rs) : n \in G
  BY <1>1, <1>2, Reaches
<1>. QED
  BY <1>1, <1>3
-----------------------------------------------------------------------------
(* What records paint.                                                     *)

Paints(cv, r) == [cv EXCEPT ![r.layer] = ApplyAfter(@, r.patches)]

\* ApplyAfter, cell by cell.
LEMMA ApplyAfterIs ==
  ASSUME NEW m, NEW ps
  PROVE  /\ DOMAIN ApplyAfter(m, ps) = Cell
         /\ ApplyAfter(m, ps) = [c \in Cell |-> ApplyAfter(m, ps)[c]]
         /\ \A c \in Cell : ApplyAfter(m, ps)[c] = IF c \in DOMAIN ps THEN ps[c].after ELSE m[c]
BY DEF ApplyAfter

\* Undoing is painting the inverse (SharedCellPatch::inverse).
LEMMA ApplyBeforeIs ==
  ASSUME NEW m, NEW ps
  PROVE  ApplyBefore(m, ps) = ApplyAfter(m, Inversed(ps))
<1>1. DOMAIN Inversed(ps) = DOMAIN ps
  BY DEF Inversed
<1>2. \A c \in DOMAIN ps : Inversed(ps)[c].after = ps[c].before
  BY DEF Inversed
<1>3. \A c \in Cell : (IF c \in DOMAIN ps THEN ps[c].before ELSE m[c])
                       = IF c \in DOMAIN Inversed(ps) THEN Inversed(ps)[c].after ELSE m[c]
  BY <1>1, <1>2
<1>. QED
  BY <1>3 DEF ApplyAfter, ApplyBefore

\* A picture is made of layers, a layer of cells.
LEMMA PictureParts ==
  ASSUME NEW cv, Picture(cv)
  PROVE  DOMAIN cv = Layer /\ \A l \in Layer : cv[l] = [c \in Cell |-> cv[l][c]]
<1> DEFINE g == [l \in Layer |-> [c \in Cell |-> cv[l][c]]]
<1>1. cv = g
  BY DEF Picture
<1>2. DOMAIN g = Layer /\ \A l \in Layer : g[l] = [c \in Cell |-> cv[l][c]]
  OBVIOUS
<1> HIDE DEF g
<1>. QED
  BY <1>1, <1>2

\* What is made of layers of cells is a picture.
LEMMA PictureOf ==
  ASSUME NEW cv, cv = [l \in Layer |-> cv[l]],
         \A l \in Layer : cv[l] = [c \in Cell |-> cv[l][c]]
  PROVE  Picture(cv)
<1>1. [l \in Layer |-> cv[l]] = [l \in Layer |-> [c \in Cell |-> cv[l][c]]]
  BY Zenon
<1>. QED
  BY <1>1 DEF Picture

\* The blank canvas is a picture.
LEMMA BlankPicture == Picture([l \in Layer |-> Blank])
BY DEF Picture, Blank

\* A record changes a picture on its layer only, and not at all without
\* patches.
LEMMA PaintsIs ==
  ASSUME NEW cv, Picture(cv), NEW r
  PROVE  /\ Picture(Paints(cv, r))
         /\ DOMAIN r.patches = {} => Paints(cv, r) = cv
         /\ \A l \in Layer :
              Paints(cv, r)[l] = IF l = r.layer THEN ApplyAfter(cv[l], r.patches) ELSE cv[l]
<1>1. DOMAIN cv = Layer /\ \A l \in Layer : cv[l] = [c \in Cell |-> cv[l][c]]
  BY PictureParts
<1>2. SUFFICES ASSUME NEW new, new = Paints(cv, r)
               PROVE  /\ Picture(new)
                      /\ DOMAIN r.patches = {} => new = cv
                      /\ \A l \in Layer :
                           new[l] = IF l = r.layer THEN ApplyAfter(cv[l], r.patches) ELSE cv[l]
  OBVIOUS
<1>3. new = [l \in Layer |-> new[l]]
  BY <1>1, <1>2 DEF Paints
<1>4. \A l \in Layer :
        new[l] = IF l = r.layer THEN ApplyAfter(cv[l], r.patches) ELSE cv[l]
  BY <1>1, <1>2 DEF Paints
<1>5. ASSUME NEW l \in Layer
      PROVE  new[l] = [c \in Cell |-> new[l][c]]
  <2>1. CASE l = r.layer
    <3>1. new[l] = ApplyAfter(cv[l], r.patches)
      BY <1>4, <2>1
    <3>. QED
      BY <3>1, ApplyAfterIs
  <2>2. CASE l # r.layer
    BY <1>1, <1>4, <2>2
  <2>. QED
    BY <2>1, <2>2
<1>6. ASSUME DOMAIN r.patches = {}
      PROVE  new = cv
  <2>1. ASSUME NEW l \in Layer
        PROVE  new[l] = cv[l]
    <3>1. ApplyAfter(cv[l], r.patches) = [c \in Cell |-> cv[l][c]]
      BY <1>6 DEF ApplyAfter
    <3>. QED
      BY <1>1, <1>4, <3>1
  <2>2. cv = [l \in Layer |-> cv[l]]
    BY DEF Picture
  <2>3. [l \in Layer |-> new[l]] = [l \in Layer |-> cv[l]]
    BY <2>1
  <2>. QED
    BY <1>3, <2>2, <2>3
<1>7. Picture(new)
  BY <1>3, <1>5, PictureOf
<1>. QED
  BY <1>4, <1>6, <1>7

\* A new runtime is whole.
LEMMA NewWhole ==
  /\ RuntimeWhole(NewRuntime)
  /\ NewRuntime.canvas = [l \in Layer |-> Blank]
  /\ NewRuntime.actions = <<>> /\ NewRuntime.baseline = <<>> /\ NewRuntime.squashed = 0
<1>1. /\ DOMAIN NewRuntime = RuntimeFields
      /\ NewRuntime.canvas = [l \in Layer |-> Blank]
      /\ NewRuntime.actions = <<>> /\ NewRuntime.baseline = <<>> /\ NewRuntime.squashed = 0
  BY DEF NewRuntime, RuntimeFields
<1>2. Picture(NewRuntime.canvas)
  BY <1>1, BlankPicture
<1>. QED
  BY <1>1, <1>2, EmptyList DEF RuntimeWhole

\* The stacks are no concern of what is painted and recorded.
LEMMA ToggleKeeps ==
  ASSUME NEW rt, DOMAIN rt = RuntimeFields, NEW l, NEW x
  PROVE  /\ DOMAIN Toggle(rt, l, x) = RuntimeFields
         /\ \A f \in {"canvas", "actions", "baseline", "squashed"} : Toggle(rt, l, x)[f] = rt[f]
BY DEF Toggle, RuntimeFields

\* A runtime with one record more: it is in the history and painted, the fold
\* is left alone.
Grown(rt, new, r) ==
  /\ DOMAIN new = RuntimeFields
  /\ new.canvas = Paints(rt.canvas, r)
  /\ new.actions = Append(rt.actions, r)
  /\ new.baseline = rt.baseline /\ new.squashed = rt.squashed

\* That is what applying a record makes of a runtime.
LEMMA ApplyIs ==
  ASSUME NEW rt, RuntimeWhole(rt), NEW r
  PROVE  Grown(rt, ApplyActionRecord(rt, r), r)
<1> DEFINE l == r.layer
           painted == [rt EXCEPT !.canvas[l] = ApplyAfter(@, r.patches)]
           stroked == [painted EXCEPT !.applied[l] = Append(@, r.id), !.undone[l] = <<>>]
           toggled == Toggle(painted, l, r.reverts)
           effect ==
             IF DOMAIN r.patches = {} THEN rt
             ELSE CASE r.kind = "stroke" -> stroked
                    [] r.kind = "revert" -> toggled
                    [] OTHER -> painted
           Placed(t) == /\ DOMAIN t = RuntimeFields
                      /\ t.canvas = Paints(rt.canvas, r) /\ t.actions = rt.actions
                      /\ t.baseline = rt.baseline /\ t.squashed = rt.squashed
<1>1. DOMAIN rt = RuntimeFields /\ Picture(rt.canvas)
  BY DEF RuntimeWhole
<1>2. Placed(painted)
  BY <1>1 DEF RuntimeFields, Paints
<1>3. Placed(stroked)
  <2>1. \A f \in {"canvas", "actions", "baseline", "squashed"} : stroked[f] = painted[f]
    BY <1>1 DEF RuntimeFields
  <2>2. DOMAIN stroked = DOMAIN painted
    OBVIOUS
  <2> HIDE DEF stroked, painted
  <2>. QED
    BY <1>2, <2>1, <2>2
<1>4. Placed(toggled)
  <2> HIDE DEF painted
  <2>. QED
    BY <1>2, ToggleKeeps
<1>5. DOMAIN r.patches = {} => Placed(rt)
  BY <1>1, PaintsIs
<1>6. ApplyActionRecord(rt, r) = [effect EXCEPT !.actions = Append(@, r)]
  BY DEF ApplyActionRecord
<1> HIDE DEF painted, stroked, toggled
<1>7. \/ DOMAIN r.patches = {} /\ effect = rt
      \/ effect \in {stroked, toggled, painted}
  OBVIOUS
<1>8. Placed(effect)
  <2> HIDE DEF Placed, effect
  <2>. QED
    BY <1>2, <1>3, <1>4, <1>5, <1>7
<1> HIDE DEF effect
<1>. QED
  BY <1>6, <1>8 DEF RuntimeFields, Grown

\* A runtime that grows stays whole.
LEMMA GrownWhole ==
  ASSUME NEW rt, RuntimeWhole(rt), NEW r, NEW new, Grown(rt, new, r)
  PROVE  RuntimeWhole(new)
<1>2. /\ DOMAIN new = RuntimeFields
      /\ new.canvas = Paints(rt.canvas, r) /\ new.actions = Append(rt.actions, r)
      /\ new.baseline = rt.baseline /\ new.squashed = rt.squashed
  BY DEF Grown
<1>3. Picture(new.canvas)
  BY <1>2, PaintsIs DEF RuntimeWhole
<1>4. List(new.actions) /\ Len(new.actions) = Len(rt.actions) + 1
  BY <1>2, AppendList DEF RuntimeWhole
<1>5. new.squashed \in 0 .. Len(new.actions)
  BY <1>2, <1>4, ListShape DEF RuntimeWhole
<1>. QED
  BY <1>2, <1>3, <1>4, <1>5 DEF RuntimeWhole
-----------------------------------------------------------------------------
(* What replaying a log gives.                                             *)

\* The whole of a list, and none of it.
LEMMA FullSub ==
  ASSUME NEW s, List(s)
  PROVE  SubSeq(s, 1, Len(s)) = s /\ SubSeq(s, 1, 0) = <<>>
<1>1. s \in Seq(Range(s)) /\ Len(s) \in Nat
  BY ListShape DEF List
<1>2. /\ List(SubSeq(s, 1, Len(s))) /\ Len(SubSeq(s, 1, Len(s))) = Len(s)
      /\ \A i \in 1 .. Len(s) : SubSeq(s, 1, Len(s))[i] = s[i]
  <2>1. Len(s) - 1 + 1 = Len(s) /\ 1 <= Len(s) + 1
    BY <1>1
  <2>. QED
    BY <1>1, <2>1, SubList
<1>3. List(SubSeq(s, 1, 0)) /\ Len(SubSeq(s, 1, 0)) = 0
  BY <1>1, SubList
<1>4. SubSeq(s, 1, 0) = <<>>
  BY <1>3, EmptyList, ListsEqual
<1>. QED
  BY <1>2, <1>4, ListsEqual

\* A replayed runtime is whole, its history is the log, and nothing of it is
\* folded.
LEMMA ReplayWhole ==
  ASSUME NEW rs, List(rs)
  PROVE  /\ RuntimeWhole(Replay(rs)) /\ Replay(rs).actions = rs
         /\ Replay(rs).baseline = <<>> /\ Replay(rs).squashed = 0
<1> DEFINE Fine(t) == /\ RuntimeWhole(Replay(t)) /\ Replay(t).actions = t
                      /\ Replay(t).baseline = <<>> /\ Replay(t).squashed = 0
           G == {n \in 0 .. Len(rs) : Fine(SubSeq(rs, 1, n))}
<1>1. 0 \in G
  <2>1. Fine(<<>>)
    BY ReplayEmpty, NewWhole
  <2>2. SubSeq(rs, 1, 0) = <<>> /\ 0 \in 0 .. Len(rs)
    BY FullSub, ListShape
  <2> HIDE DEF Fine
  <2>. QED
    BY <2>1, <2>2
<1>2. ASSUME NEW t, List(t), Fine(t), NEW r
      PROVE  Fine(Append(t, r))
  <2>1. SUFFICES ASSUME NEW new, new = ApplyActionRecord(Replay(t), r)
                 PROVE  /\ RuntimeWhole(new) /\ new.actions = Append(t, r)
                        /\ new.baseline = <<>> /\ new.squashed = 0
    BY <1>2, ReplayAppend
  <2>2. Grown(Replay(t), new, r)
    BY <1>2, <2>1, ApplyIs
  <2>3. RuntimeWhole(new)
    BY <1>2, <2>2, GrownWhole
  <2>. QED
    BY <1>2, <2>2, <2>3 DEF Grown
<1> HIDE DEF Fine
<1>3. ASSUME NEW n \in 0 .. Len(rs), NEW m \in 1 .. Len(rs),
             m = n + 1, n \in G, List(SubSeq(rs, 1, n)),
             SubSeq(rs, 1, m) = Append(SubSeq(rs, 1, n), rs[m])
      PROVE  m \in G
  <2>1. Fine(SubSeq(rs, 1, m))
    BY <1>2, <1>3
  <2>. QED
    BY <2>1, ListShape
<1>4. Len(rs) \in G
  <2> HIDE DEF G
  <2>. QED
    BY <1>1, <1>3, LogReaches
<1>5. Fine(rs)
  BY <1>4, FullSub
<1>. QED
  BY <1>5 DEF Fine

\* Two logs that paint the same picture.
PaintAlike(a, b) == Replay(a).canvas = Replay(b).canvas

\* Records that follow paint the same on the same picture, whatever logs led
\* to it.
LEMMA ReplayConcat ==
  ASSUME NEW a, List(a), NEW b, List(b), PaintAlike(a, b), NEW c, List(c)
  PROVE  PaintAlike(a \o c, b \o c)
<1> DEFINE Same(t) == Replay(a \o t).canvas = Replay(b \o t).canvas
           G == {n \in 0 .. Len(c) : Same(SubSeq(c, 1, n))}
<1>1. 0 \in G
  <2>1. a \o <<>> = a /\ b \o <<>> = b
    BY ConcatEmptySeq DEF List
  <2>2. Same(<<>>)
    BY <2>1 DEF PaintAlike
  <2>3. SubSeq(c, 1, 0) = <<>> /\ 0 \in 0 .. Len(c)
    BY FullSub, ListShape
  <2> HIDE DEF Same
  <2>. QED
    BY <2>2, <2>3
<1>3. ASSUME NEW t, List(t), Same(t), NEW r
      PROVE  Same(Append(t, r))
  <2>1. /\ List(a \o t) /\ a \o Append(t, r) = Append(a \o t, r)
        /\ List(b \o t) /\ b \o Append(t, r) = Append(b \o t, r)
    BY <1>3, ConcatAppend
  <2>2. /\ Replay(a \o Append(t, r)) = ApplyActionRecord(Replay(a \o t), r)
        /\ Replay(b \o Append(t, r)) = ApplyActionRecord(Replay(b \o t), r)
    BY <2>1, ReplayAppend
  <2>3. /\ ApplyActionRecord(Replay(a \o t), r).canvas = Paints(Replay(a \o t).canvas, r)
        /\ ApplyActionRecord(Replay(b \o t), r).canvas = Paints(Replay(b \o t).canvas, r)
    BY <2>1, ReplayWhole, ApplyIs DEF Grown
  <2>. QED
    BY <1>3, <2>2, <2>3
<1> HIDE DEF Same
<1>4. ASSUME NEW n \in 0 .. Len(c), NEW m \in 1 .. Len(c),
             m = n + 1, n \in G, List(SubSeq(c, 1, n)),
             SubSeq(c, 1, m) = Append(SubSeq(c, 1, n), c[m])
      PROVE  m \in G
  <2>1. Same(SubSeq(c, 1, m))
    BY <1>3, <1>4
  <2>. QED
    BY <2>1, ListShape
<1>5. Len(c) \in G
  <2> HIDE DEF G
  <2>. QED
    BY <1>1, <1>4, LogReaches
<1>6. Same(c)
  BY <1>5, FullSub
<1>. QED
  BY <1>6 DEF Same, PaintAlike
-----------------------------------------------------------------------------
(* The fold of the history.                                                *)

\* What a replay accounts for is the log that was replayed.
LEMMA ReplayAccounted ==
  ASSUME NEW rs, List(rs)
  PROVE  Accounted(Replay(rs)) /\ ActionsForFile(Replay(rs)) = rs
<1>1. SUFFICES ASSUME NEW rt, rt = Replay(rs)
               PROVE  Accounted(rt) /\ ActionsForFile(rt) = rs
  OBVIOUS
<1>2. RuntimeWhole(rt) /\ rt.actions = rs /\ rt.baseline = <<>> /\ rt.squashed = 0
  BY <1>1, ReplayWhole
<1>3. SubSeq(rs, 1, 0) = <<>> /\ SubSeq(rs, 0 + 1, Len(rs)) = rs
  BY FullSub
<1>4. <<>> \o rs = rs
  BY ConcatEmptySeq DEF List
<1>. QED
  BY <1>1, <1>2, <1>3, <1>4 DEF Accounted, ActionsForFile

\* What a runtime accounts for, in its parts.
LEMMA FileParts ==
  ASSUME NEW rt, RuntimeWhole(rt), NEW s, s = rt.squashed + 1
  PROVE  /\ List(SubSeq(rt.actions, 1, rt.squashed)) /\ List(SubSeq(rt.actions, s, Len(rt.actions)))
         /\ SubSeq(rt.actions, 1, rt.squashed) \o SubSeq(rt.actions, s, Len(rt.actions)) = rt.actions
         /\ ActionsForFile(rt) = rt.baseline \o SubSeq(rt.actions, s, Len(rt.actions))
         /\ List(ActionsForFile(rt))
<1>1. List(rt.actions) /\ List(rt.baseline) /\ rt.squashed \in 0 .. Len(rt.actions)
  BY DEF RuntimeWhole
<1>2. /\ List(SubSeq(rt.actions, 1, rt.squashed)) /\ List(SubSeq(rt.actions, s, Len(rt.actions)))
      /\ SubSeq(rt.actions, 1, rt.squashed) \o SubSeq(rt.actions, s, Len(rt.actions)) = rt.actions
  BY <1>1, Halves
<1>3. ActionsForFile(rt) = rt.baseline \o SubSeq(rt.actions, s, Len(rt.actions))
  BY DEF ActionsForFile
<1>4. List(rt.baseline \o SubSeq(rt.actions, s, Len(rt.actions)))
  <2>1. ASSUME NEW a, List(a), NEW b, List(b)
        PROVE  List(a \o b)
    BY <2>1, ConcatList
  <2>. QED
    BY <1>1, <1>2, <2>1
<1>. QED
  BY <1>2, <1>3, <1>4

\* What a runtime would write shows what it shows.
LEMMA FileShows ==
  ASSUME NEW rt, Accounted(rt)
  PROVE  Replay(ActionsForFile(rt)).canvas = rt.canvas /\ List(ActionsForFile(rt))
<1>1. SUFFICES ASSUME NEW s, s = rt.squashed + 1,
                      NEW base, base = rt.baseline,
                      NEW head, head = SubSeq(rt.actions, 1, rt.squashed),
                      NEW rest, rest = SubSeq(rt.actions, s, Len(rt.actions))
               PROVE  Replay(ActionsForFile(rt)).canvas = rt.canvas /\ List(ActionsForFile(rt))
  OBVIOUS
<1>2. RuntimeWhole(rt) /\ List(base)
  BY <1>1 DEF Accounted, RuntimeWhole
<1>3. /\ List(head) /\ List(rest) /\ head \o rest = rt.actions
      /\ ActionsForFile(rt) = base \o rest /\ List(ActionsForFile(rt))
  BY <1>1, <1>2, FileParts
<1>4. Replay(base).canvas = Replay(head).canvas
  BY <1>1 DEF Accounted
<1>5. Replay(base \o rest).canvas = Replay(head \o rest).canvas
  <2>1. PaintAlike(base, head)
    BY <1>4 DEF PaintAlike
  <2>2. PaintAlike(base \o rest, head \o rest)
    BY <1>2, <1>3, <2>1, ReplayConcat
  <2>. QED
    BY <2>2 DEF PaintAlike
<1>. QED
  BY <1>3, <1>5 DEF Accounted

\* A record more is a record more in the file.
LEMMA GrownAccounted ==
  ASSUME NEW rt, Accounted(rt), NEW r, NEW new, Grown(rt, new, r)
  PROVE  Accounted(new) /\ ActionsForFile(new) = Append(ActionsForFile(rt), r)
<1>1. /\ RuntimeWhole(rt) /\ List(rt.actions) /\ List(rt.baseline)
      /\ rt.squashed \in 0 .. Len(rt.actions) /\ Len(rt.actions) \in Nat
  BY ListShape DEF Accounted, RuntimeWhole
<1>2. /\ new.canvas = Paints(rt.canvas, r) /\ new.actions = Append(rt.actions, r)
      /\ new.baseline = rt.baseline /\ new.squashed = rt.squashed
  BY DEF Grown
<1>3. RuntimeWhole(new)
  BY <1>1, GrownWhole
<1>4. new.canvas = Replay(new.actions).canvas
  <2>1. Replay(new.actions) = ApplyActionRecord(Replay(rt.actions), r)
    BY <1>1, <1>2, ReplayAppend
  <2>2. ApplyActionRecord(Replay(rt.actions), r).canvas = Paints(Replay(rt.actions).canvas, r)
    BY <1>1, ReplayWhole, ApplyIs DEF Grown
  <2>. QED
    BY <1>2, <2>1, <2>2 DEF Accounted
<1>7. /\ List(Append(rt.actions, r)) /\ Len(Append(rt.actions, r)) = Len(rt.actions) + 1
      /\ \A i \in 1 .. Len(rt.actions) : Append(rt.actions, r)[i] = rt.actions[i]
      /\ Append(rt.actions, r)[Len(rt.actions) + 1] = r
  BY <1>1, AppendList
<1>8. SubSeq(new.actions, 1, rt.squashed) = SubSeq(rt.actions, 1, rt.squashed)
  BY <1>1, <1>2, SubPrefix
<1>9. Accounted(new)
  BY <1>2, <1>3, <1>4, <1>8 DEF Accounted
<1>10. ActionsForFile(new) = Append(ActionsForFile(rt), r)
  <2>1. SUFFICES ASSUME NEW base, base = rt.baseline, NEW acts, acts = rt.actions,
                        NEW k, k = rt.squashed, NEW s, s = k + 1, NEW n, n = Len(acts) + 1,
                        NEW rest, rest = SubSeq(acts, s, Len(acts))
                 PROVE  ActionsForFile(new) = Append(ActionsForFile(rt), r)
    BY Zenon
  <2>2. List(base) /\ List(acts) /\ k \in 0 .. Len(acts) /\ Len(acts) \in Nat
    BY <1>1, <2>1
  <2>3. s \in Nat /\ 1 <= s /\ s <= Len(acts) + 1
    BY <2>1, <2>2
  <2>4. SubSeq(Append(acts, r), s, n) = Append(rest, r)
    BY <2>1, <2>2, <2>3, SubAppend
  <2>5. List(rest)
    BY <2>1, <2>2, Halves
  <2>6. base \o Append(rest, r) = Append(base \o rest, r)
    BY <2>2, <2>5, ConcatAppend
  <2>7. Len(Append(acts, r)) = n
    BY <1>7, <2>1
  <2>8. ActionsForFile(new) = base \o SubSeq(Append(acts, r), s, n)
    BY <1>2, <2>1, <2>7, Zenon DEF ActionsForFile
  <2>9. ActionsForFile(rt) = base \o rest
    BY <2>1, Zenon DEF ActionsForFile
  <2>. QED
    BY <2>4, <2>6, <2>8, <2>9, Zenon
<1>. QED
  BY <1>9, <1>10

\* A finite set in a sequence.
LEMMA Listing ==
  ASSUME NEW S, IsFiniteSet(S), NEW s, s = SetToSeq(S)
  PROVE  List(s) /\ \A x \in S : \E i \in 1 .. Len(s) : s[i] = x
<1>1. Cardinality(S) \in Nat /\ ExistsBijection(1 .. Cardinality(S), S)
  BY FS_CardinalityType
<1>2. SUFFICES ASSUME NEW n \in Nat, n = Cardinality(S)
               PROVE  List(s) /\ \A x \in S : \E i \in 1 .. Len(s) : s[i] = x
  BY <1>1
<1>3. \E f \in [1 .. n -> S] : IsInjective(f)
  BY <1>1, <1>2 DEF ExistsBijection, Bijection, Injection
<1>4. s \in [1 .. n -> S] /\ IsInjective(s)
  BY <1>2, <1>3, Zenon DEF SetToSeq
<1>5. s \in Seq(S) /\ Len(s) = n
  BY <1>4
<1>6. IsFiniteSet(1 .. n) /\ Cardinality(1 .. n) = n
  BY FS_Interval
<1>7. s \in Injection(1 .. n, S)
  BY <1>4 DEF Injection
<1>8. s \in Surjection(1 .. n, S)
  BY <1>2, <1>6, <1>7, FS_Injection
<1>9. \A x \in S : \E i \in 1 .. n : s[i] = x
  BY <1>8 DEF Surjection
<1>. QED
  BY <1>4, <1>5, <1>9, ListOf

\* The patches that a baseline collects paint the layer, over a blank one or over itself.
LEMMA BlankSolid ==
  ASSUME NEW m, m = Blank \/ m = [c \in Cell |-> m[c]],
         NEW v, v = [c \in Cell |-> v[c]], m = Blank \/ m = v
  PROVE  ApplyAfter(m, CollectPatches(Blank, v)) = v
<1> DEFINE ps == CollectPatches(Blank, v)
<1>1. DOMAIN ps = {d \in Cell : Blank[d] # v[d]} /\ \A c \in DOMAIN ps : ps[c].after = v[c]
  BY DEF CollectPatches
<1> HIDE DEF ps
<1>2. \A c \in Cell : (IF c \in DOMAIN ps THEN ps[c].after ELSE m[c]) = v[c]
  BY <1>1
<1>3. ApplyAfter(m, ps) = [c \in Cell |-> v[c]]
  BY <1>2 DEF ApplyAfter
<1>. QED
  BY <1>3 DEF ps

\* The baseline of a picture paints it, whatever the order of its layers.
LEMMA BaselineShows ==
  ASSUME NEW cv, Picture(cv), NEW s, List(s),
         \A l \in Layer : cv[l] # Blank => \E i \in 1 .. Len(s) : s[i] = l,
         NEW bl, bl = [i \in DOMAIN s |-> BaselineOf(s[i], cv[s[i]])]
  PROVE  List(bl) /\ Replay(bl).canvas = cv
<1>1. Len(s) \in Nat /\ DOMAIN s = 1 .. Len(s)
  BY ListShape
<1>2. bl \in Seq({bl[i] : i \in 1 .. Len(s)}) /\ Len(bl) = Len(s)
  BY <1>1
<1>3. List(bl)
  BY <1>2, ListOf
<1>4. \A i \in 1 .. Len(s) : /\ bl[i].layer = s[i]
                              /\ bl[i].patches = CollectPatches(Blank, cv[s[i]])
  BY <1>1 DEF BaselineOf
<1> DEFINE Upto(n, l) == \E i \in 1 .. n : s[i] = l
           Partly(t, n) ==
             \A l \in Layer : Replay(t).canvas[l] = IF Upto(n, l) THEN cv[l] ELSE Blank
           G == {n \in 0 .. Len(bl) : Partly(SubSeq(bl, 1, n), n)}
<1>5. 0 \in G
  <2>1. SubSeq(bl, 1, 0) = <<>> /\ 0 \in 0 .. Len(bl)
    BY <1>1, <1>2, <1>3, FullSub
  <2>2. \A l \in Layer : Replay(<<>>).canvas[l] = Blank
    BY ReplayEmpty, NewWhole
  <2>3. \A l : ~Upto(0, l)
    OBVIOUS
  <2> HIDE DEF Upto
  <2>4. Partly(<<>>, 0)
    BY <2>2, <2>3
  <2> HIDE DEF Partly
  <2>. QED
    BY <2>1, <2>4
<1>6. ASSUME NEW t, List(t), NEW n \in 0 .. Len(bl), NEW m \in 1 .. Len(bl), m = n + 1,
             Partly(t, n), NEW r, r = bl[m]
      PROVE  Partly(Append(t, r), m)
  <2>1. /\ RuntimeWhole(Replay(t))
        /\ Replay(Append(t, r)).canvas = Paints(Replay(t).canvas, r)
    BY <1>6, ReplayWhole, ReplayAppend, ApplyIs DEF Grown
  <2>2. SUFFICES ASSUME NEW old, Picture(old), old = Replay(t).canvas, NEW l \in Layer
                 PROVE  Paints(old, r)[l] = IF Upto(m, l) THEN cv[l] ELSE Blank
    BY <2>1 DEF RuntimeWhole
  <2>3. old[l] = IF Upto(n, l) THEN cv[l] ELSE Blank
    BY <1>6, <2>2
  <2>4. Upto(m, l) <=> Upto(n, l) \/ s[m] = l
    BY <1>6, <1>1, <1>2
  <2>5. r.layer = s[m] /\ r.patches = CollectPatches(Blank, cv[s[m]])
    BY <1>2, <1>4, <1>6
  <2> HIDE DEF Upto
  <2>6. CASE l = s[m]
    <3>1. cv[l] = [c \in Cell |-> cv[l][c]] /\ old[l] = [c \in Cell |-> old[l][c]]
      BY <2>2, PictureParts
    <3>2. ApplyAfter(old[l], CollectPatches(Blank, cv[l])) = cv[l]
      BY <2>3, <3>1, BlankSolid
    <3>3. Paints(old, r)[l] = ApplyAfter(old[l], r.patches)
      <4>1. l = r.layer
        BY <2>5, <2>6
      <4>2. Picture(old)
        BY <2>2
      <4>. QED
        BY <4>1, <4>2, PaintsIs, Zenon
    <3>. QED
      BY <2>4, <2>5, <2>6, <3>2, <3>3
  <2>7. CASE l # s[m]
    <3>1. Paints(old, r)[l] = old[l]
      BY <2>2, <2>5, <2>7, PaintsIs
    <3>. QED
      BY <2>3, <2>4, <2>7, <3>1
  <2>. QED
    BY <2>6, <2>7
<1> HIDE DEF Partly
<1>7. ASSUME NEW n \in 0 .. Len(bl), NEW m \in 1 .. Len(bl),
             m = n + 1, n \in G, List(SubSeq(bl, 1, n)),
             SubSeq(bl, 1, m) = Append(SubSeq(bl, 1, n), bl[m])
      PROVE  m \in G
  <2>1. Partly(SubSeq(bl, 1, n), n)
    BY <1>7
  <2> HIDE DEF G
  <2>2. Partly(Append(SubSeq(bl, 1, n), bl[m]), m)
    BY <1>6, <1>7, <2>1
  <2>3. Partly(SubSeq(bl, 1, m), m)
    BY <1>7, <2>2
  <2> USE DEF G
  <2>. QED
    BY <1>1, <1>2, <2>3
<1>8. Len(bl) \in G
  <2> HIDE DEF G
  <2>. QED
    BY <1>3, <1>5, <1>7, LogReaches
<1>9. Partly(bl, Len(bl))
  BY <1>3, <1>8, FullSub
<1>10. SUFFICES ASSUME NEW new, Picture(new), new = Replay(bl).canvas
                PROVE  new = cv
  <2>1. Picture(Replay(bl).canvas)
    BY <1>3, ReplayWhole DEF RuntimeWhole
  <2>. QED
    BY <1>3, <2>1, Zenon
<1>11. \A l \in Layer : new[l] = cv[l]
  BY <1>2, <1>9, <1>10 DEF Partly
<1>12. new = [l \in Layer |-> new[l]] /\ cv = [l \in Layer |-> cv[l]]
  BY <1>10 DEF Picture
<1>13. [l \in Layer |-> new[l]] = [l \in Layer |-> cv[l]]
  BY <1>11
<1>. QED
  BY <1>12, <1>13

\* Folding the history changes neither what a runtime shows nor that its file
\* shows it.
LEMMA FoldAccounted ==
  ASSUME NEW rt, Accounted(rt)
  PROVE  Accounted(FoldHistory(rt)) /\ FoldHistory(rt).canvas = rt.canvas
<1> DEFINE cut == Len(rt.actions) - Depth
           short == SubSeq(rt.actions, 1, cut)
           head == Replay(short)
           solid == SetToSeq({l \in Layer : head.canvas[l] # Blank})
           base == [i \in DOMAIN solid |-> BaselineOf(solid[i], head.canvas[solid[i]])]
<1>1. /\ RuntimeWhole(rt) /\ List(rt.actions) /\ Len(rt.actions) \in Nat
      /\ rt.squashed \in 0 .. Len(rt.actions) /\ Depth \in Nat
  BY RuntimeAssumption, ListShape DEF Accounted, RuntimeWhole
<1>2. CASE Len(rt.actions) - rt.squashed <= Depth
  BY <1>2 DEF FoldHistory
<1>3. CASE ~(Len(rt.actions) - rt.squashed <= Depth)
  <2>1. SUFFICES ASSUME NEW new, new = FoldHistory(rt)
                 PROVE  Accounted(new) /\ new.canvas = rt.canvas
    OBVIOUS
  <2>2. new = [rt EXCEPT !.squashed = cut, !.baseline = base]
    BY <1>3, <2>1, Zenon DEF FoldHistory
  <2>3. cut \in 0 .. Len(rt.actions)
    BY <1>1, <1>3
  <2>4. List(short)
    <3>1. cut \in Nat /\ 1 <= cut + 1 /\ cut <= Len(rt.actions)
      BY <1>1, <2>3
    <3> HIDE DEF cut
    <3>. QED
      BY <1>1, <3>1, SubList
  <2> HIDE DEF short, cut
  <2>5. Picture(head.canvas)
    BY <2>4, ReplayWhole DEF RuntimeWhole
  <2> HIDE DEF head
  <2>6. /\ List(solid)
        /\ \A l \in Layer : head.canvas[l] # Blank => \E i \in 1 .. Len(solid) : solid[i] = l
    <3> DEFINE S == {l \in Layer : head.canvas[l] # Blank}
    <3>1. \A l \in Layer : head.canvas[l] # Blank => l \in S
      OBVIOUS
    <3>2. solid = SetToSeq(S)
      BY Zenon DEF solid
    <3>3. S \in SUBSET Layer
      OBVIOUS
    <3> HIDE DEF S, solid
    <3>4. IsFiniteSet(S)
      BY <3>3, RuntimeAssumption, FS_Subset
    <3>5. List(solid) /\ \A x \in S : \E i \in 1 .. Len(solid) : solid[i] = x
      BY <3>2, <3>4, Listing
    <3>. QED
      BY <3>1, <3>5
  <2> HIDE DEF solid
  <2>7. List(base) /\ Replay(base).canvas = head.canvas
    BY <2>5, <2>6, BaselineShows
  <2> HIDE DEF base
  <2>8. /\ DOMAIN new = RuntimeFields /\ new.canvas = rt.canvas /\ new.actions = rt.actions
        /\ new.baseline = base /\ new.squashed = cut
    BY <1>1, <2>2 DEF RuntimeWhole, RuntimeFields
  <2>9. RuntimeWhole(new)
    BY <1>1, <2>3, <2>7, <2>8 DEF RuntimeWhole
  <2>10. Replay(new.baseline).canvas = Replay(SubSeq(new.actions, 1, new.squashed)).canvas
    BY <2>7, <2>8 DEF head, short
  <2>11. new.canvas = Replay(new.actions).canvas
    BY <2>8 DEF Accounted
  <2>. QED
    BY <2>8, <2>9, <2>10, <2>11 DEF Accounted
<1>. QED
  BY <1>2, <1>3
-----------------------------------------------------------------------------
(* Painters and files, one step of either.                                 *)

\* Directories of different kinds differ.
LEMMA Places ==
  /\ \A n, m : Works(n) \cap Vaults(m) = {} /\ Users \cap Works(n) = {} /\ Users \cap Vaults(n) = {}
  /\ NoRoot \notin Users /\ \A n : NoRoot \notin Works(n) \cup Vaults(n)
  /\ \A a, b : Work(a) = Work(b) => a = b
BY DEF Users, Works, Vaults, User, Work, Vault, NoRoot

\* With more documents there are more directories.
LEMMA PlacesGrow ==
  ASSUME NEW n \in Nat, NEW m \in Nat, n <= m
  PROVE  Works(n) \subseteq Works(m) /\ Vaults(n) \subseteq Vaults(m)
BY DEF Works, Vaults

\* The three kinds of directories.
LEMMA RootsAre == Roots = Users \cup Works(MaxDocs) \cup Vaults(MaxDocs)
BY DEF Roots, Users, Works, Vaults

\* The bounds are numbers.
LEMMA Numbers == Painters \in Nat /\ MaxDocs \in Nat /\ MaxRev \in Nat /\ Painters <= MaxDocs /\ 1 <= MaxRev
BY StoreAssumption

\* With more documents about, all stays whole.
LEMMA MoreDocs ==
  ASSUME NEW n \in Nat, NEW m \in Nat, n <= m
  PROVE  /\ \A d : FileWhole(d, n) => FileWhole(d, m)
         /\ \A q : PainterWhole(q, n) => PainterWhole(q, m)
<1>1. 0 .. n \subseteq 0 .. m /\ 1 .. n \subseteq 1 .. m
  OBVIOUS
<1>2. ASSUME NEW d, FileWhole(d, n)
      PROVE  FileWhole(d, m)
  BY <1>1, <1>2 DEF FileWhole
<1>3. ASSUME NEW q, PainterWhole(q, n)
      PROVE  PainterWhole(q, m)
  <2>1. q.path \in Users \cup Works(m) /\ q.vault \in Vaults(m) \cup {NoRoot}
    BY <1>3, PlacesGrow DEF PainterWhole
  <2>2. q.doc \in 1 .. m
    BY <1>1, <1>3 DEF PainterWhole
  <2>. QED
    BY <1>3, <2>1, <2>2 DEF PainterWhole
<1>. QED
  BY <1>2, <1>3

\* An empty directory.
LEMMA NoFilesWhole ==
  ASSUME NEW n \in Nat
  PROVE  FileWhole(NoFiles, n) /\ NoFiles.id = 0 /\ NoFiles.log = <<>>
BY Numbers, EmptyList DEF FileWhole, NoFiles

\* A fresh document.
LEMMA FreshWhole ==
  ASSUME NEW n \in Nat, NEW d \in 1 .. n
  PROVE  /\ PainterWhole(Fresh(d), n) /\ Fresh(d).net = "none" /\ Fresh(d).hosting = FALSE
         /\ Fresh(d).rt = NewRuntime /\ Fresh(d).path = Work(d) /\ Fresh(d).root = NoRoot
<1>1. SUFFICES ASSUME NEW q, q = Fresh(d)
               PROVE  /\ PainterWhole(q, n) /\ q.net = "none" /\ q.hosting = FALSE
                      /\ q.rt = NewRuntime /\ q.path = Work(d) /\ q.root = NoRoot
  OBVIOUS
<1>2. /\ DOMAIN q = PainterFields /\ q.rt = NewRuntime /\ q.doc = d /\ q.rev = 0 /\ q.net = "none"
      /\ q.path = Work(d) /\ q.root = NoRoot /\ q.vault = NoRoot /\ q.hosting = FALSE
  BY <1>1 DEF Fresh, PainterFields
<1>3. Accounted(NewRuntime)
  BY ReplayEmpty, EmptyList, ReplayAccounted
<1>4. Work(d) \in Works(n)
  BY DEF Works
<1>. QED
  BY <1>2, <1>3, <1>4, Numbers DEF PainterWhole

\* A snapshot save.
LEMMA FoldedWhole ==
  ASSUME NEW n \in Nat, NEW q, PainterWhole(q, n), q.rev < MaxRev
  PROVE  /\ PainterWhole(Folded(q), n)
         /\ Folded(q).rt.canvas = q.rt.canvas /\ Folded(q).rev = q.rev + 1
         /\ \A f \in PainterFields \ {"rt", "rev"} : Folded(q)[f] = q[f]
<1>1. SUFFICES ASSUME NEW new, new = Folded(q)
               PROVE  /\ PainterWhole(new, n)
                      /\ new.rt.canvas = q.rt.canvas /\ new.rev = q.rev + 1
                      /\ \A f \in PainterFields \ {"rt", "rev"} : new[f] = q[f]
  OBVIOUS
<1>2. /\ DOMAIN new = PainterFields /\ new.rt = FoldHistory(q.rt) /\ new.rev = q.rev + 1
      /\ \A f \in PainterFields \ {"rt", "rev"} : new[f] = q[f]
  BY <1>1 DEF Folded, PainterWhole, PainterFields
<1>3. Accounted(new.rt) /\ new.rt.canvas = q.rt.canvas
  BY <1>2, FoldAccounted DEF PainterWhole
<1>4. q.rev + 1 \in 0 .. MaxRev
  BY Numbers DEF PainterWhole
<1>5. /\ new.doc = q.doc /\ new.net = q.net /\ new.path = q.path /\ new.root = q.root
      /\ new.vault = q.vault
  BY <1>2 DEF PainterFields
<1>. QED
  BY <1>2, <1>3, <1>4, <1>5 DEF PainterWhole

\* The two files of a save (write_snapshot_files).
LEMMA FilesAreWhole ==
  ASSUME NEW n \in Nat, NEW q, PainterWhole(q, n)
  PROVE  /\ FileWhole(Files(q), n) /\ Files(q).id = q.doc /\ Files(q).rev = q.rev
         /\ Files(q).log = ActionsForFile(q.rt)
<1>1. SUFFICES ASSUME NEW d, d = Files(q)
               PROVE  /\ FileWhole(d, n) /\ d.id = q.doc /\ d.rev = q.rev
                      /\ d.log = ActionsForFile(q.rt)
  OBVIOUS
<1>2. /\ DOMAIN d = {"id", "rev", "logged", "log"} /\ d.id = q.doc /\ d.rev = q.rev
      /\ d.log = ActionsForFile(q.rt) /\ d.logged
  BY <1>1 DEF Files
<1>3. List(ActionsForFile(q.rt))
  BY FileShows DEF PainterWhole
<1>. QED
  BY <1>2, <1>3 DEF FileWhole, PainterWhole

\* After a refused save: the painter as it was, or the files.
Reread(q, d, new) ==
  /\ new.net = q.net /\ new.path = q.path /\ new.root = q.root /\ new.vault = q.vault
  /\ \/ d.id = 0 /\ new = q
     \/ /\ d.id # 0 /\ ~new.hosting
        /\ new.rt = Replay(d.log) /\ new.doc = d.id /\ new.rev = d.rev

\* A document that is loaded.
LEMMA LoadedWhole ==
  ASSUME NEW n \in Nat, NEW q, PainterWhole(q, n), NEW d, FileWhole(d, n), d.id # 0
  PROVE  PainterWhole(Loaded(q, d), n) /\ Reread(q, d, Loaded(q, d))
<1>1. SUFFICES ASSUME NEW new, new = Loaded(q, d)
               PROVE  PainterWhole(new, n) /\ Reread(q, d, new)
  OBVIOUS
<1>2. /\ DOMAIN new = PainterFields /\ new.rt = Replay(d.log) /\ new.doc = d.id /\ new.rev = d.rev
      /\ new.hosting = FALSE /\ new.net = q.net /\ new.path = q.path /\ new.root = q.root
      /\ new.vault = q.vault
  BY <1>1 DEF Loaded, PainterWhole, PainterFields
<1>3. Accounted(new.rt)
  BY <1>2, ReplayAccounted DEF FileWhole
<1>4. d.id \in 1 .. n
  BY DEF FileWhole
<1>5. PainterWhole(new, n)
  BY <1>2, <1>3, <1>4 DEF PainterWhole, FileWhole
<1>. QED
  BY <1>2, <1>5 DEF Reread

\* A record that is appended to a log.
LEMMA AppendedWhole ==
  ASSUME NEW n \in Nat, NEW d, FileWhole(d, n), NEW r
  PROVE  /\ FileWhole(Appended(d, r), n) /\ Appended(d, r).log = Append(d.log, r)
         /\ Appended(d, r).id = d.id /\ Appended(d, r).rev = d.rev
<1>1. SUFFICES ASSUME NEW new, new = Appended(d, r)
               PROVE  /\ FileWhole(new, n) /\ new.log = Append(d.log, r)
                      /\ new.id = d.id /\ new.rev = d.rev
  OBVIOUS
<1>2. /\ DOMAIN new = {"id", "rev", "logged", "log"} /\ new.log = Append(d.log, r)
      /\ new.id = d.id /\ new.rev = d.rev /\ new.logged
  BY <1>1 DEF Appended, FileWhole
<1>3. List(Append(d.log, r))
  BY AppendList DEF FileWhole
<1>. QED
  BY <1>2, <1>3 DEF FileWhole

\* new is the painter q with runtime rt.
Refitted(q, rt, new, n) ==
  /\ PainterWhole(new, n) /\ new.rt = rt
  /\ \A f \in PainterFields \ {"rt"} : new[f] = q[f]

\* A painter whose runtime has a record more.
LEMMA GrownPainter ==
  ASSUME NEW n \in Nat, NEW q, PainterWhole(q, n), NEW rt, NEW r, Grown(q.rt, rt, r),
         NEW new, new = [q EXCEPT !.rt = rt]
  PROVE  Refitted(q, rt, new, n)
<1>1. SUFFICES /\ PainterWhole(new, n) /\ new.rt = rt
               /\ \A f \in PainterFields \ {"rt"} : new[f] = q[f]
  BY DEF Refitted
<1>2. /\ DOMAIN new = PainterFields /\ new.rt = rt
      /\ \A f \in PainterFields \ {"rt"} : new[f] = q[f]
  BY <1>1 DEF PainterWhole, PainterFields
<1>3. Accounted(rt)
  BY GrownAccounted DEF PainterWhole
<1>4. /\ new.doc = q.doc /\ new.rev = q.rev /\ new.net = q.net /\ new.path = q.path
      /\ new.root = q.root /\ new.vault = q.vault
  BY <1>2 DEF PainterFields
<1>. QED
  BY <1>2, <1>3, <1>4 DEF PainterWhole

\* Undo and redo: the revert record paints what the painter has put back.
LEMMA UndoGrown ==
  ASSUME NEW rt, RuntimeWhole(rt), NEW l, NEW id, NEW u, NEW x, x = TopApplied(rt, l),
         NEW r, r = Revert(id, u, l, Inversed(PatchesOf(rt, x)), x)
  PROVE  Grown(rt, PushHistoryRecord(UndoTop(rt, l), r), r)
<1>1. SUFFICES ASSUME NEW ps, ps = PatchesOf(rt, x), NEW top, top = UndoTop(rt, l)
               PROVE  Grown(rt, [top EXCEPT !.actions = Append(@, r)], r)
  BY Zenon DEF PushHistoryRecord
<1>2. DOMAIN rt = RuntimeFields
  BY DEF RuntimeWhole
<1>3. r.layer = l /\ r.patches = Inversed(ps)
  BY <1>1 DEF Revert
<1>4. top = [rt EXCEPT !.canvas[l] = ApplyBefore(@, ps),
                       !.applied[l] = Front(@), !.undone[l] = Append(@, x)]
  BY <1>1 DEF UndoTop
<1>5. /\ DOMAIN top = RuntimeFields /\ top.canvas = [rt.canvas EXCEPT ![l] = ApplyBefore(@, ps)]
      /\ top.actions = rt.actions /\ top.baseline = rt.baseline /\ top.squashed = rt.squashed
  BY <1>2, <1>4 DEF RuntimeFields
<1>6. top.canvas = Paints(rt.canvas, r)
  BY <1>3, <1>5, ApplyBeforeIs DEF Paints
<1>. QED
  BY <1>5, <1>6 DEF Grown, RuntimeFields

\* Redo, likewise.
LEMMA RedoGrown ==
  ASSUME NEW rt, RuntimeWhole(rt), NEW l, NEW id, NEW u, NEW x, x = TopUndone(rt, l),
         NEW r, r = Revert(id, u, l, PatchesOf(rt, x), x)
  PROVE  Grown(rt, PushHistoryRecord(RedoTop(rt, l), r), r)
<1>1. SUFFICES ASSUME NEW ps, ps = PatchesOf(rt, x), NEW top, top = RedoTop(rt, l)
               PROVE  Grown(rt, [top EXCEPT !.actions = Append(@, r)], r)
  BY Zenon DEF PushHistoryRecord
<1>2. DOMAIN rt = RuntimeFields
  BY DEF RuntimeWhole
<1>3. r.layer = l /\ r.patches = ps
  BY <1>1 DEF Revert
<1>4. top = [rt EXCEPT !.canvas[l] = ApplyAfter(@, ps),
                       !.undone[l] = Front(@), !.applied[l] = Append(@, x)]
  BY <1>1 DEF RedoTop
<1>5. /\ DOMAIN top = RuntimeFields /\ top.canvas = [rt.canvas EXCEPT ![l] = ApplyAfter(@, ps)]
      /\ top.actions = rt.actions /\ top.baseline = rt.baseline /\ top.squashed = rt.squashed
  BY <1>2, <1>4 DEF RuntimeFields
<1>. QED
  BY <1>3, <1>5 DEF Grown, RuntimeFields, Paints

\* A record that paints nothing.
LEMMA PushGrown ==
  ASSUME NEW rt, RuntimeWhole(rt), NEW r, r.patches = <<>>
  PROVE  Grown(rt, PushHistoryRecord(rt, r), r)
<1>1. DOMAIN rt = RuntimeFields /\ Picture(rt.canvas)
  BY DEF RuntimeWhole
<1>2. DOMAIN r.patches = {}
  BY EmptySeq
<1>3. Paints(rt.canvas, r) = rt.canvas
  BY <1>1, <1>2, PaintsIs
<1>. QED
  BY <1>1, <1>3 DEF Grown, PushHistoryRecord, RuntimeFields
-----------------------------------------------------------------------------
(* Steps of the store.                                                     *)

\* Retiring the vault folder touches nothing else of the painter.
LEMMA RetiredWhole ==
  ASSUME NEW n \in Nat, NEW m \in Nat, NEW old, PainterWhole(old, m), NEW new, PainterWhole(new, n)
  PROVE  /\ PainterWhole(Retire(old, new).q, n)
         /\ \A f \in PainterFields \ {"vault"} : Retire(old, new).q[f] = new[f]
         /\ Retire(old, new).d \subseteq Vaults(m)
<1>1. CASE (new.doc # old.doc \/ new.root # old.root) /\ old.vault # NoRoot
  <2>1. SUFFICES ASSUME NEW q, q = [new EXCEPT !.vault = NoRoot]
                 PROVE  /\ PainterWhole(q, n)
                        /\ \A f \in PainterFields \ {"vault"} : q[f] = new[f]
                        /\ (IF old.vault = new.root THEN {} ELSE {old.vault}) \subseteq Vaults(m)
    BY <1>1 DEF Retire
  <2>2. DOMAIN q = PainterFields /\ q.vault = NoRoot /\ \A f \in PainterFields \ {"vault"} : q[f] = new[f]
    BY <2>1 DEF PainterWhole, PainterFields
  <2>3. /\ q.rt = new.rt /\ q.doc = new.doc /\ q.rev = new.rev /\ q.net = new.net
        /\ q.path = new.path /\ q.root = new.root
    BY <2>2 DEF PainterFields
  <2>4. PainterWhole(q, n)
    BY <2>2, <2>3 DEF PainterWhole
  <2>5. old.vault \in Vaults(m)
    BY <1>1 DEF PainterWhole
  <2>. QED
    BY <2>2, <2>4, <2>5
<1>2. CASE ~((new.doc # old.doc \/ new.root # old.root) /\ old.vault # NoRoot)
  <2>1. Retire(old, new) = [d |-> {}, q |-> new]
    BY <1>2, Zenon DEF Retire
  <2>. QED
    BY <2>1
<1>. QED
  BY <1>1, <1>2

\* What a painter becomes, the others and the directories in use.
LEMMA BecomesIs ==
  ASSUME StoreWhole, NEW p \in Painter, NEW new, NEW r \in Roots, NEW files,
         docs' \in docs .. MaxDocs, PainterWhole(new, docs'), FileWhole(files, docs'),
         Becomes(p, new, r, files)
  PROVE  /\ StoreWhole'
         /\ \A f \in PainterFields \ {"vault"} : painter'[p][f] = new[f]
         /\ \A x \in Users \cup Works(MaxDocs) : disk'[x] = IF x = r THEN files ELSE disk[x]
<1>1. SUFFICES ASSUME NEW ret, ret = Retire(painter[p], new), NEW n \in Nat, n = docs'
               PROVE  /\ StoreWhole'
                      /\ \A f \in PainterFields \ {"vault"} : painter'[p][f] = new[f]
                      /\ \A x \in Users \cup Works(MaxDocs) :
                           disk'[x] = IF x = r THEN files ELSE disk[x]
  BY Numbers DEF StoreWhole
<1>2. /\ painter' = [painter EXCEPT ![p] = ret.q]
      /\ disk' = [x \in Roots |-> IF x \in ret.d THEN NoFiles ELSE IF x = r THEN files ELSE disk[x]]
  BY <1>1, Zenon DEF Becomes
<1>3. /\ docs \in Nat /\ docs <= n /\ n <= MaxDocs
      /\ PainterWhole(painter[p], docs) /\ PainterWhole(new, n) /\ FileWhole(files, n)
  BY <1>1, Numbers DEF StoreWhole
<1>4. /\ PainterWhole(ret.q, n) /\ \A f \in PainterFields \ {"vault"} : ret.q[f] = new[f]
      /\ ret.d \subseteq Vaults(docs)
  <2>1. SUFFICES ASSUME NEW old, old = painter[p], NEW m \in Nat, m = docs
                 PROVE  /\ PainterWhole(ret.q, n)
                        /\ \A f \in PainterFields \ {"vault"} : ret.q[f] = new[f]
                        /\ ret.d \subseteq Vaults(docs)
    BY <1>3
  <2>2. PainterWhole(old, m) /\ ret = Retire(old, new)
    BY <1>1, <1>3, <2>1
  <2>3. /\ PainterWhole(Retire(old, new).q, n)
        /\ \A f \in PainterFields \ {"vault"} : Retire(old, new).q[f] = new[f]
        /\ Retire(old, new).d \subseteq Vaults(m)
    BY <1>3, <2>2, RetiredWhole
  <2>. QED
    BY <2>1, <2>2, <2>3
<1>5. /\ painter'[p] = ret.q /\ painter' = [o \in Painter |-> painter'[o]]
      /\ \A o \in Painter : o # p => painter'[o] = painter[o]
  BY <1>2 DEF StoreWhole
<1>6. \A x \in Roots : disk'[x] \in {NoFiles, files, disk[x]}
  BY <1>2
<1>7. \A x \in Roots : FileWhole(disk'[x], n)
  BY <1>3, <1>6, NoFilesWhole, MoreDocs DEF StoreWhole
<1>8. \A o \in Painter : PainterWhole(painter'[o], n)
  BY <1>3, <1>4, <1>5, MoreDocs DEF StoreWhole
<1>9. StoreWhole'
  <2>1. n \in 0 .. MaxDocs /\ disk' = [x \in Roots |-> disk'[x]]
    BY <1>2, <1>3
  <2>2. PICK k \in 0 .. MaxDocs : k = docs' /\ k = n
    BY <1>1, <2>1
  <2>. QED
    BY <1>5, <1>7, <1>8, <2>1, <2>2 DEF StoreWhole
<1>10. ASSUME NEW x \in Users \cup Works(MaxDocs)
       PROVE  disk'[x] = IF x = r THEN files ELSE disk[x]
  <2>1. x \notin ret.d /\ x \in Roots
    BY <1>4, Places, RootsAre
  <2>. QED
    BY <1>2, <2>1
<1>. QED
  BY <1>4, <1>5, <1>9, <1>10
-----------------------------------------------------------------------------
(* One painter and the files under it, one step of both.                   *)

\* A painter that has just written its files.
LEMMA SavedSolo ==
  ASSUME NEW n \in Nat, NEW q, PainterWhole(q, n), q.hosting => q.net = "host",
         NEW d, d.id = q.doc, d.rev = q.rev, d.log = ActionsForFile(q.rt)
  PROVE  Solo(q, d)
<1>1. Replay(d.log).canvas = q.rt.canvas
  BY FileShows DEF PainterWhole
<1>2. q.doc # 0 /\ q.rev \in Nat
  BY Numbers DEF PainterWhole
<1>. QED
  BY <1>1, <1>2 DEF Solo, Shown, Settled, Counted, Behind

\* One that has just read them.
LEMMA LoadedSolo ==
  ASSUME NEW n \in Nat, NEW q, NEW d, FileWhole(d, n), d.id # 0,
         q.rt = Replay(d.log), q.doc = d.id, q.rev = d.rev, ~q.hosting
  PROVE  Solo(q, d)
<1>1. ActionsForFile(q.rt) = d.log
  BY ReplayAccounted DEF FileWhole
<1>2. d.rev \in Nat
  BY Numbers DEF FileWhole
<1>. QED
  BY <1>1, <1>2 DEF Solo, Shown, Settled, Counted, Behind

\* q and new differ in their runtime, and where the vault is.
SameSeat(q, new) ==
  /\ new.doc = q.doc /\ new.rev = q.rev /\ new.hosting = q.hosting /\ new.net = q.net
  /\ new.path = q.path /\ new.root = q.root

\* Only Solo's own fields count.
LEMMA SameSolo ==
  ASSUME NEW q, NEW new, SameSeat(q, new), new.rt = q.rt, NEW d, Solo(q, d)
  PROVE  Solo(new, d)
<1>1. Persists(new) = Persists(q)
  BY DEF SameSeat, Persists
<1>. QED
  BY <1>1 DEF Solo, Shown, Settled, Counted, Behind, SameSeat

\* A record that goes to both.
LEMMA LoggedSolo ==
  ASSUME NEW n \in Nat, NEW q, PainterWhole(q, n), NEW d, FileWhole(d, n), Solo(q, d),
         NEW r, NEW new, SameSeat(q, new), Grown(q.rt, new.rt, r),
         NEW e, e.id = d.id, e.rev = d.rev, e.log = Append(d.log, r)
  PROVE  Solo(new, e)
<1>1. SUFFICES ASSUME NEW a, a = ActionsForFile(q.rt)
               PROVE  Solo(new, e)
  OBVIOUS
<1>2. List(a) /\ ActionsForFile(new.rt) = Append(a, r)
  BY <1>1, GrownAccounted, FileShows DEF PainterWhole
<1>3. List(d.log)
  BY DEF FileWhole
<1>4. /\ Len(Append(a, r)) = Len(a) + 1 /\ Len(Append(d.log, r)) = Len(d.log) + 1
      /\ Len(a) \in Nat /\ Len(d.log) \in Nat
  BY <1>2, <1>3, AppendList, ListShape
<1>5. Shown(new, e)
  <2>1. SUFFICES ASSUME q.net = "none"
                 PROVE  Replay(e.log).canvas = new.rt.canvas
    BY DEF Shown, SameSeat
  <2>2. Replay(d.log).canvas = q.rt.canvas
    BY <2>1 DEF Solo, Shown
  <2>3. Replay(e.log).canvas = Paints(Replay(d.log).canvas, r)
    BY <1>3, ReplayAppend, ReplayWhole, ApplyIs DEF Grown
  <2>. QED
    BY <2>2, <2>3 DEF Grown
<1>6. Persists(new) = Persists(q)
  BY DEF SameSeat, Persists
<1>7. Settled(new, e)
  BY <1>6 DEF Solo, Settled, SameSeat
<1>8. Counted(new, e)
  BY <1>1, <1>2, <1>4 DEF Solo, Counted, SameSeat
<1>9. Behind(new, e)
  <2>1. SUFFICES ASSUME Persists(q), d.id = q.doc
                 PROVE  /\ d.rev <= q.rev
                        /\ d.rev = q.rev => e.log = Append(a, r) \/ Len(e.log) < Len(Append(a, r))
    BY <1>2, <1>6 DEF Behind, SameSeat
  <2>2. d.rev <= q.rev /\ (d.rev = q.rev => d.log = a \/ Len(d.log) < Len(a))
    BY <1>1, <2>1 DEF Solo, Behind
  <2>. QED
    BY <1>4, <2>2
<1>. QED
  BY <1>5, <1>7, <1>8, <1>9 DEF Solo, SameSeat

\* A record of another, in a session: the log falls behind.
LEMMA ForeignSolo ==
  ASSUME NEW n \in Nat, NEW q, PainterWhole(q, n), NEW d, FileWhole(d, n), Solo(q, d),
         q.net # "none", NEW r, NEW new, SameSeat(q, new), Grown(q.rt, new.rt, r)
  PROVE  Solo(new, d)
<1>1. SUFFICES ASSUME NEW a, a = ActionsForFile(q.rt)
               PROVE  Solo(new, d)
  OBVIOUS
<1>2. List(a) /\ ActionsForFile(new.rt) = Append(a, r)
  BY <1>1, GrownAccounted, FileShows DEF PainterWhole
<1>3. Len(Append(a, r)) = Len(a) + 1 /\ Len(a) \in Nat /\ Len(d.log) \in Nat
  BY <1>2, AppendList, ListShape DEF FileWhole
<1>4. Persists(new) = Persists(q)
  BY DEF SameSeat, Persists
<1>5. Behind(new, d)
  <2>1. SUFFICES ASSUME Persists(q), d.id = q.doc
                 PROVE  /\ d.rev <= q.rev
                        /\ d.rev = q.rev => d.log = Append(a, r) \/ Len(d.log) < Len(Append(a, r))
    BY <1>2, <1>4 DEF Behind, SameSeat
  <2>2. d.rev <= q.rev /\ (d.rev = q.rev => d.log = a \/ Len(d.log) < Len(a))
    BY <1>1, <2>1 DEF Solo, Behind
  <2>. QED
    BY <1>3, <2>2
<1>. QED
  BY <1>4, <1>5 DEF Solo, SameSeat, Shown, Settled, Counted

\* A client's files are the host's concern.
LEMMA ClientSolo ==
  ASSUME NEW q, q.net = "client", ~q.hosting, NEW d
  PROVE  Solo(q, d)
BY DEF Solo, Shown, Settled, Counted, Behind, Persists

\* A fresh document has no files.
LEMMA FreshSolo ==
  ASSUME NEW n \in Nat, NEW q, PainterWhole(q, n), ~q.hosting, q.root = NoRoot, q.rt = NewRuntime,
         q.path \in Works(n)
  PROVE  Solo(q, NoFiles)
<1>1. NoFiles.id = 0 /\ Replay(NoFiles.log) = NewRuntime
  BY NoFilesWhole, ReplayEmpty
<1>2. q.root # q.path /\ q.path \notin Users /\ q.doc # 0
  BY Places DEF PainterWhole
<1>. QED
  BY <1>1, <1>2 DEF Solo, Shown, Settled, Counted, Behind

\* A save elsewhere leaves the log of the directory behind by its revision.
LEMMA ElsewhereSolo ==
  ASSUME NEW n \in Nat, NEW q, PainterWhole(q, n), NEW d, FileWhole(d, n), Solo(q, d),
         q.root # q.path,
         NEW new, new.rt.canvas = q.rt.canvas, new.rev = q.rev + 1,
         new.doc = q.doc, new.net = q.net, new.hosting = q.hosting, new.path = q.path, new.root = q.root
  PROVE  Solo(new, d)
<1>1. d.rev \in Nat /\ q.rev \in Nat
  BY Numbers DEF PainterWhole, FileWhole
<1>2. Persists(new) = Persists(q)
  BY DEF Persists
<1>. QED
  BY <1>1, <1>2 DEF Solo, Shown, Settled, Counted, Behind

\* What Solo is for.
LEMMA SoloGuards ==
  ASSUME NEW n \in Nat, NEW q, PainterWhole(q, n), NEW d, FileWhole(d, n), Solo(q, d)
  PROVE  /\ Persists(q) /\ ~q.hosting /\ d.id = q.doc /\ Guards(q, d) /\ d.logged
              => d.log = ActionsForFile(q.rt)
         /\ q.net = "none" => Replay(d.log).canvas = q.rt.canvas
         /\ q.net = "none" /\ q.root = q.path => Guards(q, d)
<1>1. q.doc # 0 /\ Len(ActionsForFile(q.rt)) \in Nat
  BY FileShows, ListShape DEF PainterWhole
<1>2. ASSUME Persists(q), ~q.hosting, d.id = q.doc, Guards(q, d), d.logged
      PROVE  d.log = ActionsForFile(q.rt)
  <2>1. d.rev = q.rev /\ Len(d.log) = Len(ActionsForFile(q.rt))
    BY <1>1, <1>2 DEF Guards
  <2>2. d.log = ActionsForFile(q.rt) \/ Len(d.log) < Len(ActionsForFile(q.rt))
    BY <1>2, <2>1 DEF Solo, Behind
  <2>. QED
    BY <1>1, <2>1, <2>2
<1>3. ASSUME q.net = "none", q.root = q.path
      PROVE  Guards(q, d)
  BY <1>3 DEF Guards, Solo, Counted
<1>. QED
  BY <1>2, <1>3 DEF Solo, Shown
-----------------------------------------------------------------------------
(* The invariant is kept.                                                  *)

Keeps == StoreWhole' /\ (Painters = 1 /\ StoreInv => StoreInv')

\* Who is the one painter.
LEMMA OnlyOne ==
  ASSUME Painters = 1, NEW p \in Painter
  PROVE  p = 1
BY DEF Painter

\* A painter becomes another, by Becomes.
LEMMA BecomesKeeps ==
  ASSUME StoreWhole, NEW p \in Painter, NEW new, NEW files,
         docs' \in docs .. MaxDocs, NEW r \in Users \cup Works(docs') \cup Vaults(docs'),
         PainterWhole(new, docs'), FileWhole(files, docs'), Becomes(p, new, r, files),
         Painters = 1 /\ StoreInv =>
           /\ Solo(new, IF new.path = r THEN files ELSE disk[new.path])
           /\ r \in Users /\ files.id = 0 => files = NoFiles
  PROVE  Keeps
<1>1. docs \in Nat /\ docs' \in Nat /\ docs <= docs' /\ docs' <= MaxDocs /\ MaxDocs \in Nat
  BY Numbers DEF StoreWhole
<1>2. Works(docs') \subseteq Works(MaxDocs) /\ Vaults(docs') \subseteq Vaults(MaxDocs)
  BY <1>1, PlacesGrow
<1>3. r \in Roots
  BY <1>2, RootsAre
<1>4. /\ StoreWhole'
      /\ \A f \in PainterFields \ {"vault"} : painter'[p][f] = new[f]
      /\ \A x \in Users \cup Works(MaxDocs) : disk'[x] = IF x = r THEN files ELSE disk[x]
  BY <1>3, BecomesIs
<1>5. ASSUME Painters = 1, StoreInv
      PROVE  StoreInv'
  <2>1. SUFFICES ASSUME NEW q, q = painter'[p]
                 PROVE  Virgin' /\ Solo(q, disk'[q.path])
    BY <1>4, <1>5, OnlyOne DEF StoreInv
  <2>2. SameSeat(new, q) /\ q.rt = new.rt
    BY <1>4, <2>1 DEF SameSeat, PainterFields
  <2>3. new.path \in Users \cup Works(MaxDocs)
    BY <1>2 DEF PainterWhole
  <2>4. disk'[q.path] = IF new.path = r THEN files ELSE disk[new.path]
    BY <1>4, <2>2, <2>3 DEF SameSeat
  <2>5. Solo(q, disk'[q.path])
    BY <1>5, <2>2, <2>4, SameSolo
  <2>6. ASSUME NEW n \in 1 .. MaxDocs, docs' < n
        PROVE  disk'[Work(n)] = NoFiles
    <3>1. docs < n /\ n \notin 1 .. docs'
      BY <1>1, <2>6
    <3>2. Work(n) \in Works(MaxDocs) /\ Work(n) \notin Works(docs')
      BY <3>1, Places DEF Works
    <3>3. Work(n) # r
      BY <3>2, Places
    <3>4. disk[Work(n)] = NoFiles
      BY <1>5, <3>1 DEF StoreInv, Virgin
    <3>. QED
      BY <1>4, <3>2, <3>3, <3>4
  <2>7. ASSUME NEW x \in Users, disk'[x].id = 0
        PROVE  disk'[x] = NoFiles
    BY <1>4, <1>5, <2>7 DEF StoreInv, Virgin
  <2>. QED
    BY <2>5, <2>6, <2>7 DEF Virgin
<1>. QED
  BY <1>4, <1>5 DEF Keeps

\* The painter is replaced, the directories are not or stay whole.
LEMMA PutWhole ==
  ASSUME StoreWhole, NEW p \in Painter, NEW new, docs' \in docs .. MaxDocs,
         PainterWhole(new, docs'), painter' = [painter EXCEPT ![p] = new],
         disk' = [x \in Roots |-> disk'[x]], \A x \in Roots : FileWhole(disk'[x], docs')
  PROVE  StoreWhole' /\ painter'[p] = new
<1>1. docs \in Nat /\ docs' \in Nat /\ docs <= docs' /\ docs' \in 0 .. MaxDocs
  BY Numbers DEF StoreWhole
<1>2. /\ painter'[p] = new /\ painter' = [o \in Painter |-> painter'[o]]
      /\ \A o \in Painter : o # p => painter'[o] = painter[o]
  BY DEF StoreWhole
<1>3. \A o \in Painter : PainterWhole(painter'[o], docs')
  BY <1>1, <1>2, MoreDocs DEF StoreWhole
<1>. QED
  BY <1>1, <1>2, <1>3 DEF StoreWhole

\* A record that is logged.
LEMMA LogKeeps ==
  ASSUME StoreWhole, NEW p \in Painter, NEW rt, NEW r, Grown(painter[p].rt, rt, r),
         Log(p, rt, r), docs' = docs
  PROVE  Keeps
<1>0. docs \in Nat
  BY Numbers DEF StoreWhole
<1>1. SUFFICES ASSUME NEW q, q = painter[p], NEW new, new = [q EXCEPT !.rt = rt],
                      NEW n \in Nat, n = docs
               PROVE  Keeps
  BY <1>0
<1>2. /\ painter' = [painter EXCEPT ![p] = new]
      /\ disk' = IF Persists(q) THEN [disk EXCEPT ![q.path] = Appended(@, r)] ELSE disk
  BY <1>1 DEF Log
<1>3. /\ PainterWhole(q, n) /\ n <= MaxDocs /\ docs' \in docs .. MaxDocs /\ MaxDocs \in Nat
      /\ \A x \in Roots : FileWhole(disk[x], n)
  BY <1>1, Numbers DEF StoreWhole
<1>4. PainterWhole(new, n) /\ new.rt = rt /\ SameSeat(q, new)
  <2>1. Grown(q.rt, rt, r)
    BY <1>1
  <2>2. /\ PainterWhole(new, n) /\ new.rt = rt
        /\ \A f \in PainterFields \ {"rt"} : new[f] = q[f]
    <3>1. PainterWhole(q, n)
      BY <1>3
    <3>2. Refitted(q, rt, new, n)
      BY <1>1, <2>1, <3>1, GrownPainter
    <3>. QED
      BY <3>2 DEF Refitted
  <2>. QED
    BY <2>2 DEF SameSeat, PainterFields
<1>5. q.path \in Roots /\ q.path \in Users \cup Works(MaxDocs)
  BY <1>3, PlacesGrow, RootsAre DEF PainterWhole
<1>6. disk' = [x \in Roots |-> disk'[x]]
  BY <1>2 DEF StoreWhole
<1>7. \A x \in Roots : x # q.path => disk'[x] = disk[x]
  BY <1>2, <1>5 DEF StoreWhole
<1>8. disk'[q.path] = IF Persists(q) THEN Appended(disk[q.path], r) ELSE disk[q.path]
  BY <1>2, <1>5 DEF StoreWhole
<1>9. FileWhole(disk[q.path], n) /\ FileWhole(Appended(disk[q.path], r), n)
  BY <1>3, <1>5, AppendedWhole
<1>10. \A x \in Roots : FileWhole(disk'[x], n)
  BY <1>3, <1>7, <1>8, <1>9
<1>11. StoreWhole' /\ painter'[p] = new
  BY <1>1, <1>2, <1>3, <1>4, <1>6, <1>10, PutWhole
<1>12. ASSUME Painters = 1, StoreInv
       PROVE  StoreInv'
  <2>1. p = 1 /\ Solo(q, disk[q.path]) /\ Virgin
    BY <1>1, <1>12, OnlyOne DEF StoreInv
  <2>2. Solo(new, disk'[q.path])
    <3>1. CASE Persists(q)
      <4>1. SUFFICES ASSUME NEW d, d = disk[q.path]
                     PROVE  Solo(new, Appended(d, r))
        BY <1>8, <3>1
      <4>2. FileWhole(d, n) /\ Solo(q, d)
        BY <1>9, <2>1, <4>1
      <4>3. /\ Appended(d, r).id = d.id /\ Appended(d, r).rev = d.rev
            /\ Appended(d, r).log = Append(d.log, r)
        BY <4>2, AppendedWhole
      <4>4. Grown(q.rt, new.rt, r)
        BY <1>1, <1>4
      <4>. QED
        BY <1>3, <1>4, <4>2, <4>3, <4>4, LoggedSolo
    <3>2. CASE ~Persists(q)
      <4>1. q.net = "client" /\ ~q.hosting
        BY <2>1, <3>2 DEF Persists, Solo
      <4>. QED
        BY <1>4, <4>1, ClientSolo DEF SameSeat
    <3>. QED
      BY <3>1, <3>2
  <2>3. new.path = q.path
    BY <1>4 DEF SameSeat
  <2>4. ASSUME NEW k \in 1 .. MaxDocs, docs' < k
        PROVE  disk'[Work(k)] = NoFiles
    <3>1. docs < k /\ k \notin 1 .. n
      BY <1>1, <1>3, <2>4
    <3>2. Work(k) \in Roots /\ Work(k) \in Works(MaxDocs) /\ Work(k) \notin Works(n)
      BY <3>1, Places, RootsAre DEF Works
    <3>3. Work(k) # q.path
      BY <1>3, <3>2, Places DEF PainterWhole
    <3>. QED
      BY <1>7, <2>1, <3>1, <3>2, <3>3 DEF Virgin
  <2>5. ASSUME NEW x \in Users, disk'[x].id = 0
        PROVE  disk'[x] = NoFiles
    <3>1. x \in Roots
      BY RootsAre
    <3>2. CASE x = q.path /\ Persists(q)
      <4>1. disk[x].id # 0
        BY <2>1, <3>2 DEF Solo, Settled
      <4>2. disk'[x].id = disk[x].id
        BY <1>8, <1>9, <3>2, AppendedWhole, <1>3, <3>1
      <4>. QED
        BY <2>5, <4>1, <4>2
    <3>3. CASE ~(x = q.path /\ Persists(q))
      <4>1. disk'[x] = disk[x]
        BY <1>7, <1>8, <3>1, <3>3
      <4>. QED
        BY <2>1, <2>5, <4>1 DEF Virgin
    <3>. QED
      BY <3>2, <3>3
  <2>. QED
    BY <1>11, <2>1, <2>2, <2>3, <2>4, <2>5 DEF StoreInv, Virgin
<1>. QED
  BY <1>11, <1>12 DEF Keeps

-----------------------------------------------------------------------------
(* Editing.                                                                *)

\* The painter is replaced, the directories are left.
LEMMA PutKeeps ==
  ASSUME StoreWhole, NEW p \in Painter, NEW new, docs' \in docs .. MaxDocs,
         PainterWhole(new, docs'), painter' = [painter EXCEPT ![p] = new], disk' = disk,
         Painters = 1 /\ StoreInv => Solo(new, disk[new.path])
  PROVE  Keeps
<1>1. docs \in Nat /\ docs' \in Nat /\ docs <= docs' /\ docs' <= MaxDocs
  BY Numbers DEF StoreWhole
<1>2. disk' = [x \in Roots |-> disk'[x]]
  BY DEF StoreWhole
<1>3. \A x \in Roots : FileWhole(disk'[x], docs')
  BY <1>1, MoreDocs DEF StoreWhole
<1>4. StoreWhole' /\ painter'[p] = new
  BY <1>2, <1>3, PutWhole
<1>5. ASSUME Painters = 1, StoreInv
      PROVE  StoreInv'
  <2>1. p = 1 /\ Virgin
    BY <1>5, OnlyOne DEF StoreInv
  <2>2. Solo(painter'[1], disk'[painter'[1].path])
    BY <1>4, <1>5, <2>1
  <2>3. \A n \in 1 .. MaxDocs : docs' < n => docs < n
    BY <1>1
  <2>4. Virgin'
    BY <2>1, <2>3 DEF Virgin
  <2>. QED
    BY <1>4, <2>2, <2>4 DEF StoreInv
<1>. QED
  BY <1>4, <1>5 DEF Keeps

\* PaintStroke: the stroke is logged.
LEMMA PaintKeeps ==
  ASSUME StoreWhole, NEW p \in Painter, NEW l, NEW c, NEW v, PaintStroke(p, l, c, v)
  PROVE  Keeps
<1>1. SUFFICES ASSUME NEW rt, rt = painter[p].rt,
                      NEW r, r = Stroke(minted + 1, p, l, CollectPatches(rt.canvas[l], [rt.canvas[l] EXCEPT ![c] = v])),
                      NEW new, new = ApplyActionRecord(rt, r)
               PROVE  Keeps
  OBVIOUS
<1>2. Log(p, new, r) /\ docs' = docs
  BY <1>1, Zenon DEF PaintStroke
<1>3. RuntimeWhole(rt)
  BY <1>1 DEF StoreWhole, PainterWhole, Accounted
<1>4. Grown(rt, new, r)
  BY <1>1, <1>3, ApplyIs
<1>. QED
  BY <1>1, <1>2, <1>4, LogKeeps

\* UndoStroke: the revert is logged.
LEMMA UndoKeeps ==
  ASSUME StoreWhole, NEW p \in Painter, NEW l, UndoStroke(p, l)
  PROVE  Keeps
<1>1. SUFFICES ASSUME NEW rt, rt = painter[p].rt, NEW x, x = TopApplied(rt, l),
                      NEW r, r = Revert(minted + 1, p, l, Inversed(PatchesOf(rt, x)), x),
                      NEW new, new = PushHistoryRecord(UndoTop(rt, l), r)
               PROVE  Keeps
  OBVIOUS
<1>2. Log(p, new, r) /\ docs' = docs
  BY <1>1, Zenon DEF UndoStroke
<1>3. RuntimeWhole(rt)
  BY <1>1 DEF StoreWhole, PainterWhole, Accounted
<1>4. Grown(rt, new, r)
  BY <1>1, <1>3, UndoGrown
<1>. QED
  BY <1>1, <1>2, <1>4, LogKeeps

\* RedoStroke: the revert is logged.
LEMMA RedoKeeps ==
  ASSUME StoreWhole, NEW p \in Painter, NEW l, RedoStroke(p, l)
  PROVE  Keeps
<1>1. SUFFICES ASSUME NEW rt, rt = painter[p].rt, NEW x, x = TopUndone(rt, l),
                      NEW r, r = Revert(minted + 1, p, l, PatchesOf(rt, x), x),
                      NEW new, new = PushHistoryRecord(RedoTop(rt, l), r)
               PROVE  Keeps
  OBVIOUS
<1>2. Log(p, new, r) /\ docs' = docs
  BY <1>1, Zenon DEF RedoStroke
<1>3. RuntimeWhole(rt)
  BY <1>1 DEF StoreWhole, PainterWhole, Accounted
<1>4. Grown(rt, new, r)
  BY <1>1, <1>3, RedoGrown
<1>. QED
  BY <1>1, <1>2, <1>4, LogKeeps

\* What every step starts from: p's state, its directory, the invariant.
LEMMA StartOf ==
  ASSUME StoreWhole, NEW p \in Painter
  PROVE  /\ docs \in Nat /\ docs <= MaxDocs /\ MaxDocs \in Nat
         /\ PainterWhole(painter[p], docs)
         /\ painter[p].path \in Roots /\ FileWhole(disk[painter[p].path], docs)
         /\ Painters = 1 /\ StoreInv =>
              /\ Solo(painter[p], disk[painter[p].path])
              /\ \A x \in Users : disk[x].id = 0 => disk[x] = NoFiles
              /\ \A n \in 1 .. MaxDocs : docs < n => disk[Work(n)] = NoFiles
<1>1. docs \in Nat /\ docs <= MaxDocs /\ MaxDocs \in Nat /\ PainterWhole(painter[p], docs)
  BY Numbers DEF StoreWhole
<1>2. painter[p].path \in Roots
  BY <1>1, PlacesGrow, RootsAre DEF PainterWhole
<1>3. FileWhole(disk[painter[p].path], docs)
  BY <1>2 DEF StoreWhole
<1>. QED
  BY <1>1, <1>2, <1>3, OnlyOne DEF StoreInv, Virgin

\* ForeignStroke: the runtime runs ahead of the log.
LEMMA ForeignKeeps ==
  ASSUME StoreWhole, NEW p \in Painter, NEW l, NEW c, NEW v, ForeignStroke(p, l, c, v)
  PROVE  Keeps
<1>1. SUFFICES ASSUME NEW q, q = painter[p], NEW rt, rt = q.rt,
                      NEW r, r = Stroke(minted + 1, 0, l, CollectPatches(rt.canvas[l], [rt.canvas[l] EXCEPT ![c] = v])),
                      NEW grown, grown = ApplyActionRecord(rt, r),
                      NEW new, new = [q EXCEPT !.rt = grown], NEW n, n = docs
               PROVE  Keeps
  OBVIOUS
<1>2. painter' = [painter EXCEPT ![p] = new] /\ disk' = disk /\ docs' = docs /\ q.net # "none"
  BY <1>1, Zenon DEF ForeignStroke
<1>3. n \in Nat /\ n <= MaxDocs /\ MaxDocs \in Nat /\ PainterWhole(q, n) /\ FileWhole(disk[q.path], n)
  BY <1>1, StartOf
<1>4. Grown(rt, grown, r) /\ Grown(q.rt, grown, r)
  BY <1>1, <1>3, ApplyIs DEF PainterWhole, Accounted
<1>5. Refitted(q, grown, new, n)
  BY <1>1, <1>3, <1>4, GrownPainter
<1>6. PainterWhole(new, n) /\ new.rt = grown /\ SameSeat(q, new)
  BY <1>5 DEF Refitted, SameSeat, PainterFields
<1>7. ASSUME Painters = 1, StoreInv
      PROVE  Solo(new, disk[new.path])
  <2>1. Solo(q, disk[q.path])
    BY <1>1, <1>7, StartOf
  <2>2. SUFFICES ASSUME NEW d, d = disk[q.path]
                 PROVE  Solo(new, d)
    BY <1>6 DEF SameSeat
  <2>3. Solo(q, d) /\ FileWhole(d, n) /\ Grown(q.rt, new.rt, r)
    BY <1>1, <1>3, <1>4, <1>6, <2>1, <2>2
  <2>. QED
    BY <1>2, <1>3, <1>6, <2>3, ForeignSolo
<1>8. docs' \in docs .. MaxDocs /\ PainterWhole(new, docs')
  BY <1>1, <1>2, <1>3, <1>6
<1>. QED
  BY <1>2, <1>7, <1>8, PutKeeps

\* The structure record enters the history.
LEMMA PushedPainter ==
  ASSUME NEW n \in Nat, NEW q, PainterWhole(q, n), NEW r, r.patches = <<>>,
         NEW new, new = [q EXCEPT !.rt = PushHistoryRecord(@, r)]
  PROVE  PainterWhole(new, n) /\ SameSeat(q, new) /\ Grown(q.rt, new.rt, r)
<1>1. SUFFICES ASSUME NEW rt, rt = PushHistoryRecord(q.rt, r)
               PROVE  PainterWhole(new, n) /\ SameSeat(q, new) /\ Grown(q.rt, new.rt, r)
  OBVIOUS
<1>2. RuntimeWhole(q.rt)
  BY DEF PainterWhole, Accounted
<1>3. Grown(q.rt, rt, r)
  BY <1>1, <1>2, PushGrown
<1>4. /\ DOMAIN new = PainterFields /\ new.rt = rt
      /\ new.doc = q.doc /\ new.rev = q.rev /\ new.hosting = q.hosting /\ new.net = q.net
      /\ new.path = q.path /\ new.root = q.root /\ new.vault = q.vault
  BY <1>1 DEF PainterWhole, PainterFields
<1>5. Accounted(rt)
  BY <1>3, GrownAccounted DEF PainterWhole
<1>. QED
  BY <1>3, <1>4, <1>5 DEF SameSeat, PainterWhole

\* recover_snapshot_conflict.
LEMMA RecoveredIs ==
  ASSUME NEW n \in Nat, NEW q, PainterWhole(q, n), NEW d, FileWhole(d, n)
  PROVE  PainterWhole(Recovered(q, d), n) /\ Reread(q, d, Recovered(q, d))
<1>1. CASE d.id = 0
  BY <1>1 DEF Recovered, Reread
<1>2. CASE d.id # 0
  <2>1. Recovered(q, d) = Loaded(q, d)
    BY <1>2 DEF Recovered
  <2>2. PainterWhole(Loaded(q, d), n) /\ Reread(q, d, Loaded(q, d))
    BY <1>2, LoadedWhole
  <2>. QED
    BY <2>1, <2>2
<1>. QED
  BY <1>1, <1>2

\* PanelEdit: pushed in a session, saved and logged, or refused.
LEMMA PanelKeeps ==
  ASSUME StoreWhole, NEW p \in Painter, PanelEdit(p)
  PROVE  Keeps
<1>1. SUFFICES ASSUME NEW q, q = painter[p], NEW r, r = StructureRecord(p),
                      NEW d, d = disk[q.path], NEW n, n = docs
               PROVE  Keeps
  OBVIOUS
<1>2. r.patches = <<>>
  BY <1>1 DEF StructureRecord, Stroke
<1>3. /\ docs' = docs
      /\ IF ~Persists(q) THEN Becomes(p, [q EXCEPT !.rt = PushHistoryRecord(@, r)], q.path, d)
         ELSE IF Guards(q, d)
         THEN /\ q.rev < MaxRev
              /\ Becomes(p, [Folded(q) EXCEPT !.rt = PushHistoryRecord(@, r)], q.path,
                         Appended(Files(Folded(q)), r))
         ELSE Becomes(p, Recovered(q, d), q.path, d)
  BY <1>1, Zenon DEF PanelEdit
<1>4. n \in Nat /\ n <= MaxDocs /\ MaxDocs \in Nat /\ PainterWhole(q, n) /\ FileWhole(d, n)
  BY <1>1, StartOf
<1>5. docs' \in docs .. MaxDocs /\ docs' = n
  BY <1>1, <1>3, <1>4
<1>6. q.path \in Users \cup Works(docs') \cup Vaults(docs') /\ FileWhole(d, docs')
  BY <1>4, <1>5 DEF PainterWhole
<1>7. ASSUME Painters = 1, StoreInv
      PROVE  Solo(q, d) /\ \A x \in Users : disk[x].id = 0 => disk[x] = NoFiles
  BY <1>1, <1>7, StartOf
<1>8. CASE ~Persists(q)
  <2>1. SUFFICES ASSUME NEW new, new = [q EXCEPT !.rt = PushHistoryRecord(@, r)]
                 PROVE  Keeps
    OBVIOUS
  <2>2. Becomes(p, new, q.path, d)
    BY <1>3, <1>8, <2>1
  <2>3. PainterWhole(new, n) /\ SameSeat(q, new)
    BY <1>2, <1>4, <2>1, PushedPainter
  <2>4. PainterWhole(new, docs') /\ new.path = q.path
    BY <1>5, <2>3 DEF SameSeat
  <2>5. ASSUME Painters = 1, StoreInv
        PROVE  /\ Solo(new, d)
               /\ q.path \in Users /\ d.id = 0 => d = NoFiles
    <3>1. q.net = "client" /\ ~q.hosting
      BY <1>7, <1>8, <2>5 DEF Solo, Persists
    <3>2. new.net = "client" /\ ~new.hosting
      BY <2>3, <3>1 DEF SameSeat
    <3>. QED
      BY <1>1, <1>7, <2>5, <3>2, ClientSolo
  <2>6. Painters = 1 /\ StoreInv =>
          /\ Solo(new, IF new.path = q.path THEN d ELSE disk[new.path])
          /\ q.path \in Users /\ d.id = 0 => d = NoFiles
    BY <2>4, <2>5
  <2>. QED
    BY <1>5, <1>6, <2>2, <2>4, <2>6, BecomesKeeps
<1>9. CASE Persists(q) /\ Guards(q, d)
  <2>1. SUFFICES ASSUME NEW f, f = Folded(q), NEW e, e = Files(f), NEW g, g = Appended(e, r),
                        NEW new, new = [f EXCEPT !.rt = PushHistoryRecord(@, r)]
                 PROVE  Keeps
    OBVIOUS
  <2>2. Becomes(p, new, q.path, g) /\ q.rev < MaxRev
    BY <1>3, <1>9, <2>1
  <2>3. /\ PainterWhole(Folded(q), n)
        /\ \A x \in PainterFields \ {"rt", "rev"} : Folded(q)[x] = q[x]
    BY <1>4, <2>2, FoldedWhole
  <2>4. /\ PainterWhole(f, n) /\ f.doc = q.doc /\ f.hosting = q.hosting /\ f.net = q.net
        /\ f.path = q.path
    BY <2>1, <2>3 DEF PainterFields
  <2>5. FileWhole(e, n) /\ e.id = f.doc /\ e.rev = f.rev /\ e.log = ActionsForFile(f.rt)
    BY <1>4, <2>1, <2>4, FilesAreWhole
  <2>6. FileWhole(g, n) /\ g.log = Append(e.log, r) /\ g.id = e.id /\ g.rev = e.rev
    BY <1>4, <2>1, <2>5, AppendedWhole
  <2>7. PainterWhole(new, n) /\ SameSeat(f, new) /\ Grown(f.rt, new.rt, r)
    BY <1>2, <1>4, <2>1, <2>4, PushedPainter
  <2>8. PainterWhole(new, docs') /\ FileWhole(g, docs') /\ new.path = q.path
    BY <1>5, <2>4, <2>6, <2>7 DEF SameSeat
  <2>9. ASSUME Painters = 1, StoreInv
        PROVE  Solo(new, g)
    <3>1. f.hosting => f.net = "host"
      BY <1>7, <2>4, <2>9 DEF Solo
    <3>2. Solo(f, e)
      BY <1>4, <2>4, <2>5, <3>1, SavedSolo
    <3>. QED
      BY <1>4, <2>4, <2>5, <2>6, <2>7, <3>2, LoggedSolo
  <2>10. g.id # 0
    BY <1>4, <2>4, <2>5, <2>6 DEF PainterWhole
  <2>11. Painters = 1 /\ StoreInv =>
           /\ Solo(new, IF new.path = q.path THEN g ELSE disk[new.path])
           /\ q.path \in Users /\ g.id = 0 => g = NoFiles
    BY <2>8, <2>9, <2>10
  <2>. QED
    BY <1>5, <1>6, <2>2, <2>8, <2>11, BecomesKeeps
<1>10. CASE Persists(q) /\ ~Guards(q, d)
  <2>1. SUFFICES ASSUME NEW new, new = Recovered(q, d)
                 PROVE  Keeps
    OBVIOUS
  <2>2. Becomes(p, new, q.path, d)
    BY <1>3, <1>10, <2>1
  <2>3. PainterWhole(new, n) /\ Reread(q, d, new)
    BY <1>4, <2>1, RecoveredIs
  <2>4. PainterWhole(new, docs')
    BY <1>5, <2>3
  <2>5. ASSUME Painters = 1, StoreInv
        PROVE  /\ Solo(new, d)
               /\ q.path \in Users /\ d.id = 0 => d = NoFiles
    <3>1. CASE d.id = 0
      BY <1>1, <1>7, <2>3, <2>5, <3>1 DEF Reread
    <3>2. CASE d.id # 0
      <4>1. new.rt = Replay(d.log) /\ new.doc = d.id /\ new.rev = d.rev /\ ~new.hosting
        BY <2>3, <3>2 DEF Reread
      <4>. QED
        BY <1>4, <3>2, <4>1, LoadedSolo
    <3>. QED
      BY <3>1, <3>2
  <2>6. Painters = 1 /\ StoreInv =>
          /\ Solo(new, IF new.path = q.path THEN d ELSE disk[new.path])
          /\ q.path \in Users /\ d.id = 0 => d = NoFiles
    BY <2>3, <2>5 DEF Reread
  <2>. QED
    BY <1>5, <1>6, <2>2, <2>4, <2>6, BecomesKeeps
<1>. QED
  BY <1>8, <1>9, <1>10

-----------------------------------------------------------------------------
(* The file menu.                                                          *)

\* new is q in another place: r, with the document's directory at root.
Placed(q, new, r, root) ==
  /\ new.rt = q.rt /\ new.doc = q.doc /\ new.rev = q.rev /\ new.hosting = q.hosting
  /\ new.net = q.net /\ new.path = r /\ new.root = root

\* The painter works in r from then on.
LEMMA MovedPainter ==
  ASSUME NEW n \in Nat, NEW q, PainterWhole(q, n), NEW r \in Users \cup Works(n),
         NEW root \in Users \cup {NoRoot}, NEW new, new = [q EXCEPT !.path = r, !.root = root]
  PROVE  PainterWhole(new, n) /\ Placed(q, new, r, root)
<1>1. /\ DOMAIN new = PainterFields /\ new.rt = q.rt
      /\ new.doc = q.doc /\ new.rev = q.rev /\ new.hosting = q.hosting /\ new.net = q.net
      /\ new.path = r /\ new.root = root /\ new.vault = q.vault
  BY DEF PainterWhole, PainterFields
<1>. QED
  BY <1>1 DEF Placed, PainterWhole

\* A guarded save, or the reload: to the directory the painter works in, or
\* to one of the user's.
LEMMA SaveToKeeps ==
  ASSUME StoreWhole, NEW p \in Painter, NEW q, q = painter[p], docs' = docs,
         NEW r \in Users \cup Works(docs), NEW root \in Users \cup {NoRoot},
         SaveTo(p, q, r, root), (r = q.path /\ root = q.root) \/ r \in Users
  PROVE  Keeps
<1>1. SUFFICES ASSUME NEW d, d = disk[r], NEW n, n = docs
               PROVE  Keeps
  OBVIOUS
<1>2. IF Guards(q, d)
      THEN /\ q.rev < MaxRev
           /\ Becomes(p, [Folded(q) EXCEPT !.path = r, !.root = root], r, Files(Folded(q)))
      ELSE Becomes(p, [Recovered(q, d) EXCEPT !.path = r, !.root = root], r, d)
  BY <1>1, Zenon DEF SaveTo
<1>3. n \in Nat /\ n <= MaxDocs /\ MaxDocs \in Nat /\ PainterWhole(q, n)
  BY <1>1, StartOf
<1>4. r \in Roots /\ r \in Users \cup Works(n)
  BY <1>1, <1>3, PlacesGrow, RootsAre
<1>5. FileWhole(d, n)
  BY <1>1, <1>4 DEF StoreWhole
<1>6. docs' \in docs .. MaxDocs /\ docs' = n /\ r \in Users \cup Works(docs') \cup Vaults(docs')
  BY <1>1, <1>3
<1>7. ASSUME Painters = 1, StoreInv
      PROVE  Solo(q, disk[q.path]) /\ \A x \in Users : disk[x].id = 0 => disk[x] = NoFiles
  BY <1>7, StartOf
<1>8. CASE Guards(q, d)
  <2>1. SUFFICES ASSUME NEW f, f = Folded(q), NEW e, e = Files(f),
                        NEW new, new = [f EXCEPT !.path = r, !.root = root]
                 PROVE  Keeps
    OBVIOUS
  <2>2. Becomes(p, new, r, e) /\ q.rev < MaxRev
    BY <1>2, <1>8, <2>1
  <2>3. /\ PainterWhole(Folded(q), n)
        /\ \A x \in PainterFields \ {"rt", "rev"} : Folded(q)[x] = q[x]
    BY <1>3, <2>2, FoldedWhole
  <2>4. PainterWhole(f, n) /\ f.doc = q.doc /\ f.hosting = q.hosting /\ f.net = q.net
    BY <2>1, <2>3 DEF PainterFields
  <2>5. FileWhole(e, n) /\ e.id = f.doc /\ e.rev = f.rev /\ e.log = ActionsForFile(f.rt)
    BY <1>3, <2>1, <2>4, FilesAreWhole
  <2>6. PainterWhole(new, n) /\ Placed(f, new, r, root)
    BY <1>3, <1>4, <2>1, <2>4, MovedPainter
  <2>7. ASSUME Painters = 1, StoreInv
        PROVE  Solo(new, e)
    <3>1. new.hosting => new.net = "host"
      BY <1>7, <2>4, <2>6, <2>7 DEF Solo, Placed
    <3>2. e.id = new.doc /\ e.rev = new.rev /\ e.log = ActionsForFile(new.rt)
      BY <2>5, <2>6 DEF Placed
    <3>. QED
      BY <1>3, <2>6, <3>1, <3>2, SavedSolo
  <2>8. e.id # 0
    BY <1>3, <2>4, <2>5 DEF PainterWhole
  <2>9. Painters = 1 /\ StoreInv =>
          /\ Solo(new, IF new.path = r THEN e ELSE disk[new.path])
          /\ r \in Users /\ e.id = 0 => e = NoFiles
    BY <2>6, <2>7, <2>8 DEF Placed
  <2>10. PainterWhole(new, docs') /\ FileWhole(e, docs')
    BY <1>6, <2>5, <2>6
  <2>. QED
    BY <1>6, <2>2, <2>9, <2>10, BecomesKeeps
<1>9. CASE ~Guards(q, d)
  <2>1. SUFFICES ASSUME NEW f, f = Recovered(q, d),
                        NEW new, new = [f EXCEPT !.path = r, !.root = root]
                 PROVE  Keeps
    OBVIOUS
  <2>2. Becomes(p, new, r, d)
    BY <1>2, <1>9, <2>1
  <2>3. PainterWhole(f, n) /\ Reread(q, d, f)
    BY <1>3, <1>5, <2>1, RecoveredIs
  <2>4. PainterWhole(new, n) /\ Placed(f, new, r, root)
    BY <1>3, <1>4, <2>1, <2>3, MovedPainter
  <2>5. ASSUME Painters = 1, StoreInv
        PROVE  Solo(new, d) /\ (r \in Users /\ d.id = 0 => d = NoFiles)
    <3>1. r \in Users /\ d.id = 0 => d = NoFiles
      BY <1>1, <1>7, <2>5
    <3>2. CASE d.id = 0
      <4>1. d # NoFiles
        BY <1>9 DEF Guards, NoFiles
      <4>2. r = q.path /\ root = q.root /\ f = q
        BY <2>3, <3>1, <3>2, <4>1 DEF Reread
      <4>3. SameSeat(q, new) /\ new.rt = q.rt /\ Solo(q, d)
        BY <1>1, <1>7, <2>4, <2>5, <4>2 DEF SameSeat, Placed
      <4>. QED
        BY <3>1, <4>3, SameSolo
    <3>3. CASE d.id # 0
      <4>1. new.rt = Replay(d.log) /\ new.doc = d.id /\ new.rev = d.rev /\ ~new.hosting
        BY <2>3, <2>4, <3>3 DEF Reread, Placed
      <4>. QED
        BY <1>3, <1>5, <3>3, <4>1, LoadedSolo
    <3>. QED
      BY <3>2, <3>3
  <2>6. Painters = 1 /\ StoreInv =>
          /\ Solo(new, IF new.path = r THEN d ELSE disk[new.path])
          /\ r \in Users /\ d.id = 0 => d = NoFiles
    BY <2>4, <2>5 DEF Placed
  <2>7. PainterWhole(new, docs') /\ FileWhole(d, docs')
    BY <1>5, <1>6, <2>4
  <2>. QED
    BY <1>6, <2>2, <2>6, <2>7, BecomesKeeps
<1>. QED
  BY <1>8, <1>9

\* FileSave.
LEMMA SaveKeeps ==
  ASSUME StoreWhole, NEW p \in Painter, FileSave(p)
  PROVE  Keeps
<1>1. SUFFICES ASSUME NEW q, q = painter[p], NEW r, r = q.path, NEW root, root = q.root
               PROVE  Keeps
  OBVIOUS
<1>2. SaveTo(p, q, r, root) /\ docs' = docs
  BY <1>1, Zenon DEF FileSave, counters
<1>3. r \in Users \cup Works(docs) /\ root \in Users \cup {NoRoot}
  BY <1>1, StartOf DEF PainterWhole
<1>. QED
  BY <1>1, <1>2, <1>3, SaveToKeeps

\* FileSaveAs: saved, refused, or in another's session merely moved.
LEMMA SaveAsKeeps ==
  ASSUME StoreWhole, NEW p \in Painter, NEW r \in Users, FileSaveAs(p, r)
  PROVE  Keeps
<1>1. SUFFICES ASSUME NEW q, q = painter[p], NEW d, d = disk[r], NEW n, n = docs,
                      NEW new, new = [q EXCEPT !.path = r, !.root = r]
               PROVE  Keeps
  OBVIOUS
<1>2. /\ docs' = docs
      /\ IF Persists(q) THEN SaveTo(p, q, r, r) ELSE Becomes(p, new, r, d)
  BY <1>1, Zenon DEF FileSaveAs, counters
<1>3. n \in Nat /\ n <= MaxDocs /\ MaxDocs \in Nat /\ PainterWhole(q, n)
  BY <1>1, StartOf
<1>4. CASE Persists(q)
  <2>1. SaveTo(p, q, r, r) /\ docs' = docs
    BY <1>2, <1>4
  <2>. QED
    BY <1>1, <2>1, SaveToKeeps
<1>5. CASE ~Persists(q)
  <2>1. PainterWhole(new, n) /\ Placed(q, new, r, r)
    BY <1>1, <1>3, MovedPainter
  <2>2. FileWhole(d, n)
    BY <1>1, RootsAre DEF StoreWhole
  <2>3. docs' \in docs .. MaxDocs /\ docs' = n
    BY <1>1, <1>2, <1>3
  <2>4. r \in Users \cup Works(docs') \cup Vaults(docs') /\ PainterWhole(new, docs') /\ FileWhole(d, docs')
    BY <2>1, <2>2, <2>3
  <2>5. ASSUME Painters = 1, StoreInv
        PROVE  Solo(new, d) /\ (r \in Users /\ d.id = 0 => d = NoFiles)
    <3>1. /\ Solo(q, disk[q.path])
          /\ \A x \in Users : disk[x].id = 0 => disk[x] = NoFiles
      BY <1>1, <2>5, StartOf
    <3>2. new.net = "client" /\ ~new.hosting
      BY <1>5, <2>1, <3>1 DEF Solo, Persists, Placed
    <3>. QED
      BY <1>1, <3>1, <3>2, ClientSolo
  <2>6. Becomes(p, new, r, d)
    BY <1>2, <1>5
  <2>7. Painters = 1 /\ StoreInv =>
          /\ Solo(new, IF new.path = r THEN d ELSE disk[new.path])
          /\ r \in Users /\ d.id = 0 => d = NoFiles
    BY <2>1, <2>5 DEF Placed
  <2>. QED
    BY <2>3, <2>4, <2>6, <2>7, BecomesKeeps
<1>. QED
  BY <1>4, <1>5

\* Hosting goes on over another document.
LEMMA SwappedIs ==
  ASSUME NEW n \in Nat, NEW q, PainterWhole(q, n)
  PROVE  /\ PainterWhole(Swapped(q), n) /\ SameSeat(q, Swapped(q))
         /\ \A d : FileWhole(d, n) /\ Solo(q, d) => Solo(Swapped(q), d)
<1>1. SUFFICES ASSUME NEW r, r = Stroke(minted + 1, 0, CHOOSE l \in Layer : TRUE, <<>>),
                      NEW new, new = Swapped(q)
               PROVE  /\ PainterWhole(new, n) /\ SameSeat(q, new)
                      /\ \A d : FileWhole(d, n) /\ Solo(q, d) => Solo(new, d)
  OBVIOUS
<1>0. new = IF q.net = "host" THEN [q EXCEPT !.rt = PushHistoryRecord(@, r)] ELSE q
  BY <1>1 DEF Swapped
<1>2. CASE q.net = "host"
  <2>1. r.patches = <<>>
    BY <1>1 DEF Stroke
  <2>2. new = [q EXCEPT !.rt = PushHistoryRecord(@, r)]
    BY <1>0, <1>2
  <2>3. PainterWhole(new, n) /\ SameSeat(q, new) /\ Grown(q.rt, new.rt, r)
    BY <2>1, <2>2, PushedPainter
  <2>4. ASSUME NEW d, FileWhole(d, n), Solo(q, d)
        PROVE  Solo(new, d)
    <3>1. q.net # "none"
      BY <1>2
    <3>. QED
      BY <2>3, <2>4, <3>1, ForeignSolo
  <2>. QED
    BY <2>3, <2>4
<1>3. CASE q.net # "host"
  BY <1>0, <1>3 DEF SameSeat
<1>. QED
  BY <1>2, <1>3

\* FileNew: a fresh document in a directory nobody has come to.
LEMMA NewKeeps ==
  ASSUME StoreWhole, NEW p \in Painter, FileNew(p)
  PROVE  Keeps
<1>1. SUFFICES ASSUME NEW q, q = painter[p], NEW d, d = disk[q.path], NEW n, n = docs + 1,
                      NEW g, g = Fresh(n), NEW f, f = [g EXCEPT !.net = q.net, !.vault = q.vault],
                      NEW new, new = Swapped(f)
               PROVE  Keeps
  OBVIOUS
<1>2. docs < MaxDocs /\ docs' = docs + 1 /\ Becomes(p, new, q.path, d)
  BY <1>1, Zenon DEF FileNew
<1>3. docs \in Nat /\ docs <= MaxDocs /\ MaxDocs \in Nat /\ PainterWhole(q, docs) /\ FileWhole(d, docs)
  BY <1>1, StartOf
<1>4. /\ n \in Nat /\ n \in 1 .. n /\ docs' \in docs .. MaxDocs /\ docs' = n /\ docs <= n
      /\ n \in 1 .. MaxDocs /\ docs < n
  BY <1>1, <1>2, <1>3
<1>5. PainterWhole(q, n) /\ FileWhole(d, n)
  BY <1>3, <1>4, MoreDocs
<1>6. /\ PainterWhole(g, n) /\ g.hosting = FALSE
      /\ g.rt = NewRuntime /\ g.path = Work(n) /\ g.root = NoRoot
  BY <1>1, <1>4, FreshWhole
<1>7. /\ DOMAIN f = PainterFields /\ f.rt = g.rt /\ f.doc = g.doc /\ f.rev = g.rev
      /\ f.hosting = g.hosting /\ f.net = q.net /\ f.path = g.path /\ f.root = g.root
      /\ f.vault = q.vault
  BY <1>1, <1>6 DEF PainterWhole, PainterFields
<1>8. PainterWhole(f, n)
  BY <1>5, <1>6, <1>7 DEF PainterWhole
<1>9. /\ PainterWhole(new, n) /\ SameSeat(f, new)
      /\ \A x : FileWhole(x, n) /\ Solo(f, x) => Solo(new, x)
  BY <1>1, <1>4, <1>8, SwappedIs
<1>10. new.path = Work(n)
  BY <1>6, <1>7, <1>9 DEF SameSeat
<1>11. q.path \in Users \cup Works(docs)
  BY <1>3 DEF PainterWhole
<1>12. new.path # q.path
  <2>1. n \notin 1 .. docs
    BY <1>3, <1>4
  <2>2. Work(n) \in Works(n) /\ Work(n) \notin Works(docs)
    BY <1>4, <2>1, Places DEF Works
  <2>. QED
    BY <1>10, <1>11, <2>2, Places
<1>13. ASSUME Painters = 1, StoreInv
       PROVE  Solo(new, disk[new.path]) /\ (q.path \in Users /\ d.id = 0 => d = NoFiles)
  <2>1. /\ \A x \in Users : disk[x].id = 0 => disk[x] = NoFiles
        /\ disk[Work(n)] = NoFiles
    BY <1>4, <1>13, StartOf
  <2>2. f.path \in Works(n)
    BY <1>4, <1>6, <1>7 DEF Works
  <2>3. Solo(f, NoFiles)
    BY <1>4, <1>6, <1>7, <1>8, <2>2, FreshSolo
  <2>4. Solo(new, NoFiles)
    BY <1>4, <1>9, <2>3, NoFilesWhole
  <2>. QED
    BY <1>1, <1>10, <2>1, <2>4
<1>14. q.path \in Users \cup Works(docs') \cup Vaults(docs')
  BY <1>3, <1>4, <1>11, PlacesGrow
<1>15. PainterWhole(new, docs') /\ FileWhole(d, docs')
  BY <1>4, <1>5, <1>9
<1>16. Painters = 1 /\ StoreInv =>
         /\ Solo(new, IF new.path = q.path THEN d ELSE disk[new.path])
         /\ q.path \in Users /\ d.id = 0 => d = NoFiles
  BY <1>12, <1>13
<1>. QED
  BY <1>2, <1>4, <1>14, <1>15, <1>16, BecomesKeeps

\* FileOpen: the files of the directory.
LEMMA OpenKeeps ==
  ASSUME StoreWhole, NEW p \in Painter, NEW r \in Users, FileOpen(p, r)
  PROVE  Keeps
<1>1. SUFFICES ASSUME NEW q, q = painter[p], NEW d, d = disk[r], NEW n, n = docs,
                      NEW g, g = Loaded(q, d), NEW f, f = [g EXCEPT !.path = r, !.root = r],
                      NEW new, new = Swapped(f)
               PROVE  Keeps
  OBVIOUS
<1>2. d.id # 0 /\ docs' = docs /\ Becomes(p, new, r, d)
  BY <1>1, Zenon DEF FileOpen
<1>3. n \in Nat /\ n <= MaxDocs /\ MaxDocs \in Nat /\ PainterWhole(q, n)
  BY <1>1, StartOf
<1>4. FileWhole(d, n)
  BY <1>1, RootsAre DEF StoreWhole
<1>5. docs' \in docs .. MaxDocs /\ docs' = n
  BY <1>1, <1>2, <1>3
<1>6. g = Recovered(q, d)
  BY <1>1, <1>2 DEF Recovered
<1>7. PainterWhole(g, n) /\ g.rt = Replay(d.log) /\ g.doc = d.id /\ g.rev = d.rev /\ ~g.hosting
  <2>1. PainterWhole(g, n) /\ Reread(q, d, g)
    BY <1>3, <1>4, <1>6, RecoveredIs
  <2>. QED
    BY <1>2, <2>1 DEF Reread
<1>8. PainterWhole(f, n) /\ Placed(g, f, r, r)
  BY <1>1, <1>3, <1>7, MovedPainter
<1>9. /\ PainterWhole(new, n) /\ SameSeat(f, new)
      /\ \A x : FileWhole(x, n) /\ Solo(f, x) => Solo(new, x)
  BY <1>1, <1>3, <1>8, SwappedIs
<1>10. f.rt = Replay(d.log) /\ f.doc = d.id /\ f.rev = d.rev /\ ~f.hosting /\ f.path = r
  BY <1>7, <1>8 DEF Placed
<1>11. Solo(f, d)
  BY <1>2, <1>3, <1>4, <1>10, LoadedSolo
<1>12. Solo(new, d) /\ new.path = r
  BY <1>4, <1>9, <1>10, <1>11 DEF SameSeat
<1>13. Painters = 1 /\ StoreInv =>
         /\ Solo(new, IF new.path = r THEN d ELSE disk[new.path])
         /\ r \in Users /\ d.id = 0 => d = NoFiles
  BY <1>2, <1>12
<1>14. PainterWhole(new, docs') /\ FileWhole(d, docs') /\ r \in Users \cup Works(docs') \cup Vaults(docs')
  BY <1>4, <1>5, <1>9
<1>. QED
  BY <1>2, <1>5, <1>13, <1>14, BecomesKeeps

\* Autosave: to the directory of the document, or to its vault folder.
LEMMA AutosaveKeeps ==
  ASSUME StoreWhole, NEW p \in Painter, Autosave(p)
  PROVE  Keeps
<1>1. SUFFICES ASSUME NEW o, o = painter[p], NEW r, r = AutosaveTarget(o), NEW n, n = docs,
                      NEW q, q = [o EXCEPT !.vault = IF @ = NoRoot /\ o.root = NoRoot THEN r ELSE @],
                      NEW f, f = Folded(q), NEW e, e = Files(f)
               PROVE  Keeps
  OBVIOUS
<1>2. docs' = docs /\ q.rev < MaxRev /\ Becomes(p, f, r, e)
  BY <1>1, Zenon DEF Autosave, counters
<1>3. n \in Nat /\ n <= MaxDocs /\ MaxDocs \in Nat /\ PainterWhole(o, n) /\ FileWhole(disk[o.path], n)
  BY <1>1, StartOf
<1>4. docs' \in docs .. MaxDocs /\ docs' = n
  BY <1>1, <1>2, <1>3
<1>5. Vault(o.doc) \in Vaults(n)
  BY <1>3 DEF PainterWhole, Vaults
<1>6. /\ r \in Users \cup Vaults(n)
      /\ o.root # NoRoot => r = o.root
      /\ o.vault = NoRoot /\ o.root = NoRoot => r \in Vaults(n)
  BY <1>1, <1>3, <1>5 DEF AutosaveTarget, PainterWhole
<1>7. /\ DOMAIN q = PainterFields /\ q.rt = o.rt /\ q.doc = o.doc /\ q.rev = o.rev
      /\ q.hosting = o.hosting /\ q.net = o.net /\ q.path = o.path /\ q.root = o.root
      /\ q.vault = IF o.vault = NoRoot /\ o.root = NoRoot THEN r ELSE o.vault
  BY <1>1, <1>3 DEF PainterWhole, PainterFields
<1>8. PainterWhole(q, n)
  BY <1>3, <1>6, <1>7 DEF PainterWhole
<1>9. /\ PainterWhole(Folded(q), n)
      /\ Folded(q).rt.canvas = q.rt.canvas /\ Folded(q).rev = q.rev + 1
      /\ \A x \in PainterFields \ {"rt", "rev"} : Folded(q)[x] = q[x]
  BY <1>2, <1>3, <1>8, FoldedWhole
<1>10. /\ PainterWhole(f, n) /\ f.rt.canvas = q.rt.canvas /\ f.rev = q.rev + 1
       /\ f.doc = q.doc /\ f.net = q.net /\ f.hosting = q.hosting /\ f.path = q.path /\ f.root = q.root
  BY <1>1, <1>9 DEF PainterFields
<1>11. FileWhole(e, n) /\ e.id = f.doc /\ e.rev = f.rev /\ e.log = ActionsForFile(f.rt)
  BY <1>1, <1>3, <1>10, FilesAreWhole
<1>12. ASSUME Painters = 1, StoreInv
       PROVE  Solo(f, IF f.path = r THEN e ELSE disk[f.path])
  <2>1. Solo(o, disk[o.path])
    BY <1>1, <1>12, StartOf
  <2>2. SUFFICES ASSUME NEW d, d = disk[o.path]
                 PROVE  Solo(f, IF f.path = r THEN e ELSE d)
    BY <1>7, <1>10
  <2>3. FileWhole(d, n) /\ Solo(o, d)
    BY <1>3, <2>1, <2>2
  <2>4. SameSeat(o, q)
    BY <1>7 DEF SameSeat
  <2>5. Solo(q, d)
    BY <1>7, <2>3, <2>4, SameSolo
  <2>6. CASE f.path = r
    <3>1. f.hosting => f.net = "host"
      BY <1>10, <2>5 DEF Solo
    <3>2. Solo(f, e)
      BY <1>3, <1>10, <1>11, <3>1, SavedSolo
    <3>. QED
      BY <2>6, <3>2
  <2>7. CASE f.path # r
    <3>1. q.path # NoRoot
      BY <1>8, Places DEF PainterWhole
    <3>2. q.root # q.path
      BY <1>6, <1>7, <1>10, <2>7, <3>1
    <3>3. Solo(f, d)
      BY <1>3, <1>8, <1>10, <2>3, <2>5, <3>2, ElsewhereSolo
    <3>. QED
      BY <2>7, <3>3
  <2>. QED
    BY <2>6, <2>7
<1>13. e.id # 0
  BY <1>3, <1>10, <1>11 DEF PainterWhole
<1>14. Painters = 1 /\ StoreInv =>
         /\ Solo(f, IF f.path = r THEN e ELSE disk[f.path])
         /\ r \in Users /\ e.id = 0 => e = NoFiles
  BY <1>12, <1>13
<1>15. PainterWhole(f, docs') /\ FileWhole(e, docs') /\ r \in Users \cup Works(docs') \cup Vaults(docs')
  BY <1>4, <1>6, <1>10, <1>11
<1>. QED
  BY <1>2, <1>4, <1>14, <1>15, BecomesKeeps

-----------------------------------------------------------------------------
(* Sessions and crashes.                                                   *)

\* HostSession.
LEMMA HostKeeps ==
  ASSUME StoreWhole, NEW p \in Painter, HostSession(p)
  PROVE  Keeps
<1>1. SUFFICES ASSUME NEW q, q = painter[p], NEW n, n = docs,
                      NEW new, new = [q EXCEPT !.net = "host", !.hosting = TRUE]
               PROVE  Keeps
  OBVIOUS
<1>2. /\ q.net = "none" /\ docs' = docs /\ disk' = disk
      /\ painter' = [painter EXCEPT ![p].net = "host", ![p].hosting = TRUE]
  BY <1>1 DEF HostSession
<1>3. painter' = [painter EXCEPT ![p] = new]
  BY <1>1, <1>2 DEF StoreWhole
<1>4. n \in Nat /\ n <= MaxDocs /\ MaxDocs \in Nat /\ PainterWhole(q, n) /\ FileWhole(disk[q.path], n)
  BY <1>1, StartOf
<1>5. /\ DOMAIN new = PainterFields /\ new.rt = q.rt /\ new.doc = q.doc /\ new.rev = q.rev
      /\ new.hosting = TRUE /\ new.net = "host" /\ new.path = q.path /\ new.root = q.root
      /\ new.vault = q.vault
  BY <1>1, <1>4 DEF PainterWhole, PainterFields
<1>6. PainterWhole(new, n)
  BY <1>4, <1>5 DEF PainterWhole
<1>7. ASSUME Painters = 1, StoreInv
      PROVE  Solo(new, disk[new.path])
  <2>1. SUFFICES ASSUME NEW d, d = disk[q.path]
                 PROVE  Solo(new, d)
    BY <1>5
  <2>2. Solo(q, d) /\ Persists(q)
    BY <1>1, <1>2, <1>7, <2>1, StartOf DEF Persists
  <2>. QED
    BY <1>5, <2>2 DEF Solo, Shown, Settled, Counted, Behind
<1>8. docs' \in docs .. MaxDocs /\ PainterWhole(new, docs')
  BY <1>1, <1>2, <1>4, <1>6
<1>. QED
  BY <1>2, <1>3, <1>7, <1>8, PutKeeps

\* One document more, and the directory it will have.
LEMMA NextDoc ==
  ASSUME StoreWhole, docs < MaxDocs, docs' = docs + 1, NEW n, n = docs + 1
  PROVE  /\ docs \in Nat /\ n \in Nat /\ n \in 1 .. n /\ docs' \in docs .. MaxDocs /\ docs' = n
         /\ n \in 1 .. MaxDocs /\ docs < n
         /\ \A q : PainterWhole(q, docs) => PainterWhole(q, n)
         /\ \A d : FileWhole(d, docs) => FileWhole(d, n)
<1>1. docs \in Nat /\ MaxDocs \in Nat
  BY Numbers DEF StoreWhole
<1>2. n \in Nat /\ docs <= n
  BY <1>1
<1>. QED
  BY <1>1, <1>2, MoreDocs

\* JoinSession: the painter is a client from then on.
LEMMA JoinKeeps ==
  ASSUME StoreWhole, NEW p \in Painter, NEW rev \in 0 .. 1, JoinSession(p, rev)
  PROVE  Keeps
<1>1. SUFFICES ASSUME NEW q, q = painter[p], NEW d, d = disk[q.path], NEW n, n = docs + 1,
                      NEW new, new = [q EXCEPT !.rt = NewRuntime, !.doc = n, !.rev = rev,
                                               !.hosting = FALSE, !.net = "client", !.path = Work(n)]
               PROVE  Keeps
  OBVIOUS
<1>2. docs < MaxDocs /\ docs' = docs + 1 /\ Becomes(p, new, q.path, d)
  BY <1>1, Zenon DEF JoinSession
<1>3. PainterWhole(q, docs) /\ FileWhole(d, docs)
  BY <1>1, StartOf
<1>4. /\ docs \in Nat /\ n \in Nat /\ n \in 1 .. n /\ docs' \in docs .. MaxDocs /\ docs' = n
      /\ PainterWhole(q, n) /\ FileWhole(d, n)
  BY <1>1, <1>2, <1>3, NextDoc
<1>5. /\ DOMAIN new = PainterFields /\ new.rt = NewRuntime /\ new.doc = n /\ new.rev = rev
      /\ new.hosting = FALSE /\ new.net = "client" /\ new.path = Work(n) /\ new.root = q.root
      /\ new.vault = q.vault
  BY <1>1, <1>3 DEF PainterWhole, PainterFields
<1>6. Accounted(NewRuntime)
  BY ReplayEmpty, EmptyList, ReplayAccounted
<1>7. rev \in 0 .. MaxRev /\ Work(n) \in Works(n)
  BY <1>4, Numbers DEF Works
<1>8. PainterWhole(new, n)
  BY <1>4, <1>5, <1>6, <1>7 DEF PainterWhole
<1>9. ASSUME Painters = 1, StoreInv
      PROVE  /\ Solo(new, IF new.path = q.path THEN d ELSE disk[new.path])
             /\ q.path \in Users /\ d.id = 0 => d = NoFiles
  BY <1>1, <1>5, <1>9, StartOf, ClientSolo
<1>10. /\ PainterWhole(new, docs') /\ FileWhole(d, docs')
       /\ q.path \in Users \cup Works(docs') \cup Vaults(docs')
  BY <1>4, <1>8 DEF PainterWhole
<1>. QED
  BY <1>2, <1>4, <1>9, <1>10, BecomesKeeps

\* LeaveSession: a save, and the painter is alone again.
LEMMA LeaveKeeps ==
  ASSUME StoreWhole, NEW p \in Painter, LeaveSession(p)
  PROVE  Keeps
<1>1. SUFFICES ASSUME NEW q, q = painter[p], NEW n, n = docs, NEW f, f = Folded(q), NEW e, e = Files(f),
                      NEW new, new = [f EXCEPT !.net = "none",
                                               !.hosting = IF q.net = "host" THEN FALSE ELSE @]
               PROVE  Keeps
  OBVIOUS
<1>2. docs' = docs /\ q.net # "none" /\ q.rev < MaxRev /\ Becomes(p, new, f.path, e)
  BY <1>1, Zenon DEF LeaveSession, counters
<1>3. n \in Nat /\ n <= MaxDocs /\ MaxDocs \in Nat /\ PainterWhole(q, n)
  BY <1>1, StartOf
<1>4. docs' \in docs .. MaxDocs /\ docs' = n
  BY <1>1, <1>2, <1>3
<1>5. /\ PainterWhole(Folded(q), n)
      /\ \A x \in PainterFields \ {"rt", "rev"} : Folded(q)[x] = q[x]
  BY <1>2, <1>3, FoldedWhole
<1>6. PainterWhole(f, n) /\ f.hosting = q.hosting /\ f.net = q.net
  BY <1>1, <1>5 DEF PainterFields
<1>7. FileWhole(e, n) /\ e.id = f.doc /\ e.rev = f.rev /\ e.log = ActionsForFile(f.rt)
  BY <1>1, <1>3, <1>6, FilesAreWhole
<1>8. /\ DOMAIN new = PainterFields /\ new.rt = f.rt /\ new.doc = f.doc /\ new.rev = f.rev
      /\ new.hosting = (IF q.net = "host" THEN FALSE ELSE f.hosting)
      /\ new.net = "none" /\ new.path = f.path /\ new.root = f.root /\ new.vault = f.vault
  BY <1>1, <1>6 DEF PainterWhole, PainterFields
<1>9. PainterWhole(new, n)
  BY <1>6, <1>8 DEF PainterWhole
<1>10. ASSUME Painters = 1, StoreInv
       PROVE  Solo(new, e)
  <2>1. q.hosting => q.net = "host"
    BY <1>1, <1>10, StartOf DEF Solo
  <2>2. ~new.hosting
    BY <1>6, <1>8, <2>1
  <2>. QED
    BY <1>3, <1>7, <1>8, <1>9, <2>2, SavedSolo
<1>11. e.id # 0
  BY <1>3, <1>6, <1>7 DEF PainterWhole
<1>12. Painters = 1 /\ StoreInv =>
         /\ Solo(new, IF new.path = f.path THEN e ELSE disk[new.path])
         /\ f.path \in Users /\ e.id = 0 => e = NoFiles
  BY <1>8, <1>10, <1>11
<1>13. /\ PainterWhole(new, docs') /\ FileWhole(e, docs')
       /\ f.path \in Users \cup Works(docs') \cup Vaults(docs')
  BY <1>4, <1>6, <1>7, <1>9 DEF PainterWhole
<1>. QED
  BY <1>2, <1>4, <1>12, <1>13, BecomesKeeps

\* Crash: a fresh document.
LEMMA CrashKeeps ==
  ASSUME StoreWhole, NEW p \in Painter, Crash(p)
  PROVE  Keeps
<1>1. SUFFICES ASSUME NEW n, n = docs + 1, NEW new, new = Fresh(n)
               PROVE  Keeps
  OBVIOUS
<1>2. docs < MaxDocs /\ docs' = docs + 1 /\ disk' = disk /\ painter' = [painter EXCEPT ![p] = new]
  BY <1>1, Zenon DEF Crash
<1>3. /\ docs \in Nat /\ n \in Nat /\ n \in 1 .. n /\ docs' \in docs .. MaxDocs /\ docs' = n
      /\ n \in 1 .. MaxDocs /\ docs < n
  BY <1>1, <1>2, NextDoc
<1>4. /\ PainterWhole(new, n) /\ new.hosting = FALSE /\ new.rt = NewRuntime
      /\ new.path = Work(n) /\ new.root = NoRoot
  BY <1>1, <1>3, FreshWhole
<1>5. ASSUME Painters = 1, StoreInv
      PROVE  Solo(new, disk[new.path])
  <2>1. disk[Work(n)] = NoFiles
    BY <1>3, <1>5, StartOf
  <2>2. new.path \in Works(n)
    BY <1>3, <1>4 DEF Works
  <2>3. Solo(new, NoFiles)
    BY <1>3, <1>4, <2>2, FreshSolo
  <2>. QED
    BY <1>4, <2>1, <2>3
<1>6. PainterWhole(new, docs')
  BY <1>3, <1>4
<1>. QED
  BY <1>2, <1>3, <1>5, <1>6, PutKeeps

\* CrashInSave: a fresh document, and the revision on disk is ahead.
LEMMA CrashInSaveKeeps ==
  ASSUME StoreWhole, NEW p \in Painter, CrashInSave(p)
  PROVE  Keeps
<1>1. SUFFICES ASSUME NEW q, q = painter[p], NEW r, r = q.root, NEW d, d = disk[r],
                      NEW n, n = docs + 1, NEW new, new = Fresh(n)
               PROVE  Keeps
  OBVIOUS
<1>2. /\ docs < MaxDocs /\ docs' = docs + 1 /\ painter' = [painter EXCEPT ![p] = new]
      /\ r # NoRoot /\ q.rev < MaxRev
      /\ disk' = [disk EXCEPT ![r].id = q.doc, ![r].rev = q.rev + 1]
  BY <1>1, Zenon DEF CrashInSave
<1>3. /\ docs \in Nat /\ n \in Nat /\ n \in 1 .. n /\ docs' \in docs .. MaxDocs /\ docs' = n
      /\ n \in 1 .. MaxDocs /\ docs < n
      /\ \A x : FileWhole(x, docs) => FileWhole(x, n)
  BY <1>1, <1>2, NextDoc
<1>4. /\ PainterWhole(new, n) /\ new.hosting = FALSE /\ new.rt = NewRuntime
      /\ new.path = Work(n) /\ new.root = NoRoot
  BY <1>1, <1>3, FreshWhole
<1>5. PainterWhole(q, docs) /\ PainterWhole(q, n)
  BY <1>1, <1>2, <1>3, StartOf, NextDoc
<1>6. r \in Users /\ r \in Roots
  BY <1>1, <1>2, <1>5, RootsAre DEF PainterWhole
<1>7. FileWhole(d, n)
  BY <1>1, <1>3, <1>6 DEF StoreWhole
<1>8. /\ disk' = [x \in Roots |-> disk'[x]]
      /\ \A x \in Roots : x # r => disk'[x] = disk[x]
      /\ disk'[r] = [d EXCEPT !.id = q.doc, !.rev = q.rev + 1]
  BY <1>1, <1>2, <1>6 DEF StoreWhole
<1>9. SUFFICES ASSUME NEW e, e = disk'[r]
               PROVE  Keeps
  OBVIOUS
<1>10. /\ DOMAIN e = {"id", "rev", "logged", "log"} /\ e.id = q.doc /\ e.rev = q.rev + 1
       /\ e.logged = d.logged /\ e.log = d.log
  BY <1>7, <1>8, <1>9 DEF FileWhole
<1>11. q.rev + 1 \in 0 .. MaxRev /\ q.doc \in 1 .. n /\ q.doc # 0 /\ q.doc \in 0 .. n
  BY <1>2, <1>3, <1>5, Numbers DEF PainterWhole
<1>12. FileWhole(e, n)
  BY <1>7, <1>10, <1>11 DEF FileWhole
<1>13. \A x \in Roots : FileWhole(disk'[x], docs')
  BY <1>3, <1>8, <1>9, <1>12 DEF StoreWhole
<1>14. StoreWhole' /\ painter'[p] = new
  <2>1. /\ docs' \in docs .. MaxDocs /\ PainterWhole(new, docs')
        /\ painter' = [painter EXCEPT ![p] = new] /\ disk' = [x \in Roots |-> disk'[x]]
    BY <1>2, <1>3, <1>4, <1>8
  <2>. QED
    BY <1>13, <2>1, PutWhole, Zenon
<1>15. ASSUME Painters = 1, StoreInv
       PROVE  StoreInv'
  <2>1. /\ p = 1
        /\ \A x \in Users : disk[x].id = 0 => disk[x] = NoFiles
        /\ \A k \in 1 .. MaxDocs : docs < k => disk[Work(k)] = NoFiles
    BY <1>15, OnlyOne, StartOf
  <2>2. \A k \in 1 .. MaxDocs : Work(k) \in Roots /\ Work(k) # r
    BY <1>6, Places, RootsAre DEF Works
  <2>3. new.path \in Works(n)
    BY <1>3, <1>4 DEF Works
  <2>4. Solo(new, NoFiles)
    BY <1>3, <1>4, <2>3, FreshSolo
  <2>5. disk'[Work(n)] = NoFiles
    BY <1>3, <1>8, <2>1, <2>2
  <2>6. \A k \in 1 .. MaxDocs : docs' < k => disk'[Work(k)] = NoFiles
    BY <1>3, <1>8, <2>1, <2>2
  <2>7. \A x \in Users : disk'[x].id = 0 => disk'[x] = NoFiles
    BY <1>8, <1>9, <1>10, <1>11, <2>1, RootsAre
  <2>. QED
    BY <1>4, <1>14, <2>1, <2>4, <2>5, <2>6, <2>7 DEF StoreInv, Virgin
<1>. QED
  BY <1>14, <1>15 DEF Keeps
-----------------------------------------------------------------------------
(* The specification.                                                      *)

\* The invariant holds at the start.
LEMMA StoreStarts ==
  ASSUME StoreInit
  PROVE  StoreWhole /\ (Painters = 1 => StoreInv)
<1>1. /\ disk = [r \in Roots |-> NoFiles] /\ painter = [p \in Painter |-> Fresh(p)]
      /\ docs = Painters /\ Painters \in Nat /\ Painters <= MaxDocs /\ MaxDocs \in Nat
  BY Numbers DEF StoreInit
<1>2. \A p \in Painter : PainterWhole(Fresh(p), Painters)
  BY <1>1, FreshWhole DEF Painter
<1>3. FileWhole(NoFiles, Painters) /\ docs \in 0 .. MaxDocs
  BY <1>1, NoFilesWhole
<1>4. StoreWhole
  BY <1>1, <1>2, <1>3 DEF StoreWhole
<1>5. ASSUME Painters = 1
      PROVE  StoreInv
  <2>1. 1 \in Painter /\ painter[1] = Fresh(1) /\ docs = 1 /\ 1 \in 1 .. 1
    BY <1>1, <1>5 DEF Painter
  <2>2. /\ PainterWhole(Fresh(1), 1) /\ Fresh(1).hosting = FALSE
        /\ Fresh(1).rt = NewRuntime /\ Fresh(1).path = Work(1) /\ Fresh(1).root = NoRoot
    BY <2>1, FreshWhole
  <2>3. Fresh(1).path \in Works(1)
    BY <2>1, <2>2 DEF Works
  <2>4. Solo(Fresh(1), NoFiles)
    BY <2>2, <2>3, FreshSolo
  <2>5. \A n \in 1 .. MaxDocs : Work(n) \in Roots
    BY RootsAre DEF Works
  <2>6. Virgin
    BY <1>1, <2>5, RootsAre DEF Virgin
  <2>7. disk[painter[1].path] = NoFiles
    BY <1>1, <1>5, <2>1, <2>2, <2>5
  <2>. QED
    BY <1>4, <2>1, <2>4, <2>6, <2>7 DEF StoreInv
<1>. QED
  BY <1>4, <1>5

\* Every step keeps it.
LEMMA StoreSteps ==
  ASSUME StoreWhole, [StoreNext]_storeVars
  PROVE  Keeps
<1>1. CASE UNCHANGED storeVars
  BY <1>1 DEF Keeps, storeVars, counters, StoreInv, StoreWhole, Virgin, Solo, Shown, Settled,
              Counted, Behind, Guards, Persists
<1>2. CASE StoreNext
  <2>1. PICK p \in Painter :
          \/ \E l \in Layer :
               \/ UndoStroke(p, l) \/ RedoStroke(p, l)
               \/ \E c \in Cell, v \in Content : PaintStroke(p, l, c, v) \/ ForeignStroke(p, l, c, v)
          \/ PanelEdit(p) \/ FileNew(p) \/ FileSave(p) \/ Autosave(p)
          \/ \E n \in 1 .. UserRoots : FileOpen(p, User(n)) \/ FileSaveAs(p, User(n))
          \/ HostSession(p) \/ LeaveSession(p)
          \/ \E rev \in 0 .. 1 : JoinSession(p, rev)
          \/ Crash(p) \/ CrashInSave(p)
    BY <1>2 DEF StoreNext
  <2>2. \A n \in 1 .. UserRoots : User(n) \in Users
    BY DEF Users
  <2>. QED
    BY <2>1, <2>2, PaintKeeps, UndoKeeps, RedoKeeps, ForeignKeeps, PanelKeeps, NewKeeps, SaveKeeps,
       AutosaveKeeps, OpenKeeps, SaveAsKeeps, HostKeeps, LeaveKeeps, JoinKeeps, CrashKeeps,
       CrashInSaveKeeps, Zenon
<1>. QED
  BY <1>1, <1>2

\* However painters, crashes and sessions follow each other, every runtime
\* and every log is whole.
LEMMA AlwaysWhole == StoreSpec => []StoreWhole
<1>1. StoreWhole /\ [StoreNext]_storeVars => StoreWhole'
  BY StoreSteps DEF Keeps
<1>. QED
  BY <1>1, StoreStarts, PTL DEF StoreSpec

\* FoldFaithful: what a painter would write, replayed, is what it shows,
\* across any history of strokes, undos, redos, folds, saves, reloads and
\* sessions, for any number of painters (save_shared_document_snapshot,
\* fold_history, load_document_from_root).
THEOREM FoldFaithfulCorrect == StoreSpec => []FoldFaithful
<1>1. StoreWhole => FoldFaithful
  <2>1. SUFFICES ASSUME StoreWhole
                 PROVE  FoldFaithful
    OBVIOUS
  <2>2. docs \in Nat /\ docs <= MaxDocs /\ MaxDocs \in Nat
    BY <2>1, Numbers DEF StoreWhole
  <2>3. Works(docs) \subseteq Works(MaxDocs) /\ Vaults(docs) \subseteq Vaults(MaxDocs)
    BY <2>2, PlacesGrow
  <2>4. ASSUME NEW p \in Painter
        PROVE  /\ painter[p].doc \in 1 .. MaxDocs
               /\ painter[p].rev \in 0 .. MaxRev
               /\ painter[p].path \in Roots
               /\ painter[p].root \in Roots \cup {NoRoot}
               /\ painter[p].vault \in Roots \cup {NoRoot}
               /\ painter[p].net \in {"none", "host", "client"}
               /\ painter[p].rt.squashed \in 0 .. Len(painter[p].rt.actions)
               /\ Replay(ActionsForFile(painter[p].rt)).canvas = painter[p].rt.canvas
    <3>1. PainterWhole(painter[p], docs)
      BY <2>1 DEF StoreWhole
    <3>2. Accounted(painter[p].rt)
      BY <3>1 DEF PainterWhole
    <3>3. Replay(ActionsForFile(painter[p].rt)).canvas = painter[p].rt.canvas
      BY <3>2, FileShows
    <3>. QED
      BY <2>2, <2>3, <3>1, <3>2, <3>3, RootsAre DEF PainterWhole, Accounted, RuntimeWhole
  <2>5. \A r \in Roots : /\ disk[r].id \in 0 .. MaxDocs /\ disk[r].rev \in 0 .. MaxRev
                         /\ ~disk[r].logged => disk[r].log = <<>>
    BY <2>1, <2>2 DEF StoreWhole, FileWhole
  <2>. QED
    BY <2>4, <2>5 DEF FoldFaithful, StoreTypeOK
<1>. QED
  BY <1>1, AlwaysWhole, PTL

\* One painter: the log on disk is what it shows, what it accounts for, or
\* behind it.
LEMMA StoreInOrder ==
  ASSUME Painters = 1
  PROVE  StoreSpec => []StoreInv
<1>1. StoreInv /\ [StoreNext]_storeVars => StoreInv'
  BY StoreSteps DEF Keeps, StoreInv
<1>2. StoreInit => StoreInv
  BY StoreStarts
<1>. QED
  BY <1>1, <1>2, PTL DEF StoreSpec

\* What the invariant says of the one painter.
LEMMA OfTheOne ==
  ASSUME Painters = 1, StoreInv
  PROVE  Durable /\ NoFalseConflict /\ GuardSound
<1>1. SUFFICES ASSUME NEW p \in Painter, NEW q, q = painter[p], NEW d, d = disk[q.path]
               PROVE  /\ Persists(q) /\ ~q.hosting /\ d.id = q.doc /\ d.logged /\ Guards(q, d)
                           => d.log = ActionsForFile(q.rt)
                      /\ q.net = "none" => Replay(d.log).canvas = q.rt.canvas
                      /\ q.net = "none" /\ q.root = q.path => Guards(q, d)
  BY DEF Durable, NoFalseConflict, GuardSound
<1>2. docs \in Nat /\ PainterWhole(q, docs) /\ FileWhole(d, docs) /\ Solo(q, d)
  BY <1>1, StartOf DEF StoreInv
<1>. QED
  BY <1>2, SoloGuards

\* Durable: what the painter shows outside a session is what opening its
\* directory shows, through strokes, undos, folds, saves, conflicts, crashes
\* between the two files, and sessions hosted, joined and left.
THEOREM DurableCorrect ==
  ASSUME Painters = 1
  PROVE  StoreSpec => []Durable
BY StoreInOrder, OfTheOne, PTL

\* NoFalseConflict: the painter's saves to the directory of its document are
\* never refused (the guards of save_shared_document_snapshot).
THEOREM NoFalseConflictCorrect ==
  ASSUME Painters = 1
  PROVE  StoreSpec => []NoFalseConflict
BY StoreInOrder, OfTheOne, PTL

\* GuardSound: a save that passes the guards over the painter's own document
\* drops no record: the counts agree only when the logs do.
THEOREM GuardSoundCorrect ==
  ASSUME Painters = 1
  PROVE  StoreSpec => []GuardSound
BY StoreInOrder, OfTheOne, PTL

\* GuardExact: the guards of a save let the painter's own saves pass, and only
\* those that drop nothing.
THEOREM GuardExactCorrect ==
  ASSUME Painters = 1
  PROVE  StoreSpec => []GuardExact
<1>1. GuardSound /\ NoFalseConflict => GuardExact
  BY DEF GuardExact
<1>. QED
  BY <1>1, GuardSoundCorrect, NoFalseConflictCorrect, PTL
=============================================================================
