---------------------------- MODULE PatchProofs -----------------------------
(***************************************************************************)
(* Proofs about ContentPatch, for texts of any length: that the deltas of  *)
(* a diff, whatever lines it takes for equal, apply to the base and give   *)
(* the text. What is inductive is that the deltas so far are a patch       *)
(* (Patches): up to where they leave off they make of the lines of the one *)
(* text those of the other.                                                *)
(***************************************************************************)
EXTENDS ContentPatch, IndexProofs

-----------------------------------------------------------------------------
(* Diffs. *)

\* Where a delta leaves off in the text that it changes, and in the one that results.
CursorAfter(ds, k) == IF k = 0 THEN 0 ELSE ds[k].source + Len(ds[k].deleted)
TargetAfter(ds, k) == IF k = 0 THEN 0 ELSE ds[k].target + Len(ds[k].inserted)

\* From here to there the lines of two texts are the same.
Same(x, y, a, b, c, e) ==
    /\ a <= c /\ c - a = e - b
    /\ c <= Len(x) /\ e <= Len(y)
    /\ \A j \in 1..(c - a) : x[a + j] = y[b + j]

\* A delta comes where the lines were the same since the last one.
Follows(ds, k, x, y) ==
    /\ Same(x, y, CursorAfter(ds, k - 1), TargetAfter(ds, k - 1), ds[k].source, ds[k].target)
    /\ CursorAfter(ds, k) <= Len(x) /\ TargetAfter(ds, k) <= Len(y)
    /\ ds[k].inserted = SubSeq(y, ds[k].target + 1, TargetAfter(ds, k))

\* Deltas that make of the first lines of one text those of the other.
Patches(ds, x, y, a, b) ==
    /\ ds \in Seq([source : Nat, target : Nat, deleted : Seq(Line), inserted : Seq(Line)])
    /\ \A k \in 1..Len(ds) : Follows(ds, k, x, y) /\ ds[k].source <= a
    /\ \A j, k \in 1..Len(ds) : j < k => ds[j].source <= ds[k].source
    /\ Same(x, y, CursorAfter(ds, Len(ds)), TargetAfter(ds, Len(ds)), a, b)

LEMMA NoPatch ==
    ASSUME NEW x \in Seq(Line), NEW y \in Seq(Line)
    PROVE  Patches(<<>>, x, y, 0, 0)
  <1>1. Len(<<>>) = 0 /\ 1..0 = {} /\ Len(x) \in Nat /\ Len(y) \in Nat
    OBVIOUS
  <1>2. Same(x, y, 0, 0, 0, 0)
    BY <1>1 DEF Same
  <1> QED
    BY <1>1, <1>2 DEF Patches, CursorAfter, TargetAfter

\* What is known of where a patch leaves off.
LEMMA PatchTyped ==
    ASSUME NEW x \in Seq(Line), NEW y \in Seq(Line), NEW ds, NEW a \in Nat, NEW b \in Nat,
           Patches(ds, x, y, a, b)
    PROVE  /\ Len(ds) \in Nat
           /\ \A k \in 1..Len(ds) : /\ ds[k].source \in Nat /\ ds[k].target \in Nat
                                    /\ ds[k].deleted \in Seq(Line) /\ Len(ds[k].deleted) \in Nat
                                    /\ ds[k].inserted \in Seq(Line) /\ Len(ds[k].inserted) \in Nat
           /\ \A k \in 0..Len(ds) : CursorAfter(ds, k) \in Nat /\ TargetAfter(ds, k) \in Nat
  <1> DEFINE D == [source : Nat, target : Nat, deleted : Seq(Line), inserted : Seq(Line)]
  <1>1. ds \in Seq(D)
    BY DEF Patches
  <1>2. \A d \in D : /\ d.source \in Nat /\ d.target \in Nat
                     /\ d.deleted \in Seq(Line) /\ Len(d.deleted) \in Nat
                     /\ d.inserted \in Seq(Line) /\ Len(d.inserted) \in Nat
    BY LenProperties
  <1> HIDE DEF D
  <1>3. Len(ds) \in Nat /\ \A k \in 1..Len(ds) : ds[k] \in D
    BY <1>1
  <1>4. \A k \in 1..Len(ds) : /\ ds[k].source \in Nat /\ ds[k].target \in Nat
                              /\ ds[k].deleted \in Seq(Line) /\ Len(ds[k].deleted) \in Nat
                              /\ ds[k].inserted \in Seq(Line) /\ Len(ds[k].inserted) \in Nat
    BY <1>2, <1>3
  <1>5. ASSUME NEW k \in 0..Len(ds) PROVE CursorAfter(ds, k) \in Nat /\ TargetAfter(ds, k) \in Nat
    <2>1. CASE k = 0
      BY <2>1 DEF CursorAfter, TargetAfter
    <2>2. CASE k # 0
      <3>1. k \in 1..Len(ds)
        BY <1>3, <2>2
      <3>2. /\ ds[k].source \in Nat /\ ds[k].target \in Nat
            /\ Len(ds[k].deleted) \in Nat /\ Len(ds[k].inserted) \in Nat
        BY <1>4, <3>1
      <3>3. /\ CursorAfter(ds, k) = ds[k].source + Len(ds[k].deleted)
            /\ TargetAfter(ds, k) = ds[k].target + Len(ds[k].inserted)
        BY <2>2, Zenon DEF CursorAfter, TargetAfter
      <3>4. \A i, j \in Nat : i + j \in Nat
        OBVIOUS
      <3> QED
        BY <3>2, <3>3, <3>4, Zenon
    <2> QED
      BY <2>1, <2>2
  <1> QED
    BY <1>3, <1>4, <1>5

\* A line that is the same in both needs no delta.
LEMMA PatchGoesOn ==
    ASSUME NEW x \in Seq(Line), NEW y \in Seq(Line), NEW ds, NEW a \in Nat, NEW b \in Nat,
           Patches(ds, x, y, a, b), a + 1 <= Len(x), b + 1 <= Len(y), x[a + 1] = y[b + 1]
    PROVE  Patches(ds, x, y, a + 1, b + 1)
  <1> DEFINE c == CursorAfter(ds, Len(ds))
             e == TargetAfter(ds, Len(ds))
  <1>1. c \in Nat /\ e \in Nat /\ Len(ds) \in Nat
        /\ \A k \in 1..Len(ds) : ds[k].source \in Nat
    BY PatchTyped
  <1>2. Same(x, y, c, e, a, b)
    BY DEF Patches
  <1> HIDE DEF c, e
  <1>3. Same(x, y, c, e, a + 1, b + 1)
    <2>1. c <= a + 1 /\ (a + 1) - c = (b + 1) - e
      BY <1>1, <1>2 DEF Same
    <2>2. ASSUME NEW j \in 1..((a + 1) - c) PROVE x[c + j] = y[e + j]
      <3>1. CASE j \in 1..(a - c)
        BY <1>2, <3>1 DEF Same
      <3>2. CASE j \notin 1..(a - c)
        <4>1. c + j = a + 1 /\ e + j = b + 1
          BY <1>1, <1>2, <3>2 DEF Same
        <4> QED
          BY <4>1
      <3> QED
        BY <3>1, <3>2
    <2> QED
      BY <2>1, <2>2 DEF Same
  <1>4. \A k \in 1..Len(ds) : ds[k].source <= a + 1
    <2>1. \A k \in 1..Len(ds) : ds[k].source <= a
      BY Zenon DEF Patches
    <2>2. \A i \in Nat : i <= a => i <= a + 1
      OBVIOUS
    <2> QED
      BY <1>1, <2>1, <2>2
  <1> QED
    BY <1>3, <1>4 DEF Patches, c, e

\* Lines that differ, up to here and there, need one.
LEMMA PatchAppends ==
    ASSUME NEW x \in Seq(Line), NEW y \in Seq(Line), NEW ds, NEW a \in Nat, NEW b \in Nat,
           Patches(ds, x, y, a, b),
           NEW c \in Nat, a <= c, c <= Len(x), NEW e \in Nat, b <= e, e <= Len(y),
           NEW d, d = [source |-> a, target |-> b,
                       deleted |-> SubSeq(x, a + 1, c), inserted |-> SubSeq(y, b + 1, e)]
    PROVE  Patches(Append(ds, d), x, y, c, e)
  <1> DEFINE D == [source : Nat, target : Nat, deleted : Seq(Line), inserted : Seq(Line)]
             n == Len(ds)
             r == Append(ds, d)
  <1>1. /\ SubSeq(x, a + 1, c) \in Seq(Line) /\ Len(SubSeq(x, a + 1, c)) = c - a
        /\ SubSeq(y, b + 1, e) \in Seq(Line) /\ Len(SubSeq(y, b + 1, e)) = e - b
    <2>1. \A i \in (a + 1)..c : x[i] \in Line
      OBVIOUS
    <2>2. \A i \in (b + 1)..e : y[i] \in Line
      OBVIOUS
    <2>3. Len(SubSeq(x, a + 1, c)) = IF a + 1 <= c THEN c - (a + 1) + 1 ELSE 0
      BY <2>1, SubSeqProperties
    <2>4. Len(SubSeq(y, b + 1, e)) = IF b + 1 <= e THEN e - (b + 1) + 1 ELSE 0
      BY <2>2, SubSeqProperties
    <2>5. SubSeq(x, a + 1, c) \in Seq(Line)
      BY <2>1, SubSeqProperties
    <2>6. SubSeq(y, b + 1, e) \in Seq(Line)
      BY <2>2, SubSeqProperties
    <2> QED
      BY <2>3, <2>4, <2>5, <2>6
  <1>2. d \in D
    BY <1>1
  <1>3. /\ d.source = a /\ d.target = b /\ Len(d.deleted) = c - a /\ Len(d.inserted) = e - b
        /\ d.inserted = SubSeq(y, b + 1, e)
    BY <1>1
  <1>4. ds \in Seq(D)
    BY DEF Patches
  <1>5. n \in Nat /\ \A k \in 1..n : ds[k].source \in Nat
    BY PatchTyped
  <1> HIDE DEF D
  <1>6. /\ r \in Seq(D) /\ Len(r) = n + 1 /\ r[n + 1] = d
        /\ \A k \in 1..n : r[k] = ds[k]
    BY <1>2, <1>4, AppendProperties
  <1> HIDE DEF r
  <1>7. /\ \A k \in 0..n : /\ CursorAfter(r, k) = CursorAfter(ds, k)
                           /\ TargetAfter(r, k) = TargetAfter(ds, k)
        /\ CursorAfter(r, n + 1) = c /\ TargetAfter(r, n + 1) = e
    <2>1. \A k \in 0..n : k # 0 => k \in 1..n
      BY <1>5
    <2>2. \A k \in 0..n : k # 0 => r[k] = ds[k]
      BY <1>6, <2>1
    <2>3. \A k \in 0..n : /\ CursorAfter(r, k) = CursorAfter(ds, k)
                           /\ TargetAfter(r, k) = TargetAfter(ds, k)
      BY <2>2, Zenon DEF CursorAfter, TargetAfter
    <2>4. n + 1 # 0 /\ a + (c - a) = c /\ b + (e - b) = e
      BY <1>5
    <2>5. CursorAfter(r, n + 1) = c /\ TargetAfter(r, n + 1) = e
      BY <1>3, <1>6, <2>4 DEF CursorAfter, TargetAfter
    <2> QED
      BY <2>3, <2>5
  <1>8. ASSUME NEW k \in 1..(n + 1) PROVE Follows(r, k, x, y) /\ r[k].source <= c
    <2>1. CASE k \in 1..n
      <3>1. Follows(ds, k, x, y) /\ ds[k].source <= a
        BY <2>1 DEF Patches
      <3>2. r[k] = ds[k] /\ k - 1 \in 0..n /\ k \in 0..n
        BY <1>5, <1>6, <2>1
      <3>3. /\ CursorAfter(r, k) = CursorAfter(ds, k) /\ TargetAfter(r, k) = TargetAfter(ds, k)
            /\ CursorAfter(r, k - 1) = CursorAfter(ds, k - 1)
            /\ TargetAfter(r, k - 1) = TargetAfter(ds, k - 1)
        BY <1>7, <3>2
      <3>4. Follows(r, k, x, y)
        BY <3>1, <3>2, <3>3, Zenon DEF Follows
      <3>5. r[k].source <= c
        BY <1>5, <2>1, <3>1, <3>2
      <3> QED
        BY <3>4, <3>5
    <2>2. CASE k \notin 1..n
      <3>1. k = n + 1 /\ k - 1 = n /\ n \in 0..n /\ r[k] = d
        BY <1>5, <1>6, <2>2
      <3>2. Same(x, y, CursorAfter(ds, n), TargetAfter(ds, n), a, b)
        BY DEF Patches
      <3> QED
        BY <1>3, <1>7, <3>1, <3>2 DEF Follows
    <2> QED
      BY <2>1, <2>2
  <1>9. ASSUME NEW j \in 1..(n + 1), NEW k \in 1..(n + 1), j < k
        PROVE  r[j].source <= r[k].source
    <2>1. j \in 1..n
      BY <1>5, <1>9
    <2>2. CASE k \in 1..n
      BY <1>6, <1>9, <2>1, <2>2 DEF Patches
    <2>3. CASE k \notin 1..n
      <3>1. r[k] = d
        BY <1>5, <1>6, <2>3
      <3> QED
        BY <1>3, <1>6, <2>1, <3>1 DEF Patches
    <2> QED
      BY <2>2, <2>3
  <1>10. Same(x, y, c, e, c, e)
    BY DEF Same
  <1>11. r \in Seq([source : Nat, target : Nat, deleted : Seq(Line), inserted : Seq(Line)])
    BY <1>6 DEF D
  <1> HIDE DEF n
  <1>12. Patches(r, x, y, c, e)
    BY <1>6, <1>7, <1>8, <1>9, <1>10, <1>11 DEF Patches
  <1> QED
    BY <1>12 DEF r

\* A line as a diff has it is one piece, and so is the empty one.
OnePiece == {<<p>> : p \in Piece}
AnyToken == [line : OnePiece, newline : BOOLEAN]

LEMMA PiecesAre ==
    /\ OnePiece \subseteq Line
    /\ EmptyLine \in OnePiece
    /\ \A l \in OnePiece : Len(l) = 1 /\ DOMAIN l = 1..1 /\ l = <<l[1]>>
  <1>1. \A p \in Piece : /\ <<p>> \in Seq(Piece) /\ Len(<<p>>) = 1
                         /\ DOMAIN <<p>> = 1..1 /\ <<p>>[1] = p
    OBVIOUS
  <1>2. OnePiece \subseteq Line
    BY <1>1 DEF OnePiece, Line
  <1>3. EmptyLine \in OnePiece
    BY DEF OnePiece, EmptyLine, Piece
  <1>4. \A l \in OnePiece : Len(l) = 1 /\ DOMAIN l = 1..1 /\ l = <<l[1]>>
    BY <1>1 DEF OnePiece
  <1> QED
    BY <1>2, <1>3, <1>4

\* Lines of a text.
LEMMA LinesTyped ==
    ASSUME NEW t \in Seq(AnyToken)
    PROVE  /\ LinesOf(t) \in Seq(Line) /\ LinesOf(t) \in Seq(OnePiece)
           /\ Len(LinesOf(t)) = Len(t)
           /\ \A i \in 1..Len(t) : LinesOf(t)[i] = t[i].line
  <1>1. /\ Len(t) \in Nat /\ DOMAIN t = 1..Len(t)
        /\ \A i \in 1..Len(t) : t[i].line \in Line /\ t[i].line \in OnePiece
    <2>1. Len(t) \in Nat /\ DOMAIN t = 1..Len(t) /\ \A i \in 1..Len(t) : t[i] \in AnyToken
      OBVIOUS
    <2>2. \A k \in AnyToken : k.line \in Line /\ k.line \in OnePiece
      BY PiecesAre DEF AnyToken
    <2> QED
      BY <2>1, <2>2
  <1>2. LinesOf(t) = [i \in 1..Len(t) |-> t[i].line]
    BY <1>1 DEF LinesOf
  <1>3. LinesOf(t) \in [1..Len(t) -> Line] /\ LinesOf(t) \in [1..Len(t) -> OnePiece]
    BY <1>1, <1>2
  <1> QED
    BY <1>1, <1>2, <1>3

\* The lines of a part of it are that part of them.
LEMMA LinesOfPart ==
    ASSUME NEW t \in Seq(AnyToken), NEW m \in Nat, NEW n \in Nat, 1 <= m, n <= Len(t)
    PROVE  /\ LinesOf(SubSeq(t, m, n)) = SubSeq(LinesOf(t), m, n)
           /\ SubSeq(t, m, n) = <<>> <=> n < m
  <1>1. Len(t) \in Nat /\ \A i \in m..n : i \in 1..Len(t)
    OBVIOUS
  <1>2. \A i \in m..n : t[i] \in AnyToken
    BY <1>1
  <1> DEFINE p == SubSeq(t, m, n)
             q == SubSeq(LinesOf(t), m, n)
  <1>3. /\ p \in Seq(AnyToken) /\ Len(p) = (IF m <= n THEN n - m + 1 ELSE 0)
        /\ \A i \in 1..(n - m + 1) : p[i] = t[m + i - 1]
    BY <1>2, SubSeqProperties
  <1>4. /\ LinesOf(t) \in Seq(Line) /\ Len(LinesOf(t)) = Len(t)
        /\ \A i \in 1..Len(t) : LinesOf(t)[i] = t[i].line
    BY LinesTyped
  <1>5. /\ q \in Seq(Line) /\ Len(q) = (IF m <= n THEN n - m + 1 ELSE 0)
        /\ \A i \in 1..(n - m + 1) : q[i] = LinesOf(t)[m + i - 1]
    <2>1. \A i \in m..n : LinesOf(t)[i] \in Line
      BY <1>1, <1>4
    <2> QED
      BY <2>1, SubSeqProperties
  <1> HIDE DEF p, q
  <1>6. /\ LinesOf(p) \in Seq(Line) /\ Len(LinesOf(p)) = Len(p)
        /\ \A i \in 1..Len(p) : LinesOf(p)[i] = p[i].line
    BY <1>3, LinesTyped
  <1>7. ASSUME NEW i \in 1..Len(q) PROVE LinesOf(p)[i] = q[i]
    <2>1. i \in 1..(n - m + 1) /\ m + i - 1 \in 1..Len(t) /\ i \in 1..Len(p)
      BY <1>1, <1>3, <1>5
    <2> QED
      BY <1>3, <1>4, <1>5, <1>6, <2>1
  <1>8. LinesOf(p) = q
    BY <1>3, <1>5, <1>6, <1>7, SeqEqual
  <1>9. p = <<>> <=> n < m
    <2>1. p = <<>> <=> Len(p) = 0
      BY <1>3, EmptySeq
    <2> QED
      BY <1>3, <2>1
  <1> QED
    BY <1>8, <1>9 DEF p, q

\* diff goes from cut to cut.
DiffSteps(f, old, new, aligned, c) ==
    /\ f[1] = <<>>
    /\ \A i \in 2..Len(c) :
         LET deleted == SubSeq(old, c[i - 1][1] + 1, c[i][1] - 1)
             inserted == SubSeq(new, c[i - 1][2] + 1, c[i][2] - 1)
         IN f[i] = IF deleted = <<>> /\ inserted = <<>> THEN f[i - 1]
                   ELSE Append(f[i - 1], Delta(c[i - 1][1], c[i - 1][2], deleted, inserted))
    /\ Diff(old, new, aligned) = f[Len(c)]

LEMMA DiffUnfolds ==
    ASSUME NEW old, NEW new, NEW aligned, NEW P, NEW c, c \in Seq(P), c # <<>>,
           c = <<<<0, 0>>>> \o aligned \o <<<<Len(old) + 1, Len(new) + 1>>>>
    PROVE  \E f : DiffSteps(f, old, new, aligned, c)
  <1> DEFINE n == Len(c)
             deleted(i) == SubSeq(old, c[i - 1][1] + 1, c[i][1] - 1)
             inserted(i) == SubSeq(new, c[i - 1][2] + 1, c[i][2] - 1)
             added(i) == Delta(c[i - 1][1], c[i - 1][2], deleted(i), inserted(i))
             next(v, i) == IF deleted(i) = <<>> /\ inserted(i) = <<>> THEN v
                           ELSE Append(v, added(i))
             Fits(g) == g = [i \in 1..Len(c) |->
                              IF i = 1 THEN <<>>
                              ELSE LET from == c[i - 1]
                                       to == c[i]
                                       out == SubSeq(old, from[1] + 1, to[1] - 1)
                                       in == SubSeq(new, from[2] + 1, to[2] - 1)
                                   IN IF out = <<>> /\ in = <<>> THEN g[i - 1]
                                      ELSE Append(g[i - 1], Delta(from[1], from[2], out, in))]
             f == CHOOSE g : Fits(g)
  <1>1. Diff(old, new, aligned) = f[n]
    BY DEF Diff
  <1>2. n \in Nat /\ n >= 1
    BY EmptySeq
  <1> DEFINE m == n - 1
             X == Seq({added(i) : i \in 2..n})
             a == <<>>
             Step == [i \in 1..m |-> [v \in X |-> next(v, i + 1)]]
  <1>3. m \in Nat /\ a \in X /\ \A i \in 1..m : i + 1 \in 2..n
    BY <1>2
  <1>4. \A i \in 1..m, v \in X : next(v, i + 1) \in X
    <2> TAKE i \in 1..m, v \in X
    <2>1. added(i + 1) \in {added(j) : j \in 2..n}
      BY <1>3
    <2> HIDE DEF added
    <2>2. Append(v, added(i + 1)) \in X
      BY <2>1, AppendProperties
    <2> QED
      BY <2>2
  <1> HIDE DEF n, m, X, a, next
  <1>5. PICK h : h[0] = a /\ \A i \in 1..m : h[i] = next(h[i - 1], i + 1)
    <2>1. Step \in Steps(X, m)
      BY <1>4 DEF Steps
    <2>2. \A i \in 1..m, v \in X : Step[i][v] = next(v, i + 1)
      OBVIOUS
    <2> HIDE DEF Step
    <2>3. \E g : Iterates(g, Step, a, m, X)
      BY <1>3, <2>1, IterationExists
    <2>4. PICK g \in [0..m -> X] : g[0] = a /\ \A i \in 1..m : g[i] = Step[i][g[i - 1]]
      BY <2>3 DEF Iterates
    <2>5. \A i \in 1..m : g[i - 1] \in X
      BY <1>3
    <2>6. g[0] = a /\ \A i \in 1..m : g[i] = next(g[i - 1], i + 1)
      BY <2>2, <2>4, <2>5
    <2> QED
      BY <2>6
  <1> DEFINE k == [i \in 1..n |-> h[i - 1]]
  <1>6. Fits(k)
    <2>1. ASSUME NEW i \in 1..n PROVE k[i] = IF i = 1 THEN <<>> ELSE next(k[i - 1], i)
      <3>1. CASE i = 1
        BY <1>5, <3>1 DEF a
      <3>2. CASE i # 1
        <4>1. i - 1 \in 1..m /\ i - 1 \in 1..n /\ (i - 1) + 1 = i
          BY <1>2, <3>2 DEF m
        <4>2. k[i] = h[i - 1] /\ k[i - 1] = h[(i - 1) - 1]
          BY <4>1
        <4> HIDE DEF k
        <4> QED
          BY <1>5, <3>2, <4>1, <4>2
      <3> QED
        BY <3>1, <3>2
    <2>2. k = [i \in 1..n |-> k[i]]
      OBVIOUS
    <2> HIDE DEF k
    <2>3. k = [i \in 1..n |-> IF i = 1 THEN <<>> ELSE next(k[i - 1], i)]
      BY <2>1, <2>2
    <2> QED
      BY <2>3 DEF n, next
  <1>7. Fits(f)
    <2> HIDE DEF Fits, k
    <2> QED
      BY <1>6, Zenon
  <1>8. \A i \in 1..n : f[i] = IF i = 1 THEN <<>> ELSE next(f[i - 1], i)
    <2> HIDE DEF f
    <2>1. f = [i \in 1..n |-> IF i = 1 THEN <<>> ELSE next(f[i - 1], i)]
      BY <1>7 DEF n, next
    <2> QED
      BY <2>1
  <1> HIDE DEF f
  <1>9. f[1] = <<>> /\ \A i \in 2..n : f[i] = next(f[i - 1], i)
    <2>1. 1 \in 1..n /\ \A i \in 2..n : i \in 1..n /\ i # 1
      BY <1>2
    <2> QED
      BY <1>8, <2>1
  <1> QED
    BY <1>1, <1>9 DEF n, next, DiffSteps

\* Cuts that a diff goes along: one before both texts, the pairs of lines that it takes
\* as equal, and one behind both.
Cuts(c, old, new, aligned) ==
    /\ c \in Seq(Nat \X Nat)
    /\ Len(c) = Len(aligned) + 2 /\ Len(aligned) \in Nat /\ Len(aligned) <= Len(old)
    /\ c[1] = <<0, 0>>
    /\ c[Len(c)] = <<Len(old) + 1, Len(new) + 1>>
    /\ \A i \in 2..(Len(c) - 1) :
         /\ c[i][1] \in 1..Len(old) /\ c[i][2] \in 1..Len(new)
         /\ old[c[i][1]] = new[c[i][2]]
    /\ \A i \in 2..Len(c) : c[i - 1][1] < c[i][1] /\ c[i - 1][2] < c[i][2]

LEMMA CutsAre ==
    ASSUME NEW old \in Seq(AnyToken), NEW new \in Seq(AnyToken),
           NEW aligned \in Alignments(old, new),
           NEW c, c = <<<<0, 0>>>> \o aligned \o <<<<Len(old) + 1, Len(new) + 1>>>>
    PROVE  Cuts(c, old, new, aligned)
  <1> DEFINE E == {p \in (DOMAIN old) \X (DOMAIN new) : old[p[1]] = new[p[2]]}
             P == Nat \X Nat
             q == <<<<0, 0>>>>
             z == <<Len(old) + 1, Len(new) + 1>>
             w == <<z>>
             b == q \o aligned
             n == Len(aligned)
  <1>1. Len(old) \in Nat /\ Len(new) \in Nat /\ DOMAIN old = 1..Len(old) /\ DOMAIN new = 1..Len(new)
    OBVIOUS
  <1>2. \A p \in E : /\ p \in P /\ p[1] \in 1..Len(old) /\ p[2] \in 1..Len(new)
                     /\ old[p[1]] = new[p[2]]
    BY <1>1
  <1>3. /\ aligned \in UNION {[1..m -> E] : m \in 0..Len(old)}
        /\ \A i, j \in DOMAIN aligned : i < j => aligned[i][1] < aligned[j][1]
                                              /\ aligned[i][2] < aligned[j][2]
    BY DEF Alignments, SeqOf
  <1> HIDE DEF E
  <1>4. PICK m \in 0..Len(old) : aligned \in [1..m -> E]
    BY <1>3, Zenon
  <1>5. /\ n = m /\ n \in Nat /\ n <= Len(old) /\ DOMAIN aligned = 1..n
        /\ \A i \in 1..n : aligned[i] \in E
    BY <1>1, <1>4
  <1>6. /\ aligned \in Seq(P)
        /\ \A i \in 1..n : /\ aligned[i][1] \in 1..Len(old) /\ aligned[i][2] \in 1..Len(new)
                           /\ old[aligned[i][1]] = new[aligned[i][2]]
    <2>1. \A i \in 1..n : aligned[i] \in P
      BY <1>2, <1>5
    <2> HIDE DEF P
    <2>2. aligned \in [1..m -> P] /\ m \in Nat
      BY <1>1, <1>4, <1>5, <2>1
    <2>3. aligned \in Seq(P)
      BY <2>2
    <2> QED
      BY <1>2, <1>5, <2>3
  <1>7. z \in P /\ <<0, 0>> \in P /\ z[1] = Len(old) + 1 /\ z[2] = Len(new) + 1
    BY <1>1
  <1> DEFINE o == <<0, 0>>
  <1>0. o[1] = 0 /\ o[2] = 0 /\ o = <<0, 0>>
    OBVIOUS
  <1> HIDE DEF o
  <1> HIDE DEF z, P
  <1>8. q \in Seq(P) /\ Len(q) = 1 /\ q[1] = <<0, 0>> /\ w \in Seq(P) /\ Len(w) = 1 /\ w[1] = z
    BY <1>7
  <1> HIDE DEF q, w
  <1>9. /\ b \in Seq(P) /\ Len(b) = 1 + n
        /\ \A i \in 1..(1 + n) : b[i] = IF i <= 1 THEN q[i] ELSE aligned[i - 1]
    <2>1. /\ b \in Seq(P) /\ Len(b) = Len(q) + Len(aligned)
          /\ \A i \in 1..(Len(q) + Len(aligned)) :
               b[i] = IF i <= Len(q) THEN q[i] ELSE aligned[i - Len(q)]
      BY <1>6, <1>8, ConcatProperties
    <2> HIDE DEF b
    <2> QED
      BY <1>8, <2>1
  <1> HIDE DEF b
  <1>10. /\ b \o w \in Seq(P) /\ Len(b \o w) = (1 + n) + 1
         /\ \A i \in 1..((1 + n) + 1) : (b \o w)[i] = IF i <= 1 + n THEN b[i] ELSE w[i - (1 + n)]
    <2>1. /\ b \o w \in Seq(P) /\ Len(b \o w) = Len(b) + Len(w)
          /\ \A i \in 1..(Len(b) + Len(w)) :
               (b \o w)[i] = IF i <= Len(b) THEN b[i] ELSE w[i - Len(b)]
      BY <1>8, <1>9, ConcatProperties
    <2> QED
      BY <1>8, <1>9, <2>1
  <1>11. c = b \o w
    BY DEF b, w, q, z
  <1>12. /\ c \in Seq(P) /\ Len(c) = n + 2
         /\ \A i \in 1..(n + 2) : i <= 1 + n => c[i] = b[i]
         /\ c[n + 2] = w[1]
    <2>1. (1 + n) + 1 = n + 2 /\ n + 2 \in 1..(n + 2) /\ ~(n + 2 <= 1 + n) /\ (n + 2) - (1 + n) = 1
      BY <1>5
    <2> QED
      BY <1>10, <1>11, <2>1
  <1>13. c[1] = <<0, 0>> /\ c[n + 2] = z /\ \A i \in 2..(n + 1) : c[i] = aligned[i - 1]
    <2>1. 1 \in 1..(n + 2) /\ 1 \in 1..(1 + n) /\ 1 <= 1 + n
      BY <1>5
    <2>2. \A i \in 2..(n + 1) : i \in 1..(n + 2) /\ i \in 1..(1 + n) /\ i <= 1 + n /\ ~(i <= 1)
      BY <1>5
    <2> QED
      BY <1>8, <1>9, <1>12, <2>1, <2>2
  <1>14. ASSUME NEW i \in 2..(n + 1)
         PROVE  /\ c[i][1] \in 1..Len(old) /\ c[i][2] \in 1..Len(new)
                /\ old[c[i][1]] = new[c[i][2]]
    <2>1. i - 1 \in 1..n /\ c[i] = aligned[i - 1]
      BY <1>5, <1>13
    <2> QED
      BY <1>6, <2>1
  <1>15. ASSUME NEW i \in 2..(n + 2)
         PROVE  c[i - 1][1] < c[i][1] /\ c[i - 1][2] < c[i][2]
    <2>1. CASE i = 2 /\ n = 0
      <3>1. c[i - 1] = o /\ c[i] = z
        BY <1>0, <1>13, <2>1
      <3> QED
        BY <1>0, <1>1, <1>7, <3>1
    <2>2. CASE i = 2 /\ n # 0
      <3>1. c[i - 1] = o /\ i \in 2..(n + 1)
        BY <1>0, <1>5, <1>13, <2>2
      <3>2. c[i][1] \in 1..Len(old) /\ c[i][2] \in 1..Len(new)
        BY <1>14, <3>1
      <3>3. /\ \A k \in 1..Len(old) : 0 < k
            /\ \A k \in 1..Len(new) : 0 < k
        BY <1>1
      <3> QED
        BY <1>0, <3>1, <3>2, <3>3, Zenon
    <2>3. CASE i # 2 /\ i = n + 2
      <3>1. i - 1 \in 2..(n + 1) /\ c[i] = z
        BY <1>5, <1>13, <2>3
      <3>2. c[i - 1][1] \in 1..Len(old) /\ c[i - 1][2] \in 1..Len(new)
        BY <1>14, <3>1
      <3>3. /\ \A k \in 1..Len(old) : k < Len(old) + 1
            /\ \A k \in 1..Len(new) : k < Len(new) + 1
        BY <1>1
      <3> QED
        BY <1>7, <3>1, <3>2, <3>3, Zenon
    <2>4. CASE i # 2 /\ i # n + 2
      <3>1. i \in 2..(n + 1) /\ i - 1 \in 2..(n + 1) /\ i - 1 \in 1..n /\ (i - 1) - 1 \in 1..n
        BY <1>5, <2>4
      <3>2. c[i] = aligned[i - 1] /\ c[i - 1] = aligned[(i - 1) - 1] /\ (i - 1) - 1 < i - 1
        BY <1>13, <3>1
      <3> QED
        BY <1>3, <1>5, <3>1, <3>2
    <2> QED
      BY <2>1, <2>2, <2>3, <2>4
  <1>16. Len(c) - 1 = n + 1
    BY <1>5, <1>12
  <1> QED
    BY <1>5, <1>12, <1>13, <1>14, <1>15, <1>16 DEF P, z, Cuts

\* diff makes a patch of one text to the other, of no more deltas than there are gaps.
LEMMA DiffIsAPatch ==
    ASSUME NEW old \in Seq(AnyToken), NEW new \in Seq(AnyToken),
           NEW aligned \in Alignments(old, new)
    PROVE  /\ Patches(Diff(old, new, aligned), LinesOf(old), LinesOf(new), Len(old), Len(new))
           /\ Len(Diff(old, new, aligned)) <= Len(old) + 1
  <1> DEFINE c == <<<<0, 0>>>> \o aligned \o <<<<Len(old) + 1, Len(new) + 1>>>>
             n == Len(c)
             x == LinesOf(old)
             y == LinesOf(new)
  <1>1. /\ c \in Seq(Nat \X Nat)
        /\ n = Len(aligned) + 2 /\ Len(aligned) \in Nat /\ Len(aligned) <= Len(old)
        /\ c[1] = <<0, 0>>
        /\ c[n] = <<Len(old) + 1, Len(new) + 1>>
        /\ \A i \in 2..(n - 1) :
             /\ c[i][1] \in 1..Len(old) /\ c[i][2] \in 1..Len(new)
             /\ old[c[i][1]] = new[c[i][2]]
        /\ \A i \in 2..n : c[i - 1][1] < c[i][1] /\ c[i - 1][2] < c[i][2]
    <2> DEFINE e == c
    <2>1. e = <<<<0, 0>>>> \o aligned \o <<<<Len(old) + 1, Len(new) + 1>>>>
      OBVIOUS
    <2> HIDE DEF e
    <2>2. Cuts(e, old, new, aligned)
      BY <2>1, CutsAre
    <2> QED
      BY <2>2 DEF e, Cuts
  <1>2. PICK f :
          /\ f[1] = <<>>
          /\ \A i \in 2..n :
               LET deleted == SubSeq(old, c[i - 1][1] + 1, c[i][1] - 1)
                   inserted == SubSeq(new, c[i - 1][2] + 1, c[i][2] - 1)
               IN f[i] = IF deleted = <<>> /\ inserted = <<>> THEN f[i - 1]
                         ELSE Append(f[i - 1],
                                Delta(c[i - 1][1], c[i - 1][2], deleted, inserted))
          /\ Diff(old, new, aligned) = f[n]
    <2> DEFINE e == c
               P == Nat \X Nat
    <2>1. /\ e = <<<<0, 0>>>> \o aligned \o <<<<Len(old) + 1, Len(new) + 1>>>>
          /\ e \in Seq(P) /\ e # <<>>
      BY <1>1
    <2> HIDE DEF e, P
    <2>2. \E f : DiffSteps(f, old, new, aligned, e)
      BY <2>1, DiffUnfolds
    <2> QED
      BY <2>2 DEF e, DiffSteps
  <1> HIDE DEF c
  <1>3. /\ x \in Seq(Line) /\ Len(x) = Len(old) /\ \A i \in 1..Len(old) : x[i] = old[i].line
        /\ y \in Seq(Line) /\ Len(y) = Len(new) /\ \A i \in 1..Len(new) : y[i] = new[i].line
    BY LinesTyped
  <1>4. Len(old) \in Nat /\ Len(new) \in Nat /\ n \in Nat /\ n >= 2
    BY <1>1
  <1>5. \A i \in 1..n : c[i][1] \in Nat /\ c[i][2] \in Nat
    BY <1>1
  <1>6. \A i \in 2..n : c[i][1] <= Len(old) + 1 /\ c[i][2] <= Len(new) + 1
    <2> TAKE i \in 2..n
    <2>1. CASE i = n
      <3> DEFINE z == <<Len(old) + 1, Len(new) + 1>>
      <3>1. z[1] = Len(old) + 1 /\ z[2] = Len(new) + 1 /\ c[n] = z
        BY <1>1
      <3> HIDE DEF z
      <3> QED
        BY <1>4, <2>1, <3>1
    <2>2. CASE i # n
      <3>1. i \in 2..(n - 1)
        BY <1>4, <2>2
      <3> QED
        <4>1. c[i][1] \in 1..Len(old) /\ c[i][2] \in 1..Len(new)
          BY <1>1, <3>1, Zenon
        <4>2. /\ \A k \in 1..Len(old) : k <= Len(old) + 1
              /\ \A k \in 1..Len(new) : k <= Len(new) + 1
          BY <1>4
        <4> QED
          BY <4>1, <4>2, Zenon
    <2> QED
      BY <2>1, <2>2
  <1> HIDE DEF n, x, y
  <1> DEFINE Good(i, a, b) == Patches(f[i], x, y, a, b) /\ Len(f[i]) <= i - 1
  \* Up to the line before a cut.
  <1>7. ASSUME NEW i \in 2..n, Good(i - 1, c[i - 1][1], c[i - 1][2])
        PROVE  Good(i, c[i][1] - 1, c[i][2] - 1)
    <2> DEFINE a == c[i - 1][1]
               b == c[i - 1][2]
               s == c[i][1] - 1
               t == c[i][2] - 1
               deleted == SubSeq(old, a + 1, s)
               inserted == SubSeq(new, b + 1, t)
    <2>1. /\ a \in Nat /\ b \in Nat /\ s \in Nat /\ t \in Nat
          /\ a <= s /\ b <= t /\ s <= Len(old) /\ t <= Len(new)
      <3>1. i - 1 \in 1..n /\ i \in 1..n
        BY <1>4
      <3>2. c[i - 1][1] < c[i][1] /\ c[i - 1][2] < c[i][2]
        BY <1>1 DEF n
      <3>3. /\ c[i - 1][1] \in Nat /\ c[i - 1][2] \in Nat /\ c[i][1] \in Nat /\ c[i][2] \in Nat
            /\ c[i][1] <= Len(old) + 1 /\ c[i][2] <= Len(new) + 1
        BY <1>5, <1>6, <3>1
      <3>4. \A p, q \in Nat : p < q => q - 1 \in Nat /\ p <= q - 1
        OBVIOUS
      <3>5. /\ \A q \in Nat : q <= Len(old) + 1 => q - 1 <= Len(old)
            /\ \A q \in Nat : q <= Len(new) + 1 => q - 1 <= Len(new)
        BY <1>4
      <3> QED
        BY <3>2, <3>3, <3>4, <3>5, Zenon
    <2>2. f[i] = IF deleted = <<>> /\ inserted = <<>> THEN f[i - 1]
                 ELSE Append(f[i - 1], Delta(a, b, deleted, inserted))
      BY <1>2
    <2>3. Patches(f[i - 1], x, y, a, b) /\ Len(f[i - 1]) <= (i - 1) - 1
      BY <1>7
    <2> HIDE DEF a, b, s, t
    <2>4. /\ LinesOf(deleted) = SubSeq(x, a + 1, s) /\ (deleted = <<>> <=> s < a + 1)
          /\ LinesOf(inserted) = SubSeq(y, b + 1, t) /\ (inserted = <<>> <=> t < b + 1)
      <3>1. /\ LinesOf(deleted) = SubSeq(LinesOf(old), a + 1, s)
            /\ deleted = <<>> <=> s < a + 1
        <4>1. a + 1 \in Nat /\ 1 <= a + 1
          BY <2>1
        <4> QED
          BY <2>1, <4>1, LinesOfPart
      <3>2. /\ LinesOf(inserted) = SubSeq(LinesOf(new), b + 1, t)
            /\ inserted = <<>> <=> t < b + 1
        <4>1. b + 1 \in Nat /\ 1 <= b + 1
          BY <2>1
        <4> QED
          BY <2>1, <4>1, LinesOfPart
      <3> QED
        BY <3>1, <3>2 DEF x, y
    <2> HIDE DEF deleted, inserted
    <2>5. Patches(f[i], x, y, s, t) /\ Len(f[i]) <= i - 1
      <3>0. Len(f[i - 1]) \in Nat
        BY <1>3, <2>1, <2>3, PatchTyped
      <3>1. CASE deleted = <<>> /\ inserted = <<>>
        <4>1. s = a /\ t = b /\ f[i] = f[i - 1]
          BY <2>1, <2>2, <2>4, <3>1
        <4> QED
          BY <2>3, <3>0, <4>1
      <3>2. CASE ~(deleted = <<>> /\ inserted = <<>>)
        <4> DEFINE d == Delta(a, b, deleted, inserted)
                   D == [source : Nat, target : Nat, deleted : Seq(Line), inserted : Seq(Line)]
        <4>1. d = [source |-> a, target |-> b,
                   deleted |-> SubSeq(x, a + 1, s), inserted |-> SubSeq(y, b + 1, t)]
          BY <2>4 DEF Delta
        <4>2. f[i] = Append(f[i - 1], d)
          BY <2>2, <3>2
        <4> HIDE DEF d
        <4>3. Patches(Append(f[i - 1], d), x, y, s, t)
          BY <1>3, <2>1, <2>3, <4>1, PatchAppends
        <4>4. Len(Append(f[i - 1], d)) = Len(f[i - 1]) + 1
          <5>1. f[i - 1] \in Seq(D)
            BY <2>3 DEF Patches
          <5> HIDE DEF D
          <5> QED
            BY <5>1
        <4> QED
          BY <2>3, <3>0, <4>2, <4>3, <4>4
      <3> QED
        BY <3>1, <3>2
    <2> QED
      BY <2>5 DEF s, t
  \* And with the line of the cut.
  <1>8. ASSUME NEW i \in 2..(n - 1), Good(i, c[i][1] - 1, c[i][2] - 1)
        PROVE  Good(i, c[i][1], c[i][2])
    <2> DEFINE a == c[i][1] - 1
               b == c[i][2] - 1
    <2>1. /\ c[i][1] \in 1..Len(old) /\ c[i][2] \in 1..Len(new)
          /\ old[c[i][1]] = new[c[i][2]]
      BY <1>1 DEF n
    <2>2. /\ a \in Nat /\ b \in Nat /\ a + 1 = c[i][1] /\ b + 1 = c[i][2]
      <3>1. /\ \A k \in 1..Len(old) : k - 1 \in Nat /\ (k - 1) + 1 = k
            /\ \A k \in 1..Len(new) : k - 1 \in Nat /\ (k - 1) + 1 = k
        BY <1>4
      <3> QED
        BY <2>1, <3>1, Zenon
    <2>3. Patches(f[i], x, y, a, b) /\ Len(f[i]) <= i - 1
      BY <1>8
    <2>4. a + 1 <= Len(x) /\ b + 1 <= Len(y) /\ x[a + 1] = y[b + 1]
      <3>1. x[a + 1] = old[a + 1].line /\ y[b + 1] = new[b + 1].line
        BY <1>3, <2>1, <2>2, Zenon
      <3>2. old[a + 1] = new[b + 1]
        BY <2>1, <2>2, Zenon
      <3>3. a + 1 <= Len(x) /\ b + 1 <= Len(y)
        <4>1. /\ \A k \in 1..Len(old) : k <= Len(old)
              /\ \A k \in 1..Len(new) : k <= Len(new)
          BY <1>4
        <4> QED
          BY <1>3, <2>1, <2>2, <4>1, Zenon
      <3> QED
        BY <3>1, <3>2, <3>3, Zenon
    <2> HIDE DEF a, b
    <2>5. Patches(f[i], x, y, a + 1, b + 1)
      BY <1>3, <2>2, <2>3, <2>4, PatchGoesOn
    <2> QED
      BY <2>2, <2>3, <2>5
  <1> DEFINE S == {j \in Nat : Good(j + 1, c[j + 1][1], c[j + 1][2])}
  <1>9. 0 \in S
    <2>1. 0 + 1 = 1 /\ c[1][1] = 0 /\ c[1][2] = 0 /\ Len(<<>>) <= 1 - 1
      BY <1>1
    <2>2. Patches(f[1], x, y, 0, 0)
      BY <1>2, <1>3, NoPatch
    <2>3. Good(1, 0, 0)
      BY <1>2, <2>1, <2>2
    <2> HIDE DEF Good
    <2> QED
      BY <2>1, <2>3
  <1> HIDE DEF Good
  <1>10. ASSUME NEW j \in 0..(n - 2 - 1), j \in S PROVE j + 1 \in S
    <2> DEFINE i == j + 2
    <2>1. /\ i \in 2..(n - 1) /\ i \in 2..n /\ i - 1 = j + 1 /\ (j + 1) + 1 = i
          /\ j \in Nat /\ j + 1 \in Nat
      BY <1>4
    <2>2. Good(i - 1, c[i - 1][1], c[i - 1][2])
      BY <1>10, <2>1
    <2> HIDE DEF i
    <2>3. Good(i, c[i][1], c[i][2])
      <3>1. Good(i, c[i][1] - 1, c[i][2] - 1)
        BY <1>7, <2>1, <2>2
      <3> QED
        BY <1>8, <2>1, <3>1
    <2> QED
      BY <2>1, <2>3
  <1> HIDE DEF S
  <1>11. n - 2 \in S
    <2>1. n - 2 \in Nat
      BY <1>4
    <2>2. \A j \in 0..(n - 2) : j \in S
      BY <1>9, <1>10, <2>1, InductionUpTo
    <2> QED
      BY <2>1, <2>2
  <1>12. Good(n, c[n][1] - 1, c[n][2] - 1)
    <2>1. (n - 2) + 1 = n - 1 /\ n \in 2..n
      BY <1>4
    <2>2. Good(n - 1, c[n - 1][1], c[n - 1][2])
      BY <1>11, <2>1 DEF S
    <2> QED
      BY <1>7, <2>1, <2>2
  <1>13. c[n][1] - 1 = Len(old) /\ c[n][2] - 1 = Len(new) /\ n - 1 = Len(aligned) + 1
    BY <1>1, <1>4 DEF n
  <1>14. Patches(f[n], x, y, Len(old), Len(new)) /\ Len(f[n]) <= Len(aligned) + 1
    BY <1>12, <1>13 DEF Good
  <1>15. Len(f[n]) \in Nat
    BY <1>3, <1>4, <1>14, PatchTyped
  <1>16. Len(f[n]) <= Len(old) + 1
    BY <1>1, <1>4, <1>14, <1>15
  <1>17. Diff(old, new, aligned) = f[n]
    BY <1>2 DEF n
  <1> QED
    BY <1>14, <1>16, <1>17 DEF x, y

LEMMA MaxOfTwo ==
    ASSUME NEW a \in Nat, NEW b \in Nat, a <= b
    PROVE  Max({a, b}) = b
  <1>1. \A x \in {a, b} : (\A y \in {a, b} : x >= y) <=> x = b
    OBVIOUS
  <1>2. (CHOOSE x \in {a, b} : \A y \in {a, b} : x >= y) = b
    BY <1>1
  <1> QED
    BY <1>2 DEF Max

\* Parts of two texts are the same if their lines are.
Alike(x, y, a, b, c, e) ==
    /\ x \in Seq(Line) /\ y \in Seq(Line)
    /\ a \in Nat /\ b \in Nat /\ c \in Nat /\ e \in Nat
    /\ Same(x, y, a, b, c, e)

Part(s, m, n) == SubSeq(s, m, n)

LEMMA SamePart ==
    ASSUME NEW x, NEW y, NEW a, NEW b, NEW c, NEW e, Alike(x, y, a, b, c, e)
    PROVE  Part(x, a + 1, c) = Part(y, b + 1, e)
  <1>0. /\ x \in Seq(Line) /\ y \in Seq(Line)
        /\ a \in Nat /\ b \in Nat /\ c \in Nat /\ e \in Nat
        /\ Same(x, y, a, b, c, e)
    BY DEF Alike
  <1> DEFINE p == SubSeq(x, a + 1, c)
             q == SubSeq(y, b + 1, e)
  <1>1. /\ a <= c /\ c - a = e - b /\ c <= Len(x) /\ e <= Len(y)
        /\ \A j \in 1..(c - a) : x[a + j] = y[b + j]
    BY <1>0 DEF Same
  <1>2. \A i \in (a + 1)..c : x[i] \in Line
    BY <1>0, <1>1
  <1>3. \A i \in (b + 1)..e : y[i] \in Line
    BY <1>0, <1>1
  <1>4. /\ p \in Seq(Line) /\ Len(p) = (IF a + 1 <= c THEN c - (a + 1) + 1 ELSE 0)
        /\ \A i \in 1..(c - (a + 1) + 1) : p[i] = x[(a + 1) + i - 1]
    BY <1>0, <1>2, SubSeqProperties
  <1>5. /\ q \in Seq(Line) /\ Len(q) = (IF b + 1 <= e THEN e - (b + 1) + 1 ELSE 0)
        /\ \A i \in 1..(e - (b + 1) + 1) : q[i] = y[(b + 1) + i - 1]
    BY <1>0, <1>3, SubSeqProperties
  <1> HIDE DEF p, q
  <1>6. Len(p) = c - a /\ Len(q) = c - a
    BY <1>0, <1>1, <1>4, <1>5
  <1>7. ASSUME NEW i \in 1..Len(p) PROVE p[i] = q[i]
    <2>1. /\ i \in 1..(c - (a + 1) + 1) /\ i \in 1..(e - (b + 1) + 1) /\ i \in 1..(c - a)
          /\ (a + 1) + i - 1 = a + i /\ (b + 1) + i - 1 = b + i
      BY <1>0, <1>1, <1>6
    <2> QED
      BY <1>1, <1>4, <1>5, <2>1
  <1>8. p = q
    BY <1>4, <1>5, <1>6, <1>7, SeqEqual
  <1> QED
    BY <1>8 DEF p, q, Part

\* The deltas of a patch are sorted.
LEMMA PatchIsSorted ==
    ASSUME NEW x \in Seq(Line), NEW y \in Seq(Line), NEW ds, NEW a \in Nat, NEW b \in Nat,
           Patches(ds, x, y, a, b)
    PROVE  StableSort(ds, {p \in ToSet(ds) \X ToSet(ds) : p[1].source < p[2].source}) = ds
  <1> DEFINE D == [source : Nat, target : Nat, deleted : Seq(Line), inserted : Seq(Line)]
             R == {p \in ToSet(ds) \X ToSet(ds) : p[1].source < p[2].source}
  <1>1. ds \in Seq(D)
    BY DEF Patches
  <1>2. Len(ds) \in Nat /\ \A k \in 1..Len(ds) : ds[k].source \in Nat
    BY PatchTyped
  <1>3. ASSUME NEW i \in 1..Len(ds), NEW j \in 1..Len(ds), i < j PROVE <<ds[j], ds[i]>> \notin R
    <2>1. ds[i].source <= ds[j].source
      BY <1>3 DEF Patches
    <2>2. ds[i].source \in Nat /\ ds[j].source \in Nat
      BY <1>2
    <2>3. ~(ds[j].source < ds[i].source)
      BY <2>1, <2>2
    <2> QED
      BY <2>3
  <1> HIDE DEF R, D
  <1>4. InOrder(ds, R)
    BY <1>3 DEF InOrder
  <1>5. StableSort(ds, R) = ds
    BY <1>1, <1>4, SortOfSorted
  <1> QED
    BY <1>5 DEF R

\* Where apply_deltas is after some of the deltas of a patch.
Applied(ds, y, k) ==
    [failed |-> FALSE, cursor |-> CursorAfter(ds, k), output |-> SubSeq(y, 1, TargetAfter(ds, k))]

\* A longer text has the lines of a shorter one it begins with.
LEMMA PatchOneDelta ==
    ASSUME NEW x \in Seq(Line), NEW y \in Seq(Line), NEW ds, NEW a \in Nat, NEW b \in Nat,
           Patches(ds, x, y, a, b),
           NEW lines \in Seq(Line), Len(x) <= Len(lines), \A i \in 1..Len(x) : lines[i] = x[i],
           NEW k \in 1..Len(ds)
    PROVE  ApplyDelta(Applied(ds, y, k - 1), ds[k], lines) = Applied(ds, y, k)
  <1> DEFINE u == CursorAfter(ds, k - 1)
             v == TargetAfter(ds, k - 1)
             s == ds[k].source
             t == ds[k].target
             to == CursorAfter(ds, k)
             into == TargetAfter(ds, k)
             m == Len(ds[k].deleted)
  <1>1. k - 1 \in 0..Len(ds) /\ k \in 0..Len(ds) /\ k # 0
    BY PatchTyped
  <1>2. /\ u \in Nat /\ v \in Nat /\ s \in Nat /\ t \in Nat /\ to \in Nat /\ into \in Nat
        /\ m \in Nat /\ Len(ds[k].inserted) \in Nat
    BY <1>1, PatchTyped
  <1>3. Follows(ds, k, x, y)
    BY Zenon DEF Patches
  <1>4. to = s + m /\ into = t + Len(ds[k].inserted)
    BY <1>1 DEF CursorAfter, TargetAfter
  <1>5. /\ Same(x, y, u, v, s, t) /\ to <= Len(x) /\ into <= Len(y)
        /\ ds[k].inserted = SubSeq(y, t + 1, into)
    BY <1>3 DEF Follows
  <1>6. Len(x) \in Nat /\ Len(y) \in Nat /\ Len(lines) \in Nat
    OBVIOUS
  <1> DEFINE st == Applied(ds, y, k - 1)
             d == ds[k]
  <1>7. st.failed = FALSE /\ st.cursor = u /\ st.output = SubSeq(y, 1, v)
    BY DEF Applied
  <1>8. Applied(ds, y, k) = [failed |-> FALSE, cursor |-> to, output |-> SubSeq(y, 1, into)]
    BY DEF Applied
  <1>9. d.source = s /\ d.inserted = SubSeq(y, t + 1, into) /\ Len(d.deleted) = m
    BY <1>5
  <1> HIDE DEF u, v, s, t, to, into, m, st, d
  <1>10. u <= s /\ s <= Len(x) /\ t <= Len(y) /\ v <= t /\ s <= Len(lines) /\ to <= Len(lines)
         /\ t <= into
    <2>1. u <= s /\ s - u = t - v /\ s <= Len(x) /\ t <= Len(y)
      BY <1>5 DEF Same
    <2> DEFINE w == Len(ds[k].inserted)
    <2>2. w \in Nat /\ into = t + w
      BY <1>2, <1>4
    <2> HIDE DEF w
    <2>3. t <= into
      BY <1>2, <2>2
    <2>4. v <= t
      BY <1>2, <2>1
    <2>5. to <= Len(lines) /\ s <= Len(lines)
      BY <1>2, <1>5, <1>6, <2>1
    <2> QED
      BY <2>1, <2>3, <2>4, <2>5
  <1>11. Max({u, s}) = s
    BY <1>2, <1>10, MaxOfTwo
  <1>12. SubSeq(lines, u + 1, s) = SubSeq(y, v + 1, t)
    <2>1. Same(lines, y, u, v, s, t)
      <3>1. /\ u <= s /\ s - u = t - v /\ t <= Len(y)
            /\ \A j \in 1..(s - u) : x[u + j] = y[v + j]
        BY <1>5 DEF Same
      <3>2. \A j \in 1..(s - u) : u + j \in 1..Len(x)
        BY <1>2, <1>6, <1>10
      <3>3. \A j \in 1..(s - u) : lines[u + j] = y[v + j]
        BY <3>1, <3>2
      <3> QED
        BY <1>10, <3>1, <3>3 DEF Same
    <2>2. Alike(lines, y, u, v, s, t)
      BY <1>2, <2>1 DEF Alike
    <2>3. Part(lines, u + 1, s) = Part(y, v + 1, t)
      BY <2>2, SamePart
    <2> QED
      BY <2>3 DEF Part
  <1>13. (SubSeq(y, 1, v) \o SubSeq(y, v + 1, t)) \o SubSeq(y, t + 1, into) = SubSeq(y, 1, into)
    <2>1. SubSeq(y, 1, v) \o SubSeq(y, v + 1, t) = SubSeq(y, 1, t)
      <3>1. 1 \in 1..(Len(y) + 1) /\ v \in (1 - 1)..Len(y) /\ t \in v..Len(y)
        BY <1>2, <1>6, <1>10
      <3> QED
        BY <3>1, ConcatAdjacentSubSeq
    <2>2. SubSeq(y, 1, t) \o SubSeq(y, t + 1, into) = SubSeq(y, 1, into)
      <3>1. 1 \in 1..(Len(y) + 1) /\ t \in (1 - 1)..Len(y) /\ into \in t..Len(y)
        BY <1>2, <1>5, <1>6, <1>10
      <3> QED
        BY <3>1, ConcatAdjacentSubSeq
    <2> QED
      BY <2>1, <2>2
  <1>14. ApplyDelta(st, d, lines) =
           [failed |-> FALSE, cursor |-> to,
            output |-> (st.output \o SubSeq(lines, st.cursor + 1, d.source)) \o d.inserted]
    <2>1. Max({st.cursor, d.source}) = s /\ ~(d.source > Len(lines)) /\ ~(to > Len(lines))
      BY <1>2, <1>6, <1>7, <1>9, <1>10, <1>11
    <2>2. Max({st.cursor, d.source}) + Len(d.deleted) = to
      BY <1>4, <1>9, <2>1
    <2> QED
      BY <1>7, <2>1, <2>2 DEF ApplyDelta
  <1>15. ApplyDelta(st, d, lines) = Applied(ds, y, k)
    BY <1>7, <1>8, <1>9, <1>12, <1>13, <1>14
  <1> QED
    BY <1>15 DEF st, d

\* The empty line that a text with a newline at its end has last.
LastLine(t) == IF EndsInNewline(t) THEN <<EmptyLine>> ELSE <<>>

LEMMA LastLineTyped ==
    ASSUME NEW t
    PROVE  LastLine(t) \in Seq(Line) /\ LastLine(t) \in Seq(OnePiece)
  <1>1. EmptyLine \in OnePiece /\ EmptyLine \in Line
    BY PiecesAre
  <1>2. \A S : <<>> \in Seq(S)
    OBVIOUS
  <1>3. <<EmptyLine>> \in Seq(OnePiece) /\ <<EmptyLine>> \in Seq(Line)
    BY <1>1
  <1> QED
    BY <1>2, <1>3 DEF LastLine

LEMMA TailArithmetic ==
    ASSUME NEW c \in Nat, NEW e \in Nat, NEW lx \in Nat, NEW ly \in Nat, NEW lt \in Nat,
           NEW lw, NEW lz,
           c <= lx, e <= ly, lx - c = ly - e, lw = lx + lt, lz = ly + lt
    PROVE  /\ c <= lw /\ lw - c = lz - e /\ lw <= lw /\ lz <= lz
           /\ \A j \in 1..(lw - c) :
                /\ c + j \in 1..(lx + lt) /\ e + j \in 1..(ly + lt)
                /\ c + j <= lx <=> e + j <= ly
                /\ (c + j) - lx = (e + j) - ly
                /\ c + j <= lx => j \in 1..(lx - c)
  OBVIOUS

\* Behind what is the same, two texts that end alike are put together alike.
LEMMA PatchTail ==
    ASSUME NEW x, NEW y, NEW tail \in Seq(Line),
           NEW c, NEW e, Alike(x, y, c, e, Len(x), Len(y))
    PROVE  Part(y, 1, e) \o Part(x \o tail, c + 1, Len(x \o tail)) = y \o tail
  <1> DEFINE w == x \o tail
             z == y \o tail
  <1>0. /\ x \in Seq(Line) /\ y \in Seq(Line) /\ c \in Nat /\ e \in Nat
        /\ Same(x, y, c, e, Len(x), Len(y))
    BY DEF Alike
  <1>1. /\ w \in Seq(Line) /\ Len(w) = Len(x) + Len(tail)
        /\ \A i \in 1..(Len(x) + Len(tail)) : w[i] = IF i <= Len(x) THEN x[i] ELSE tail[i - Len(x)]
    BY <1>0, ConcatProperties
  <1>2. /\ z \in Seq(Line) /\ Len(z) = Len(y) + Len(tail)
        /\ \A i \in 1..(Len(y) + Len(tail)) : z[i] = IF i <= Len(y) THEN y[i] ELSE tail[i - Len(y)]
    BY <1>0, ConcatProperties
  <1>3. Len(x) \in Nat /\ Len(y) \in Nat /\ Len(tail) \in Nat
    BY <1>0
  <1>4. c <= Len(x) /\ e <= Len(y) /\ Len(x) - c = Len(y) - e
        /\ \A j \in 1..(Len(x) - c) : x[c + j] = y[e + j]
    BY <1>0, <1>3 DEF Same
  <1> HIDE DEF w, z
  <1>10. /\ c <= Len(x) /\ e <= Len(y) /\ Len(x) - c = Len(y) - e
         /\ Len(w) = Len(x) + Len(tail) /\ Len(z) = Len(y) + Len(tail)
    BY <1>1, <1>2, <1>4
  <1>5. Same(w, z, c, e, Len(w), Len(z))
    <2>1. /\ c <= Len(w) /\ Len(w) - c = Len(z) - e /\ Len(w) <= Len(w) /\ Len(z) <= Len(z)
          /\ \A j \in 1..(Len(w) - c) :
               /\ c + j \in 1..(Len(x) + Len(tail)) /\ e + j \in 1..(Len(y) + Len(tail))
               /\ c + j <= Len(x) <=> e + j <= Len(y)
               /\ (c + j) - Len(x) = (e + j) - Len(y)
               /\ c + j <= Len(x) => j \in 1..(Len(x) - c)
      <3> DEFINE lx == Len(x)
                 ly == Len(y)
                 lt == Len(tail)
                 lw == Len(w)
                 lz == Len(z)
      <3>1. /\ lx \in Nat /\ ly \in Nat /\ lt \in Nat /\ c <= lx /\ e <= ly
            /\ lx - c = ly - e /\ lw = lx + lt /\ lz = ly + lt
        BY <1>0, <1>3, <1>10
      <3> HIDE DEF lx, ly, lt, lw, lz
      <3>2. /\ c <= lw /\ lw - c = lz - e /\ lw <= lw /\ lz <= lz
            /\ \A j \in 1..(lw - c) :
                 /\ c + j \in 1..(lx + lt) /\ e + j \in 1..(ly + lt)
                 /\ c + j <= lx <=> e + j <= ly
                 /\ (c + j) - lx = (e + j) - ly
                 /\ c + j <= lx => j \in 1..(lx - c)
        BY <1>0, <3>1, TailArithmetic
      <3> QED
        BY <3>2 DEF lx, ly, lt, lw, lz
    <2>2. ASSUME NEW j \in 1..(Len(w) - c) PROVE w[c + j] = z[e + j]
      <3>1. /\ c + j \in 1..(Len(x) + Len(tail)) /\ e + j \in 1..(Len(y) + Len(tail))
            /\ (c + j <= Len(x) <=> e + j <= Len(y)) /\ (c + j) - Len(x) = (e + j) - Len(y)
            /\ c + j <= Len(x) => j \in 1..(Len(x) - c)
        BY <2>1
      <3>2. /\ w[c + j] = IF c + j <= Len(x) THEN x[c + j] ELSE tail[(c + j) - Len(x)]
            /\ z[e + j] = IF e + j <= Len(y) THEN y[e + j] ELSE tail[(e + j) - Len(y)]
        BY <1>1, <1>2, <3>1
      <3> QED
        BY <1>4, <3>1, <3>2
    <2> QED
      BY <2>1, <2>2, Zenon DEF Same
  <1>6. Same(y, z, 0, 0, e, e)
    <2>1. 0 <= e /\ e <= Len(y) /\ e <= Len(z) /\ e - 0 = e
      BY <1>0, <1>2, <1>3, <1>4
    <2>2. ASSUME NEW j \in 1..e PROVE y[0 + j] = z[0 + j]
      <3>1. j \in 1..(Len(y) + Len(tail)) /\ j <= Len(y) /\ 0 + j = j
        BY <1>0, <1>3, <1>4
      <3> QED
        BY <1>2, <3>1
    <2> QED
      BY <2>1, <2>2 DEF Same
  <1>7. SubSeq(w, c + 1, Len(w)) = SubSeq(z, e + 1, Len(z))
    <2>1. Alike(w, z, c, e, Len(w), Len(z))
      BY <1>0, <1>1, <1>2, <1>3, <1>5 DEF Alike
    <2>2. Part(w, c + 1, Len(w)) = Part(z, e + 1, Len(z))
      BY <2>1, SamePart
    <2> QED
      BY <2>2 DEF Part
  <1>8. SubSeq(y, 1, e) = SubSeq(z, 1, e)
    <2>1. Alike(y, z, 0, 0, e, e)
      BY <1>0, <1>2, <1>6 DEF Alike
    <2>2. Part(y, 0 + 1, e) = Part(z, 0 + 1, e)
      BY <2>1, SamePart
    <2>3. 0 + 1 = 1
      OBVIOUS
    <2>4. Part(y, 1, e) = Part(z, 1, e)
      BY <2>2, <2>3
    <2> QED
      BY <2>4 DEF Part
  <1>9. SubSeq(z, 1, e) \o SubSeq(z, e + 1, Len(z)) = z
    <2>1. 1 \in 1..(Len(z) + 1) /\ e \in (1 - 1)..Len(z) /\ Len(z) \in e..Len(z)
      BY <1>0, <1>2, <1>3, <1>4
    <2>2. SubSeq(z, 1, e) \o SubSeq(z, e + 1, Len(z)) = SubSeq(z, 1, Len(z))
      BY <1>2, <2>1, ConcatAdjacentSubSeq
    <2>3. SubSeq(z, 1, Len(z)) = z
      BY <1>2, SubSeqFull
    <2> QED
      BY <2>2, <2>3
  <1> QED
    BY <1>7, <1>8, <1>9 DEF w, z, Part

\* Between the newlines of a text whose returns are no ends by themselves are the
\* lines that a diff has.
LEMMA BetweenNewlinesIs ==
    ASSUME NEW t \in Seq(AnyToken), Unbroken(t)
    PROVE  BetweenNewlines(t) = LinesOf(t)
  <1> DEFINE x == LinesOf(t)
             n == Len(t)
             next(g, i) == IF i = 0 THEN <<>>
                           ELSE IF i = 1 \/ t[i - 1].newline THEN Append(g[i - 1], t[i].line)
                           ELSE Append(Front(g[i - 1]), Last(g[i - 1]) \o t[i].line)
             Fits(g) == g = [i \in 0..Len(t) |->
                               IF i = 0 THEN <<>>
                               ELSE IF i = 1 \/ t[i - 1].newline THEN Append(g[i - 1], t[i].line)
                               ELSE Append(Front(g[i - 1]), Last(g[i - 1]) \o t[i].line)]
             f == CHOOSE g : Fits(g)
  <1>1. BetweenNewlines(t) = f[n]
    BY DEF BetweenNewlines
  <1>2. n \in Nat /\ DOMAIN t = 1..n /\ \A i \in 1..n : i < n => t[i].newline
    BY DEF Unbroken
  <1>3. x \in Seq(Line) /\ Len(x) = n /\ \A i \in 1..n : x[i] = t[i].line
    BY LinesTyped
  <1> HIDE DEF x, n
  <1>4. ASSUME NEW i \in 1..n PROVE SubSeq(x, 1, i) = Append(SubSeq(x, 1, i - 1), t[i].line)
    <2>1. 1 \in 1..Len(x) /\ i \in 1..Len(x) /\ x[i] = t[i].line /\ x[i] \in Line
      BY <1>2, <1>3
    <2>2. SubSeq(x, 1, i) = SubSeq(x, 1, i - 1) \o <<x[i]>>
      BY <1>3, <2>1, SubSeqRecursiveSecond
    <2>3. SubSeq(x, 1, i - 1) \in Seq(Line)
      <3>1. i - 1 \in Int /\ \A j \in 1..(i - 1) : x[j] \in Line
        BY <1>2, <1>3
      <3> QED
        BY <3>1, SubSeqProperties
    <2> QED
      BY <2>1, <2>2, <2>3, AppendIsConcat
  <1>5. \E g : Fits(g)
    <2> DEFINE g == [i \in 0..n |-> SubSeq(x, 1, i)]
    <2>1. ASSUME NEW i \in 0..n PROVE g[i] = next(g, i)
      <3>1. CASE i = 0
        <4>1. SubSeq(x, 1, 0) = <<>>
          BY SubSeqEmpty
        <4> QED
          BY <3>1, <4>1
      <3>2. CASE i # 0
        <4>1. i \in 1..n /\ i - 1 \in 0..n /\ (i = 1 \/ t[i - 1].newline)
          BY <1>2, <3>2
        <4>2. g[i] = SubSeq(x, 1, i) /\ g[i - 1] = SubSeq(x, 1, i - 1)
          BY <4>1
        <4> HIDE DEF g
        <4> QED
          BY <1>4, <3>2, <4>1, <4>2
      <3> QED
        BY <3>1, <3>2
    <2>2. g = [i \in 0..n |-> g[i]]
      OBVIOUS
    <2> HIDE DEF g
    <2>3. g = [i \in 0..n |-> next(g, i)]
      BY <2>1, <2>2
    <2>4. Fits(g)
      BY <2>3 DEF n
    <2> QED
      BY <2>4
  <1>6. Fits(f)
    <2> HIDE DEF Fits
    <2> QED
      BY <1>5, Zenon
  <1>7. \A i \in 0..n : f[i] = next(f, i)
    <2> HIDE DEF f
    <2>1. f = [i \in 0..n |-> next(f, i)]
      BY <1>6 DEF n
    <2> HIDE DEF next
    <2> QED
      BY <2>1
  <1> HIDE DEF f, Fits
  <1> DEFINE S == {i \in Nat : f[i] = SubSeq(x, 1, i)}
  <1>8. 0 \in S
    <2>1. SubSeq(x, 1, 0) = <<>> /\ 0 \in 0..n
      BY <1>2, SubSeqEmpty
    <2>2. f[0] = <<>>
      BY <1>7, <2>1
    <2> QED
      BY <2>1, <2>2
  <1>9. ASSUME NEW i \in 0..(n - 1), i \in S PROVE i + 1 \in S
    <2> DEFINE j == i + 1
    <2>1. /\ j \in 1..n /\ j \in 0..n /\ j # 0 /\ j - 1 = i /\ j \in Nat
          /\ j = 1 \/ t[j - 1].newline
      BY <1>2
    <2>2. f[i] = SubSeq(x, 1, i)
      BY <1>9
    <2> HIDE DEF j
    <2>3. f[j] = Append(f[j - 1], t[j].line)
      BY <1>7, <2>1
    <2>4. f[j] = SubSeq(x, 1, j)
      BY <1>4, <2>1, <2>2, <2>3
    <2>5. j \in S
      BY <2>1, <2>4
    <2> QED
      BY <2>5 DEF j
  <1> HIDE DEF S
  <1>10. n \in S
    <2>1. \A i \in 0..n : i \in S
      BY <1>2, <1>8, <1>9, InductionUpTo
    <2> QED
      BY <1>2, <2>1
  <1>11. f[n] = SubSeq(x, 1, n)
    BY <1>10 DEF S
  <1>12. SubSeq(x, 1, n) = x
    BY <1>3, SubSeqFull
  <1> QED
    BY <1>1, <1>11, <1>12 DEF x

\* apply_deltas of a patch makes of the text the one that it was made for.
LEMMA PatchApplies ==
    ASSUME NEW t \in Seq(AnyToken), Unbroken(t), NEW y \in Seq(Line), NEW ds,
           Patches(ds, LinesOf(t), y, Len(t), Len(y))
    PROVE  ApplyDeltas(t, ds) = JoinLines(y \o LastLine(t))
  <1> DEFINE x == LinesOf(t)
             n == Len(ds)
             lines == x \o LastLine(t)
             R == {p \in ToSet(ds) \X ToSet(ds) : p[1].source < p[2].source}
             sorted == StableSort(ds, R)
             none == [failed |-> FALSE, cursor |-> 0, output |-> <<>>]
             Fits(g) == g = [i \in 0..Len(sorted) |->
                               IF i = 0 THEN none ELSE ApplyDelta(g[i - 1], sorted[i], lines)]
             f == CHOOSE g : Fits(g)
             end == f[Len(sorted)]
  <1>1. x \in Seq(Line) /\ Len(x) = Len(t) /\ Len(t) \in Nat /\ Len(y) \in Nat
    BY LinesTyped
  <1>2. LastLine(t) \in Seq(Line)
    BY LastLineTyped
  <1>3. ApplyDeltas(t, ds) = IF end.failed THEN None
                             ELSE JoinLines(end.output \o SubSeq(lines, end.cursor + 1, Len(lines)))
    <2>1. SplitLines(t) = lines
      BY BetweenNewlinesIs DEF SplitLines, LastLine
    <2> HIDE DEF lines
    <2> QED
      BY <2>1 DEF ApplyDeltas
  <1>4. Patches(ds, x, y, Len(t), Len(y))
    OBVIOUS
  <1> HIDE DEF x
  <1>5. sorted = ds
    BY <1>1, <1>4, PatchIsSorted
  <1>6. lines \in Seq(Line) /\ Len(x) <= Len(lines) /\ \A i \in 1..Len(x) : lines[i] = x[i]
    <2>1. /\ lines \in Seq(Line) /\ Len(lines) = Len(x) + Len(LastLine(t))
          /\ \A i \in 1..(Len(x) + Len(LastLine(t))) :
               lines[i] = IF i <= Len(x) THEN x[i] ELSE LastLine(t)[i - Len(x)]
      BY <1>1, <1>2, ConcatProperties
    <2>2. Len(x) \in Nat /\ Len(LastLine(t)) \in Nat
      BY <1>1, <1>2
    <2> HIDE DEF lines
    <2> QED
      BY <2>1, <2>2
  <1>7. /\ n \in Nat
        /\ \A k \in 0..n : CursorAfter(ds, k) \in Nat /\ TargetAfter(ds, k) \in Nat
    BY <1>1, <1>4, PatchTyped
  <1> HIDE DEF n, lines, sorted, none
  <1>8. ASSUME NEW k \in 1..n
        PROVE  Applied(ds, y, k) = ApplyDelta(Applied(ds, y, k - 1), ds[k], lines)
    BY <1>1, <1>4, <1>6, PatchOneDelta DEF n
  <1>9. Applied(ds, y, 0) = none
    <2>1. SubSeq(y, 1, 0) = <<>>
      BY SubSeqEmpty
    <2> QED
      BY <2>1 DEF Applied, CursorAfter, TargetAfter, none
  <1>10. \E g : Fits(g)
    <2> DEFINE g == [i \in 0..n |-> Applied(ds, y, i)]
    <2>1. ASSUME NEW i \in 0..n
          PROVE  g[i] = IF i = 0 THEN none ELSE ApplyDelta(g[i - 1], ds[i], lines)
      <3>1. i # 0 => i \in 1..n /\ i - 1 \in 0..n
        BY <1>7
      <3> QED
        BY <1>8, <1>9, <3>1
    <2>2. g = [i \in 0..n |-> g[i]]
      OBVIOUS
    <2> HIDE DEF g
    <2>3. Fits(g)
      BY <1>5, <2>1, <2>2 DEF n
    <2> QED
      BY <2>3
  <1>11. Fits(f)
    <2> HIDE DEF Fits
    <2> QED
      BY <1>10, Zenon
  <1>12. f[0] = none /\ \A i \in 1..n : f[i] = ApplyDelta(f[i - 1], ds[i], lines)
    <2> HIDE DEF f
    <2>1. f = [i \in 0..n |-> IF i = 0 THEN none ELSE ApplyDelta(f[i - 1], ds[i], lines)]
      BY <1>5, <1>11 DEF n
    <2> QED
      BY <1>7, <2>1
  <1> HIDE DEF f
  <1> DEFINE S == {i \in Nat : f[i] = Applied(ds, y, i)}
  <1>13. 0 \in S
    BY <1>9, <1>12
  <1>14. ASSUME NEW i \in 0..(n - 1), i \in S PROVE i + 1 \in S
    <2>1. i + 1 \in 1..n /\ (i + 1) - 1 = i /\ i + 1 \in Nat
      BY <1>7
    <2>2. f[i] = Applied(ds, y, i)
      BY <1>14
    <2>3. f[i + 1] = Applied(ds, y, i + 1)
      BY <1>8, <1>12, <2>1, <2>2
    <2> QED
      BY <2>1, <2>3
  <1> HIDE DEF S
  <1>15. n \in S
    <2>1. \A i \in 0..n : i \in S
      BY <1>7, <1>13, <1>14, InductionUpTo
    <2> QED
      BY <1>7, <2>1
  <1>16. end = Applied(ds, y, n)
    BY <1>5, <1>15 DEF S, n
  <1> DEFINE c == CursorAfter(ds, n)
             e == TargetAfter(ds, n)
  <1>17. end.failed = FALSE /\ end.cursor = c /\ end.output = SubSeq(y, 1, e)
    <2>1. Applied(ds, y, n) = [failed |-> FALSE, cursor |-> c, output |-> SubSeq(y, 1, e)]
      BY DEF Applied
    <2> DEFINE o == SubSeq(y, 1, e)
    <2>2. end = [failed |-> FALSE, cursor |-> c, output |-> o]
      BY <1>16, <2>1
    <2> HIDE DEF c, e, end, o
    <2>3. end.failed = FALSE /\ end.cursor = c /\ end.output = o
      BY <2>2
    <2> QED
      BY <2>3 DEF o
  <1>18. c \in Nat /\ e \in Nat
    BY <1>7
  <1>19. Same(x, y, c, e, Len(x), Len(y))
    BY <1>1, <1>4 DEF Patches, n
  <1> HIDE DEF c, e, end
  <1>20. SubSeq(y, 1, e) \o SubSeq(x \o LastLine(t), c + 1, Len(x \o LastLine(t))) = y \o LastLine(t)
    <2>1. Alike(x, y, c, e, Len(x), Len(y))
      BY <1>1, <1>18, <1>19 DEF Alike
    <2> HIDE DEF R, Fits
    <2> DEFINE tail == LastLine(t)
    <2>2. tail \in Seq(Line)
      BY <1>2
    <2> HIDE DEF tail
    <2>3. Part(y, 1, e) \o Part(x \o tail, c + 1, Len(x \o tail)) = y \o tail
      BY <2>1, <2>2, PatchTail
    <2> QED
      BY <2>3 DEF tail, Part
  <1> QED
    BY <1>3, <1>17, <1>20 DEF lines

\* What is known of a text.
LEMMA DocumentTyped ==
    ASSUME NEW t \in Documents
    PROVE  /\ t \in Seq(AnyToken) /\ Len(t) \in Nat
           /\ \A i \in 1..Len(t) : /\ t[i].line \in OnePiece /\ t[i].newline \in BOOLEAN
                                   /\ t[i] = [line |-> t[i].line, newline |-> t[i].newline]
  <1>1. PICK n \in 0..MaxTokens : t \in [1..n -> Token]
    BY DEF Documents
  <1>2. n \in Nat
    BY ContentPatchAssumption
  <1>3. Token \subseteq AnyToken
    BY ContentPatchAssumption DEF Token, AnyToken, OnePiece
  <1>4. t \in [1..n -> AnyToken]
    BY <1>1, <1>3
  <1>5. t \in Seq(AnyToken) /\ Len(t) = n
    <2> HIDE DEF AnyToken
    <2> QED
      BY <1>2, <1>4
  <1>6. \A i \in 1..n : t[i] \in [line : OnePiece, newline : BOOLEAN]
    BY <1>4 DEF AnyToken
  <1>7. \A i \in 1..n : /\ t[i].line \in OnePiece /\ t[i].newline \in BOOLEAN
                        /\ t[i] = [line |-> t[i].line, newline |-> t[i].newline]
    BY <1>6
  <1> QED
    BY <1>2, <1>5, <1>7

\* And of one whose returns are no ends by themselves.
LEMMA UnbrokenTyped ==
    ASSUME NEW t \in Documents, Unbroken(t)
    PROVE  \A i \in 1..Len(t) : t[i].newline \/ (i = Len(t) /\ t[i].line # EmptyLine)
  <1>1. /\ t \in Seq(AnyToken) /\ Len(t) \in Nat /\ DOMAIN t = 1..Len(t)
    BY DocumentTyped
  <1>2. \A i \in 1..Len(t) : ~t[i].newline => t[i].line[1].return \/ t[i].line # EmptyLine
    BY <1>1 DEF Documents
  <1>3. ~EmptyLine[1].return
    BY DEF EmptyLine
  <1>4. \A i \in 1..Len(t) : i < Len(t) => t[i].newline
    BY <1>1 DEF Unbroken
  <1>5. ASSUME NEW i \in 1..Len(t), ~t[i].newline PROVE i = Len(t) /\ t[i].line # EmptyLine
    <2>1. i = Len(t)
      <3>1. i < Len(t) \/ i = Len(t)
        <4>1. \A n \in Nat : \A j \in 1..n : j < n \/ j = n
          OBVIOUS
        <4> QED
          BY <1>1, <4>1, Zenon
      <3> QED
        BY <1>4, <1>5, <3>1, Zenon
    <2>2. t[i].line # EmptyLine
      BY <1>2, <1>3, <1>5
    <2> QED
      BY <2>1, <2>2
  <1> QED
    BY <1>5

\* Sequences of one put behind each other.
LEMMA FlattenSingles ==
    ASSUME NEW S, NEW s \in Seq(S), NEW pages, pages = [i \in 1..Len(s) |-> <<s[i]>>]
    PROVE  FlattenSeq(pages) = s
  <1> DEFINE n == Len(s)
  <1>1. n \in Nat /\ \A i \in 1..n : s[i] \in S
    OBVIOUS
  <1>2. /\ pages \in Seq(Seq(S)) /\ Len(pages) = n
        /\ \A i \in 1..n : pages[i] = <<s[i]>>
    <2> DEFINE T == Seq(S)
    <2>1. \A i \in 1..n : <<s[i]>> \in T
      BY <1>1
    <2> HIDE DEF T
    <2>2. pages \in [1..n -> T]
      BY <2>1
    <2>3. pages \in Seq(T) /\ Len(pages) = n
      <3> HIDE DEF n
      <3> QED
        BY <1>1, <2>2
    <2> QED
      BY <2>3 DEF T
  <1> HIDE DEF n
  <1>3. CASE n = 0
    <2>1. pages = <<>> /\ s = <<>>
      BY <1>2, <1>3, EmptySeq DEF n
    <2>2. FlattenSeq(<<>>) = <<>>
      BY DEF FlattenSeq
    <2> QED
      BY <2>1, <2>2
  <1>4. CASE n # 0
    <2>1. pages # <<>>
      BY <1>2, <1>4
    <2>2. PICK t : /\ t[1] = pages[1]
                   /\ \A i \in 2..Len(pages) : t[i] = t[i - 1] \o pages[i]
                   /\ FlattenSeq(pages) = t[Len(pages)]
      BY <1>2, <2>1, FlattenUnfolds
    <2>3. \A i \in 1..n : SubSeq(s, 1, i) = SubSeq(s, 1, i - 1) \o <<s[i]>>
      <3> TAKE i \in 1..n
      <3>1. 1 \in 1..Len(s) /\ i \in 1..Len(s)
        BY <1>1 DEF n
      <3> QED
        BY <3>1, SubSeqRecursiveSecond
    <2> DEFINE G == {i \in Nat : t[i + 1] = SubSeq(s, 1, i + 1)}
    <2>4. 0 \in G
      <3>1. 1 \in 1..n /\ SubSeq(s, 1, 0) = <<>> /\ 1 - 1 = 0
        BY <1>1, <1>4, SubSeqEmpty
      <3>2. SubSeq(s, 1, 1) = <<s[1]>>
        <4>1. SubSeq(s, 1, 1) = SubSeq(s, 1, 1 - 1) \o <<s[1]>>
          BY <2>3, <3>1, Zenon
        <4>2. <<s[1]>> \in Seq(S)
          BY <1>1, <3>1
        <4>3. <<>> \o <<s[1]>> = <<s[1]>>
          BY <4>2, ConcatEmptySeq
        <4> QED
          BY <3>1, <4>1, <4>3, Zenon
      <3>3. t[0 + 1] = SubSeq(s, 1, 0 + 1)
        BY <1>2, <2>2, <3>1, <3>2
      <3> QED
        BY <3>3
    <2>5. ASSUME NEW i \in 0..((n - 1) - 1), i \in G PROVE i + 1 \in G
      <3> DEFINE j == i + 2
      <3>1. j \in 2..n /\ j \in 1..n /\ j - 1 = i + 1 /\ (i + 1) + 1 = j /\ i + 1 \in Nat
        BY <1>1
      <3>2. t[j - 1] = SubSeq(s, 1, j - 1)
        BY <2>5, <3>1
      <3> HIDE DEF j
      <3>3. t[j] = SubSeq(s, 1, j)
        <4>1. t[j] = t[j - 1] \o pages[j] /\ pages[j] = <<s[j]>>
          BY <1>2, <2>2, <3>1
        <4>2. SubSeq(s, 1, j) = SubSeq(s, 1, j - 1) \o <<s[j]>>
          BY <2>3, <3>1, Zenon
        <4> QED
          BY <3>2, <4>1, <4>2, Zenon
      <3> QED
        BY <3>1, <3>3
    <2> HIDE DEF G
    <2>6. n - 1 \in G
      <3>1. n - 1 \in Nat
        BY <1>1, <1>4
      <3>2. \A i \in 0..(n - 1) : i \in G
        BY <2>4, <2>5, <3>1, InductionUpTo
      <3> QED
        BY <3>1, <3>2
    <2>7. t[n] = SubSeq(s, 1, n)
      <3>1. (n - 1) + 1 = n
        BY <1>1
      <3> QED
        BY <2>6, <3>1 DEF G
    <2>8. SubSeq(s, 1, n) = s
      BY SubSeqFull DEF n
    <2> QED
      BY <1>2, <2>2, <2>7, <2>8
  <1> QED
    BY <1>3, <1>4

\* The tokens of lines of one piece: each one its own, all but the last with a newline.
TokensFor(y) == [i \in 1..Len(y) |-> [line |-> y[i], newline |-> i < Len(y)]]

LEMMA TokensForTyped ==
    ASSUME NEW y \in Seq(OnePiece)
    PROVE  /\ TokensFor(y) \in Seq(AnyToken) /\ Len(TokensFor(y)) = Len(y)
           /\ \A i \in 1..Len(y) : TokensFor(y)[i] = [line |-> y[i], newline |-> i < Len(y)]
  <1>1. Len(y) \in Nat /\ \A i \in 1..Len(y) : y[i] \in OnePiece /\ (i < Len(y)) \in BOOLEAN
    OBVIOUS
  <1>2. \A i \in 1..Len(y) : [line |-> y[i], newline |-> i < Len(y)] \in AnyToken
    BY <1>1 DEF AnyToken
  <1>3. TokensFor(y) \in [1..Len(y) -> AnyToken]
    BY <1>2 DEF TokensFor
  <1>4. \A i \in 1..Len(y) : TokensFor(y)[i] = [line |-> y[i], newline |-> i < Len(y)]
    BY DEF TokensFor
  <1> QED
    BY <1>1, <1>3, <1>4

LEMMA JoinLinesIs ==
    ASSUME NEW y \in Seq(OnePiece)
    PROVE  JoinLines(y) = IF y # <<>> /\ Last(y) = EmptyLine
                          THEN Front(TokensFor(y)) ELSE TokensFor(y)
  <1> DEFINE pages == [i \in DOMAIN y |-> TokensOf(y[i], i < Len(y))]
             t == TokensFor(y)
  <1>1. Len(y) \in Nat /\ DOMAIN y = 1..Len(y)
    OBVIOUS
  <1>2. /\ t \in Seq(AnyToken) /\ Len(t) = Len(y)
        /\ \A i \in 1..Len(y) : t[i] = [line |-> y[i], newline |-> i < Len(y)]
    BY TokensForTyped
  <1> HIDE DEF t
  <1>3. ASSUME NEW i \in 1..Len(y) PROVE TokensOf(y[i], i < Len(y)) = <<t[i]>>
    <2> DEFINE l == y[i]
               b == i < Len(y)
    <2>1. l \in OnePiece /\ b \in BOOLEAN
      BY <1>1
    <2> HIDE DEF l, b
    <2>2. Len(l) = 1 /\ DOMAIN l = 1..1 /\ <<l[1]>> = l
      BY <2>1, PiecesAre
    <2> DEFINE r == [line |-> l, newline |-> b]
    <2>3. TokensOf(l, b) = [k \in 1..1 |-> [line |-> <<l[k]>>, newline |-> b /\ k = Len(l)]]
      BY <2>2, Zenon DEF TokensOf
    <2>4. \A k \in 1..1 : k = 1
      OBVIOUS
    <2>5. (b /\ 1 = Len(l)) = b
      BY <2>1, <2>2
    <2>6. \A k \in 1..1 : [line |-> <<l[k]>>, newline |-> b /\ k = Len(l)] = r
      BY <2>2, <2>4, <2>5, Zenon
    <2> HIDE DEF r
    <2>7. TokensOf(l, b) = [k \in 1..1 |-> r]
      BY <2>3, <2>6
    <2>8. [k \in 1..1 |-> r] = <<r>>
      OBVIOUS
    <2> QED
      BY <1>2, <2>7, <2>8 DEF l, b, r
  <1>4. pages = [i \in 1..Len(t) |-> <<t[i]>>]
    BY <1>1, <1>2, <1>3
  <1> HIDE DEF pages
  <1>5. FlattenSeq(pages) = t
    BY <1>2, <1>4, FlattenSingles
  <1> QED
    BY <1>5 DEF JoinLines, pages, t

\* What is put together of lines and an empty one: every line gets its newline.
LEMMA JoinedWithNewline ==
    ASSUME NEW y \in Seq(OnePiece)
    PROVE  JoinLines(y \o <<EmptyLine>>) = [i \in 1..Len(y) |-> [line |-> y[i], newline |-> TRUE]]
  <1> DEFINE e == <<EmptyLine>>
             lines == y \o e
             n == Len(y)
             tokens == TokensFor(lines)
             all == [i \in 1..n |-> [line |-> y[i], newline |-> TRUE]]
  <1>1. n \in Nat /\ e \in Seq(OnePiece) /\ Len(e) = 1 /\ e[1] = EmptyLine
    BY PiecesAre
  <1> HIDE DEF e
  <1>2. /\ lines \in Seq(OnePiece) /\ Len(lines) = n + 1
        /\ \A i \in 1..n : lines[i] = y[i]
        /\ lines[n + 1] = EmptyLine
    <2>1. /\ lines \in Seq(OnePiece) /\ Len(lines) = n + 1
          /\ \A i \in 1..(n + 1) : lines[i] = IF i <= n THEN y[i] ELSE e[i - n]
      BY <1>1, ConcatProperties
    <2> HIDE DEF lines
    <2>2. n + 1 \in 1..(n + 1) /\ ~(n + 1 <= n) /\ (n + 1) - n = 1
          /\ \A i \in 1..n : i \in 1..(n + 1) /\ i <= n
      BY <1>1
    <2> HIDE DEF n
    <2>3. lines[n + 1] = EmptyLine
      BY <1>1, <2>1, <2>2
    <2> QED
      BY <2>1, <2>2, <2>3
  <1> HIDE DEF lines, n
  <1>3. JoinLines(lines) = IF lines # <<>> /\ Last(lines) = EmptyLine THEN Front(tokens) ELSE tokens
    BY <1>2, JoinLinesIs
  <1>4. lines # <<>> /\ Last(lines) = EmptyLine
    BY <1>1, <1>2 DEF Last
  <1>5. /\ tokens \in Seq(AnyToken) /\ Len(tokens) = n + 1
        /\ \A i \in 1..(n + 1) : tokens[i] = [line |-> lines[i], newline |-> i < n + 1]
    BY <1>2, TokensForTyped
  <1> HIDE DEF tokens
  <1>6. \A i \in 1..n : tokens[i] = [line |-> y[i], newline |-> TRUE]
    <2> TAKE i \in 1..n
    <2>1. i \in 1..(n + 1) /\ (i < n + 1) = TRUE
      BY <1>1
    <2>2. tokens[i] = [line |-> lines[i], newline |-> i < n + 1]
      BY <1>5, <2>1
    <2> QED
      BY <1>2, <2>1, <2>2
  <1>7. Front(tokens) = SubSeq(tokens, 1, n)
    <2>1. (n + 1) - 1 = n
      BY <1>1
    <2> QED
      BY <1>5, <2>1 DEF Front
  <1>8. Front(tokens) = all
    <2>1. \A i \in 1..n : tokens[i] \in AnyToken
      BY <1>1, <1>5
    <2> DEFINE p == SubSeq(tokens, 1, n)
    <2>2. /\ p \in Seq(AnyToken) /\ Len(p) = (IF 1 <= n THEN n - 1 + 1 ELSE 0)
          /\ \A i \in 1..(n - 1 + 1) : p[i] = tokens[1 + i - 1]
      BY <1>1, <2>1, SubSeqProperties
    <2> HIDE DEF p
    <2>3. Len(p) = n /\ n - 1 + 1 = n /\ \A i \in 1..n : 1 + i - 1 = i
      BY <1>1, <2>2
    <2>4. p = [i \in 1..n |-> p[i]]
      BY <2>2, <2>3
    <2>5. \A i \in 1..n : p[i] = [line |-> y[i], newline |-> TRUE]
      BY <1>6, <2>2, <2>3
    <2>6. p = all
      BY <2>4, <2>5
    <2> QED
      BY <1>7, <2>6 DEF p
  <1> QED
    BY <1>3, <1>4, <1>8 DEF lines, n, e

\* The lines of a text whose lines are given are those.
LEMMA LinesOfJoined ==
    ASSUME NEW y \in Seq(OnePiece)
    PROVE  /\ LinesOf(JoinLines(y \o <<EmptyLine>>)) = y
           /\ LinesOf(JoinLines(y)) \in {y, Front(y)}
  <1>1. y = [i \in 1..Len(y) |-> y[i]] /\ Len(y) \in Nat
    OBVIOUS
  <1>2. LinesOf(JoinLines(y \o <<EmptyLine>>)) = y
    <2> DEFINE r == [i \in 1..Len(y) |-> [line |-> y[i], newline |-> TRUE]]
    <2>1. LinesOf(r) = [i \in 1..Len(y) |-> y[i]]
      BY DEF LinesOf
    <2>2. JoinLines(y \o <<EmptyLine>>) = r
      BY JoinedWithNewline
    <2> QED
      BY <1>1, <2>1, <2>2
  <1>3. LinesOf(JoinLines(y)) \in {y, Front(y)}
    <2> DEFINE n == Len(y)
               tokens == TokensFor(y)
    <2>1. JoinLines(y) = IF y # <<>> /\ Last(y) = EmptyLine THEN Front(tokens) ELSE tokens
      BY JoinLinesIs
    <2>0. /\ tokens \in Seq(AnyToken) /\ Len(tokens) = n
          /\ \A i \in 1..n : tokens[i] = [line |-> y[i], newline |-> i < n]
      BY TokensForTyped
    <2> HIDE DEF tokens
    <2>2. /\ tokens \in Seq(AnyToken) /\ Len(tokens) = n /\ DOMAIN tokens = 1..n
          /\ n \in Nat /\ \A i \in 1..n : tokens[i].line = y[i]
      <3>1. \A i \in 1..n : tokens[i].line = y[i]
        <4> TAKE i \in 1..n
        <4> DEFINE l == y[i]
                   b == i < n
        <4>1. tokens[i] = [line |-> l, newline |-> b]
          BY <2>0
        <4> HIDE DEF l, b
        <4>2. tokens[i].line = l
          BY <4>1
        <4> QED
          BY <4>2 DEF l
      <3>2. DOMAIN tokens = 1..n
        BY <2>0, LenProperties
      <3> HIDE DEF n
      <3> QED
        BY <1>1, <2>0, <3>1, <3>2, Zenon DEF n
    <2>6. LinesOf(tokens) = y
      <3>1. LinesOf(tokens) = [i \in 1..n |-> y[i]]
        BY <2>2 DEF LinesOf
      <3> QED
        BY <1>1, <3>1
    <2>7. ASSUME y # <<>> PROVE LinesOf(Front(tokens)) = Front(y)
      <3>1. n # 0
        BY <1>1, <2>7
      <3>2. 1 <= 1 /\ n - 1 \in Nat /\ n - 1 <= Len(tokens)
        BY <2>2, <3>1
      <3>4. LinesOf(SubSeq(tokens, 1, n - 1)) = SubSeq(LinesOf(tokens), 1, n - 1)
        BY <2>2, <3>2, LinesOfPart
      <3> QED
        BY <2>2, <2>6, <3>4 DEF Front
    <2> QED
      BY <2>1, <2>6, <2>7
  <1> QED
    BY <1>2, <1>3

\* A text whose returns are no ends by themselves is what is put together of its lines.
LEMMA JoinedIsTheText ==
    ASSUME NEW t \in Documents, Unbroken(t)
    PROVE  JoinLines(LinesOf(t) \o LastLine(t)) = t
  <1> DEFINE y == LinesOf(t)
             n == Len(t)
  <1>1. /\ t \in Seq(AnyToken) /\ n \in Nat
        /\ \A i \in 1..n : /\ t[i].newline \in BOOLEAN
                           /\ t[i] = [line |-> t[i].line, newline |-> t[i].newline]
                           /\ t[i].newline \/ (i = n /\ t[i].line # EmptyLine)
    BY DocumentTyped, UnbrokenTyped
  <1>2. y \in Seq(OnePiece) /\ Len(y) = n /\ \A i \in 1..n : y[i] = t[i].line
    BY <1>1, LinesTyped
  <1>3. t = [i \in 1..n |-> t[i]]
    BY <1>1
  <1> HIDE DEF y
  <1>4. CASE EndsInNewline(t)
    <2>1. \A i \in 1..n : t[i].newline
      BY <1>1, <1>4 DEF EndsInNewline
    <2>2. \A i \in 1..n : t[i] = [line |-> y[i], newline |-> TRUE]
      <3>1. \A i \in 1..n : t[i].newline = TRUE
        BY <1>1, <2>1
      <3> QED
        BY <1>1, <1>2, <3>1
    <2>3. t = [i \in 1..n |-> [line |-> y[i], newline |-> TRUE]]
      BY <1>3, <2>2
    <2>4. JoinLines(y \o <<EmptyLine>>) = t
      BY <1>2, <2>3, JoinedWithNewline
    <2> QED
      BY <1>4, <2>4 DEF y, LastLine
  <1>5. CASE ~EndsInNewline(t)
    <2>1. y \o <<>> = y
      BY <1>2, ConcatEmptySeq
    <2> DEFINE tokens == TokensFor(y)
    <2>2. JoinLines(y) = IF y # <<>> /\ Last(y) = EmptyLine THEN Front(tokens) ELSE tokens
      BY <1>2, JoinLinesIs
    <2>3. y # <<>> => Last(y) # EmptyLine
      <3> SUFFICES ASSUME y # <<>> PROVE Last(y) # EmptyLine
        OBVIOUS
      <3>1. n \in 1..n /\ t # <<>>
        BY <1>1, <1>2
      <3>2. ~t[n].newline
        BY <1>5, <3>1 DEF EndsInNewline
      <3>3. t[n].line # EmptyLine
        BY <1>1, <3>1, <3>2
      <3> QED
        BY <1>2, <3>1, <3>3 DEF Last
    <2>4. tokens = t
      <3>1. tokens = [i \in 1..n |-> [line |-> y[i], newline |-> i < n]]
        BY <1>2 DEF TokensFor
      <3>2. ASSUME NEW i \in 1..n PROVE t[i] = [line |-> y[i], newline |-> i < n]
        <4>1. t[i].newline = (i < n)
          <5>1. CASE i = n
            <6>1. ~t[i].newline
              BY <1>1, <1>5, <5>1 DEF EndsInNewline
            <6>2. ~(i < n)
              BY <1>1, <5>1
            <6>3. (i < n) = FALSE
              BY <1>1, <6>2
            <6>4. t[i].newline = FALSE
              BY <1>1, <6>1, Zenon
            <6> QED
              BY <6>3, <6>4, Zenon
          <5>2. CASE i # n
            <6>1. i < n
              BY <1>1, <5>2
            <6>2. t[i].newline = TRUE /\ (i < n) = TRUE
              BY <1>1, <5>2, <6>1, Zenon
            <6> QED
              BY <6>2, Zenon
          <5> QED
            BY <5>1, <5>2
        <4>2. t[i] = [line |-> t[i].line, newline |-> t[i].newline]
          BY <1>1
        <4> QED
          BY <1>2, <4>1, <4>2
      <3> HIDE DEF tokens
      <3> QED
        BY <1>3, <3>1, <3>2
    <2> HIDE DEF tokens
    <2>5. JoinLines(y) = t
      BY <2>2, <2>3, <2>4
    <2> QED
      BY <1>5, <2>1, <2>5 DEF y, LastLine
  <1> QED
    BY <1>4, <1>5

-----------------------------------------------------------------------------
\* A head is a diff from the base to the text that it was saved with.
Saved(h) ==
    \/ heads[h] = None /\ meant[h] = None
    \/ /\ meant[h] \in Documents
       /\ \E aligned \in Alignments(base, meant[h]) :
            heads[h] = Diff(base, meant[h], aligned)

PatchInv ==
    /\ base \in Documents
    /\ DOMAIN heads = Heads /\ DOMAIN meant = Heads
    /\ heads = [h \in Heads |-> heads[h]]
    /\ meant = [h \in Heads |-> meant[h]]
    /\ \A h \in Heads : Saved(h)

LEMMA DiffTyped ==
    ASSUME NEW old \in Documents, NEW new \in Documents, NEW aligned \in Alignments(old, new)
    PROVE  Diff(old, new, aligned) \in Deltas
  <1>1. old \in Seq(AnyToken) /\ new \in Seq(AnyToken)
    BY DocumentTyped
  <1>2. Patches(Diff(old, new, aligned), LinesOf(old), LinesOf(new), Len(old), Len(new))
    BY <1>1, DiffIsAPatch
  <1> QED
    BY <1>2 DEF Patches, Deltas

LEMMA PatchStart == PatchInit => PatchInv
  BY Zenon DEF PatchInit, PatchInv, Saved

LEMMA PatchStep == PatchInv /\ [SaveHead]_patchVars => PatchInv'
  <1> SUFFICES ASSUME PatchInv, [SaveHead]_patchVars PROVE PatchInv'
    OBVIOUS
  <1>1. CASE UNCHANGED patchVars
    BY <1>1 DEF PatchInv, Saved, patchVars
  <1>2. CASE SaveHead
    <2>1. PICK h \in Heads, new \in Documents :
            \E aligned \in Alignments(base, new) :
                /\ heads' = [heads EXCEPT ![h] = Diff(base, new, aligned)]
                /\ meant' = [meant EXCEPT ![h] = new]
                /\ UNCHANGED base
      BY <1>2 DEF SaveHead
    <2>2. PICK aligned \in Alignments(base, new) :
                /\ heads' = [heads EXCEPT ![h] = Diff(base, new, aligned)]
                /\ meant' = [meant EXCEPT ![h] = new]
                /\ base' = base
      BY <2>1
    <2> DEFINE d == Diff(base, new, aligned)
    <2>3. d = Diff(base, new, aligned)
      OBVIOUS
    <2> HIDE DEF d
    <2>4. /\ DOMAIN heads' = Heads /\ DOMAIN meant' = Heads
          /\ heads'[h] = d /\ meant'[h] = new
          /\ \A g \in Heads \ {h} : heads'[g] = heads[g] /\ meant'[g] = meant[g]
          /\ heads' = [g \in Heads |-> heads'[g]]
          /\ meant' = [g \in Heads |-> meant'[g]]
      BY <2>2, <2>3 DEF PatchInv
    <2>5. ASSUME NEW g \in Heads PROVE Saved(g)'
      <3>1. CASE g = h
        BY <2>2, <2>3, <2>4, <3>1, Zenon DEF Saved
      <3>2. CASE g # h
        <4>1. Saved(g)
          BY DEF PatchInv
        <4> QED
          BY <2>2, <2>4, <3>2, <4>1 DEF Saved
      <3> QED
        BY <3>1, <3>2
    <2> QED
      BY <2>2, <2>4, <2>5 DEF PatchInv
  <1> QED
    BY <1>1, <1>2

LEMMA PatchInvariant == PatchSpec => []PatchInv
  BY PatchStart, PatchStep, PTL DEF PatchSpec

\* The base is a text, and a head that was saved is made of deltas whose lines have
\* lost their newlines (diff, strip_trailing_newline).
THEOREM PatchTypesHold == PatchSpec => []PatchTypeOK
  <1>1. PatchInv => PatchTypeOK
    <2> SUFFICES ASSUME PatchInv PROVE PatchTypeOK
      OBVIOUS
    <2>1. ASSUME NEW h \in Heads
          PROVE  /\ heads[h] \in Deltas \cup {None}
                 /\ meant[h] \in Documents \cup {None}
                 /\ heads[h] = None <=> meant[h] = None
      <3>1. Saved(h)
        BY DEF PatchInv
      <3>2. CASE heads[h] = None /\ meant[h] = None
        BY <3>2
      <3>3. CASE /\ meant[h] \in Documents
                 /\ \E aligned \in Alignments(base, meant[h]) :
                      heads[h] = Diff(base, meant[h], aligned)
        <4>1. heads[h] \in Deltas
          BY <3>3, DiffTyped DEF PatchInv
        <4> QED
          BY <3>3, <4>1, ContentPatchAssumption
      <3> QED
        BY <3>1, <3>2, <3>3 DEF Saved
    <2>2. heads \in [Heads -> Deltas \cup {None}]
      BY <2>1 DEF PatchInv
    <2>3. meant \in [Heads -> Documents \cup {None}]
      BY <2>1 DEF PatchInv
    <2> QED
      BY <2>1, <2>2, <2>3 DEF PatchInv, PatchTypeOK
  <1> QED
    BY <1>1, PatchInvariant, PTL

\* Whatever lines a diff takes for equal, composing a head gives the text that it was
\* saved with when both texts end alike, and its lines in any case, without an empty
\* last one perhaps, provided that no return in the two texts is an end by itself
\* (diff_then_apply_round_trips).
THEOREM SnapshotsRoundTrip == PatchSpec => []RoundTrips
  <1>1. PatchInv => RoundTrips
    <2> SUFFICES ASSUME PatchInv, NEW h \in Heads, heads[h] # None,
                        Unbroken(base), Unbroken(meant[h])
                 PROVE  IF EndsInNewline(base) = EndsInNewline(meant[h])
                        THEN ComposeSnapshot(h) = meant[h]
                        ELSE LinesOf(ComposeSnapshot(h)) \in
                                 {LinesOf(meant[h]), Front(LinesOf(meant[h]))}
      BY DEF RoundTrips
    <2> DEFINE new == meant[h]
               y == LinesOf(new)
    <2>1. /\ base \in Documents /\ new \in Documents
          /\ \E aligned \in Alignments(base, new) : heads[h] = Diff(base, new, aligned)
      BY DEF PatchInv, Saved
    <2>2. base \in Seq(AnyToken) /\ new \in Seq(AnyToken)
      BY <2>1, DocumentTyped
    <2>3. y \in Seq(Line) /\ y \in Seq(OnePiece) /\ Len(y) = Len(new)
      BY <2>2, LinesTyped
    <2>4. Patches(heads[h], LinesOf(base), y, Len(base), Len(y))
      BY <2>1, <2>2, <2>3, DiffIsAPatch
    <2>5. ComposeSnapshot(h) = JoinLines(y \o LastLine(base))
      <3>1. ApplyDeltas(base, heads[h]) = JoinLines(y \o LastLine(base))
        BY <2>2, <2>3, <2>4, PatchApplies
      <3> QED
        BY <3>1 DEF ComposeSnapshot
    <2>6. CASE EndsInNewline(base) = EndsInNewline(new)
      <3>1. LastLine(base) = LastLine(new)
        BY <2>6 DEF LastLine
      <3>2. JoinLines(LinesOf(new) \o LastLine(new)) = new
        BY <2>1, JoinedIsTheText
      <3> QED
        BY <2>5, <2>6, <3>1, <3>2
    <2>7. LinesOf(ComposeSnapshot(h)) \in {y, Front(y)}
      <3>1. y \o <<>> = y
        BY <2>3, ConcatEmptySeq
      <3>2. LastLine(base) = <<EmptyLine>> \/ LastLine(base) = <<>>
        BY DEF LastLine
      <3> HIDE DEF y
      <3>3. LinesOf(JoinLines(y \o <<EmptyLine>>)) = y /\ LinesOf(JoinLines(y)) \in {y, Front(y)}
        BY <2>3, LinesOfJoined
      <3> QED
        BY <2>5, <3>1, <3>2, <3>3
    <2> QED
      BY <2>6, <2>7
  <1> QED
    BY <1>1, PatchInvariant, PTL
=============================================================================
