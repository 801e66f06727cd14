---------------------------- MODULE IndexProofs -----------------------------
(***************************************************************************)
(* Proofs about IndexEngine, for any number of entries and any length of   *)
(* page: that no upsert is lost, and that the pages of a list put together *)
(* are the list, in order. The lemmas before them are about what is        *)
(* defined by recursion: such a function exists by iteration               *)
(* (IterationExists), and holds to what each of its steps keeps            *)
(* (InductionUpTo), which goes back to the least number for which it would *)
(* fail.                                                                   *)
(***************************************************************************)
EXTENDS Sorting, IndexEngine, FiniteSetTheorems, SequenceTheorems,
        WellFoundedInduction, TLAPS

-----------------------------------------------------------------------------
(* Induction and recursion over the naturals, said of sets and functions. *)

\* Of some naturals one is the least.
LEMMA LeastNatural ==
    ASSUME NEW T, T \subseteq Nat, T # {}
    PROVE  \E m \in T : \A n \in T : m <= n
  <1>1. PICK m \in T : \A n \in T : ~ (<<n, m>> \in OpToRel(<, Nat))
    BY WFMin, NatLessThanWellFounded, Zenon
  <1>2. \A n \in T : ~(n < m)
    BY <1>1, Zenon DEF OpToRel
  <1> QED
    BY <1>2

\* A set that has 0, and with each number below n the next one, has them all.
LEMMA InductionUpTo ==
    ASSUME NEW n \in Nat, NEW S, 0 \in S, \A i \in 0..(n - 1) : i \in S => i + 1 \in S
    PROVE  \A i \in 0..n : i \in S
  <1> SUFFICES ASSUME (0..n) \ S # {} PROVE FALSE
    OBVIOUS
  <1>1. PICK m \in (0..n) \ S : \A i \in (0..n) \ S : m <= i
    <2> DEFINE T == (0..n) \ S
    <2>1. T \subseteq Nat /\ T # {}
      OBVIOUS
    <2> HIDE DEF T
    <2>2. \E m \in T : \A i \in T : m <= i
      BY <2>1, LeastNatural
    <2> QED
      BY <2>2 DEF T
  <1>2. m # 0 /\ m - 1 \in 0..(n - 1)
    BY <1>1
  <1>3. m - 1 \in S
    BY <1>1, <1>2
  <1> QED
    BY <1>1, <1>2, <1>3

\* The values that steps lead to one after the other.
Steps(X, n) == [1..n -> [X -> X]]
Iterates(g, step, a, n, X) ==
    /\ g \in [0..n -> X]
    /\ g[0] = a
    /\ \A i \in 1..n : g[i] = step[i][g[i - 1]]

\* Steps that can be taken from every value can be taken one after the other.
LEMMA IterationExists ==
    ASSUME NEW X, NEW n, NEW a, NEW step, n \in Nat, a \in X, step \in Steps(X, n)
    PROVE  \E g : Iterates(g, step, a, n, X)
  <1> DEFINE S == {m \in Nat : \E g \in [0..m -> X] :
                      g[0] = a /\ \A i \in 1..m : g[i] = step[i][g[i - 1]]}
  <1>1. 0 \in S
    <2> DEFINE g == [i \in 0..0 |-> a]
    <2>1. g \in [0..0 -> X] /\ g[0] = a
      OBVIOUS
    <2> HIDE DEF g
    <2> QED
      BY <2>1
  <1>2. ASSUME NEW m \in 0..(n - 1), m \in S PROVE m + 1 \in S
    <2>1. PICK g \in [0..m -> X] : g[0] = a /\ \A i \in 1..m : g[i] = step[i][g[i - 1]]
      BY <1>2
    <2> DEFINE h == [i \in 0..(m + 1) |-> IF i = m + 1 THEN step[m + 1][g[m]] ELSE g[i]]
    <2>2. m \in Nat /\ m + 1 \in 1..n /\ step[m + 1][g[m]] \in X
      BY DEF Steps
    <2>3. h \in [0..(m + 1) -> X] /\ h[0] = a
      BY <2>1, <2>2
    <2>4. ASSUME NEW i \in 1..(m + 1) PROVE h[i] = step[i][h[i - 1]]
      <3>1. CASE i = m + 1
        <4>1. h[i - 1] = g[m]
          BY <2>2, <3>1
        <4> QED
          BY <2>2, <3>1, <4>1
      <3>2. CASE i # m + 1
        <4>1. i \in 1..m /\ i - 1 \in 0..m
          BY <2>2, <3>2
        <4>2. h[i - 1] = g[i - 1] /\ h[i] = g[i]
          BY <2>2, <3>2, <4>1
        <4> QED
          BY <2>1, <4>1, <4>2
      <3> QED
        BY <3>1, <3>2
    <2> HIDE DEF h
    <2> QED
      BY <2>2, <2>3, <2>4
  <1> HIDE DEF S
  <1>3. n \in S
    <2>1. \A i \in 0..n : i \in S
      BY <1>1, <1>2, InductionUpTo, Zenon
    <2> QED
      BY <2>1
  <1>4. \E g \in [0..n -> X] : g[0] = a /\ \A i \in 1..n : g[i] = step[i][g[i - 1]]
    BY <1>3 DEF S
  <1> QED
    BY <1>4 DEF Iterates

\* A function that each step carries from one value to another has such values.
LEMMA IterationTyped ==
    ASSUME NEW X, NEW n \in Nat, NEW f, f[0] \in X,
           \A i \in 1..n : f[i - 1] \in X => f[i] \in X
    PROVE  \A i \in 0..n : f[i] \in X
  <1> DEFINE S == {i \in Nat : f[i] \in X}
  <1>1. \A i \in 0..(n - 1) : i \in S => i + 1 \in S
    <2> SUFFICES ASSUME NEW i \in 0..(n - 1), f[i] \in X PROVE f[i + 1] \in X
      OBVIOUS
    <2>1. i + 1 \in 1..n /\ (i + 1) - 1 = i
      OBVIOUS
    <2> QED
      BY <2>1
  <1>2. 0 \in S
    OBVIOUS
  <1> HIDE DEF S
  <1>3. \A i \in 0..n : i \in S
    BY <1>1, <1>2, InductionUpTo
  <1> QED
    BY <1>3 DEF S

\* Of some naturals with a bound one is the greatest.
LEMMA GreatestNatural ==
    ASSUME NEW n \in Nat, NEW J, J \subseteq 0..n, J # {}
    PROVE  Max(J) \in J /\ \A j \in J : j <= Max(J)
  <1> DEFINE T == {m \in Nat : n - m \in J}
  <1>1. T \subseteq Nat /\ T # {}
    <2>1. PICK j \in J : TRUE
      OBVIOUS
    <2>2. n - j \in Nat /\ n - (n - j) = j
      OBVIOUS
    <2> QED
      BY <2>1, <2>2
  <1>2. PICK m \in T : \A i \in T : m <= i
    <2> HIDE DEF T
    <2> QED
      BY <1>1, LeastNatural
  <1>3. n - m \in J /\ \A j \in J : j <= n - m
    <2>1. \A j \in J : n - j \in Nat /\ n - (n - j) = j
      OBVIOUS
    <2>2. \A j \in J : n - j \in T
      BY <2>1
    <2>3. \A j \in J : m <= n - j
      BY <1>2, <2>2
    <2> QED
      BY <1>2, <2>3
  <1> QED
    BY <1>3 DEF Max

-----------------------------------------------------------------------------
(* Sorting. *)

\* A sequence with an element more, behind the first k.
HasBehind(p, s, k, e, U) ==
    /\ p \in Seq(U) /\ Len(p) = Len(s) + 1
    /\ \A i \in 1..(Len(s) + 1) :
         p[i] = IF i <= k THEN s[i] ELSE IF i = k + 1 THEN e ELSE s[i - 1]

\* An element that is inserted moves those behind it by one.
LEMMA InsertAtIs ==
    ASSUME NEW U, NEW s \in Seq(U), NEW k \in 0..Len(s), NEW e \in U
    PROVE  HasBehind(InsertAt(s, k + 1, e), s, k, e, U)
  <1> DEFINE a == SubSeq(s, 1, k)
             c == SubSeq(s, k + 1, Len(s))
  <1>1. a \in Seq(U) /\ Len(a) = k /\ \A i \in 1..k : a[i] = s[i]
    OBVIOUS
  <1>2. c \in Seq(U) /\ Len(c) = Len(s) - k /\ \A i \in 1..(Len(s) - k) : c[i] = s[k + i]
    OBVIOUS
  <1> DEFINE b == <<e>>
  <1>3. b \in Seq(U) /\ Len(b) = 1 /\ b[1] = e
    OBVIOUS
  <1>4. InsertAt(s, k + 1, e) = (a \o b) \o c
    <2>1. (k + 1) - 1 = k
      OBVIOUS
    <2> QED
      BY <2>1 DEF InsertAt
  <1> HIDE DEF a, b, c
  <1>5. /\ a \o b \in Seq(U) /\ Len(a \o b) = k + 1
        /\ \A i \in 1..(k + 1) : (a \o b)[i] = IF i <= k THEN s[i] ELSE e
    <2>1. /\ a \o b \in Seq(U) /\ Len(a \o b) = Len(a) + Len(b)
          /\ \A i \in 1..(Len(a) + Len(b)) :
               (a \o b)[i] = IF i <= Len(a) THEN a[i] ELSE b[i - Len(a)]
      BY <1>1, <1>3, ConcatProperties
    <2>2. \A i \in 1..(k + 1) : i <= k => i \in 1..k
      OBVIOUS
    <2>3. \A i \in 1..(k + 1) : ~(i <= k) => i - k = 1
      OBVIOUS
    <2> QED
      BY <1>1, <1>3, <2>1, <2>2, <2>3
  <1> DEFINE ab == a \o b
  <1>6. /\ ab \o c \in Seq(U) /\ Len(ab \o c) = Len(ab) + Len(c)
        /\ \A i \in 1..(Len(ab) + Len(c)) :
             (ab \o c)[i] = IF i <= Len(ab) THEN ab[i] ELSE c[i - Len(ab)]
    <2>1. ab \in Seq(U)
      BY <1>5
    <2> HIDE DEF ab
    <2> QED
      BY <1>2, <2>1, ConcatProperties
  <1>7. ab \in Seq(U) /\ Len(ab) = k + 1
        /\ \A i \in 1..(k + 1) : ab[i] = IF i <= k THEN s[i] ELSE e
    BY <1>5
  <1>8. InsertAt(s, k + 1, e) = ab \o c
    BY <1>4
  <1> HIDE DEF ab
  <1>9. Len(ab \o c) = Len(s) + 1 /\ Len(s) \in Nat
    BY <1>2, <1>6, <1>7
  <1>10. ASSUME NEW i \in 1..(Len(s) + 1)
         PROVE  (ab \o c)[i] = IF i <= k THEN s[i] ELSE IF i = k + 1 THEN e ELSE s[i - 1]
    <2>1. CASE i <= k + 1
      <3>1. i \in 1..(k + 1) /\ i \in 1..(Len(ab) + Len(c))
        BY <1>2, <1>7, <2>1
      <3> QED
        BY <1>6, <1>7, <2>1, <3>1
    <2>2. CASE i > k + 1
      <3>1. /\ i \in 1..(Len(ab) + Len(c))
            /\ i - (k + 1) \in 1..(Len(s) - k)
            /\ k + (i - (k + 1)) = i - 1
        BY <1>2, <1>7, <1>9, <2>2
      <3>2. (ab \o c)[i] = c[i - (k + 1)]
        BY <1>6, <1>7, <2>2, <3>1
      <3>3. c[i - (k + 1)] = s[i - 1]
        BY <1>2, <3>1
      <3> QED
        BY <2>2, <3>2, <3>3
    <2> QED
      BY <1>9, <2>1, <2>2
  <1> QED
    BY <1>6, <1>8, <1>9, <1>10 DEF HasBehind

\* Place puts the element behind the last one that it does not precede.
LEMMA PlaceIs ==
    ASSUME NEW U, NEW s \in Seq(U), NEW e \in U, NEW before
    PROVE  \E k \in 0..Len(s) :
             /\ k # 0 => <<e, s[k]>> \notin before
             /\ \A j \in 1..Len(s) : k < j => <<e, s[j]>> \in before
             /\ Place(s, e, before) = InsertAt(s, k + 1, e)
  <1> DEFINE J == {0} \cup {j \in DOMAIN s : <<e, s[j]>> \notin before}
  <1>1. J \subseteq 0..Len(s) /\ J # {} /\ Len(s) \in Nat
    <2>1. Len(s) \in Nat /\ DOMAIN s = 1..Len(s)
      OBVIOUS
    <2> QED
      BY <2>1
  <1>2. Place(s, e, before) = InsertAt(s, Max(J) + 1, e)
    BY DEF Place
  <1>3. Max(J) \in J /\ \A j \in J : j <= Max(J)
    <2> HIDE DEF J
    <2> QED
      BY <1>1, GreatestNatural
  <1> DEFINE m == Max(J)
  <1>4. \A j \in 1..Len(s) : m < j => <<e, s[j]>> \in before
    <2> HIDE DEF m
    <2>1. \A j \in J : j <= m
      BY <1>3 DEF m
    <2>2. \A j \in 1..Len(s) : j \notin J => <<e, s[j]>> \in before
      OBVIOUS
    <2>3. m \in Nat
      BY <1>1, <1>3 DEF m
    <2> HIDE DEF J
    <2>4. \A j \in 1..Len(s) : m < j => j \notin J
      BY <2>1, <2>3
    <2> QED
      BY <2>2, <2>4
  <1>5. m \in 0..Len(s) /\ (m # 0 => <<e, s[m]>> \notin before)
    <2>1. m \in J
      BY <1>3
    <2> HIDE DEF m
    <2>2. m # 0 => <<e, s[m]>> \notin before
      BY <2>1
    <2> HIDE DEF J
    <2> QED
      BY <1>1, <2>1, <2>2
  <1> QED
    BY <1>2, <1>4, <1>5, Zenon

\* StableSort takes its elements one by one.
LEMMA StableSortUnfolds ==
    ASSUME NEW U, NEW s \in Seq(U), NEW before
    PROVE  \E t :
             /\ t[0] = <<>>
             /\ \A i \in 1..Len(s) : t[i] = Place(t[i - 1], s[i], before)
             /\ \A i \in 0..Len(s) : t[i] \in Seq(U)
             /\ StableSort(s, before) = t[Len(s)]
  <1> DEFINE n == Len(s)
             X == Seq(U)
             a == <<>>
             Step == [i \in 1..n |-> [v \in X |-> Place(v, s[i], before)]]
             Fits(g) == g = [i \in 0..Len(s) |->
                               IF i = 0 THEN <<>> ELSE Place(g[i - 1], s[i], before)]
             f == CHOOSE g : Fits(g)
  <1>1. StableSort(s, before) = f[n]
    BY DEF StableSort
  <1>2. n \in Nat /\ a \in X
    OBVIOUS
  <1>3. \A i \in 1..n, v \in X : Place(v, s[i], before) \in X
    <2> TAKE i \in 1..n, v \in X
    <2>1. PICK k \in 0..Len(v) : Place(v, s[i], before) = InsertAt(v, k + 1, s[i])
      <3>1. s[i] \in U /\ v \in Seq(U)
        OBVIOUS
      <3>2. \E k \in 0..Len(v) :
             /\ k # 0 => <<s[i], v[k]>> \notin before
             /\ \A j \in 1..Len(v) : k < j => <<s[i], v[j]>> \in before
             /\ Place(v, s[i], before) = InsertAt(v, k + 1, s[i])
        <4> DEFINE e == s[i]
        <4> HIDE DEF e
        <4>1. e \in U
          BY <3>1 DEF e
        <4>2. \E k \in 0..Len(v) :
             /\ k # 0 => <<e, v[k]>> \notin before
             /\ \A j \in 1..Len(v) : k < j => <<e, v[j]>> \in before
             /\ Place(v, e, before) = InsertAt(v, k + 1, e)
          BY <3>1, <4>1, PlaceIs
        <4> QED
          BY <4>2 DEF e
      <3> QED
        BY <3>2
    <2>2. s[i] \in U /\ v \in Seq(U)
      OBVIOUS
    <2>3. InsertAt(v, k + 1, s[i]) \in Seq(U)
      BY <2>2, InsertAtIs DEF HasBehind
    <2> QED
      BY <2>1, <2>3
  <1>4. PICK g \in [0..n -> X] :
            g[0] = a /\ \A i \in 1..n : g[i] = Place(g[i - 1], s[i], before)
    <2>1. Step \in Steps(X, n)
      BY <1>3 DEF Steps
    <2>2. \A i \in 1..n, v \in X : Step[i][v] = Place(v, s[i], before)
      OBVIOUS
    <2> HIDE DEF Step, n, X, a
    <2>3. \E g : Iterates(g, Step, a, n, X)
      BY <1>2, <2>1, IterationExists
    <2>4. PICK g \in [0..n -> X] : g[0] = a /\ \A i \in 1..n : g[i] = Step[i][g[i - 1]]
      BY <2>3 DEF Iterates
    <2>5. \A i \in 1..n : g[i - 1] \in X
      BY <1>2
    <2>6. g[0] = a /\ \A i \in 1..n : g[i] = Place(g[i - 1], s[i], before)
      BY <2>2, <2>4, <2>5
    <2> QED
      BY <2>6
  <1>5. Fits(g)
    <2> HIDE DEF n
    <2>1. \A i \in 0..n : g[i] = IF i = 0 THEN <<>> ELSE Place(g[i - 1], s[i], before)
      BY <1>4, <1>2
    <2> QED
      BY <2>1 DEF n
  <1>6. Fits(f)
    <2> HIDE DEF Fits
    <2> QED
      BY <1>5, Zenon
  <1>7. f[0] = a /\ \A i \in 1..n : f[i] = Place(f[i - 1], s[i], before)
    <2> HIDE DEF f
    <2>1. f = [i \in 0..n |-> IF i = 0 THEN a ELSE Place(f[i - 1], s[i], before)]
      BY <1>6
    <2> HIDE DEF n, a
    <2> QED
      BY <2>1, <1>2
  <1> HIDE DEF f, n, X, a
  <1>8. \A i \in 0..n : f[i] \in X
    <2>1. \A i \in 1..n : f[i - 1] \in X => f[i] \in X
      BY <1>3, <1>7
    <2>2. f[0] \in X
      BY <1>2, <1>7
    <2> QED
      BY <1>2, <2>1, <2>2, IterationTyped
  <1> QED
    BY <1>1, <1>7, <1>8 DEF n, X, a

\* No element is behind one that it precedes.
InOrder(s, before) ==
    \A i, j \in 1..Len(s) : i < j => <<s[j], s[i]>> \notin before

\* Where two elements do not precede each other they are as good as equal.
OrdersWeakly(before, V) ==
    /\ \A x, y \in V : <<x, y>> \in before => <<y, x>> \notin before
    /\ \A x, y, z \in V : <<x, y>> \notin before /\ <<y, z>> \notin before
                             => <<x, z>> \notin before

LEMMA PlaceKeeps ==
    ASSUME NEW U, NEW s \in Seq(U), NEW e \in U, NEW before
    PROVE  /\ Place(s, e, before) \in Seq(U)
           /\ Len(Place(s, e, before)) = Len(s) + 1
           /\ ToSet(Place(s, e, before)) = ToSet(s) \cup {e}
  <1>1. PICK k \in 0..Len(s) :
             /\ k # 0 => <<e, s[k]>> \notin before
             /\ \A j \in 1..Len(s) : k < j => <<e, s[j]>> \in before
             /\ Place(s, e, before) = InsertAt(s, k + 1, e)
    BY PlaceIs
  <1> DEFINE p == InsertAt(s, k + 1, e)
  <1>2. /\ p \in Seq(U) /\ Len(p) = Len(s) + 1
        /\ \A i \in 1..(Len(s) + 1) :
             p[i] = IF i <= k THEN s[i] ELSE IF i = k + 1 THEN e ELSE s[i - 1]
    <2>1. HasBehind(p, s, k, e, U)
      BY InsertAtIs
    <2> HIDE DEF p
    <2> QED
      BY <2>1 DEF HasBehind
  <1> HIDE DEF p
  <1>3. Len(s) \in Nat /\ DOMAIN s = 1..Len(s) /\ DOMAIN p = 1..(Len(s) + 1)
    BY <1>2
  <1>4. ASSUME NEW i \in DOMAIN p PROVE p[i] \in ToSet(s) \cup {e}
    <2>1. i <= k => i \in DOMAIN s
      BY <1>3
    <2>2. ~(i <= k) /\ i # k + 1 => i - 1 \in DOMAIN s
      BY <1>3
    <2> QED
      BY <1>2, <1>3, <2>1, <2>2 DEF ToSet
  <1>5. e \in ToSet(p)
    <2>1. k + 1 \in 1..(Len(s) + 1) /\ ~(k + 1 <= k)
      BY <1>3
    <2>2. p[k + 1] = e
      BY <1>2, <2>1
    <2> QED
      BY <1>3, <2>1, <2>2 DEF ToSet
  <1>6. ASSUME NEW i \in DOMAIN s PROVE s[i] \in ToSet(p)
    <2>1. CASE i <= k
      <3>1. i \in 1..(Len(s) + 1)
        BY <1>3
      <3>2. p[i] = s[i]
        BY <1>2, <2>1, <3>1
      <3> QED
        BY <1>3, <3>1, <3>2 DEF ToSet
    <2>2. CASE i > k
      <3>1. i + 1 \in 1..(Len(s) + 1) /\ ~(i + 1 <= k) /\ i + 1 # k + 1 /\ (i + 1) - 1 = i
        BY <1>3, <2>2
      <3>2. p[i + 1] = s[i]
        BY <1>2, <3>1
      <3> QED
        BY <1>3, <3>1, <3>2 DEF ToSet
    <2> QED
      BY <1>3, <2>1, <2>2
  <1>7. ToSet(p) = ToSet(s) \cup {e}
    <2>1. ToSet(p) \subseteq ToSet(s) \cup {e}
      <3>1. \A x \in ToSet(p) : \E i \in DOMAIN p : x = p[i]
        BY DEF ToSet
      <3> QED
        BY <1>4, <3>1
    <2>2. ToSet(s) \subseteq ToSet(p)
      <3>1. \A x \in ToSet(s) : \E i \in DOMAIN s : x = s[i]
        BY DEF ToSet
      <3> QED
        BY <1>6, <3>1
    <2> QED
      BY <1>5, <2>1, <2>2
  <1> QED
    BY <1>1, <1>2, <1>7 DEF p

LEMMA PlaceSorts ==
    ASSUME NEW U, NEW s \in Seq(U), NEW e \in U, NEW before,
           OrdersWeakly(before, U), InOrder(s, before)
    PROVE  InOrder(Place(s, e, before), before)
  <1>1. PICK k \in 0..Len(s) :
             /\ k # 0 => <<e, s[k]>> \notin before
             /\ \A j \in 1..Len(s) : k < j => <<e, s[j]>> \in before
             /\ Place(s, e, before) = InsertAt(s, k + 1, e)
    BY PlaceIs
  <1> DEFINE p == InsertAt(s, k + 1, e)
  <1>2. /\ p \in Seq(U) /\ Len(p) = Len(s) + 1
        /\ \A i \in 1..(Len(s) + 1) :
             p[i] = IF i <= k THEN s[i] ELSE IF i = k + 1 THEN e ELSE s[i - 1]
    <2>1. HasBehind(p, s, k, e, U)
      BY InsertAtIs
    <2> HIDE DEF p
    <2> QED
      BY <2>1 DEF HasBehind
  <1> HIDE DEF p
  <1>3. Len(s) \in Nat /\ \A i \in 1..Len(s) : s[i] \in U
    OBVIOUS
  <1>4. \A j \in 1..Len(s) : j <= k => <<e, s[j]>> \notin before
    <2> SUFFICES ASSUME NEW j \in 1..Len(s), j <= k PROVE <<e, s[j]>> \notin before
      OBVIOUS
    <2>1. k \in 1..Len(s) /\ <<e, s[k]>> \notin before
      BY <1>1, <1>3
    <2>2. j < k => <<s[k], s[j]>> \notin before
      BY <2>1 DEF InOrder
    <2> QED
      BY <1>3, <2>1, <2>2 DEF OrdersWeakly
  <1>5. \A j \in 1..Len(s) : k < j => <<s[j], e>> \notin before
    BY <1>1, <1>3 DEF OrdersWeakly
  <1>6. \A i, j \in 1..(Len(s) + 1) : i < j => <<p[j], p[i]>> \notin before
    <2> TAKE i, j \in 1..(Len(s) + 1)
    <2> SUFFICES ASSUME i < j PROVE <<p[j], p[i]>> \notin before
      OBVIOUS
    <2> DEFINE a == IF i <= k THEN i ELSE i - 1
               b == IF j <= k THEN j ELSE j - 1
    <2>1. CASE j = k + 1
      <3>1. p[j] = e /\ p[i] = s[i] /\ i \in 1..Len(s) /\ i <= k
        BY <1>2, <1>3, <2>1
      <3> QED
        BY <1>4, <3>1
    <2>2. CASE i = k + 1
      <3>1. p[i] = e /\ p[j] = s[j - 1] /\ j - 1 \in 1..Len(s) /\ k < j - 1
        BY <1>2, <1>3, <2>2
      <3> QED
        BY <1>5, <3>1
    <2>3. CASE i # k + 1 /\ j # k + 1
      <3>1. a \in 1..Len(s) /\ b \in 1..Len(s) /\ a < b
        BY <1>3, <2>3
      <3>2. p[i] = s[a] /\ p[j] = s[b]
        BY <1>2, <1>3, <2>3
      <3> HIDE DEF a, b
      <3> QED
        BY <3>1, <3>2 DEF InOrder
    <2> QED
      BY <2>1, <2>2, <2>3
  <1> QED
    BY <1>1, <1>2, <1>6 DEF InOrder, p

\* An element that precedes none of the others goes to the end.
LEMMA PlaceLast ==
    ASSUME NEW U, NEW s \in Seq(U), NEW e \in U, NEW before,
           \A j \in 1..Len(s) : <<e, s[j]>> \notin before
    PROVE  \A i \in 1..(Len(s) + 1) :
             Place(s, e, before)[i] = IF i <= Len(s) THEN s[i] ELSE e
  <1>1. PICK k \in 0..Len(s) :
             /\ k # 0 => <<e, s[k]>> \notin before
             /\ \A j \in 1..Len(s) : k < j => <<e, s[j]>> \in before
             /\ Place(s, e, before) = InsertAt(s, k + 1, e)
    BY PlaceIs
  <1> DEFINE p == InsertAt(s, k + 1, e)
  <1>2. \A i \in 1..(Len(s) + 1) :
             p[i] = IF i <= k THEN s[i] ELSE IF i = k + 1 THEN e ELSE s[i - 1]
    <2>1. HasBehind(p, s, k, e, U)
      BY InsertAtIs
    <2> HIDE DEF p
    <2> QED
      BY <2>1 DEF HasBehind
  <1> HIDE DEF p
  <1>3. k = Len(s) /\ Len(s) \in Nat
    <2>1. Len(s) \in Nat
      OBVIOUS
    <2>2. ASSUME k < Len(s) PROVE FALSE
      <3>1. Len(s) \in 1..Len(s)
        BY <2>1, <2>2
      <3>2. <<e, s[Len(s)]>> \in before
        BY <1>1, <2>2, <3>1
      <3>3. <<e, s[Len(s)]>> \notin before
        BY <3>1
      <3> QED
        BY <3>2, <3>3
    <2> QED
      BY <1>1, <2>1, <2>2
  <1>4. \A i \in 1..(Len(s) + 1) : p[i] = IF i <= Len(s) THEN s[i] ELSE e
    BY <1>2, <1>3
  <1> QED
    BY <1>1, <1>4 DEF p

\* The sort moves elements and nothing else.
LEMMA SortKeeps ==
    ASSUME NEW U, NEW s \in Seq(U), NEW before
    PROVE  /\ StableSort(s, before) \in Seq(U)
           /\ Len(StableSort(s, before)) = Len(s)
           /\ ToSet(StableSort(s, before)) = ToSet(s)
  <1>1. PICK t :
             /\ t[0] = <<>>
             /\ \A i \in 1..Len(s) : t[i] = Place(t[i - 1], s[i], before)
             /\ \A i \in 0..Len(s) : t[i] \in Seq(U)
             /\ StableSort(s, before) = t[Len(s)]
    BY StableSortUnfolds
  <1> DEFINE S == {i \in Nat : Len(t[i]) = i /\ ToSet(t[i]) = {s[j] : j \in 1..i}}
  <1>2. Len(s) \in Nat /\ DOMAIN s = 1..Len(s)
    OBVIOUS
  <1>3. 0 \in S
    <2>1. Len(<<>>) = 0 /\ DOMAIN <<>> = {} /\ 1..0 = {}
      OBVIOUS
    <2> QED
      BY <1>1, <2>1 DEF ToSet
  <1>4. ASSUME NEW i \in 0..(Len(s) - 1), i \in S PROVE i + 1 \in S
    <2>1. i + 1 \in 1..Len(s) /\ (i + 1) - 1 = i /\ i \in 0..Len(s) /\ i \in Nat
      BY <1>2
    <2> DEFINE v == t[i]
               e == s[i + 1]
    <2>2. t[i + 1] = Place(v, e, before) /\ v \in Seq(U) /\ e \in U
      BY <1>1, <2>1
    <2>3. Len(v) = i /\ ToSet(v) = {s[j] : j \in 1..i}
      BY <1>4
    <2> HIDE DEF v, S
    <2>4. Len(t[i + 1]) = i + 1 /\ ToSet(t[i + 1]) = ToSet(v) \cup {e}
      <3> HIDE DEF e
      <3> QED
        BY <2>2, <2>3, PlaceKeeps
    <2>5. {s[j] : j \in 1..i} \cup {e} = {s[j] : j \in 1..(i + 1)}
      <3>1. 1..(i + 1) = (1..i) \cup {i + 1}
        BY <2>1
      <3> QED
        BY <3>1
    <2> QED
      BY <2>1, <2>3, <2>4, <2>5 DEF S
  <1> HIDE DEF S
  <1>5. Len(s) \in S
    <2>1. \A i \in 0..Len(s) : i \in S
      BY <1>2, <1>3, <1>4, InductionUpTo
    <2> QED
      BY <1>2, <2>1
  <1>6. Len(t[Len(s)]) = Len(s) /\ ToSet(t[Len(s)]) = {s[j] : j \in 1..Len(s)}
    BY <1>5 DEF S
  <1>7. ToSet(s) = {s[j] : j \in 1..Len(s)}
    BY <1>2 DEF ToSet
  <1>8. t[Len(s)] \in Seq(U)
    BY <1>1, <1>2
  <1> QED
    BY <1>1, <1>6, <1>7, <1>8

\* The sort puts elements in order.
LEMMA SortSorts ==
    ASSUME NEW U, NEW s \in Seq(U), NEW before, OrdersWeakly(before, U)
    PROVE  InOrder(StableSort(s, before), before)
  <1>1. PICK t :
             /\ t[0] = <<>>
             /\ \A i \in 1..Len(s) : t[i] = Place(t[i - 1], s[i], before)
             /\ \A i \in 0..Len(s) : t[i] \in Seq(U)
             /\ StableSort(s, before) = t[Len(s)]
    BY StableSortUnfolds
  <1> DEFINE S == {i \in Nat : InOrder(t[i], before)}
  <1>2. Len(s) \in Nat
    OBVIOUS
  <1>3. 0 \in S
    <2>1. Len(<<>>) = 0 /\ 1..0 = {}
      OBVIOUS
    <2> QED
      BY <1>1, <2>1 DEF InOrder
  <1>4. ASSUME NEW i \in 0..(Len(s) - 1), i \in S PROVE i + 1 \in S
    <2>1. i + 1 \in 1..Len(s) /\ (i + 1) - 1 = i /\ i \in 0..Len(s) /\ i \in Nat
      BY <1>2
    <2> DEFINE v == t[i]
               e == s[i + 1]
    <2>2. t[i + 1] = Place(v, e, before) /\ v \in Seq(U) /\ e \in U
      BY <1>1, <2>1
    <2>3. InOrder(v, before)
      BY <1>4
    <2> HIDE DEF v, e
    <2>4. InOrder(t[i + 1], before)
      BY <2>2, <2>3, PlaceSorts
    <2> QED
      BY <2>1, <2>4
  <1> HIDE DEF S
  <1>5. Len(s) \in S
    <2>1. \A i \in 0..Len(s) : i \in S
      BY <1>2, <1>3, <1>4, InductionUpTo
    <2> QED
      BY <1>2, <2>1
  <1> QED
    BY <1>1, <1>5 DEF S

\* The sort leaves alone what is in order.
LEMMA SortOfSorted ==
    ASSUME NEW U, NEW s \in Seq(U), NEW before, InOrder(s, before)
    PROVE  StableSort(s, before) = s
  <1>1. PICK t :
             /\ t[0] = <<>>
             /\ \A i \in 1..Len(s) : t[i] = Place(t[i - 1], s[i], before)
             /\ \A i \in 0..Len(s) : t[i] \in Seq(U)
             /\ StableSort(s, before) = t[Len(s)]
    BY StableSortUnfolds
  <1> DEFINE S == {i \in Nat : Len(t[i]) = i /\ \A j \in 1..i : t[i][j] = s[j]}
  <1>2. Len(s) \in Nat
    OBVIOUS
  <1>3. 0 \in S
    <2>1. Len(<<>>) = 0 /\ 1..0 = {}
      OBVIOUS
    <2> QED
      BY <1>1, <2>1
  <1>4. ASSUME NEW i \in 0..(Len(s) - 1), i \in S PROVE i + 1 \in S
    <2>1. i + 1 \in 1..Len(s) /\ (i + 1) - 1 = i /\ i \in 0..Len(s) /\ i \in Nat
      BY <1>2
    <2> DEFINE v == t[i]
               e == s[i + 1]
    <2>2. t[i + 1] = Place(v, e, before) /\ v \in Seq(U) /\ e \in U
      BY <1>1, <2>1
    <2>3. Len(v) = i /\ \A j \in 1..i : v[j] = s[j]
      BY <1>4
    <2>4. \A j \in 1..Len(v) : <<e, v[j]>> \notin before
      <3> SUFFICES ASSUME NEW j \in 1..i PROVE <<e, s[j]>> \notin before
        BY <2>3
      <3>1. j \in 1..Len(s) /\ j < i + 1
        BY <1>2, <2>1
      <3> QED
        BY <2>1, <3>1 DEF InOrder
    <2> HIDE DEF v, e
    <2> DEFINE p == Place(v, e, before)
    <2>5. \A j \in 1..(Len(v) + 1) : p[j] = IF j <= Len(v) THEN v[j] ELSE e
      BY <2>2, <2>4, PlaceLast
    <2>6. Len(p) = Len(v) + 1
      BY <2>2, PlaceKeeps
    <2> HIDE DEF p
    <2>7. ASSUME NEW j \in 1..(i + 1) PROVE p[j] = s[j]
      <3>1. j <= i => j \in 1..i
        BY <2>1
      <3>2. ~(j <= i) => j = i + 1
        BY <2>1
      <3> QED
        BY <2>3, <2>5, <3>1, <3>2 DEF e
    <2>8. t[i + 1] = p
      BY <2>2 DEF p
    <2> QED
      BY <2>1, <2>3, <2>6, <2>7, <2>8
  <1> HIDE DEF S
  <1>5. Len(s) \in S
    <2>1. \A i \in 0..Len(s) : i \in S
      BY <1>2, <1>3, <1>4, InductionUpTo
    <2> QED
      BY <1>2, <2>1
  <1> DEFINE u == t[Len(s)]
  <1>6. Len(u) = Len(s) /\ \A j \in 1..Len(s) : u[j] = s[j]
    BY <1>5 DEF S
  <1>7. u \in Seq(U)
    BY <1>1, <1>2
  <1> HIDE DEF u
  <1>8. u = s
    BY <1>6, <1>7, SeqEqual
  <1> QED
    BY <1>1, <1>8 DEF u

-----------------------------------------------------------------------------
(* Lists. *)

\* Filter goes through the names one by one.
Filters(t, names, wanted, U) ==
    /\ t[0] = <<>>
    /\ \A i \in 1..Len(names) :
         t[i] = IF names[i] \in wanted THEN Append(t[i - 1], names[i]) ELSE t[i - 1]
    /\ \A i \in 0..Len(names) : t[i] \in Seq(U)
    /\ Filter(names, wanted) = t[Len(names)]

LEMMA FilterUnfolds ==
    ASSUME NEW U, NEW names \in Seq(U), NEW wanted
    PROVE  \E t : Filters(t, names, wanted, U)
  <1> DEFINE n == Len(names)
             X == Seq(U)
             a == <<>>
             Keep(v, i) == IF names[i] \in wanted THEN Append(v, names[i]) ELSE v
             Step == [i \in 1..n |-> [v \in X |-> Keep(v, i)]]
             Fits(g) == g = [i \in 0..Len(names) |->
                               IF i = 0 THEN <<>>
                               ELSE IF names[i] \in wanted THEN Append(g[i - 1], names[i])
                               ELSE g[i - 1]]
             f == CHOOSE g : Fits(g)
  <1>1. Filter(names, wanted) = f[n]
    BY DEF Filter
  <1>2. n \in Nat /\ a \in X
    OBVIOUS
  <1>3. \A i \in 1..n, v \in X : Keep(v, i) \in X
    OBVIOUS
  <1>4. PICK g \in [0..n -> X] : g[0] = a /\ \A i \in 1..n : g[i] = Keep(g[i - 1], i)
    <2> HIDE DEF n, X, a, Keep
    <2>1. Step \in Steps(X, n)
      BY <1>3 DEF Steps
    <2>2. \A i \in 1..n, v \in X : Step[i][v] = Keep(v, i)
      OBVIOUS
    <2> HIDE DEF Step
    <2>3. \E g : Iterates(g, Step, a, n, X)
      BY <1>2, <2>1, IterationExists
    <2>4. PICK g \in [0..n -> X] : g[0] = a /\ \A i \in 1..n : g[i] = Step[i][g[i - 1]]
      BY <2>3 DEF Iterates
    <2>5. \A i \in 1..n : g[i - 1] \in X
      BY <1>2
    <2>6. g[0] = a /\ \A i \in 1..n : g[i] = Keep(g[i - 1], i)
      BY <2>2, <2>4, <2>5
    <2> QED
      BY <2>6
  <1>5. Fits(g)
    <2> HIDE DEF n, Keep
    <2>1. \A i \in 0..n : g[i] = IF i = 0 THEN <<>> ELSE Keep(g[i - 1], i)
      BY <1>4, <1>2
    <2> QED
      BY <2>1 DEF n, Keep
  <1>6. Fits(f)
    <2> HIDE DEF Fits
    <2> QED
      BY <1>5, Zenon
  <1>7. f[0] = a /\ \A i \in 1..n : f[i] = Keep(f[i - 1], i)
    <2> HIDE DEF f
    <2>1. f = [i \in 0..n |-> IF i = 0 THEN a ELSE Keep(f[i - 1], i)]
      BY <1>6
    <2> HIDE DEF n, a, Keep
    <2> QED
      BY <2>1, <1>2
  <1> HIDE DEF f, n, X, a, Keep
  <1>8. \A i \in 0..n : f[i] \in X
    <2>1. \A i \in 1..n : f[i - 1] \in X => f[i] \in X
      BY <1>3, <1>7
    <2>2. f[0] \in X
      BY <1>2, <1>7
    <2> QED
      BY <1>2, <2>1, <2>2, IterationTyped
  <1> QED
    BY <1>1, <1>7, <1>8 DEF Filters, n, X, a, Keep

\* Of names that differ it keeps the wanted ones, each once.
LEMMA FilterKeeps ==
    ASSUME NEW U, NEW names \in Seq(U), NEW wanted,
           \A i, j \in 1..Len(names) : i # j => names[i] # names[j]
    PROVE  /\ Filter(names, wanted) \in Seq(U)
           /\ ToSet(Filter(names, wanted)) = ToSet(names) \cap wanted
           /\ Len(Filter(names, wanted)) = Cardinality(ToSet(names) \cap wanted)
  <1>0. PICK t : Filters(t, names, wanted, U)
    BY FilterUnfolds
  <1>1. /\ t[0] = <<>>
        /\ \A i \in 1..Len(names) :
             t[i] = IF names[i] \in wanted THEN Append(t[i - 1], names[i]) ELSE t[i - 1]
        /\ \A i \in 0..Len(names) : t[i] \in Seq(U)
        /\ Filter(names, wanted) = t[Len(names)]
    BY <1>0, Zenon DEF Filters
  <1> DEFINE Of(i) == {names[j] : j \in 1..i} \cap wanted
             S == {i \in Nat : /\ ToSet(t[i]) = Of(i) /\ IsFiniteSet(Of(i))
                               /\ Len(t[i]) = Cardinality(Of(i))}
  <1>2. Len(names) \in Nat /\ DOMAIN names = 1..Len(names)
    OBVIOUS
  <1>3. 0 \in S
    <2>1. Len(<<>>) = 0 /\ DOMAIN <<>> = {} /\ Of(0) = {}
      OBVIOUS
    <2>2. ToSet(<<>>) = {}
      BY <2>1 DEF ToSet
    <2> HIDE DEF Of
    <2> QED
      BY <1>1, <2>1, <2>2, FS_EmptySet
  <1>4. ASSUME NEW i \in 0..(Len(names) - 1), i \in S PROVE i + 1 \in S
    <2>1. i + 1 \in 1..Len(names) /\ (i + 1) - 1 = i /\ i \in 0..Len(names) /\ i \in Nat
      BY <1>2
    <2> DEFINE v == t[i]
               e == names[i + 1]
    <2>2. t[i + 1] = IF e \in wanted THEN Append(v, e) ELSE v
      BY <1>1, <2>1
    <2>3. v \in Seq(U) /\ e \in U
      BY <1>1, <2>1
    <2>4. ToSet(v) = Of(i) /\ IsFiniteSet(Of(i)) /\ Len(v) = Cardinality(Of(i))
      BY <1>4
    <2>5. Of(i + 1) = IF e \in wanted THEN Of(i) \cup {e} ELSE Of(i)
      <3>1. 1..(i + 1) = (1..i) \cup {i + 1}
        BY <2>1
      <3>2. {names[j] : j \in 1..(i + 1)} = {names[j] : j \in 1..i} \cup {e}
        BY <3>1
      <3> QED
        BY <3>2
    <2>6. e \notin Of(i)
      <3>1. \A j \in 1..i : names[j] # e
        BY <1>2, <2>1
      <3> QED
        BY <3>1
    <2> HIDE DEF v, e, Of, S
    <2>7. CASE e \in wanted
      <3>1. /\ Len(Append(v, e)) = Len(v) + 1 /\ Append(v, e) \in Seq(U) /\ Len(v) \in Nat
            /\ \A j \in 1..Len(v) : Append(v, e)[j] = v[j]
            /\ Append(v, e)[Len(v) + 1] = e
        BY <2>3, AppendProperties, LenProperties
      <3>2. DOMAIN v = 1..Len(v) /\ DOMAIN Append(v, e) = (1..Len(v)) \cup {Len(v) + 1}
        BY <2>3, <3>1
      <3>3. ToSet(Append(v, e)) = ToSet(v) \cup {e}
        BY <3>1, <3>2 DEF ToSet
      <3>4. /\ IsFiniteSet(Of(i) \cup {e})
            /\ Cardinality(Of(i) \cup {e}) = Cardinality(Of(i)) + 1
        BY <2>4, <2>6, FS_AddElement
      <3>5. t[i + 1] = Append(v, e) /\ Of(i + 1) = Of(i) \cup {e}
        BY <2>2, <2>5, <2>7
      <3>6. /\ ToSet(t[i + 1]) = Of(i + 1) /\ IsFiniteSet(Of(i + 1))
            /\ Len(t[i + 1]) = Cardinality(Of(i + 1))
        BY <2>4, <3>1, <3>3, <3>4, <3>5
      <3> QED
        BY <2>1, <3>6 DEF S
    <2>8. CASE e \notin wanted
      BY <2>1, <2>2, <2>4, <2>5, <2>8 DEF S
    <2> QED
      BY <2>7, <2>8
  <1> HIDE DEF S
  <1>5. Len(names) \in S
    <2>1. \A i \in 0..Len(names) : i \in S
      BY <1>2, <1>3, <1>4, InductionUpTo
    <2> QED
      BY <1>2, <2>1
  <1>6. /\ ToSet(t[Len(names)]) = Of(Len(names))
        /\ Len(t[Len(names)]) = Cardinality(Of(Len(names)))
    BY <1>5 DEF S
  <1>7. Of(Len(names)) = ToSet(names) \cap wanted
    BY <1>2 DEF ToSet
  <1>8. t[Len(names)] \in Seq(U)
    BY <1>1, <1>2
  <1> HIDE DEF Of
  <1> QED
    BY <1>1, <1>6, <1>7, <1>8

LEMMA MinOfTwo ==
    ASSUME NEW a \in Nat, NEW b \in Nat
    PROVE  Min({a, b}) = IF a <= b THEN a ELSE b
  <1> DEFINE m == IF a <= b THEN a ELSE b
  <1>1. m \in {a, b} /\ \A y \in {a, b} : m <= y
    OBVIOUS
  <1>2. \A x \in {a, b} : (\A y \in {a, b} : x <= y) => x = m
    OBVIOUS
  <1> HIDE DEF m
  <1>3. (CHOOSE x \in {a, b} : \A y \in {a, b} : x <= y) = m
    BY <1>1, <1>2
  <1> QED
    BY <1>3 DEF Min, m

\* Sequences that are put behind each other one by one.
Concatenates(g, a, p, n, X) ==
    /\ g \in [0..n -> X]
    /\ g[0] = a
    /\ \A i \in 1..n : g[i] = g[i - 1] \o p[i]

LEMMA ConcatenationExists ==
    ASSUME NEW X, NEW n, NEW a, NEW p, n \in Nat, a \in X,
           \A i \in 1..n, v \in X : v \o p[i] \in X
    PROVE  \E g : Concatenates(g, a, p, n, X)
  <1> DEFINE Step == [i \in 1..n |-> [v \in X |-> v \o p[i]]]
  <1>3. Step \in Steps(X, n)
    BY DEF Steps
  <1>4. \A i \in 1..n, v \in X : Step[i][v] = v \o p[i]
    OBVIOUS
  <1> HIDE DEF Step
  <1>5. \E g : Iterates(g, Step, a, n, X)
    BY <1>3, IterationExists
  <1>6. PICK g \in [0..n -> X] : g[0] = a /\ \A i \in 1..n : g[i] = Step[i][g[i - 1]]
    BY <1>5 DEF Iterates
  <1>7. \A i \in 1..n : g[i - 1] \in X
    OBVIOUS
  <1>8. g[0] = a /\ \A i \in 1..n : g[i] = g[i - 1] \o p[i]
    BY <1>4, <1>6, <1>7
  <1> QED
    BY <1>8 DEF Concatenates

\* FlattenSeq puts its sequences behind each other one by one.
LEMMA FlattenUnfolds ==
    ASSUME NEW U, NEW pages \in Seq(Seq(U)), pages # <<>>
    PROVE  \E t :
             /\ t[1] = pages[1]
             /\ \A i \in 2..Len(pages) : t[i] = t[i - 1] \o pages[i]
             /\ FlattenSeq(pages) = t[Len(pages)]
  <1> DEFINE n == Len(pages)
             m == n - 1
             X == Seq(U)
             Fits(g) == g = [i \in 1..Len(pages) |->
                               IF i = 1 THEN pages[i] ELSE g[i - 1] \o pages[i]]
             f == CHOOSE g : Fits(g)
  <1>1. n \in Nat /\ n # 0 /\ m \in Nat /\ \A i \in 1..n : pages[i] \in X
    BY EmptySeq
  <1>2. FlattenSeq(pages) = f[n]
    <2>1. Len(pages) # 0
      BY <1>1
    <2> QED
      BY <2>1 DEF FlattenSeq
  <1> DEFINE a == pages[1]
             p == [i \in 1..m |-> pages[i + 1]]
  <1>3. a \in X
    BY <1>1
  <1>4. PICK h : /\ h[0] = a
                 /\ \A i \in 1..m : h[i] = h[i - 1] \o pages[i + 1]
    <2>1. \A i \in 1..m : i + 1 \in 1..n /\ pages[i + 1] \in X
      BY <1>1
    <2>2. \A v, w \in X : v \o w \in X
      BY ConcatProperties
    <2> HIDE DEF n, m, a, X
    <2>3. \A i \in 1..m : p[i] = pages[i + 1]
      OBVIOUS
    <2> HIDE DEF p
    <2>4. \A i \in 1..m, v \in X : v \o p[i] \in X
      BY <2>1, <2>2, <2>3
    <2>5. \E h : Concatenates(h, a, p, m, X)
      BY <1>1, <1>3, <2>4, ConcatenationExists
    <2> QED
      BY <2>3, <2>5 DEF Concatenates
  <1> DEFINE k == [i \in 1..n |-> h[i - 1]]
  <1>5. Fits(k)
    <2>1. ASSUME NEW i \in 1..n
          PROVE  k[i] = IF i = 1 THEN pages[i] ELSE k[i - 1] \o pages[i]
      <3>1. i = 1 => k[i] = pages[i]
        BY <1>4
      <3>2. ASSUME i # 1 PROVE k[i] = k[i - 1] \o pages[i]
        <4> HIDE DEF n
        <4>1. i - 1 \in 1..m /\ i - 1 \in 1..n /\ (i - 1) + 1 = i
          BY <1>1, <3>2
        <4>2. k[i] = h[i - 1] /\ k[i - 1] = h[(i - 1) - 1]
          BY <4>1
        <4> HIDE DEF k, m
        <4> QED
          BY <1>4, <4>1, <4>2
      <3> QED
        BY <3>1, <3>2
    <2>2. k = [i \in 1..n |-> k[i]]
      OBVIOUS
    <2> HIDE DEF k
    <2> QED
      BY <2>1, <2>2
  <1>6. Fits(f)
    <2> HIDE DEF Fits, k
    <2> QED
      BY <1>5, Zenon
  <1>7. \A i \in 1..n : f[i] = IF i = 1 THEN pages[i] ELSE f[i - 1] \o pages[i]
    <2> HIDE DEF f
    <2>1. f = [i \in 1..n |-> IF i = 1 THEN pages[i] ELSE f[i - 1] \o pages[i]]
      BY <1>6
    <2> HIDE DEF n
    <2> QED
      BY <2>1
  <1> HIDE DEF f, n
  <1>8. f[1] = pages[1] /\ \A i \in 2..n : f[i] = f[i - 1] \o pages[i]
    <2>1. 1 \in 1..n /\ \A i \in 2..n : i \in 1..n /\ i # 1
      BY <1>1
    <2> QED
      BY <1>7, <2>1
  <1> QED
    BY <1>2, <1>8 DEF n

\* A sequence cut into pages of one length, and put together again.
PageOf(s, offset, limit) ==
    SubSeq(s, offset + 1, IF offset + limit <= Len(s) THEN offset + limit ELSE Len(s))

\* What is on the first pages, and on the next one, is on those and the next one.
LEMMA NextPage ==
    ASSUME NEW U, NEW s \in Seq(U), NEW o \in Nat, NEW limit \in Nat \ {0}
    PROVE  PageOf(s, 0, o) \o PageOf(s, o, limit) = PageOf(s, 0, o + limit)
  <1> DEFINE n == Len(s)
             b == IF o <= n THEN o ELSE n
             c == IF o + limit <= n THEN o + limit ELSE n
  <1>1. n \in Nat /\ b \in Nat /\ c \in Nat
    OBVIOUS
  <1>2. /\ PageOf(s, 0, o) = SubSeq(s, 1, b)
        /\ PageOf(s, o, limit) = SubSeq(s, o + 1, c)
        /\ PageOf(s, 0, o + limit) = SubSeq(s, 1, c)
    BY DEF PageOf
  <1>3. CASE o <= n
    <2>1. b = o /\ 1 \in 1..(n + 1) /\ b \in (1 - 1)..n /\ c \in b..n
      BY <1>1, <1>3
    <2> HIDE DEF b, c
    <2>2. SubSeq(s, 1, b) \o SubSeq(s, b + 1, c) = SubSeq(s, 1, c)
      BY <2>1, ConcatAdjacentSubSeq DEF n
    <2> QED
      BY <1>2, <2>1, <2>2
  <1>4. CASE ~(o <= n)
    <2>1. b = n /\ c = n /\ n < o + 1
      BY <1>1, <1>4
    <2>2. SubSeq(s, o + 1, n) = <<>>
      BY <1>1, <2>1, SubSeqEmpty
    <2>3. SubSeq(s, 1, n) = s
      BY SubSeqFull
    <2>4. s \o <<>> = s
      BY ConcatEmptySeq
    <2> QED
      BY <1>2, <2>1, <2>2, <2>3, <2>4
  <1> QED
    BY <1>3, <1>4

\* So many pages have room for as many elements.
LEMMA PagesReach ==
    ASSUME NEW k \in Nat, NEW limit \in Nat \ {0}
    PROVE  k * limit \in Nat /\ k <= k * limit
           /\ (k + 1) * limit \in Nat /\ k + 1 <= (k + 1) * limit
  <1> DEFINE S == {i \in Nat : i <= i * limit /\ i * limit \in Nat}
  <1>1. 0 \in S
    OBVIOUS
  <1>2. ASSUME NEW i \in 0..k, i \in S PROVE i + 1 \in S
    <2>1. (i + 1) * limit = i * limit + limit
      OBVIOUS
    <2>2. limit \in Nat /\ limit >= 1 /\ i * limit \in Nat /\ i <= i * limit
      BY <1>2
    <2> DEFINE m == i * limit
    <2> HIDE DEF m
    <2>3. i + 1 <= m + limit /\ m + limit \in Nat
      BY <2>2 DEF m
    <2> QED
      BY <2>1, <2>3 DEF m
  <1> HIDE DEF S
  <1>3. \A i \in 0..(k + 1) : i \in S
    <2>1. k + 1 \in Nat /\ (k + 1) - 1 = k
      OBVIOUS
    <2>2. \A i \in 0..((k + 1) - 1) : i \in S => i + 1 \in S
      BY <1>2, <2>1
    <2> QED
      BY <1>1, <2>1, <2>2, InductionUpTo
  <1>4. k \in S /\ k + 1 \in S
    BY <1>3
  <1> QED
    BY <1>4 DEF S

\* Pages enough for a sequence have it all.
LEMMA PagesConcatenate ==
    ASSUME NEW U, NEW s \in Seq(U), NEW limit \in Nat \ {0}, NEW k \in Nat, Len(s) <= k,
           NEW pages, pages \in Seq(Seq(U)), Len(pages) = k + 1,
           \A i \in 1..(k + 1) : pages[i] = PageOf(s, (i - 1) * limit, limit)
    PROVE  FlattenSeq(pages) = s
  <1>1. PICK t :
             /\ t[1] = pages[1]
             /\ \A i \in 2..Len(pages) : t[i] = t[i - 1] \o pages[i]
             /\ FlattenSeq(pages) = t[Len(pages)]
    <2>1. pages # <<>>
      OBVIOUS
    <2> QED
      BY <2>1, FlattenUnfolds
  <1> DEFINE S == {i \in Nat : t[i + 1] = PageOf(s, 0, (i + 1) * limit)}
  <1>2. 0 \in S
    <2>1. 1 \in 1..(k + 1) /\ (1 - 1) * limit = 0 /\ (0 + 1) * limit = limit
      OBVIOUS
    <2>2. pages[1] = PageOf(s, 0, limit)
      BY <2>1
    <2> QED
      BY <1>1, <2>1, <2>2
  <1>3. ASSUME NEW i \in 0..(k - 1), i \in S PROVE i + 1 \in S
    <2> DEFINE o == (i + 1) * limit
    <2>1. /\ i + 2 \in 2..(k + 1) /\ i + 2 \in 1..(k + 1) /\ (i + 2) - 1 = i + 1
          /\ (i + 1) + 1 = i + 2 /\ i + 1 \in Nat
      OBVIOUS
    <2>2. o \in Nat /\ (i + 2) * limit = o + limit
      OBVIOUS
    <2>3. t[i + 1] = PageOf(s, 0, o)
      BY <1>3
    <2>4. pages[i + 2] = PageOf(s, o, limit)
      BY <2>1
    <2>5. t[i + 2] = t[i + 1] \o pages[i + 2]
      BY <1>1, <2>1
    <2> HIDE DEF o
    <2>6. t[i + 2] = PageOf(s, 0, o + limit)
      <3>1. PageOf(s, 0, o) \o PageOf(s, o, limit) = PageOf(s, 0, o + limit)
        BY <2>2, NextPage
      <3> QED
        BY <2>3, <2>4, <2>5, <3>1
    <2> QED
      BY <2>1, <2>2, <2>6
  <1> HIDE DEF S
  <1>4. k \in S
    <2>1. \A i \in 0..k : i \in S
      BY <1>2, <1>3, InductionUpTo
    <2> QED
      BY <2>1
  <1>5. t[k + 1] = PageOf(s, 0, (k + 1) * limit)
    BY <1>4 DEF S
  <1>6. PageOf(s, 0, (k + 1) * limit) = s
    <2> DEFINE o == (k + 1) * limit
    <2>1. o \in Nat /\ Len(s) <= o
      <3>1. o \in Nat /\ k + 1 <= o
        BY PagesReach
      <3> HIDE DEF o
      <3> QED
        BY <3>1
    <2> HIDE DEF o
    <2>2. Len(s) \in Nat
      OBVIOUS
    <2>3. (IF 0 + o <= Len(s) THEN 0 + o ELSE Len(s)) = Len(s) /\ 0 + 1 = 1
      BY <2>1, <2>2
    <2>4. PageOf(s, 0, o) = SubSeq(s, 1, Len(s))
      BY <2>3 DEF PageOf
    <2>5. SubSeq(s, 1, Len(s)) = s
      BY SubSeqFull
    <2> QED
      BY <2>4, <2>5 DEF o
  <1> QED
    BY <1>1, <1>5, <1>6

\* Values of one type, and of strings all dates or none.
Comparable(values) ==
    \A a, b \in values \ {Null} : a.type = b.type /\ (a.time = None <=> b.time = None)

\* compare_json orders values that are of one type, whatever they are.
LEMMA ComparableIsOrdered ==
    ASSUME NEW V, V \subseteq Json, Comparable(V)
    PROVE  Ordered(V)
  <1>1. \A x \in V : /\ x.type \in {"null", "bool", "number", "string"} /\ x.key \in Nat
                     /\ x.time # None => x.time \in Nat
    BY DEF Json
  <1>2. \A x, y \in V : x.type # "null" /\ y.type # "null" =>
            x.type = y.type /\ (x.time = None <=> y.time = None)
    BY DEF Comparable, Null
  <1>3. ASSUME NEW x \in V, NEW y \in V, NEW z \in V,
               ~LessThan(x, y), ~LessThan(y, z), LessThan(x, z)
        PROVE FALSE
    BY <1>1, <1>2, <1>3 DEF LessThan
  <1> QED
    BY <1>3 DEF Ordered

\* Of two values one is before the other at most.
LEMMA LessThanOrders ==
    ASSUME NEW V, V \subseteq Json, Ordered(V)
    PROVE  /\ \A x, y \in V : LessThan(x, y) => ~LessThan(y, x)
           /\ \A x, y, z \in V : ~LessThan(x, y) /\ ~LessThan(y, z) => ~LessThan(x, z)
  <1>1. \A x \in V : /\ x.type \in {"null", "bool", "number", "string"} /\ x.key \in Nat
                     /\ x.time # None => x.time \in Nat
    BY DEF Json
  <1>2. ASSUME NEW x \in V, NEW y \in V, LessThan(x, y), LessThan(y, x) PROVE FALSE
    BY <1>1, <1>2 DEF LessThan
  <1>3. \A x, y, z \in V : ~LessThan(x, y) /\ ~LessThan(y, z) => ~LessThan(x, z)
    BY DEF Ordered
  <1> QED
    BY <1>2, <1>3

\* And so is the order of the entries that a list sorts by them, up or down.
Order(names, entries, sort) ==
    {p \in names \X names : Precedes(entries[p[1]].field, entries[p[2]].field, sort)}

LEMMA ListOrders ==
    ASSUME NEW W, NEW entries, NEW sort, sort \in {"none", "asc", "desc"},
           \A n \in W : entries[n].field \in Json,
           Ordered({entries[n].field : n \in W})
    PROVE  OrdersWeakly(Order(W, entries, sort), W)
  <1> DEFINE V == {entries[n].field : n \in W}
  <1>1. V \subseteq Json /\ \A n \in W : entries[n].field \in V
    OBVIOUS
  <1>2. Ordered(V)
    OBVIOUS
  <1> HIDE DEF V
  <1>3. /\ \A x, y \in V : LessThan(x, y) => ~LessThan(y, x)
        /\ \A x, y, z \in V : ~LessThan(x, y) /\ ~LessThan(y, z) => ~LessThan(x, z)
    BY <1>1, <1>2, LessThanOrders
  <1>4. \A m, n \in W :
            <<m, n>> \in Order(W, entries, sort) <=>
                Precedes(entries[m].field, entries[n].field, sort)
    BY DEF Order
  <1>5. /\ \A x, y \in V : Precedes(x, y, sort) => ~Precedes(y, x, sort)
        /\ \A x, y, z \in V : ~Precedes(x, y, sort) /\ ~Precedes(y, z, sort)
                                  => ~Precedes(x, z, sort)
    <2>1. CASE sort = "none"
      BY <2>1 DEF Precedes
    <2>2. CASE sort = "asc"
      <3>1. \A x, y \in V : Precedes(x, y, sort) <=> LessThan(x, y)
        BY <2>2 DEF Precedes
      <3> QED
        BY <1>3, <3>1
    <2>3. CASE sort = "desc"
      <3>1. \A x, y \in V : Precedes(x, y, sort) <=> LessThan(y, x)
        BY <2>3 DEF Precedes
      <3> QED
        BY <1>3, <3>1
    <2> QED
      BY <2>1, <2>2, <2>3
  <1>6. \A m, n \in W : <<m, n>> \in Order(W, entries, sort)
                            => <<n, m>> \notin Order(W, entries, sort)
    BY <1>1, <1>4, <1>5
  <1>7. \A m, n, k \in W :
            <<m, n>> \notin Order(W, entries, sort) /\ <<n, k>> \notin Order(W, entries, sort)
                => <<m, k>> \notin Order(W, entries, sort)
    BY <1>1, <1>4, <1>5
  <1> QED
    BY <1>6, <1>7 DEF OrdersWeakly

\* Every order of a finite set has all its elements, each once.
LEMMA OrdersAreComplete ==
    ASSUME NEW T, IsFiniteSet(T), NEW order \in SetToSeqs(T)
    PROVE  /\ order \in Seq(T) /\ ToSet(order) = T /\ Len(order) = Cardinality(T)
           /\ \A i, j \in 1..Len(order) : i # j => order[i] # order[j]
  <1> DEFINE c == Cardinality(T)
  <1>1. c \in Nat
    BY FS_CardinalityType
  <1>2. order \in [1..c -> T] /\ \A i, j \in 1..c : i # j => order[i] # order[j]
    BY DEF SetToSeqs
  <1> HIDE DEF c
  <1>3. order \in Seq(T) /\ Len(order) = c
    BY <1>1, <1>2
  <1>4. order \in Injection(1..c, T)
    BY <1>2 DEF Injection, IsInjective
  <1>5. Cardinality(1..c) = c
    <2>1. Cardinality(1..c) = IF 1 > c THEN 0 ELSE c - 1 + 1
      BY <1>1, FS_Interval
    <2> QED
      BY <1>1, <2>1
  <1>6. order \in Surjection(1..c, T)
    BY <1>4, <1>5, FS_Injection DEF c
  <1>7. ToSet(order) = T
    <2>1. DOMAIN order = 1..c
      BY <1>2
    <2>2. \A x \in T : \E i \in 1..c : order[i] = x
      BY <1>6 DEF Surjection
    <2> QED
      BY <1>2, <2>1, <2>2 DEF ToSet
  <1> QED
    BY <1>2, <1>3, <1>7 DEF c

\* What list cuts its pages from: the wanted entries, in order if they have one.
SortedList(entries, order, q) ==
    LET matching == Filter(order, Wanted(entries, q))
    IN IF q.sort = "none" THEN matching ELSE SortInPlace(matching, entries, q.sort)

LEMMA ListIsSorted ==
    ASSUME NEW entries \in [EntryNames -> Indexed \cup {None}], NEW q \in Queries,
           NEW present, present = {n \in EntryNames : entries[n] # None},
           IsFiniteSet(present), NEW order \in SetToSeqs(present),
           NEW W, W = Wanted(entries, q)
    PROVE  LET s == SortedList(entries, order, q)
           IN /\ s \in Seq(W) /\ ToSet(s) = W /\ Len(s) = Cardinality(W)
              /\ Len(Filter(order, W)) = Cardinality(W)
              /\ Ordered({entries[n].field : n \in W}) =>
                     \A i, j \in DOMAIN s :
                         i < j => ~Precedes(entries[s[j]].field, entries[s[i]].field, q.sort)
  <1> DEFINE m == Filter(order, W)
             R == Order(ToSet(m), entries, q.sort)
  <1>1. q.sort \in {"none", "asc", "desc"}
    BY IndexAssumption
  <1>2. W \subseteq present /\ present \cap W = W
    BY DEF Wanted
  <1>3. /\ order \in Seq(present) /\ ToSet(order) = present
        /\ \A i, j \in 1..Len(order) : i # j => order[i] # order[j]
    BY OrdersAreComplete
  <1>4. m \in Seq(present) /\ ToSet(m) = W /\ Len(m) = Cardinality(W)
    <2>1. /\ Filter(order, W) \in Seq(present)
          /\ ToSet(Filter(order, W)) = ToSet(order) \cap W
          /\ Len(Filter(order, W)) = Cardinality(ToSet(order) \cap W)
      BY <1>3, FilterKeeps
    <2> QED
      BY <1>2, <1>3, <2>1
  <1>5. m \in Seq(W)
    <2> HIDE DEF m
    <2>1. \A i \in 1..Len(m) : m[i] \in W
      BY <1>4 DEF ToSet
    <2>2. Len(m) \in Nat /\ m = [i \in 1..Len(m) |-> m[i]]
      BY <1>4
    <2> QED
      BY <2>1, <2>2
  <1>6. \A n \in W : entries[n].field \in Json
    <2> TAKE n \in W
    <2>1. n \in EntryNames /\ entries[n] \in Indexed
      BY DEF Wanted
    <2> QED
      BY <2>1, IndexAssumption
  <1> DEFINE s == SortedList(entries, order, q)
  <1>7. s = IF q.sort = "none" THEN m ELSE StableSort(m, R)
    BY DEF SortedList, SortInPlace, Order
  <1> HIDE DEF m
  <1>8. R = Order(W, entries, q.sort)
    BY <1>4
  <1> HIDE DEF R
  <1>9. /\ StableSort(m, R) \in Seq(W) /\ Len(StableSort(m, R)) = Len(m)
        /\ ToSet(StableSort(m, R)) = ToSet(m)
    BY <1>5, SortKeeps
  <1>10. s \in Seq(W) /\ ToSet(s) = W /\ Len(s) = Cardinality(W)
    BY <1>4, <1>5, <1>7, <1>9
  <1>11. ASSUME Ordered({entries[n].field : n \in W}),
                NEW i \in DOMAIN s, NEW j \in DOMAIN s, i < j
         PROVE  ~Precedes(entries[s[j]].field, entries[s[i]].field, q.sort)
    <2> HIDE DEF s
    <2>1. DOMAIN s = 1..Len(s) /\ s[i] \in W /\ s[j] \in W
      BY <1>10
    <2>2. CASE q.sort = "none"
      BY <2>2 DEF Precedes
    <2>3. CASE q.sort # "none"
      <3>1. OrdersWeakly(R, W)
        BY <1>1, <1>6, <1>8, <1>11, ListOrders
      <3>2. InOrder(s, R)
        BY <1>5, <1>7, <2>3, <3>1, SortSorts
      <3>3. <<s[j], s[i]>> \notin R
        BY <1>11, <2>1, <3>2 DEF InOrder
      <3> QED
        BY <1>8, <2>1, <3>3 DEF Order
    <2> QED
      BY <2>2, <2>3
  <1>12. Len(Filter(order, W)) = Cardinality(W)
    BY <1>4 DEF m
  <1> HIDE DEF s
  <1>13. /\ s \in Seq(W) /\ ToSet(s) = W /\ Len(s) = Cardinality(W)
         /\ Len(Filter(order, W)) = Cardinality(W)
         /\ Ordered({entries[n].field : n \in W}) =>
                \A i, j \in DOMAIN s :
                    i < j => ~Precedes(entries[s[j]].field, entries[s[i]].field, q.sort)
    BY <1>10, <1>11, <1>12
  <1> QED
    BY <1>13 DEF s

\* The pages of the list are pages of it, each with its length.
LEMMA ListPageIs ==
    ASSUME NEW entries, NEW order, NEW q, NEW o \in Nat, NEW limit \in Nat \ {0},
           NEW s, s = SortedList(entries, order, q),
           NEW c \in Nat, Len(s) = c, Len(Filter(order, Wanted(entries, q))) = c
    PROVE  /\ ListPage(entries, order, q, o, limit).items = PageOf(s, o, limit)
           /\ ListPage(entries, order, q, o, limit).total = c
  <1>1. Min({o + limit, c}) = IF o + limit <= c THEN o + limit ELSE c
    BY MinOfTwo
  <1> QED
    BY <1>1 DEF ListPage, SortedList, PageOf

\* In every state that has finitely many entries of a kind.
Finite ==
    \A g \in Gvks : byKind[g] # None =>
        IsFiniteSet({n \in EntryNames : byKind[g][n] # None})

LEMMA PagesCover == IndexTypeOK /\ Finite => PagesCoverTheList
  <1> SUFFICES ASSUME IndexTypeOK, Finite,
                      NEW g \in {h \in Gvks : byKind[h] # None}, NEW q \in Queries,
                      NEW order \in SetToSeqs({n \in EntryNames : byKind[g][n] # None}),
                      SortReturns(byKind[g], q),
                      NEW limit \in 1..(Len(order) + 1)
               PROVE  CoveredBy(limit, byKind[g], order, q)
    BY DEF PagesCoverTheList
  <1> DEFINE entries == byKind[g]
             present == {n \in EntryNames : byKind[g][n] # None}
             W == Wanted(entries, q)
             k == Len(order)
             s == SortedList(entries, order, q)
             page == [i \in 1..(k + 1) |->
                        ListPage(entries, order, q, (i - 1) * limit, limit)]
             items == [i \in DOMAIN page |-> page[i].items]
  <1>1. entries \in [EntryNames -> Indexed \cup {None}] /\ IsFiniteSet(present)
    BY DEF IndexTypeOK, Finite
  <1>0. order \in SetToSeqs(present) /\ limit \in 1..(k + 1)
    OBVIOUS
  <1>2. /\ s \in Seq(W) /\ ToSet(s) = W /\ Len(s) = Cardinality(W)
        /\ Len(Filter(order, W)) = Cardinality(W)
        /\ Ordered({entries[n].field : n \in W}) =>
               \A i, j \in DOMAIN s :
                   i < j => ~Precedes(entries[s[j]].field, entries[s[i]].field, q.sort)
    <2>1. present = {n \in EntryNames : entries[n] # None}
      OBVIOUS
    <2> DEFINE V == W
    <2>2. V = Wanted(entries, q)
      OBVIOUS
    <2> HIDE DEF V, entries, present
    <2> QED
      BY <1>0, <1>1, <2>1, <2>2, ListIsSorted DEF V
  <1>3. k \in Nat /\ Cardinality(W) \in Nat /\ Cardinality(W) <= k
    <2>1. W \subseteq present
      BY DEF Wanted
    <2>2. k = Cardinality(present)
      BY <1>0, <1>1, OrdersAreComplete
    <2> QED
      BY <1>1, <2>1, <2>2, FS_Subset, FS_CardinalityType
  <1>4. limit \in Nat \ {0}
    BY <1>0, <1>3
  <1> HIDE DEF k, s, W, entries, present
  <1>5. ASSUME NEW i \in 1..(k + 1)
        PROVE  /\ page[i].items = PageOf(s, (i - 1) * limit, limit)
               /\ page[i].total = Cardinality(W)
    <2> DEFINE o == (i - 1) * limit
    <2>1. o \in Nat
      BY <1>4, PagesReach
    <2>2. page[i] = ListPage(entries, order, q, o, limit)
      OBVIOUS
    <2> HIDE DEF o, page
    <2>3. /\ ListPage(entries, order, q, o, limit).items = PageOf(s, o, limit)
          /\ ListPage(entries, order, q, o, limit).total = Cardinality(W)
      <3> DEFINE c == Cardinality(W)
      <3>1. c \in Nat /\ Len(s) = c /\ Len(Filter(order, Wanted(entries, q))) = c
        BY <1>2, <1>3 DEF W
      <3>2. s = SortedList(entries, order, q)
        BY DEF s
      <3> HIDE DEF c
      <3>3. /\ ListPage(entries, order, q, o, limit).items = PageOf(s, o, limit)
            /\ ListPage(entries, order, q, o, limit).total = c
        BY <1>4, <2>1, <3>1, <3>2, ListPageIs
      <3> QED
        BY <3>3 DEF c
    <2> QED
      BY <2>2, <2>3 DEF o
  <1>6. DOMAIN page = 1..(k + 1)
    OBVIOUS
  <1>7. /\ items \in Seq(Seq(W)) /\ Len(items) = k + 1
        /\ \A i \in 1..(k + 1) : items[i] = PageOf(s, (i - 1) * limit, limit)
    <2> HIDE DEF page
    <2>1. \A i \in 1..(k + 1) : items[i] = PageOf(s, (i - 1) * limit, limit)
      BY <1>5, <1>6
    <2>2. ASSUME NEW i \in 1..(k + 1) PROVE PageOf(s, (i - 1) * limit, limit) \in Seq(W)
      <3> DEFINE o == (i - 1) * limit
                 b == IF o + limit <= Len(s) THEN o + limit ELSE Len(s)
      <3>1. o \in Nat
        BY <1>4, PagesReach
      <3> HIDE DEF o
      <3>2. o + 1 \in Int /\ b \in Int /\ \A j \in (o + 1)..b : j \in 1..Len(s)
        BY <1>2, <1>4, <3>1
      <3>3. \A j \in (o + 1)..b : s[j] \in W
        BY <1>2, <3>2
      <3>4. SubSeq(s, o + 1, b) \in Seq(W)
        <4> HIDE DEF b
        <4> QED
          BY <3>2, <3>3, SubSeqProperties
      <3> QED
        BY <3>4 DEF PageOf, o
    <2> DEFINE X == Seq(W)
    <2>3. \A i \in 1..(k + 1) : items[i] \in X
      BY <2>1, <2>2
    <2>4. items = [i \in 1..(k + 1) |-> items[i]]
      BY <1>6
    <2> HIDE DEF items, X
    <2>5. items \in [1..(k + 1) -> X] /\ k + 1 \in Nat
      BY <1>3, <2>3, <2>4
    <2>6. items \in Seq(X) /\ Len(items) = k + 1
      BY <2>5
    <2> QED
      BY <2>1, <2>6 DEF X
  <1> HIDE DEF items
  <1>8. FlattenSeq(items) = s
    BY <1>2, <1>3, <1>4, <1>7, PagesConcatenate
  <1> DEFINE all == FlattenSeq(items)
  <1> HIDE DEF page
  <1>9. /\ ToSet(all) = W /\ Len(all) = Cardinality(W)
        /\ \A i \in DOMAIN page : page[i].total = Cardinality(W)
        /\ Ordered({entries[n].field : n \in W}) =>
               \A i, j \in DOMAIN all :
                   i < j => ~Precedes(entries[all[j]].field, entries[all[i]].field, q.sort)
    BY <1>2, <1>5, <1>6, <1>8
  <1> QED
    BY <1>9 DEF CoveredBy, items, page, W, entries, k

IndexInv == IndexTypeOK /\ UpsertsAreKept

LEMMA IndexStart == IndexInit => IndexInv
  BY DEF IndexInit, IndexInv, IndexTypeOK, UpsertsAreKept, NoEntries

\* A call that puts entries in place of a keyspace.
LEMMA KeyspaceReplaced ==
    ASSUME IndexInv, NEW g \in Gvks, NEW k \in [EntryNames -> Indexed \cup {None}],
           byKind' = [byKind EXCEPT ![g] = k], latest' = [latest EXCEPT ![g] = k],
           first' \in [Requests -> [gvk : Gvks, name : EntryNames, entry : Indexed] \cup {None}]
    PROVE  IndexInv'
  <1>1. k # None
    BY IndexAssumption
  <1> QED
    BY <1>1 DEF IndexInv, IndexTypeOK, UpsertsAreKept

\* What a keyspace holds is what the calls on it left.
LEMMA KeyspaceIsLatest ==
    ASSUME IndexInv, NEW g \in Gvks
    PROVE  /\ Keyspace(g) = latest[g]
           /\ latest[g] \in [EntryNames -> Indexed \cup {None}]
           /\ byKind[g] # None => byKind[g] = latest[g]
  BY DEF IndexInv, UpsertsAreKept, IndexTypeOK, Keyspace

LEMMA IndexStep == IndexInv /\ [IndexNext]_indexVars => IndexInv'
  <1> SUFFICES ASSUME IndexInv, [IndexNext]_indexVars PROVE IndexInv'
    OBVIOUS
  <1>1. ASSUME NEW r \in Requests, UpsertOne(r) PROVE IndexInv'
    <2>1. PICK g \in Gvks, n \in EntryNames, e \in Indexed :
            IF byKind[g] # None
            THEN /\ byKind' = [byKind EXCEPT ![g][n] = e]
                 /\ latest' = [latest EXCEPT ![g][n] = e]
                 /\ UNCHANGED first
            ELSE /\ first' = [first EXCEPT ![r] = [gvk |-> g, name |-> n, entry |-> e]]
                 /\ UNCHANGED <<byKind, latest>>
      BY <1>1 DEF UpsertOne
    <2>2. CASE byKind[g] # None
      <3>1. byKind[g] = latest[g] /\ latest[g] \in [EntryNames -> Indexed \cup {None}]
        BY <2>2, KeyspaceIsLatest
      <3>2. [latest[g] EXCEPT ![n] = e] \in [EntryNames -> Indexed \cup {None}]
        BY <3>1
      <3>3. byKind' = [byKind EXCEPT ![g] = [latest[g] EXCEPT ![n] = e]]
            /\ latest' = [latest EXCEPT ![g] = [latest[g] EXCEPT ![n] = e]]
            /\ first' = first
        BY <2>1, <2>2, <3>1
      <3> QED
        BY <3>2, <3>3, KeyspaceReplaced DEF IndexInv, IndexTypeOK
    <2>3. CASE byKind[g] = None
      BY <2>1, <2>3 DEF IndexInv, IndexTypeOK, UpsertsAreKept
    <2> QED
      BY <2>2, <2>3
  <1>2. ASSUME NEW r \in Requests, FirstUpsert(r) PROVE IndexInv'
    <2>1. PICK g \in Gvks, n \in EntryNames, e \in Indexed :
            first[r] = [gvk |-> g, name |-> n, entry |-> e]
      BY <1>2 DEF FirstUpsert, IndexInv, IndexTypeOK
    <2>2. /\ byKind' = [byKind EXCEPT ![g] = [Keyspace(g) EXCEPT ![n] = e]]
          /\ latest' = [latest EXCEPT ![g] = [latest[g] EXCEPT ![n] = e]]
          /\ first' = [first EXCEPT ![r] = None]
      BY <1>2, <2>1 DEF FirstUpsert
    <2>3. Keyspace(g) = latest[g] /\ latest[g] \in [EntryNames -> Indexed \cup {None}]
      BY KeyspaceIsLatest
    <2>4. [latest[g] EXCEPT ![n] = e] \in [EntryNames -> Indexed \cup {None}]
      BY <2>3
    <2> QED
      BY <2>2, <2>3, <2>4, KeyspaceReplaced DEF IndexInv, IndexTypeOK
  <1>3. CASE RemoveOne
    <2>1. PICK g \in Gvks, n \in EntryNames :
            /\ byKind[g] # None
            /\ byKind' = [byKind EXCEPT ![g][n] = None]
            /\ latest' = [latest EXCEPT ![g][n] = None]
            /\ UNCHANGED first
      BY <1>3 DEF RemoveOne
    <2>2. byKind[g] = latest[g] /\ latest[g] \in [EntryNames -> Indexed \cup {None}]
      BY <2>1, KeyspaceIsLatest
    <2>3. [latest[g] EXCEPT ![n] = None] \in [EntryNames -> Indexed \cup {None}]
      BY <2>2
    <2> QED
      BY <2>1, <2>2, <2>3, KeyspaceReplaced DEF IndexInv, IndexTypeOK
  <1>4. CASE UpsertAll
    <2>1. PICK g \in Gvks, n \in EntryNames, e \in Indexed :
            /\ byKind' = [byKind EXCEPT ![g] = [NoEntries EXCEPT ![n] = e]]
            /\ latest' = [latest EXCEPT ![g] = [NoEntries EXCEPT ![n] = e]]
            /\ UNCHANGED first
      BY <1>4 DEF UpsertAll
    <2>2. [NoEntries EXCEPT ![n] = e] \in [EntryNames -> Indexed \cup {None}]
      BY DEF NoEntries
    <2> QED
      BY <2>1, <2>2, KeyspaceReplaced DEF IndexInv, IndexTypeOK
  <1>5. CASE AbortList
    BY <1>5 DEF AbortList, IndexInv, IndexTypeOK, UpsertsAreKept, NoEntries
  <1>6. CASE UNCHANGED indexVars
    BY <1>6 DEF indexVars, IndexInv, IndexTypeOK, UpsertsAreKept
  <1> QED
    BY <1>1, <1>2, <1>3, <1>4, <1>5, <1>6 DEF IndexNext

LEMMA IndexInvariant == IndexSpec => []IndexInv
  BY IndexStart, IndexStep, PTL DEF IndexSpec

\* Every reachable state of the index engine is well typed.
THEOREM IndexTypesHold == IndexSpec => []IndexTypeOK
  <1>1. IndexInv => IndexTypeOK
    BY DEF IndexInv
  <1> QED
    BY <1>1, IndexInvariant, PTL

\* No upsert is lost, of any number that find no keyspace of their kind at once.
THEOREM UpsertsAlwaysAreKept == IndexSpec => []UpsertsAreKept
  <1>1. IndexInv => UpsertsAreKept
    BY DEF IndexInv
  <1> QED
    BY <1>1, IndexInvariant, PTL

\* The entries of a kind.
Present(k) == {n \in EntryNames : k[n] # None}

\* Another entry, or one less, or one alone leaves them finitely many.
LEMMA PresentStaysFinite ==
    ASSUME NEW k \in [EntryNames -> Indexed \cup {None}], IsFiniteSet(Present(k)),
           NEW n \in EntryNames, NEW e \in Indexed \cup {None}
    PROVE  IsFiniteSet(Present([k EXCEPT ![n] = e]))
  <1>1. IsFiniteSet(Present(k) \cup {n})
    BY FS_AddElement
  <1>2. Present([k EXCEPT ![n] = e]) \subseteq Present(k) \cup {n}
    BY DEF Present
  <1> QED
    BY <1>1, <1>2, FS_Subset

LEMMA NoEntriesAreFinite ==
    NoEntries \in [EntryNames -> Indexed \cup {None}] /\ IsFiniteSet(Present(NoEntries))
  <1>1. Present(NoEntries) = {}
    BY DEF Present, NoEntries
  <1> QED
    BY <1>1, FS_EmptySet DEF NoEntries

\* A step that puts a keyspace with finitely many entries in the place of one.
LEMMA FiniteReplaced ==
    ASSUME IndexTypeOK, Finite, NEW g \in Gvks, NEW k, IsFiniteSet(Present(k)),
           byKind' = [byKind EXCEPT ![g] = k]
    PROVE  Finite'
  <1> SUFFICES ASSUME NEW h \in Gvks, byKind'[h] # None
               PROVE  IsFiniteSet(Present(byKind'[h]))
    BY DEF Finite, Present
  <1>1. byKind'[h] = IF h = g THEN k ELSE byKind[h]
    BY DEF IndexTypeOK
  <1> QED
    BY <1>1 DEF Finite, Present

LEMMA FiniteStart == IndexInit => Finite
  BY DEF IndexInit, Finite

LEMMA FiniteStep == IndexInv /\ Finite /\ [IndexNext]_indexVars => Finite'
  <1> SUFFICES ASSUME IndexInv, Finite, [IndexNext]_indexVars PROVE Finite'
    OBVIOUS
  <1>1. IndexTypeOK
    BY DEF IndexInv
  <1>2. ASSUME NEW g \in Gvks PROVE
            /\ Keyspace(g) \in [EntryNames -> Indexed \cup {None}]
            /\ IsFiniteSet(Present(Keyspace(g)))
    BY <1>1, NoEntriesAreFinite DEF IndexTypeOK, Keyspace, Finite, Present
  <1>3. ASSUME NEW r \in Requests, UpsertOne(r) PROVE Finite'
    <2>1. PICK g \in Gvks, n \in EntryNames, e \in Indexed :
            IF byKind[g] # None THEN byKind' = [byKind EXCEPT ![g][n] = e]
                                ELSE byKind' = byKind
      BY <1>3 DEF UpsertOne
    <2>2. CASE byKind[g] # None
      <3>1. byKind' = [byKind EXCEPT ![g] = [Keyspace(g) EXCEPT ![n] = e]]
        BY <2>1, <2>2 DEF Keyspace
      <3>2. IsFiniteSet(Present([Keyspace(g) EXCEPT ![n] = e]))
        BY <1>2, PresentStaysFinite
      <3> QED
        BY <1>1, <3>1, <3>2, FiniteReplaced
    <2> QED
      BY <2>1, <2>2 DEF Finite
  <1>4. ASSUME NEW r \in Requests, FirstUpsert(r) PROVE Finite'
    <2>1. PICK g \in Gvks, n \in EntryNames, e \in Indexed :
            first[r] = [gvk |-> g, name |-> n, entry |-> e]
      BY <1>1, <1>4 DEF FirstUpsert, IndexTypeOK
    <2>2. byKind' = [byKind EXCEPT ![g] = [Keyspace(g) EXCEPT ![n] = e]]
      BY <1>4, <2>1 DEF FirstUpsert
    <2>3. IsFiniteSet(Present([Keyspace(g) EXCEPT ![n] = e]))
      BY <1>2, PresentStaysFinite
    <2> QED
      BY <1>1, <2>2, <2>3, FiniteReplaced
  <1>5. CASE RemoveOne
    <2>1. PICK g \in Gvks, n \in EntryNames :
            byKind[g] # None /\ byKind' = [byKind EXCEPT ![g][n] = None]
      BY <1>5 DEF RemoveOne
    <2>2. byKind' = [byKind EXCEPT ![g] = [Keyspace(g) EXCEPT ![n] = None]]
      BY <2>1 DEF Keyspace
    <2>3. IsFiniteSet(Present([Keyspace(g) EXCEPT ![n] = None]))
      BY <1>2, PresentStaysFinite
    <2> QED
      BY <1>1, <2>2, <2>3, FiniteReplaced
  <1>6. CASE UpsertAll
    <2>1. PICK g \in Gvks, n \in EntryNames, e \in Indexed :
            byKind' = [byKind EXCEPT ![g] = [NoEntries EXCEPT ![n] = e]]
      BY <1>6 DEF UpsertAll
    <2>2. IsFiniteSet(Present([NoEntries EXCEPT ![n] = e]))
      BY NoEntriesAreFinite, PresentStaysFinite
    <2> QED
      BY <1>1, <2>1, <2>2, FiniteReplaced
  <1>7. CASE AbortList
    BY <1>7 DEF AbortList, Finite
  <1>8. CASE UNCHANGED indexVars
    BY <1>8 DEF indexVars, Finite
  <1> QED
    BY <1>3, <1>4, <1>5, <1>6, <1>7, <1>8 DEF IndexNext

\* The pages of a list, of any size and of any number of entries, hold every entry that
\* its selectors match once and no other, in order if their values have one, whatever
\* order the hash map has the entries in, unless its sort may panic.
THEOREM PagesAlwaysCoverTheList == IndexSpec => []PagesCoverTheList
  <1>1. IndexInit => IndexInv /\ Finite
    BY IndexStart, FiniteStart
  <1>2. IndexInv /\ Finite /\ [IndexNext]_indexVars => (IndexInv /\ Finite)'
    BY IndexStep, FiniteStep
  <1>3. IndexInv /\ Finite => PagesCoverTheList
    BY PagesCover DEF IndexInv
  <1> QED
    BY <1>1, <1>2, <1>3, PTL DEF IndexSpec
=============================================================================
