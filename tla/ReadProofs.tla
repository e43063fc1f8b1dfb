----------------------------- MODULE ReadProofs -----------------------------
(***************************************************************************)
(* Proofs about the read paths.  First the algorithms of Ranges: whatever  *)
(* the number and the lengths of the blocks, they cut the same bytes out.  *)
(* Then Reads: what the queries of a read find while others commit, and    *)
(* what a handle still knows of its file after any commits.                *)
(***************************************************************************)
EXTENDS Reads, MCRanges, TableProofs


-----------------------------------------------------------------------------
(* Sequences and their slices *)

LEMMA Smallest ==
  ASSUME NEW S, S \subseteq Nat, S # {}
  PROVE  Min(S) \in S /\ \A i \in S : Min(S) <= i
  <1> DEFINE Beyond == {n \in Nat : \A i \in S : i > n}
  <1>1. \E x \in S : \A y \in S : x <= y
    <2>1. SUFFICES ASSUME ~\E x \in S : \A y \in S : x <= y
                   PROVE  FALSE
      OBVIOUS
    <2>2. 0 \in Beyond
      <3>1. \A i \in S : i # 0
        BY <2>1
      <3> QED BY <3>1
    <2>3. ASSUME NEW n \in Nat, n \in Beyond
          PROVE  n + 1 \in Beyond
      <3>1. \A i \in S : i >= n + 1
        BY <2>3
      <3>2. n + 1 \notin S
        BY <2>1, <3>1
      <3> QED BY <3>1, <3>2
    <2>4. PICK m \in S : m \in Nat
      OBVIOUS
    <2>5. m \in Beyond => m > m
      BY <2>4
    <2> HIDE DEF Beyond
    <2>6. \A n \in Nat : n \in Beyond
      BY <2>2, <2>3, NumbersInductively
    <2> QED BY <2>4, <2>5, <2>6
  <1> QED BY <1>1 DEF Min

LEMMA Bounds ==
  ASSUME NEW i \in Int, NEW j \in Int
  PROVE  /\ Smaller(i, j) \in {i, j} /\ Smaller(i, j) <= i /\ Smaller(i, j) <= j
         /\ Larger(i, j) \in {i, j} /\ Larger(i, j) >= i /\ Larger(i, j) >= j
BY DEF Smaller, Larger

LEMMA Empties ==
  ASSUME NEW a, NEW s \in Nat, NEW e \in Nat, e <= s
  PROVE  Slice(a, s, e) = <<>>
BY DEF Slice

(* t is what a has from position s on, up to k. *)
CutOf(t, X, a, s, k) ==
  /\ t \in Seq(X)
  /\ k <= s => t = <<>>
  /\ s < k => Len(t) = k - s /\ \A i \in 1..(k - s) : t[i] = a[i + s]

LEMMA Cuts ==
  ASSUME NEW X, NEW a \in Seq(X), NEW s \in Nat, NEW k \in Nat, k <= Len(a)
  PROVE  CutOf(SubSeq(a, s + 1, k), X, a, s, k)
  <1> DEFINE t == SubSeq(a, s + 1, k)
  <1>1. t \in Seq(X) /\ (k <= s => t = <<>>)
    OBVIOUS
  <1>2. s < k => Len(t) = k - s /\ \A i \in 1..(k - s) : t[i] = a[i + s]
    OBVIOUS
  <1> HIDE DEF t
  <1> QED BY <1>1, <1>2 DEF t, CutOf

LEMMA Slices ==
  ASSUME NEW X, NEW a \in Seq(X), NEW s \in Nat, NEW e \in Nat, s < e,
         NEW k \in Nat, k = Smaller(e, Len(a))
  PROVE  CutOf(Slice(a, s, e), X, a, s, k)
  <1>1. ~(s < 0 \/ e <= s)
    OBVIOUS
  <1>2. Slice(a, s, e) = SubSeq(a, s + 1, k)
    BY <1>1, Zenon DEF Slice
  <1>3. k <= Len(a)
    BY Bounds
  <1> QED BY <1>2, <1>3, Cuts

LEMMA Stops ==
  ASSUME NEW X, NEW a \in Seq(X), NEW e \in Nat
  PROVE  \E k \in Nat : k = Smaller(e, Len(a)) /\ k <= e /\ k <= Len(a) /\ k \in {e, Len(a)}
  <1>1. Smaller(e, Len(a)) \in Nat
    BY DEF Smaller
  <1> QED BY <1>1, Bounds

LEMMA SliceWithin ==
  ASSUME NEW X, NEW a \in Seq(X), NEW b \in Seq(X), NEW s \in Nat, NEW e \in Nat,
         Len(a) <= Len(b), \A i \in 1..Len(a) : b[i] = a[i], e <= Len(a) \/ Len(a) = Len(b)
  PROVE  Slice(a, s, e) = Slice(b, s, e)
  <1>1. CASE e <= s
    BY <1>1, Empties
  <1>2. CASE s < e
    <2>1. PICK k \in Nat : k = Smaller(e, Len(a)) /\ k <= Len(a)
      BY Stops
    <2>2. k = Smaller(e, Len(b))
      <3>1. PICK j \in Nat : j = Smaller(e, Len(b)) /\ j <= e /\ j <= Len(b) /\ j \in {e, Len(b)}
        BY Stops
      <3>2. k <= e /\ k \in {e, Len(a)}
        BY <2>1, Bounds
      <3> QED BY <2>1, <3>1, <3>2
    <2> DEFINE t == Slice(a, s, e)
               u == Slice(b, s, e)
    <2>3. CutOf(t, X, a, s, k) /\ CutOf(u, X, b, s, k)
      BY <1>2, <2>1, <2>2, Slices
    <2>4. \A i \in 1..(k - s) : i + s \in 1..Len(a)
      BY <2>1
    <2> HIDE DEF t, u
    <2>5. t = u
      <3>1. CASE k <= s
        BY <2>3, <3>1 DEF CutOf
      <3>2. CASE s < k
        <4>1. /\ t \in Seq(X) /\ Len(t) = k - s /\ \A i \in 1..(k - s) : t[i] = a[i + s]
              /\ u \in Seq(X) /\ Len(u) = k - s /\ \A i \in 1..(k - s) : u[i] = b[i + s]
          BY <2>3, <3>2 DEF CutOf
        <4>2. \A i \in 1..(k - s) : t[i] = u[i]
          BY <2>4, <4>1
        <4> QED BY <4>1, <4>2
      <3> QED BY <3>1, <3>2
    <2> QED BY <2>5 DEF t, u
  <1> QED BY <1>1, <1>2

LEMMA SliceBefore ==
  ASSUME NEW X, NEW a \in Seq(X), NEW s \in Nat, NEW e \in Nat, Len(a) <= s
  PROVE  Slice(a, s, e) = <<>>
  <1>1. CASE e <= s
    BY <1>1, Empties
  <1>2. CASE s < e
    <2>1. PICK k \in Nat : k = Smaller(e, Len(a)) /\ k <= Len(a)
      BY Stops
    <2>2. CutOf(Slice(a, s, e), X, a, s, k)
      BY <1>2, <2>1, Slices
    <2> QED BY <2>1, <2>2 DEF CutOf
  <1> QED BY <1>1, <1>2

(* b is a with x behind it. *)
Joins(b, X, a, x) ==
  /\ b \in Seq(X) /\ Len(b) = Len(a) + Len(x)
  /\ \A i \in 1..Len(a) : b[i] = a[i]
  /\ \A i \in 1..Len(x) : b[i + Len(a)] = x[i]

LEMMA Joined ==
  ASSUME NEW X, NEW a \in Seq(X), NEW x \in Seq(X)
  PROVE  Joins(a \o x, X, a, x)
  <1> DEFINE b == a \o x
  <1>1. /\ b \in Seq(X) /\ Len(b) = Len(a) + Len(x)
        /\ \A i \in 1..(Len(a) + Len(x)) : b[i] = IF i <= Len(a) THEN a[i] ELSE x[i - Len(a)]
    BY ConcatProperties, Zenon
  <1> HIDE DEF b
  <1>2. \A i \in 1..Len(a) : i \in 1..(Len(a) + Len(x)) /\ i <= Len(a)
    OBVIOUS
  <1>3. \A i \in 1..Len(x) : /\ i + Len(a) \in 1..(Len(a) + Len(x)) /\ ~(i + Len(a) <= Len(a))
                             /\ (i + Len(a)) - Len(a) = i
    OBVIOUS
  <1>4. /\ \A i \in 1..Len(a) : b[i] = a[i]
        /\ \A i \in 1..Len(x) : b[i + Len(a)] = x[i]
    BY <1>1, <1>2, <1>3
  <1> QED BY <1>1, <1>4 DEF b, Joins

LEMMA JoinIs ==
  ASSUME NEW X, NEW t \in Seq(X), NEW y \in Seq(X), NEW u, Joins(u, X, t, y)
  PROVE  u = t \o y
  <1> DEFINE v == t \o y
  <1>1. Joins(v, X, t, y)
    BY Joined
  <1> HIDE DEF v
  <1>2. ASSUME NEW i \in 1..Len(u)
        PROVE  u[i] = v[i]
    <2>1. CASE i <= Len(t)
      BY <1>1, <2>1 DEF Joins
    <2>2. CASE i > Len(t)
      <3>1. PICK j \in 1..Len(y) : j + Len(t) = i
        <4>1. i - Len(t) \in 1..Len(y) /\ (i - Len(t)) + Len(t) = i
          BY <2>2 DEF Joins
        <4> QED BY <4>1
      <3> QED BY <1>1, <3>1 DEF Joins
    <2>3. i \in Nat /\ Len(t) \in Nat
      BY DEF Joins
    <2> QED BY <2>1, <2>2, <2>3
  <1>3. u \in Seq(X) /\ v \in Seq(X) /\ Len(u) = Len(v)
    BY <1>1 DEF Joins
  <1> QED BY <1>2, <1>3 DEF v

(* Where a block of lx bytes at la and a range that reaches it meet. *)
Meet(s, e, la, lx, lo, hi, k) ==
  /\ lo \in Nat /\ hi \in Nat /\ k \in Nat
  /\ lo = Larger(0, s - la) /\ hi = Smaller(lx, e - la) /\ k = Smaller(e, la + lx)
  /\ lo <= hi /\ hi <= lx /\ k = la + hi /\ s < k /\ Smaller(e, la) = la
  /\ la <= s => la + lo = s
  /\ s < la => lo = 0

LEMMA Meets ==
  ASSUME NEW s \in Nat, NEW e \in Nat, NEW la \in Nat, NEW lx \in Nat,
         s < la + lx, la < e, s < e
  PROVE  \E lo, hi, k \in Nat : Meet(s, e, la, lx, lo, hi, k)
  <1>1. /\ Larger(0, s - la) = IF 0 > s - la THEN 0 ELSE s - la
        /\ Smaller(lx, e - la) = IF lx < e - la THEN lx ELSE e - la
        /\ Smaller(e, la + lx) = IF e < la + lx THEN e ELSE la + lx
        /\ Smaller(e, la) = IF e < la THEN e ELSE la
    BY Zenon DEF Larger, Smaller
  <1> DEFINE lo == IF 0 > s - la THEN 0 ELSE s - la
             hi == IF lx < e - la THEN lx ELSE e - la
             k  == IF e < la + lx THEN e ELSE la + lx
  <1>2. /\ lo \in Nat /\ hi \in Nat /\ k \in Nat
        /\ lo <= hi /\ hi <= lx /\ k = la + hi /\ s < k /\ (IF e < la THEN e ELSE la) = la
        /\ (la <= s => la + lo = s) /\ (s < la => lo = 0)
    OBVIOUS
  <1>3. Meet(s, e, la, lx, lo, hi, k)
    BY <1>1, <1>2, Zenon DEF Meet
  <1> HIDE DEF lo, hi, k
  <1> QED BY <1>2, <1>3

(* The slice of a goes on in x, from lo up to hi. *)
GoesOn(a, x, s, e, lo, hi, k) ==
  /\ Slice(a \o x, s, e) = Slice(a, s, e) \o SubSeq(x, lo + 1, hi)
  /\ Len(Slice(a \o x, s, e)) = Len(Slice(a, s, e)) + hi - lo
  /\ Len(Slice(a \o x, s, e)) = k - s

LEMMA SliceGoesOn ==
  ASSUME NEW X, NEW a \in Seq(X), NEW x \in Seq(X), NEW s \in Nat, NEW e \in Nat, s < e,
         NEW lo, NEW hi, NEW k, Meet(s, e, Len(a), Len(x), lo, hi, k)
  PROVE  GoesOn(a, x, s, e, lo, hi, k)
  <1>1. PICK b : b = a \o x
    OBVIOUS
  <1>2. Joins(b, X, a, x)
    BY <1>1, Joined
  <1>3. PICK la \in Nat : la = Len(a)
    OBVIOUS
  <1>5. Meet(s, e, la, Len(x), lo, hi, k) /\ lo \in Nat /\ hi \in Nat /\ k \in Nat
    BY <1>3 DEF Meet
  <1>6. CutOf(Slice(b, s, e), X, b, s, k)
    <2>1. b \in Seq(X) /\ k = Smaller(e, Len(b))
      BY <1>2, <1>3, <1>5 DEF Joins, Meet
    <2> QED BY <1>5, <2>1, Slices
  <1>7. CutOf(Slice(a, s, e), X, a, s, la)
    <2>1. la = Smaller(e, Len(a))
      BY <1>3, <1>5 DEF Meet
    <2> QED BY <2>1, Slices
  <1>8. CutOf(SubSeq(x, lo + 1, hi), X, x, lo, hi)
    <2>1. hi <= Len(x)
      BY <1>5 DEF Meet
    <2> QED BY <1>5, <2>1, Cuts
  <1>9. PICK t, u, y : /\ t = Slice(a, s, e) /\ u = Slice(b, s, e) /\ y = SubSeq(x, lo + 1, hi)
                       /\ CutOf(t, X, a, s, la) /\ CutOf(u, X, b, s, k) /\ CutOf(y, X, x, lo, hi)
    BY <1>6, <1>7, <1>8
  <1>10. u = t \o y /\ Len(u) = Len(t) + hi - lo
    <2>0. la \in Nat /\ lo \in Nat /\ hi \in Nat /\ k \in Nat
      BY <1>5
    <2>1. /\ Len(u) = k - s /\ \A i \in 1..(k - s) : u[i] = b[i + s]
          /\ u \in Seq(X) /\ t \in Seq(X) /\ y \in Seq(X)
      BY <2>0, <1>5, <1>9 DEF CutOf, Meet
    <2>2. \A i \in 1..Len(x) : b[i + la] = x[i]
      BY <1>2, <1>3 DEF Joins
    <2>3. Len(y) = hi - lo /\ \A i \in 1..(hi - lo) : y[i] = x[i + lo]
      <3>1. CASE hi = lo
        <4>1. hi <= lo /\ 1..(hi - lo) = {} /\ hi - lo = 0
          BY <2>0, <3>1
        <4>2. y = <<>>
          BY <1>9, <4>1 DEF CutOf
        <4> QED BY <4>1, <4>2
      <3>2. CASE lo < hi
        BY <1>9, <3>2 DEF CutOf
      <3>3. lo <= hi
        BY <1>5 DEF Meet
      <3> QED BY <2>0, <3>1, <3>2, <3>3
    <2>4. k = la + hi /\ s < k /\ lo <= hi /\ hi <= Len(x)
      BY <1>5 DEF Meet
    <2>5. CASE la <= s
      <3>1. la + lo = s /\ k - s = hi - lo /\ t = <<>>
        BY <2>0, <2>4, <2>5, <1>5, <1>9 DEF Meet, CutOf
      <3>2. ASSUME NEW i \in 1..(hi - lo)
            PROVE  u[i] = y[i]
        <4>1. i + lo \in 1..Len(x) /\ (i + lo) + la = i + s
          BY <2>0, <2>4, <3>1
        <4>2. b[(i + lo) + la] = x[i + lo]
          BY <2>0, <2>2, <4>1
        <4>3. u[i] = b[i + s]
          BY <2>0, <2>1, <3>1
        <4>4. y[i] = x[i + lo]
          BY <2>0, <2>3
        <4> QED BY <2>0, <4>1, <4>2, <4>3, <4>4
      <3>3. u = y
        <4>1. PICK n \in Nat : n = hi - lo
          BY <2>0, <2>4
        <4>2. Len(u) = n /\ Len(y) = n
          BY <2>1, <2>3, <3>1, <4>1
        <4>3. \A i \in 1..n : u[i] = y[i]
          BY <3>2, <4>1
        <4> QED BY <2>1, <4>2, <4>3
      <3>4. t \o y = y /\ Len(t) = 0
        BY <2>0, <2>1, <3>1
      <3> QED BY <2>0, <2>1, <3>1, <3>3, <3>4
    <2>6. CASE s < la
      <3>1. lo = 0 /\ Len(t) = la - s /\ \A i \in 1..(la - s) : t[i] = a[i + s]
        BY <2>0, <2>6, <1>5, <1>9 DEF Meet, CutOf
      <3>2. \A i \in 1..Len(t) : u[i] = t[i]
        <4>1. ASSUME NEW i \in 1..(la - s)
              PROVE  u[i] = t[i]
          <5>1. i + s \in 1..Len(a) /\ i \in 1..(k - s)
            <6>1. i + s \in 1..la /\ i \in 1..(k - s)
              BY <2>0, <2>4
            <6> QED BY <1>3, <6>1
          <5>2. b[i + s] = a[i + s]
            BY <1>2, <5>1 DEF Joins
          <5> QED BY <2>0, <2>1, <3>1, <5>1, <5>2
        <4> QED BY <2>0, <3>1, <4>1
      <3>3. \A i \in 1..Len(y) : u[i + Len(t)] = y[i]
        <4>1. ASSUME NEW i \in 1..(hi - lo)
              PROVE  u[i + (la - s)] = y[i]
          <5>1. /\ i \in 1..Len(x) /\ i + (la - s) \in 1..(k - s) /\ (i + (la - s)) + s = i + la
                /\ i + lo = i
            <6>1. i \in Nat /\ 1 <= i /\ i <= hi /\ lo = 0
              BY <2>0, <3>1
            <6>2. PICK lx \in Nat : lx = Len(x)
              BY <2>0
            <6>3. i <= lx /\ k = la + hi
              BY <2>0, <2>4, <6>1, <6>2
            <6> QED BY <2>0, <2>6, <6>1, <6>2, <6>3
          <5>2. u[i + (la - s)] = b[(i + (la - s)) + s]
            BY <2>0, <2>1, <5>1
          <5>3. y[i] = x[i] /\ b[i + la] = x[i]
            BY <2>0, <2>2, <2>3, <5>1
          <5> QED BY <2>0, <5>1, <5>2, <5>3
        <4> QED BY <2>0, <2>3, <3>1, <4>1
      <3>4. Len(u) = Len(t) + Len(y) /\ Len(y) = hi - lo
        BY <2>0, <2>1, <2>3, <2>4, <2>6, <3>1
      <3>5. u = t \o y
        <4>1. Joins(u, X, t, y)
          BY <2>1, <3>2, <3>3, <3>4 DEF Joins
        <4> QED BY <2>1, <4>1, JoinIs
      <3> QED BY <2>0, <2>3, <3>1, <3>4, <3>5
    <2> QED BY <2>0, <2>5, <2>6
  <1>11. Len(u) = k - s /\ t \in Seq(X)
    BY <1>5, <1>9 DEF CutOf, Meet
  <1> QED BY <1>1, <1>9, <1>10, <1>11 DEF GoesOn

-----------------------------------------------------------------------------
(* The bytes of the first blocks *)

UpTo(s, i) == FlattenSeq(SubSeq(s, 1, i))

LEMMA UpToType ==
  ASSUME NEW X, NEW s \in Seq(Seq(X)), NEW i \in Nat, i <= Len(s)
  PROVE  UpTo(s, i) \in Seq(X)
  <1>1. SubSeq(s, 1, i) \in Seq(Seq(X))
    OBVIOUS
  <1> QED BY <1>1, FlattenType DEF UpTo

LEMMA UpToEnds ==
  ASSUME NEW X, NEW s \in Seq(Seq(X))
  PROVE  /\ UpTo(s, 0) = <<>>
         /\ UpTo(s, Len(s)) = FlattenSeq(s)
  <1>1. SubSeq(s, 1, 0) = <<>> /\ SubSeq(s, 1, Len(s)) = s
    OBVIOUS
  <1> QED BY <1>1, FlattenEmpty DEF UpTo

LEMMA UpToJoins ==
  ASSUME NEW X, NEW s \in Seq(Seq(X)), NEW i \in Nat, NEW j \in Nat, i <= j, j <= Len(s)
  PROVE  /\ UpTo(s, j) = UpTo(s, i) \o FlattenSeq(SubSeq(s, i + 1, j))
         /\ FlattenSeq(SubSeq(s, i + 1, j)) \in Seq(X)
  <1>1. SubSeq(s, 1, i) \in Seq(Seq(X)) /\ SubSeq(s, i + 1, j) \in Seq(Seq(X))
    OBVIOUS
  <1>2. SubSeq(s, 1, i) \o SubSeq(s, i + 1, j) = SubSeq(s, 1, j)
    <2>1. 1 \in 1..Len(s) + 1 /\ i \in 1 - 1..Len(s) /\ j \in i..Len(s)
      OBVIOUS
    <2> QED BY <2>1, ConcatAdjacentSubSeq
  <1> QED BY <1>1, <1>2, FlattenConcat, FlattenType DEF UpTo

LEMMA UpToNext ==
  ASSUME NEW X, NEW s \in Seq(Seq(X)), NEW i \in Nat, i < Len(s)
  PROVE  /\ UpTo(s, i + 1) = UpTo(s, i) \o s[i + 1]
         /\ s[i + 1] \in Seq(X)
         /\ Len(UpTo(s, i + 1)) = Len(UpTo(s, i)) + Len(s[i + 1])
  <1> DEFINE t == SubSeq(s, 1, i)
             x == s[i + 1]
  <1>1. t \in Seq(Seq(X)) /\ x \in Seq(X)
    OBVIOUS
  <1>2. SubSeq(s, 1, i + 1) = Append(t, x)
    OBVIOUS
  <1> HIDE DEF t, x
  <1>3. FlattenSeq(Append(t, x)) = FlattenSeq(t) \o x /\ FlattenSeq(t) \in Seq(X)
    BY <1>1, FlattenAppend, FlattenType
  <1>4. Len(FlattenSeq(t) \o x) = Len(FlattenSeq(t)) + Len(x)
    BY <1>1, <1>3
  <1> QED BY <1>1, <1>2, <1>3, <1>4 DEF UpTo, t, x

LEMMA UpToWithin ==
  ASSUME NEW X, NEW s \in Seq(Seq(X)), NEW i \in Nat, NEW j \in Nat, i <= j, j <= Len(s)
  PROVE  /\ UpTo(s, i) \in Seq(X) /\ UpTo(s, j) \in Seq(X)
         /\ Len(UpTo(s, i)) <= Len(UpTo(s, j))
         /\ \A p \in 1..Len(UpTo(s, i)) : UpTo(s, j)[p] = UpTo(s, i)[p]
         /\ Joins(UpTo(s, j), X, UpTo(s, i), FlattenSeq(SubSeq(s, i + 1, j)))
  <1> DEFINE x == FlattenSeq(SubSeq(s, i + 1, j))
  <1>1. UpTo(s, j) = UpTo(s, i) \o x /\ x \in Seq(X)
    BY UpToJoins
  <1> HIDE DEF x
  <1>2. UpTo(s, i) \in Seq(X) /\ UpTo(s, j) \in Seq(X)
    BY UpToType
  <1>3. Joins(UpTo(s, j), X, UpTo(s, i), x)
    BY <1>1, <1>2, Joined
  <1>4. Len(UpTo(s, i)) \in Nat /\ Len(x) \in Nat
    BY <1>1, <1>2
  <1>5. /\ Len(UpTo(s, j)) = Len(UpTo(s, i)) + Len(x)
        /\ \A p \in 1..Len(UpTo(s, i)) : UpTo(s, j)[p] = UpTo(s, i)[p]
    BY <1>3 DEF Joins
  <1>6. Len(UpTo(s, i)) <= Len(UpTo(s, j))
    BY <1>4, <1>5
  <1> QED BY <1>2, <1>3, <1>5, <1>6 DEF x

-----------------------------------------------------------------------------
(* The walk over the blocks *)

StartOfWalk(s, e) ==
  [offset |-> 0, at |-> 0, out |-> <<>>, seen |-> {}, done |-> s < 0 \/ e <= s]

WalksTo(n, w, parts, s, e) ==
  \A i \in 0..n : w[i] = IF i = 0 THEN StartOfWalk(s, e) ELSE Visit(s, e, w[i - 1], parts[i])

LEMMA WalksUpTo ==
  ASSUME NEW parts, NEW s, NEW e
  PROVE  \A n \in Nat : \E w : DOMAIN w = 0..n /\ w = [i \in 0..n |-> w[i]]
                               /\ WalksTo(n, w, parts, s, e)
  <1> DEFINE S == {n \in Nat : \E w : DOMAIN w = 0..n /\ w = [i \in 0..n |-> w[i]]
                                      /\ WalksTo(n, w, parts, s, e)}
  <1>1. 0 \in S
    <2> DEFINE w == [i \in 0..0 |-> StartOfWalk(s, e)]
    <2>1. DOMAIN w = 0..0 /\ w = [i \in 0..0 |-> w[i]] /\ WalksTo(0, w, parts, s, e)
      BY DEF WalksTo
    <2> HIDE DEF w
    <2> QED BY <2>1
  <1>2. ASSUME NEW n \in Nat, n \in S
        PROVE  n + 1 \in S
    <2>1. PICK w : DOMAIN w = 0..n /\ WalksTo(n, w, parts, s, e)
      BY <1>2
    <2> DEFINE v == [i \in 0..(n + 1) |-> IF i <= n THEN w[i]
                                          ELSE Visit(s, e, w[n], parts[n + 1])]
    <2>2. DOMAIN v = 0..(n + 1) /\ v = [i \in 0..(n + 1) |-> v[i]]
      OBVIOUS
    <2>3. \A i \in 0..n : v[i] = w[i]
      OBVIOUS
    <2>4. v[n + 1] = Visit(s, e, w[n], parts[n + 1])
      OBVIOUS
    <2> HIDE DEF v
    <2>5. ASSUME NEW i \in 0..(n + 1)
          PROVE  v[i] = IF i = 0 THEN StartOfWalk(s, e) ELSE Visit(s, e, v[i - 1], parts[i])
      <3>1. CASE i <= n
        <4>1. i \in 0..n /\ (i # 0 => i - 1 \in 0..n)
          BY <3>1
        <4> QED BY <2>1, <2>3, <4>1 DEF WalksTo
      <3>2. CASE i = n + 1
        <4>1. i # 0 /\ i - 1 = n /\ n \in 0..n
          BY <3>2
        <4> QED BY <2>3, <2>4, <3>2, <4>1
      <3> QED BY <3>1, <3>2
    <2>6. WalksTo(n + 1, v, parts, s, e)
      BY <2>5 DEF WalksTo
    <2> QED BY <2>2, <2>6
  <1> HIDE DEF S
  <1>3. \A n \in Nat : n \in S
    BY <1>1, <1>2, NumbersInductively
  <1> QED BY <1>3 DEF S

(* The function that Walk defines by recursion is there. *)
LEMMA WalkIs ==
  ASSUME NEW parts, Len(parts) \in Nat, NEW s, NEW e
  PROVE  \E w : WalksTo(Len(parts), w, parts, s, e) /\ Walk(parts, s, e) = w[Len(parts)]
  <1> DEFINE n == Len(parts)
             start == [offset |-> 0, at |-> 0, out |-> <<>>, seen |-> {}, done |-> s < 0 \/ e <= s]
             w == CHOOSE f : f = [i \in 0..Len(parts) |->
                                    IF i = 0 THEN start ELSE Visit(s, e, f[i - 1], parts[i])]
  <1>1. Walk(parts, s, e) = w[n]
    BY DEF Walk
  <1>2. PICK f : f = [i \in 0..Len(parts) |-> f[i]] /\ WalksTo(Len(parts), f, parts, s, e)
    BY WalksUpTo
  <1>3. f = [i \in 0..Len(parts) |-> IF i = 0 THEN start ELSE Visit(s, e, f[i - 1], parts[i])]
    <2>1. \A i \in 0..Len(parts) : f[i] = IF i = 0 THEN start ELSE Visit(s, e, f[i - 1], parts[i])
      BY <1>2 DEF WalksTo, StartOfWalk
    <2> HIDE DEF start
    <2> QED BY <1>2, <2>1
  <1>4. w = [i \in 0..Len(parts) |-> IF i = 0 THEN start ELSE Visit(s, e, w[i - 1], parts[i])]
    BY <1>3
  <1> HIDE DEF w
  <1>5. WalksTo(n, w, parts, s, e)
    <2>1. start = StartOfWalk(s, e)
      BY DEF StartOfWalk
    <2> HIDE DEF start
    <2> QED BY <1>4, <2>1 DEF WalksTo
  <1> QED BY <1>1, <1>5

WalkFields == {"offset", "at", "out", "seen", "done"}

(* What a round makes of w, case by case. *)
VisitMakes(s, e, w, b, v) ==
  /\ DOMAIN v = WalkFields
  /\ w.done => v = w
  /\ ~w.done /\ w.offset + Len(b) <= s =>
       /\ v.offset = w.offset + Len(b) /\ v.at = w.at + 1
       /\ v.out = w.out /\ v.seen = w.seen /\ v.done = w.done
  /\ ~w.done /\ ~(w.offset + Len(b) <= s) /\ ~(w.offset >= e) =>
       /\ v.offset = w.offset + Len(b) /\ v.at = w.at + 1
       /\ v.seen = w.seen \cup {w.at + 1}
       /\ v.out = w.out \o SubSeq(b, Larger(0, s - w.offset) + 1, Smaller(Len(b), e - w.offset))
       /\ v.done <=> Len(w.out) + Smaller(Len(b), e - w.offset) - Larger(0, s - w.offset) >= e - s

LEMMA Visits ==
  ASSUME NEW s, NEW e, NEW w, DOMAIN w = WalkFields, NEW b
  PROVE  VisitMakes(s, e, w, b, Visit(s, e, w, b))
  <1> PICK v : v = Visit(s, e, w, b)
    OBVIOUS
  <1> DEFINE from == Larger(0, s - w.offset)
             upto == Smaller(Len(b), e - w.offset)
             more == w.out \o SubSeq(b, from + 1, upto)
             ends == Len(w.out) + upto - from >= e - s
  <1>1. v = IF w.done THEN w
            ELSE IF w.offset + Len(b) <= s THEN [w EXCEPT !.offset = @ + Len(b), !.at = @ + 1]
            ELSE IF w.offset >= e THEN [w EXCEPT !.done = TRUE]
            ELSE [w EXCEPT !.out = more, !.seen = @ \cup {w.at + 1},
                           !.done = ends, !.offset = @ + Len(b), !.at = @ + 1]
    BY DEF Visit
  <1> HIDE DEF more, ends
  <1>2. /\ DOMAIN v = WalkFields
        /\ w.done => v = w
        /\ ~w.done /\ w.offset + Len(b) <= s =>
             /\ v.offset = w.offset + Len(b) /\ v.at = w.at + 1
             /\ v.out = w.out /\ v.seen = w.seen /\ v.done = w.done
    BY <1>1 DEF WalkFields
  <1>3. ~w.done /\ ~(w.offset + Len(b) <= s) /\ ~(w.offset >= e) =>
             /\ v.offset = w.offset + Len(b) /\ v.at = w.at + 1
             /\ v.seen = w.seen \cup {w.at + 1}
             /\ v.out = more
             /\ v.done = ends
    BY <1>1 DEF WalkFields
  <1> QED BY <1>2, <1>3 DEF VisitMakes, more, ends

(* Block j has bytes of the range [s, e), or would if it had bytes. *)
Reaches(parts, j, s, e) == Len(UpTo(parts, j)) > s /\ Len(UpTo(parts, j - 1)) < e

(* The walk before it visits block i + 1. *)
Walking(w, parts, s, e, i) ==
  /\ DOMAIN w = WalkFields
  /\ w.out = Slice(UpTo(parts, i), s, e)
  /\ w.seen = {j \in 1..i : Reaches(parts, j, s, e)}
  /\ w.done => e <= Len(UpTo(parts, i))
  /\ ~w.done => w.offset = Len(UpTo(parts, i)) /\ w.at = i /\ w.offset < e

LEMMA WalkGoesOn ==
  ASSUME NEW X, NEW parts \in Seq(Seq(X)), NEW s \in Nat, NEW e \in Nat, s < e,
         NEW i \in Nat, i < Len(parts), NEW w, Walking(w, parts, s, e, i)
  PROVE  Walking(Visit(s, e, w, parts[i + 1]), parts, s, e, i + 1)
  <1>0. /\ UpTo(parts, i + 1) = UpTo(parts, i) \o parts[i + 1]
        /\ parts[i + 1] \in Seq(X)
        /\ Len(UpTo(parts, i + 1)) = Len(UpTo(parts, i)) + Len(parts[i + 1])
        /\ UpTo(parts, i) \in Seq(X) /\ UpTo(parts, i + 1) \in Seq(X)
    <2>1. i <= Len(parts) /\ i + 1 <= Len(parts) /\ i + 1 \in Nat
      OBVIOUS
    <2>2. UpTo(parts, i) \in Seq(X) /\ UpTo(parts, i + 1) \in Seq(X)
      BY <2>1, UpToType
    <2> QED BY <2>2, UpToNext
  <1> DEFINE a == UpTo(parts, i)
             x == parts[i + 1]
             b == UpTo(parts, i + 1)
  <1>1. /\ a \in Seq(X) /\ x \in Seq(X) /\ b \in Seq(X) /\ b = a \o x
        /\ Len(b) = Len(a) + Len(x)
    BY <1>0
  <1>2. Len(a) \in Nat /\ Len(x) \in Nat /\ Len(b) \in Nat
    BY <1>1
  <1>4. {j \in 1..(i + 1) : Reaches(parts, j, s, e)}
          = {j \in 1..i : Reaches(parts, j, s, e)}
              \cup {j \in {i + 1} : Len(b) > s /\ Len(a) < e}
    <2>1. Reaches(parts, i + 1, s, e) <=> Len(b) > s /\ Len(a) < e
      <3>1. (i + 1) - 1 = i
        OBVIOUS
      <3> QED BY <3>1 DEF Reaches
    <2> HIDE DEF a, b
    <2>2. \A j : j \in 1..(i + 1) <=> j \in 1..i \/ j = i + 1
      OBVIOUS
    <2> QED BY <2>1, <2>2
  <1>5. /\ DOMAIN w = WalkFields
        /\ w.out = Slice(a, s, e)
        /\ w.seen = {j \in 1..i : Reaches(parts, j, s, e)}
        /\ w.done => e <= Len(a)
        /\ ~w.done => w.offset = Len(a) /\ w.at = i /\ Len(a) < e
    BY DEF Walking
  <1>3. PICK v : v = Visit(s, e, w, x) /\ VisitMakes(s, e, w, x, v)
    BY <1>5, Visits
  <1> DEFINE seen == {j \in 1..i : Reaches(parts, j, s, e)}
             next == {j \in 1..(i + 1) : Reaches(parts, j, s, e)}
  <1> SUFFICES /\ DOMAIN v = WalkFields
               /\ v.out = Slice(b, s, e)
               /\ v.seen = next
               /\ v.done => e <= Len(b)
               /\ ~v.done => v.offset = Len(b) /\ v.at = i + 1 /\ Len(b) < e
    BY <1>3 DEF Walking
  <1> HIDE DEF a, x, b, seen, next
  <1>6. CASE w.done
    <2>1. v = w
      BY <1>3, <1>6 DEF VisitMakes
    <2>2. e <= Len(a) /\ Len(a) <= Len(b)
      BY <1>1, <1>2, <1>5, <1>6
    <2>3. Slice(a, s, e) = Slice(b, s, e)
      <3>1. Joins(b, X, a, x)
        BY <1>1, Joined
      <3>2. \A p \in 1..Len(a) : b[p] = a[p]
        BY <3>1 DEF Joins
      <3> QED BY <1>1, <2>2, <3>2, SliceWithin
    <2>4. next = seen
      BY <1>2, <1>4, <2>2 DEF next, seen
    <2> QED BY <1>2, <1>5, <1>6, <2>1, <2>2, <2>3, <2>4 DEF seen
  <1>7. CASE ~w.done /\ Len(b) <= s
    <2>1. w.offset + Len(x) <= s /\ w.offset = Len(a)
      BY <1>1, <1>5, <1>7
    <2>2. /\ DOMAIN v = WalkFields
          /\ v.offset = w.offset + Len(x) /\ v.at = w.at + 1
          /\ v.out = w.out /\ v.seen = w.seen /\ v.done = w.done
      BY <1>3, <1>7, <2>1 DEF VisitMakes
    <2>3. Slice(a, s, e) = <<>> /\ Slice(b, s, e) = <<>>
      <3>1. Len(a) <= s
        BY <1>1, <1>2, <1>7
      <3> QED BY <1>1, <1>7, <3>1, SliceBefore
    <2>4. next = seen
      BY <1>2, <1>4, <1>7 DEF next, seen
    <2>5. Len(b) < e
      BY <1>2, <1>7
    <2> QED BY <1>1, <1>5, <1>7, <2>1, <2>2, <2>3, <2>4, <2>5 DEF seen
  <1>8. CASE ~w.done /\ s < Len(b)
    <2>1. w.offset = Len(a) /\ w.at = i /\ Len(a) < e
      BY <1>5, <1>8
    <2>2. PICK lo, hi, k : Meet(s, e, Len(a), Len(x), lo, hi, k)
      <3>1. s < Len(a) + Len(x)
        BY <1>1, <1>8
      <3> QED BY <1>2, <2>1, <3>1, Meets
    <2>3. /\ lo = Larger(0, s - w.offset) /\ hi = Smaller(Len(x), e - w.offset)
          /\ k = Smaller(e, Len(b)) /\ lo \in Nat /\ hi \in Nat /\ k \in Nat
      BY <1>1, <2>1, <2>2 DEF Meet
    <2>4. /\ DOMAIN v = WalkFields
          /\ v.offset = w.offset + Len(x) /\ v.at = w.at + 1
          /\ v.seen = w.seen \cup {w.at + 1}
          /\ v.out = w.out \o SubSeq(x, lo + 1, hi)
          /\ v.done <=> Len(w.out) + hi - lo >= e - s
      <3>1. ~(w.offset + Len(x) <= s) /\ ~(w.offset >= e)
        BY <1>1, <1>2, <1>8, <2>1
      <3> QED BY <1>3, <1>8, <2>3, <3>1 DEF VisitMakes
    <2>5. /\ Slice(b, s, e) = Slice(a, s, e) \o SubSeq(x, lo + 1, hi)
          /\ Len(Slice(b, s, e)) = Len(Slice(a, s, e)) + hi - lo
          /\ Len(Slice(b, s, e)) = k - s
      <3>1. a \in Seq(X) /\ x \in Seq(X)
        BY <1>1
      <3>2. GoesOn(a, x, s, e, lo, hi, k)
        BY <2>2, <3>1, SliceGoesOn
      <3> QED BY <1>1, <3>2 DEF GoesOn
    <2>6. v.done <=> k - s >= e - s
      BY <1>5, <2>4, <2>5
    <2>7. v.done <=> e <= Len(b)
      <3>1. k <= Len(b) /\ k <= e /\ k \in {e, Len(b)}
        BY <1>2, <2>3, Bounds
      <3>2. k >= e <=> e <= Len(b)
        BY <1>2, <2>3, <3>1
      <3> QED BY <2>3, <2>6, <3>2
    <2>8. next = seen \cup {i + 1}
      BY <1>4, <1>8, <2>1 DEF next, seen
    <2>9. v.seen = next /\ v.out = Slice(b, s, e)
      BY <1>5, <2>1, <2>4, <2>5, <2>8 DEF seen
    <2>10. v.offset = Len(b) /\ v.at = i + 1
      BY <1>1, <2>1, <2>4
    <2>11. ~v.done => Len(b) < e
      BY <1>2, <2>7
    <2> QED BY <2>4, <2>7, <2>9, <2>10, <2>11
  <1> QED BY <1>2, <1>6, <1>7, <1>8

(* The walk gives the bytes of the range, and sees the blocks that reach it. *)
LEMMA WalkGives ==
  ASSUME NEW X, NEW parts \in Seq(Seq(X)), NEW s \in Nat, NEW e \in Nat
  PROVE  /\ WalkedRange(parts, s, e) = Slice(FlattenSeq(parts), s, e)
         /\ Walked(parts, s, e) = {j \in 1..Len(parts) : s < e /\ Reaches(parts, j, s, e)}
  <1>0. Len(parts) \in Nat
    OBVIOUS
  <1>1. PICK w : WalksTo(Len(parts), w, parts, s, e) /\ Walk(parts, s, e) = w[Len(parts)]
    BY <1>0, WalkIs
  <1>2. /\ w[0] = StartOfWalk(s, e)
        /\ \A i \in Nat : i < Len(parts) => w[i + 1] = Visit(s, e, w[i], parts[i + 1])
    <2>1. w[0] = StartOfWalk(s, e)
      <3>1. 0 \in 0..Len(parts)
        OBVIOUS
      <3> QED BY <1>1, <3>1 DEF WalksTo
    <2>2. ASSUME NEW i \in Nat, i < Len(parts)
          PROVE  w[i + 1] = Visit(s, e, w[i], parts[i + 1])
      <3>1. i + 1 \in 0..Len(parts) /\ i + 1 # 0 /\ (i + 1) - 1 = i
        BY <2>2
      <3>2. w[i + 1] = Visit(s, e, w[(i + 1) - 1], parts[i + 1])
        BY <1>1, <3>1 DEF WalksTo
      <3> QED BY <3>1, <3>2
    <2> QED BY <2>1, <2>2
  <1>3. CASE e <= s
    <2> DEFINE S == {i \in Nat : i <= Len(parts) => w[i] = StartOfWalk(s, e)}
    <2>1. 0 \in S
      BY <1>2
    <2>2. ASSUME NEW i \in Nat, i \in S
          PROVE  i + 1 \in S
      <3>1. SUFFICES ASSUME i + 1 <= Len(parts)
                     PROVE  w[i + 1] = StartOfWalk(s, e)
        OBVIOUS
      <3>2. w[i] = StartOfWalk(s, e) /\ w[i + 1] = Visit(s, e, w[i], parts[i + 1])
        BY <1>2, <2>2, <3>1
      <3>3. StartOfWalk(s, e).done
        BY <1>3 DEF StartOfWalk
      <3>4. DOMAIN StartOfWalk(s, e) = WalkFields
        BY DEF StartOfWalk, WalkFields
      <3>5. VisitMakes(s, e, w[i], parts[i + 1], w[i + 1])
        BY <3>2, <3>4, Visits
      <3> QED BY <3>2, <3>3, <3>5 DEF VisitMakes
    <2> HIDE DEF S
    <2>3. \A i \in Nat : i \in S
      BY <2>1, <2>2, NumbersInductively
    <2>4. Walk(parts, s, e) = StartOfWalk(s, e)
      BY <1>0, <1>1, <2>3 DEF S
    <2>5. StartOfWalk(s, e).out = <<>> /\ StartOfWalk(s, e).seen = {}
      BY DEF StartOfWalk
    <2>6. Slice(FlattenSeq(parts), s, e) = <<>>
      BY <1>3, Empties
    <2> QED BY <1>3, <2>4, <2>5, <2>6 DEF WalkedRange, Walked
  <1>4. CASE s < e
    <2> DEFINE S == {i \in Nat : i <= Len(parts) => Walking(w[i], parts, s, e, i)}
    <2>1. 0 \in S
      <3>1. /\ DOMAIN StartOfWalk(s, e) = WalkFields
            /\ StartOfWalk(s, e).out = <<>> /\ StartOfWalk(s, e).seen = {}
            /\ StartOfWalk(s, e).offset = 0 /\ StartOfWalk(s, e).at = 0
            /\ StartOfWalk(s, e).done = (s < 0 \/ e <= s)
        BY DEF StartOfWalk, WalkFields
      <3>0. ~StartOfWalk(s, e).done
        <4>1. (s < 0 \/ e <= s) = FALSE
          BY <1>4
        <4> QED BY <3>1, <4>1
      <3>2. UpTo(parts, 0) = <<>> /\ Len(UpTo(parts, 0)) = 0
        BY UpToEnds
      <3>3. Slice(UpTo(parts, 0), s, e) = <<>>
        <4>1. <<>> \in Seq(X) /\ Len(<<>>) <= s
          OBVIOUS
        <4>2. Slice(<<>>, s, e) = <<>>
          BY <4>1, SliceBefore
        <4> QED BY <3>2, <4>2
      <3>4. Walking(StartOfWalk(s, e), parts, s, e, 0)
        BY <1>4, <3>0, <3>1, <3>2, <3>3 DEF Walking
      <3> QED BY <1>2, <3>4
    <2>2. ASSUME NEW i \in Nat, i \in S
          PROVE  i + 1 \in S
      <3>1. SUFFICES ASSUME i + 1 <= Len(parts)
                     PROVE  Walking(w[i + 1], parts, s, e, i + 1)
        OBVIOUS
      <3>2. i < Len(parts) /\ Walking(w[i], parts, s, e, i)
        BY <2>2, <3>1
      <3>3. w[i + 1] = Visit(s, e, w[i], parts[i + 1])
        BY <1>2, <3>2
      <3> QED BY <1>4, <3>2, <3>3, WalkGoesOn
    <2> HIDE DEF S
    <2>3. \A i \in Nat : i \in S
      BY <2>1, <2>2, NumbersInductively
    <2>4. Walking(Walk(parts, s, e), parts, s, e, Len(parts))
      BY <1>0, <1>1, <2>3 DEF S
    <2> QED BY <1>4, <2>4, UpToEnds DEF Walking, WalkedRange, Walked
  <1> QED BY <1>3, <1>4

-----------------------------------------------------------------------------
(* The read by index *)

LEMMA Python ==
  ASSUME NEW data, Len(data) \in Nat, NEW i \in Nat, NEW j \in Nat
  PROVE  PySlice(data, i, j) = SubSeq(data, Smaller(i, Len(data)) + 1, Smaller(j, Len(data)))
  <1>1. ~(i < 0) /\ ~(j < 0)
    OBVIOUS
  <1> QED BY <1>1, Zenon DEF PySlice

(* What the read by index picks: the last block, and the first. *)
LEMMA IndexedIs ==
  ASSUME NEW X, NEW parts \in Seq(Seq(X)), NEW s \in Nat, NEW e \in Nat
  PROVE  \E last \in 0..Len(parts) :
           /\ last # Len(parts) => e <= Len(UpTo(parts, last))
           /\ \A i \in 1..Len(parts) : i < last => Len(UpTo(parts, i)) < e
           /\ \/ /\ \A i \in 1..last : Len(UpTo(parts, i)) <= s
                 /\ IndexedRange(parts, s, e) = <<>>
              \/ \E first \in 1..last :
                   /\ Len(UpTo(parts, first)) > s
                   /\ \A i \in 1..last : i < first => Len(UpTo(parts, i)) <= s
                   /\ LET from == s - Len(UpTo(parts, first - 1))
                      IN  IndexedRange(parts, s, e)
                            = PySlice(FlattenSeq(SubSeq(parts, first, last)), from, from + e - s)
  <1>1. ASSUME NEW i \in 1..Len(parts)
        PROVE  /\ OffsetOf(parts, i) = Len(UpTo(parts, i - 1))
               /\ OffsetOf(parts, i) + Len(parts[i]) = Len(UpTo(parts, i))
    <2>1. i - 1 \in Nat /\ i - 1 < Len(parts) /\ (i - 1) + 1 = i
      OBVIOUS
    <2>2. Len(UpTo(parts, (i - 1) + 1)) = Len(UpTo(parts, i - 1)) + Len(parts[(i - 1) + 1])
      BY <2>1, UpToNext
    <2>3. OffsetOf(parts, i) = Len(UpTo(parts, i - 1))
      BY DEF OffsetOf, UpTo
    <2> QED BY <2>1, <2>2, <2>3
  <1>2. \A i \in 0..Len(parts) : Len(UpTo(parts, i)) \in Nat
    <2>1. \A i \in 0..Len(parts) : UpTo(parts, i) \in Seq(X)
      BY UpToType
    <2> QED BY <2>1
  <1> DEFINE ends   == {i \in 1..Len(parts) : OffsetOf(parts, i) + Len(parts[i]) >= e}
             last   == IF ends = {} THEN Len(parts) ELSE Min(ends)
             starts == {i \in 1..last : OffsetOf(parts, i) + Len(parts[i]) > s}
             first  == Min(starts)
             from   == s - OffsetOf(parts, first)
  <1>3. IndexedRange(parts, s, e)
          = IF starts = {} THEN <<>>
            ELSE PySlice(FlattenSeq(SubSeq(parts, first, last)), from, from + e - s)
    BY Zenon DEF IndexedRange
  <1>4. ends = {i \in 1..Len(parts) : Len(UpTo(parts, i)) >= e}
    BY <1>1
  <1> HIDE DEF ends
  <1>5. /\ last \in 0..Len(parts)
        /\ last # Len(parts) => e <= Len(UpTo(parts, last))
        /\ \A i \in 1..Len(parts) : i < last => Len(UpTo(parts, i)) < e
    <2>1. CASE ends = {}
      BY <1>2, <1>4, <2>1
    <2>2. CASE ends # {}
      <3>1. ends \subseteq Nat
        BY <1>4
      <3>2. last \in ends /\ \A i \in ends : last <= i
        BY <2>2, <3>1, Smallest
      <3> HIDE DEF last
      <3> QED BY <1>2, <1>4, <3>2
    <2> QED BY <2>1, <2>2
  <1> HIDE DEF last
  <1>6. starts = {i \in 1..last : Len(UpTo(parts, i)) > s}
    <2>1. \A i \in 1..last : i \in 1..Len(parts)
      BY <1>5
    <2> QED BY <1>1, <2>1
  <1> HIDE DEF starts
  <1>7. CASE starts = {}
    <2>1. ASSUME NEW i \in 1..last
          PROVE  Len(UpTo(parts, i)) <= s
      <3>1. i \in 0..Len(parts)
        BY <1>5
      <3>2. ~(Len(UpTo(parts, i)) > s)
        BY <1>6, <1>7
      <3>3. Len(UpTo(parts, i)) \in Nat
        BY <1>2, <3>1
      <3> QED BY <3>2, <3>3
    <2>2. IndexedRange(parts, s, e) = <<>>
      BY <1>3, <1>7
    <2> QED BY <1>5, <2>1, <2>2
  <1>8. CASE starts # {}
    <2>1. starts \subseteq Nat
      BY <1>6
    <2>2. first \in starts /\ \A i \in starts : first <= i
      BY <1>8, <2>1, Smallest
    <2>3. IndexedRange(parts, s, e)
            = PySlice(FlattenSeq(SubSeq(parts, first, last)), from, from + e - s)
      BY <1>3, <1>8
    <2> HIDE DEF first
    <2>4. first \in 1..last /\ Len(UpTo(parts, first)) > s
      BY <1>6, <2>2
    <2>5. \A i \in 1..last : i < first => Len(UpTo(parts, i)) <= s
      <3>1. \A i \in 1..last : i \in 0..Len(parts)
        BY <1>5
      <3> QED BY <1>2, <1>6, <2>2, <2>4, <3>1
    <2>6. from = s - Len(UpTo(parts, first - 1))
      <3>1. first \in 1..Len(parts)
        BY <1>5, <2>4
      <3> QED BY <1>1, <3>1
    <2> HIDE DEF from
    <2>7. LET o == s - Len(UpTo(parts, first - 1))
          IN  IndexedRange(parts, s, e)
                = PySlice(FlattenSeq(SubSeq(parts, first, last)), o, o + e - s)
      BY <2>3, <2>6
    <2> QED BY <1>5, <2>4, <2>5, <2>7
  <1> QED BY <1>7, <1>8

LEMMA IndexedGives ==
  ASSUME NEW X, NEW parts \in Seq(Seq(X)), NEW s \in Nat, NEW e \in Nat
  PROVE  IndexedRange(parts, s, e) = Slice(FlattenSeq(parts), s, e)
  <1> PICK n \in Nat : n = Len(parts)
    OBVIOUS
  <1>1. PICK last \in 0..n :
             /\ last # n => e <= Len(UpTo(parts, last))
             /\ \A i \in 1..n : i < last => Len(UpTo(parts, i)) < e
             /\ \/ /\ \A i \in 1..last : Len(UpTo(parts, i)) <= s
                   /\ IndexedRange(parts, s, e) = <<>>
                \/ \E first \in 1..last :
                     /\ Len(UpTo(parts, first)) > s
                     /\ \A i \in 1..last : i < first => Len(UpTo(parts, i)) <= s
                     /\ LET from == s - Len(UpTo(parts, first - 1))
                        IN  IndexedRange(parts, s, e)
                              = PySlice(FlattenSeq(SubSeq(parts, first, last)), from, from + e - s)
    BY IndexedIs
  <1>2. PICK all : all = UpTo(parts, last)
    OBVIOUS
  <1>3. /\ all \in Seq(X) /\ FlattenSeq(parts) \in Seq(X)
        /\ Slice(all, s, e) = Slice(FlattenSeq(parts), s, e)
        /\ last # n => e <= Len(all)
    <2>1. last \in Nat /\ n \in Nat /\ last <= n /\ n <= Len(parts)
      OBVIOUS
    <2>2. /\ all \in Seq(X) /\ UpTo(parts, n) \in Seq(X)
          /\ Len(all) <= Len(UpTo(parts, n))
          /\ \A p \in 1..Len(all) : UpTo(parts, n)[p] = all[p]
      BY <1>2, <2>1, UpToWithin
    <2>3. UpTo(parts, n) = FlattenSeq(parts)
      BY UpToEnds
    <2>4. e <= Len(all) \/ Len(all) = Len(FlattenSeq(parts))
      BY <1>1, <1>2, <2>3
    <2> QED BY <1>1, <1>2, <2>2, <2>3, <2>4, SliceWithin
  <1>4. CASE /\ \A i \in 1..last : Len(UpTo(parts, i)) <= s
             /\ IndexedRange(parts, s, e) = <<>>
    <2>1. Len(all) <= s
      <3>1. CASE last = 0
        <4>1. Len(UpTo(parts, 0)) = 0
          BY UpToEnds
        <4> QED BY <1>2, <3>1, <4>1
      <3>2. CASE last # 0
        BY <1>2, <1>4, <3>2
      <3> QED BY <3>1, <3>2
    <2>2. Slice(all, s, e) = <<>>
      BY <1>3, <2>1, SliceBefore
    <2> QED BY <1>3, <1>4, <2>2
  <1>5. ASSUME NEW first \in 1..last,
               Len(UpTo(parts, first)) > s,
               \A i \in 1..last : i < first => Len(UpTo(parts, i)) <= s,
               LET from == s - Len(UpTo(parts, first - 1))
               IN  IndexedRange(parts, s, e)
                     = PySlice(FlattenSeq(SubSeq(parts, first, last)), from, from + e - s)
        PROVE  IndexedRange(parts, s, e) = Slice(all, s, e)
    <2>1. PICK j \in Nat : j = first - 1
      OBVIOUS
    <2>2. /\ j <= last /\ last <= Len(parts) /\ last \in Nat /\ j + 1 = first
          /\ first \in Nat /\ first <= last
      BY <2>1
    <2>3. PICK front, data : front = UpTo(parts, j) /\ data = FlattenSeq(SubSeq(parts, first, last))
      OBVIOUS
    <2>4. front \in Seq(X) /\ data \in Seq(X) /\ Joins(all, X, front, data)
      <3>1. Joins(UpTo(parts, last), X, UpTo(parts, j), FlattenSeq(SubSeq(parts, j + 1, last)))
        BY <2>2, UpToWithin
      <3>2. UpTo(parts, j) \in Seq(X) /\ FlattenSeq(SubSeq(parts, j + 1, last)) \in Seq(X)
        BY <2>2, UpToWithin, UpToJoins
      <3> QED BY <1>2, <2>2, <2>3, <3>1, <3>2
    <2>5. PICK o \in Nat, m \in Nat : o = Len(front) /\ m = Len(data)
      BY <2>4
    <2>6. /\ o <= s /\ s < o + m /\ o + m = Len(all)
      <3>1. o + m = Len(all)
        BY <2>4, <2>5 DEF Joins
      <3>2. s < Len(all)
        <4>1. Len(UpTo(parts, first)) <= Len(UpTo(parts, last)) /\ UpTo(parts, first) \in Seq(X)
          BY <2>2, UpToWithin
        <4> QED BY <1>2, <1>3, <1>5, <4>1
      <3>3. o <= s
        <4>1. CASE j = 0
          <5>1. Len(UpTo(parts, 0)) = 0
            BY UpToEnds
          <5> QED BY <2>3, <2>5, <4>1, <5>1
        <4>2. CASE j # 0
          <5>1. j \in 1..last /\ j < first
            BY <2>2, <4>2
          <5> QED BY <1>5, <2>3, <2>5, <5>1
        <4> QED BY <4>1, <4>2
      <3> QED BY <3>1, <3>2, <3>3
    <2>7. o <= e
      <3>1. CASE j = 0
        <4>1. Len(UpTo(parts, 0)) = 0
          BY UpToEnds
        <4> QED BY <2>3, <2>5, <3>1, <4>1
      <3>2. CASE j # 0
        <4>1. j \in 1..n /\ j < last
          BY <2>2, <3>2
        <4> QED BY <1>1, <2>3, <2>5, <4>1
      <3> QED BY <3>1, <3>2
    <2>8. PICK from \in Nat, to \in Nat : from = s - o /\ to = e - o /\ from + e - s = to
      <3>1. s - o \in Nat /\ e - o \in Nat /\ (s - o) + e - s = e - o
        BY <2>6, <2>7
      <3> QED BY <3>1
    <2>9. IndexedRange(parts, s, e) = PySlice(data, from, to)
      BY <1>5, <2>1, <2>3, <2>5, <2>8
    <2>10. PICK k \in Nat : k = Smaller(to, Len(data)) /\ k <= to /\ k <= Len(data) /\ k \in {to, Len(data)}
      BY <2>4, Stops
    <2>11. IndexedRange(parts, s, e) = SubSeq(data, from + 1, k)
      <3>1. Smaller(from, Len(data)) = from
        BY <2>5, <2>6, <2>8 DEF Smaller
      <3>2. Len(data) \in Nat
        BY <2>5
      <3>3. PySlice(data, from, to)
              = SubSeq(data, Smaller(from, Len(data)) + 1, Smaller(to, Len(data)))
        BY <3>2, Python
      <3> QED BY <2>9, <2>10, <3>1, <3>3, Zenon
    <2>12. CutOf(SubSeq(data, from + 1, k), X, data, from, k)
      BY <2>4, <2>10, Cuts
    <2>13. CASE e <= s
      <3>1. k <= from
        BY <2>6, <2>7, <2>8, <2>10, <2>13
      <3>2. SubSeq(data, from + 1, k) = <<>>
        BY <2>12, <3>1 DEF CutOf
      <3>3. Slice(all, s, e) = <<>>
        BY <2>13, Empties
      <3> QED BY <2>11, <3>2, <3>3
    <2>14. CASE s < e
      <3>1. PICK l \in Nat : l = Smaller(e, Len(all)) /\ l <= e /\ l <= Len(all) /\ l \in {e, Len(all)}
        BY <1>3, Stops
      <3>2. CutOf(Slice(all, s, e), X, all, s, l)
        BY <1>3, <2>14, <3>1, Slices
      <3>3. l = o + k /\ s < l /\ from < k /\ k - from = l - s
        BY <2>5, <2>6, <2>7, <2>8, <2>10, <2>14, <3>1
      <3>4. PICK t, u : t = SubSeq(data, from + 1, k) /\ u = Slice(all, s, e)
        OBVIOUS
      <3>5. /\ t \in Seq(X) /\ Len(t) = l - s /\ \A i \in 1..(l - s) : t[i] = data[i + from]
        BY <2>12, <3>3, <3>4 DEF CutOf
      <3>6. /\ u \in Seq(X) /\ Len(u) = l - s /\ \A i \in 1..(l - s) : u[i] = all[i + s]
        BY <3>2, <3>3, <3>4 DEF CutOf
      <3>7. ASSUME NEW i \in 1..(l - s)
            PROVE  t[i] = u[i]
        <4>1. i + from \in 1..m /\ (i + from) + o = i + s
          <5>1. i \in Nat /\ 1 <= i /\ i <= k - from /\ from + o = s
            BY <2>6, <2>8, <3>3
          <5>2. i + from \in Nat /\ 1 <= i + from /\ i + from <= k /\ k <= m
            BY <2>5, <2>10, <5>1
          <5> QED BY <5>1, <5>2
        <4>2. all[(i + from) + o] = data[i + from]
          BY <2>4, <2>5, <4>1 DEF Joins
        <4> QED BY <3>5, <3>6, <4>1, <4>2
      <3>8. t = u
        <4>1. PICK d \in Nat : d = l - s
          BY <3>3
        <4>2. Len(t) = d /\ Len(u) = d /\ \A i \in 1..d : t[i] = u[i]
          BY <3>5, <3>6, <3>7, <4>1
        <4> QED BY <3>5, <3>6, <4>2
      <3> QED BY <2>11, <3>4, <3>8
    <2> QED BY <2>13, <2>14
  <1> QED BY <1>1, <1>3, <1>4, <1>5

-----------------------------------------------------------------------------
(* Every layout of a file of numbered bytes, and every range *)

RangesInv ==
  /\ blocks \in Seq(Seq(Nat)) /\ \A i \in 1..Len(blocks) : Len(blocks[i]) > 0
  /\ \A p \in 1..Len(Data) : Data[p] = p - 1
  /\ range[1] \in Nat /\ range[2] \in Nat

LEMMA RangesInit == NoExample => RangesInv
  <1> SUFFICES ASSUME NoExample PROVE RangesInv
    OBVIOUS
  <1>1. blocks = <<>> /\ range[1] = 0 /\ range[2] = 0 /\ Data = <<>>
    BY FlattenEmpty DEF NoExample, Data
  <1> QED BY <1>1 DEF RangesInv

LEMMA RangesStep == RangesInv /\ [NextExample]_rangeVars => RangesInv'
  <1> SUFFICES ASSUME RangesInv, [NextExample]_rangeVars PROVE RangesInv'
    OBVIOUS
  <1>1. CASE UNCHANGED rangeVars
    BY <1>1 DEF RangesInv, rangeVars, Data
  <1>2. ASSUME NEW n \in 1..MaxLen, Grow(n)
        PROVE  RangesInv'
    <2> DEFINE x == [i \in 1..n |-> Len(Data) + i - 1]
    <2>1. n \in Nat /\ n > 0
      BY RangesAssumption
    <2>2. Data \in Seq(Nat) /\ Len(Data) \in Nat
      BY FlattenType DEF RangesInv, Data
    <2>3. x \in Seq(Nat) /\ Len(x) = n /\ \A i \in 1..n : x[i] = Len(Data) + i - 1
      <3>1. \A i \in 1..n : Len(Data) + i - 1 \in Nat
        BY <2>1, <2>2
      <3> HIDE DEF Data
      <3> QED BY <2>1, <3>1
    <2>4. blocks' = Append(blocks, x) /\ range' = range
      BY <1>2 DEF Grow
    <2> HIDE DEF x
    <2>5. Data' = Data \o x
      BY <2>3, <2>4, FlattenAppend DEF Data, RangesInv
    <2>6. Joins(Data', Nat, Data, x)
      BY <2>2, <2>3, <2>5, Joined
    <2>7. blocks' \in Seq(Seq(Nat)) /\ \A i \in 1..Len(blocks') : Len(blocks'[i]) > 0
      <3>1. /\ blocks' \in Seq(Seq(Nat)) /\ Len(blocks') = Len(blocks) + 1
            /\ blocks'[Len(blocks) + 1] = x /\ \A i \in 1..Len(blocks) : blocks'[i] = blocks[i]
        BY <2>3, <2>4 DEF RangesInv
      <3>2. ASSUME NEW i \in 1..Len(blocks')
            PROVE  Len(blocks'[i]) > 0
        <4>1. i \in 1..Len(blocks) \/ i = Len(blocks) + 1
          BY <3>1 DEF RangesInv
        <4> QED BY <2>1, <2>3, <3>1, <4>1 DEF RangesInv
      <3> QED BY <3>1, <3>2
    <2>8. ASSUME NEW p \in 1..Len(Data')
          PROVE  Data'[p] = p - 1
      <3>1. Len(Data') = Len(Data) + n
        BY <2>3, <2>6 DEF Joins
      <3>2. CASE p <= Len(Data)
        <4>1. p \in 1..Len(Data)
          BY <2>2, <3>1, <3>2
        <4> QED BY <2>6, <4>1 DEF Joins, RangesInv
      <3>3. CASE p > Len(Data)
        <4>1. PICK i \in 1..n : i + Len(Data) = p
          <5>1. p - Len(Data) \in 1..n /\ (p - Len(Data)) + Len(Data) = p
            BY <2>1, <2>2, <3>1, <3>3
          <5> QED BY <5>1
        <4>2. Data'[i + Len(Data)] = x[i]
          BY <2>3, <2>6 DEF Joins
        <4> QED BY <2>2, <2>3, <4>1, <4>2
      <3> QED BY <2>2, <3>1, <3>2, <3>3
    <2> QED BY <2>4, <2>7, <2>8 DEF RangesInv
  <1>3. ASSUME NEW s \in 0..(MaxLen + 1), NEW e \in 0..(MaxLen + 1), Ask(s, e)
        PROVE  RangesInv'
    <2>1. range'[1] = s /\ range'[2] = e /\ blocks' = blocks /\ Data' = Data
      BY <1>3 DEF Ask, Data
    <2>2. s \in Nat /\ e \in Nat
      BY RangesAssumption
    <2> QED BY <2>1, <2>2 DEF RangesInv
  <1> QED BY <1>1, <1>2, <1>3 DEF NextExample

(* The blocks that reach the range are those with a byte of it. *)
LEMMA ReachesIs ==
  ASSUME RangesInv, NEW i \in 1..Len(blocks), NEW s \in Nat, NEW e \in Nat
  PROVE  s < e /\ Reaches(blocks, i, s, e)
           <=> \E p \in 1..Len(blocks[i]) : blocks[i][p] >= s /\ blocks[i][p] < e
  <1> PICK j \in Nat : j = i - 1
    OBVIOUS
  <1>1. j < Len(blocks) /\ i = j + 1 /\ i \in Nat /\ i <= Len(blocks) /\ j <= Len(blocks)
    BY DEF RangesInv
  <1>2. PICK x : x = blocks[i]
    OBVIOUS
  <1>3. PICK a, b : a = UpTo(blocks, j) /\ b = UpTo(blocks, i)
    OBVIOUS
  <1>4. x \in Seq(Nat) /\ Len(x) > 0 /\ a \in Seq(Nat) /\ b \in Seq(Nat) /\ b = a \o x
    BY <1>1, <1>2, <1>3, UpToNext, UpToType DEF RangesInv
  <1>5. Joins(b, Nat, a, x)
    BY <1>4, Joined
  <1>6. PICK la \in Nat, lx \in Nat : la = Len(a) /\ lx = Len(x)
    BY <1>4
  <1>7. lx > 0 /\ Len(b) = la + lx
    BY <1>4, <1>5, <1>6 DEF Joins
  <1>8. ASSUME NEW p \in 1..lx
        PROVE  x[p] = p + la - 1
    <2>1. b[p + la] = x[p]
      BY <1>5, <1>6 DEF Joins
    <2>2. p + la \in 1..Len(b)
      BY <1>7
    <2>3. Len(b) <= Len(Data) /\ \A q \in 1..Len(b) : Data[q] = b[q]
      <3>1. /\ Len(UpTo(blocks, i)) <= Len(UpTo(blocks, Len(blocks)))
            /\ \A q \in 1..Len(UpTo(blocks, i)) :
                 UpTo(blocks, Len(blocks))[q] = UpTo(blocks, i)[q]
        <4>1. Len(blocks) \in Nat /\ Len(blocks) <= Len(blocks) /\ blocks \in Seq(Seq(Nat))
          BY DEF RangesInv
        <4> QED BY <1>1, <4>1, UpToWithin
      <3>2. UpTo(blocks, Len(blocks)) = Data
        BY UpToEnds DEF Data, RangesInv
      <3> QED BY <1>3, <3>1, <3>2
    <2>4. p + la \in 1..Len(Data)
      <3>1. Data \in Seq(Nat)
        BY FlattenType DEF RangesInv, Data
      <3> QED BY <1>4, <2>2, <2>3, <3>1
    <2>5. Data[p + la] = (p + la) - 1
      BY <2>4 DEF RangesInv
    <2> QED BY <2>1, <2>2, <2>3, <2>5
  <1>9. Reaches(blocks, i, s, e) <=> la + lx > s /\ la < e
    BY <1>1, <1>3, <1>6, <1>7 DEF Reaches
  <1>10. ASSUME s < e, la + lx > s, la < e
         PROVE  \E p \in 1..lx : p + la - 1 >= s /\ p + la - 1 < e
    <2>1. CASE s <= la
      <3>1. 1 \in 1..lx /\ 1 + la - 1 >= s /\ 1 + la - 1 < e
        BY <1>7, <1>10, <2>1
      <3> QED BY <3>1
    <2>2. CASE s > la
      <3>1. s - la + 1 \in 1..lx /\ (s - la + 1) + la - 1 >= s /\ (s - la + 1) + la - 1 < e
        BY <1>7, <1>10, <2>2
      <3> QED BY <3>1
    <2> QED BY <2>1, <2>2
  <1>11. ASSUME NEW p \in 1..lx, p + la - 1 >= s, p + la - 1 < e
         PROVE  s < e /\ la + lx > s /\ la < e
    BY <1>11
  <1>12. (s < e /\ la + lx > s /\ la < e)
           <=> \E p \in 1..lx : p + la - 1 >= s /\ p + la - 1 < e
    BY <1>10, <1>11
  <1>13. (\E p \in 1..lx : p + la - 1 >= s /\ p + la - 1 < e)
           <=> \E p \in 1..lx : x[p] >= s /\ x[p] < e
    BY <1>8
  <1> QED BY <1>2, <1>6, <1>9, <1>12, <1>13

LEMMA RangesHold == RangesInv => RangesAreSlices
  <1> SUFFICES ASSUME RangesInv PROVE RangesAreSlices
    OBVIOUS
  <1>1. PICK s, e : s = range[1] /\ e = range[2]
    OBVIOUS
  <1>2. s \in Nat /\ e \in Nat /\ blocks \in Seq(Seq(Nat))
    BY <1>1 DEF RangesInv
  <1>3. /\ WalkedRange(blocks, s, e) = Slice(Data, s, e)
        /\ Walked(blocks, s, e) = {j \in 1..Len(blocks) : s < e /\ Reaches(blocks, j, s, e)}
        /\ IndexedRange(blocks, s, e) = Slice(Data, s, e)
    BY <1>2, WalkGives, IndexedGives DEF Data
  <1>4. {j \in 1..Len(blocks) : s < e /\ Reaches(blocks, j, s, e)}
          = {i \in 1..Len(blocks) :
               \E p \in 1..Len(blocks[i]) : blocks[i][p] >= s /\ blocks[i][p] < e}
    BY <1>2, ReachesIs
  <1> QED BY <1>1, <1>3, <1>4 DEF RangesAreSlices, WalkIsSlice, WalkSeesItsBlocks, IndexedIsSlice

(* The three ways in which operations.py cuts a range out of the blocks of a
   file give the same bytes, those of the range, whatever the number and the
   sizes of the blocks; and a checked read verifies the blocks it takes from. *)
THEOREM RangesCorrect == RangeSpec => []RangesAreSlices
  <1>1. RangeSpec => []RangesInv
    BY RangesInit, RangesStep, PTL DEF RangeSpec
  <1> QED BY <1>1, RangesHold, PTL

-----------------------------------------------------------------------------
(* Committed changes: what is stored stays sound, and what a file becomes is
   told by its version. *)

Good(d) == Sound(d) /\ TreeSound(d) /\ RowsMatchContent(d)

VersionTells(d, e, n) ==
  /\ e.nodes[n].type = d.nodes[n].type
  /\ d.nodes[n].ver <= e.nodes[n].ver
  /\ e.nodes[n].ver = d.nodes[n].ver => Content(e, n) = Content(d, n)

Evolves(d, e) ==
  /\ d.nodeSeq <= e.nodeSeq
  /\ \A n \in NodeIds(d) \cap NodeIds(e) : VersionTells(d, e, n)
  /\ \A n \in NodeIds(e) \ NodeIds(d) : d.nodeSeq <= n

LEMMA WriteEvolves ==
  ASSUME NEW d, Good(d), NEW mode \in Modes, NEW p \in Paths, NEW bs \in BlockSizes,
         CanStart(d, mode, p), NEW data \in Seq(Bytes), NEW c, NEW w, NEW e,
         c = StartDb(d, mode, p, bs), w = StartWriter(c, mode, p, bs),
         e = FinalizeDb(WriteChunkDb(c, w, data), WriteChunk(w, data))
  PROVE  Good(e) /\ Evolves(d, e)
  <1> DEFINE f == WriteChunkDb(c, w, data)
             v == WriteChunk(w, data)
  <1>1. Sound(d) /\ TreeSound(d) /\ RowsMatchBut(d, {})
    BY MatchParts DEF Good, RowsMatchBut
  <1>2. /\ Sound(c) /\ HasNode(c, p)
        /\ \A n \in NodeIds(d) : c.nodes[n].path = d.nodes[n].path /\ c.nodes[n].type = d.nodes[n].type
        /\ \A n \in NodesAt(c, p) : c.nodes[n].type = "file"
    BY <1>1, StartDbSound
  <1>3. Started(d, mode, p, c, w)
    BY <1>1, StartShape
  <1>4. TreeSound(c)
    BY <1>1, StartTree
  <1>5. WritesSoundly(c, w)
    BY <1>2, StartWriterSound
  <1>6. WritesSoundly(f, v) /\ f.nodes = c.nodes
    BY <1>5, WriteChunkSound
  <1>7. f.nodeSeq = c.nodeSeq
    <2>1. w.bsize \in Nat \ {0} /\ TypeSound(c)
      BY <1>5, TablesAssumption DEF WritesSoundly, WriterSound, Sound
    <2>2. Chunks(data, w.bsize) \in Seq(Seq(Bytes))
      BY <2>1, ChunksType
    <2> QED
      BY <2>1, <2>2, AttachContinues DEF WriteChunkDb
  <1>8. v.node = w.node /\ v.mode = w.mode /\ v.ver = w.ver
    BY <1>5 DEF WritesSoundly, WriterSound, WriteChunk
  <1>9. c.nodes[w.node].type = "file" /\ w.node \in NodeIds(c)
    BY <1>3, <1>5 DEF WritesSoundly, Started
  <1>10. RowsMatchBut(c, {w.node}) /\ WriterKnows(c, w)
         /\ \A n \in NodeIds(d) \ {w.node} : FileKept(d, c, n)
    <2> DEFINE none == {}
    <2>1. RowsMatchBut(d, none) /\ w.node \notin none
      BY <1>1
    <2>2. none \cup {w.node} = {w.node}
      OBVIOUS
    <2> HIDE DEF none
    <2>3. RowsMatchBut(c, none \cup {w.node}) /\ WriterKnows(c, w)
          /\ \A n \in NodeIds(d) \ {w.node} : FileKept(d, c, n)
      BY <1>1, <1>3, <1>9, <2>1, StartKnows
    <2> QED
      BY <2>2, <2>3
  <1>11. RowsMatchBut(f, {w.node}) /\ WriterKnows(f, v)
         /\ \A n \in NodeIds(c) \ {w.node} : FileKept(c, f, n)
    BY <1>5, <1>10, ChunkKnows
  <1> HIDE DEF f, v
  <1>12. e = FinalizeDb(f, v) /\ TypeSound(f) /\ CanFinalize(f, v)
    BY <1>6 DEF f, v, WritesSoundly, Sound
  <1>13. /\ RowsMatchBut(e, {w.node} \ {v.node})
         /\ \A n \in NodeIds(f) \ {v.node} : FileKept(f, e, n)
    BY <1>11, <1>12, FinalizeKnows
  <1>14. /\ Sound(e) /\ NodeIds(e) = NodeIds(f)
         /\ \A n \in NodeIds(f) : e.nodes[n].path = f.nodes[n].path /\ e.nodes[n].type = f.nodes[n].type
    BY <1>6, <1>12, FinalizeSound
  <1>15. e.nodeSeq = f.nodeSeq /\ e.nodes[v.node].ver = v.ver + IF v.mode = "ab" THEN 1 ELSE 0
    BY <1>12, FinalizeShape
  <1>16. NodeIds(f) = NodeIds(c)
    BY <1>6 DEF NodeIds
  <1>17. TreeSound(e)
    BY <1>4, <1>6, <1>14, <1>16, TreeSame
  <1>18. RowsMatchContent(e)
    BY <1>8, <1>13, MatchParts DEF RowsMatchBut
  <1>19. NodeIds(e) = NodeIds(d) \cup {w.node}
    BY <1>3, <1>14, <1>16 DEF Started
  <1>20. ASSUME NEW n \in NodeIds(d), n # w.node PROVE VersionTells(d, e, n)
    <2>1. FileKept(d, c, n) /\ FileKept(c, f, n) /\ FileKept(f, e, n)
      BY <1>8, <1>10, <1>11, <1>13, <1>16, <1>20 DEF FileKept
    <2>2. e.nodes[n] = d.nodes[n] /\ Content(e, n) = Content(d, n)
      BY <2>1 DEF FileKept
    <2>3. d.nodes[n].ver \in Nat
      BY <1>1 DEF Sound, TypeSound, NodeRowSound
    <2> QED
      BY <2>2, <2>3 DEF VersionTells
  <1>21. ASSUME w.node \in NodeIds(d) PROVE VersionTells(d, e, w.node)
    <2>1. e.nodes[w.node].type = d.nodes[w.node].type
      BY <1>2, <1>6, <1>9, <1>14, <1>16, <1>21
    <2>2. d.nodes[w.node].ver \in Nat /\ d.nodeSeq \notin NodeIds(d)
      BY <1>1, <1>21 DEF Sound, TypeSound, NodeRowSound
    <2>3. e.nodes[w.node].ver = c.nodes[w.node].ver + IF mode = "ab" THEN 1 ELSE 0
      BY <1>3, <1>8, <1>15 DEF Started
    <2>4. e.nodes[w.node].ver > d.nodes[w.node].ver
      <3>1. w.node # d.nodeSeq
        BY <1>21, <2>2
      <3>2. CASE mode = "ab"
        <4>1. c = d
          BY <1>3, <3>1, <3>2 DEF Started
        <4> QED
          BY <2>2, <2>3, <3>2, <4>1
      <3>3. CASE mode # "ab"
        <4>1. c.nodes[w.node].ver = d.nodes[w.node].ver + 1
          BY <1>3, <3>1, <3>3 DEF Started
        <4> QED
          BY <2>2, <2>3, <3>3, <4>1
      <3> QED
        BY <3>2, <3>3
    <2>5. e.nodes[w.node].ver \in Nat
      BY <1>9, <1>14, <1>16 DEF Sound, TypeSound, NodeRowSound
    <2>6. d.nodes[w.node].ver <= e.nodes[w.node].ver /\ e.nodes[w.node].ver # d.nodes[w.node].ver
      BY <2>2, <2>4, <2>5
    <2> QED
      BY <2>1, <2>6 DEF VersionTells
  <1>22. w.node \notin NodeIds(d) => w.node = d.nodeSeq
    BY <1>3 DEF Started, NodesAt
  <1>23. d.nodeSeq \in Nat /\ (c.nodeSeq = d.nodeSeq \/ c.nodeSeq = d.nodeSeq + 1)
    BY <1>1, <1>3 DEF Started, Sound, TypeSound
  <1>24. Evolves(d, e)
    <2>1. d.nodeSeq <= e.nodeSeq
      BY <1>7, <1>15, <1>23 DEF f
    <2>2. \A n \in NodeIds(d) \cap NodeIds(e) : VersionTells(d, e, n)
      BY <1>20, <1>21
    <2>3. \A n \in NodeIds(e) \ NodeIds(d) : d.nodeSeq <= n
      BY <1>19, <1>22, <1>23
    <2> QED
      BY <2>1, <2>2, <2>3 DEF Evolves
  <1> QED
    BY <1>14, <1>17, <1>18, <1>24 DEF Good

LEMMA DeleteEvolves ==
  ASSUME NEW d, Good(d), NEW ids, NEW e, e = DeleteNodes(ReleaseFileBlocks(d, ids), ids)
  PROVE  Good(e) /\ Evolves(d, e)
  <1> DEFINE r == ReleaseFileBlocks(d, ids)
  <1>1. Sound(d) /\ TypeSound(d) /\ GraphSound(d) /\ TreeSound(d) /\ MapsSound(d)
        /\ BlocksMatch(d) /\ \A n \in NodeIds(d) : FileMatches(d, n)
    BY MatchParts, GraphParts DEF Good, Sound
  <1>2. /\ BlocksKept(d, r) /\ BlocksAmong(d, r)
        /\ \A n : n \notin ids => MapsOf(r, n) = MapsOf(d, n)
    BY <1>1, ReleaseContinues, ReleaseBlocks
  <1>3. /\ TypeSound(e) /\ GraphSound(e)
        /\ NodeIds(e) = NodeIds(d) \ ids /\ e.nodeSeq = d.nodeSeq
        /\ \A n \in NodeIds(e) : e.nodes[n] = d.nodes[n]
    BY <1>1, DeleteGraph
  <1>4. TypeSound(r)
    BY <1>1, ReleaseType
  <1> HIDE DEF r
  <1>5. e = DeleteNodes(r, ids)
    BY DEF r
  <1>6. e.blocks = r.blocks /\ e.maps = {m \in r.maps : m.file \notin ids}
    BY <1>4, <1>5 DEF DeleteNodes, TypeSound
  <1>7. \A n \in NodeIds(e) : MapsOf(e, n) = MapsOf(d, n)
    BY <1>2, <1>3, <1>6 DEF MapsOf
  <1>8. BlocksKept(d, e) /\ BlocksAmong(d, e)
    BY <1>2, <1>6 DEF BlocksKept, BlocksAmong
  <1>9. TreeSound(e)
    BY <1>1, <1>3, TreeSame
  <1>10. BlocksMatch(e)
    BY <1>1, <1>8, BlocksStillMatch
  <1>11. \A n \in NodeIds(e) : Content(e, n) = Content(d, n)
    BY <1>1, <1>3, <1>7, <1>8, SameContent
  <1>12. \A n \in NodeIds(e) : FileMatches(e, n)
    BY <1>1, <1>3, <1>11 DEF FileMatches
  <1>13. Good(e)
    BY <1>3, <1>9, <1>10, <1>12, MatchParts DEF Good, Sound
  <1>14. \A n \in NodeIds(e) : d.nodes[n].ver \in Nat
    BY <1>1, <1>3 DEF TypeSound, NodeRowSound
  <1>15. \A n \in NodeIds(e) : VersionTells(d, e, n)
    BY <1>3, <1>11, <1>14 DEF VersionTells
  <1>16. d.nodeSeq \in Nat
    BY <1>1 DEF TypeSound
  <1>17. Evolves(d, e)
    BY <1>3, <1>15, <1>16 DEF Evolves
  <1> QED
    BY <1>13, <1>17

(* A rechunk is an append of the whole content to the file once it is emptied. *)
LEMMA RechunkAppends ==
  ASSUME NEW d, TypeSound(d), NEW n \in NodeIds(d), NEW bs \in BlockSizes,
         NEW data, data = Content(d, n), data \in Seq(Bytes), NEW r, r = ReleaseFileBlocks(d, {n}),
         NEW w, w = [node |-> n, mode |-> "ab", ver |-> d.nodes[n].ver, size |-> 0,
                     hashed |-> <<>>, seq |-> 0, bsize |-> bs]
  PROVE  RechunkDb(d, n, bs) = FinalizeDb(WriteChunkDb(r, w, data), WriteChunk(w, data))
  <1> DEFINE v == WriteChunk(w, data)
             c == AttachBlocks(r, n, 0, Chunks(data, bs))
  <1>1. /\ v.node = n /\ v.mode = "ab" /\ v.size = Len(data) /\ v.bsize = bs
        /\ v.hashed = data
    BY DEF WriteChunk
  <1>2. WriteChunkDb(r, w, data) = c
    BY DEF WriteChunkDb
  <1>3. RechunkDb(d, n, bs)
          = [c EXCEPT !.nodes[n].size = Len(data), !.nodes[n].bsize = bs,
                      !.nodes[n].sum = Hash(data), !.nodes[n].ver = @ + 1]
    BY DEF RechunkDb
  <1> HIDE DEF v, c
  <1>4. FinalizeDb(c, v)
          = [c EXCEPT !.nodes[n].size = Len(data), !.nodes[n].bsize = bs,
                      !.nodes[n].sum = Hash(data), !.nodes[n].ver = @ + 1]
    BY <1>1 DEF FinalizeDb
  <1> QED
    BY <1>2, <1>3, <1>4 DEF v

LEMMA RechunkEvolves ==
  ASSUME NEW d, Good(d), NEW n \in NodeIds(d), d.nodes[n].type = "file", NEW bs \in BlockSizes
  PROVE  Good(RechunkDb(d, n, bs)) /\ Evolves(d, RechunkDb(d, n, bs))
  <1>1. PICK data : data = Content(d, n)
    OBVIOUS
  <1>2. PICK r : r = ReleaseFileBlocks(d, {n})
    OBVIOUS
  <1>3. PICK w : w = [node |-> n, mode |-> "ab", ver |-> d.nodes[n].ver, size |-> 0,
                      hashed |-> <<>>, seq |-> 0, bsize |-> bs]
    OBVIOUS
  <1>4. Sound(d) /\ TypeSound(d) /\ GraphSound(d) /\ TreeSound(d) /\ MapsSound(d)
        /\ BlocksMatch(d) /\ \A m \in NodeIds(d) : FileMatches(d, m)
    BY MatchParts, GraphParts DEF Good, Sound
  <1>5. data \in Seq(Bytes)
    BY <1>1, <1>4, ContentType
  <1>6. /\ BlocksKept(d, r) /\ BlocksAmong(d, r)
        /\ r.nodes = d.nodes /\ r.nodeSeq = d.nodeSeq
        /\ \A m : m # n => MapsOf(r, m) = MapsOf(d, m)
    BY <1>2, <1>4, ReleaseContinues, ReleaseBlocks
  <1>7. Sound(r) /\ \A m \in r.maps : m.file # n
    BY <1>2, <1>4, ReleaseType, ReleaseGraph DEF Sound
  <1>8. MapsOf(r, n) = {} /\ Content(r, n) = <<>> /\ SequencesOf(r, n) = 0..(0 - 1)
    <2>1. MapsOf(r, n) = {}
      BY <1>7 DEF MapsOf
    <2> QED
      BY <2>1, NoMapsNoContent DEF SequencesOf
  <1>9. n \in Nat /\ d.nodes[n].ver \in Nat \ {0} /\ d.nodeSeq \in Nat
    BY <1>4 DEF TypeSound, NodeRowSound
  <1>10. /\ w.node = n /\ w.mode = "ab" /\ w.ver = d.nodes[n].ver /\ w.size = 0
         /\ w.hashed = <<>> /\ w.seq = 0 /\ w.bsize = bs
         /\ DOMAIN w = {"node", "mode", "ver", "size", "hashed", "seq", "bsize"}
    BY <1>3
  <1>11. WritesSoundly(r, w)
    <2>1. WriterSound(w)
      BY <1>9, <1>10 DEF WriterSound, Modes
    <2>2. CanFinalize(r, w)
      BY <1>6, <1>10 DEF CanFinalize, NodeIds
    <2> QED
      BY <1>6, <1>7, <1>8, <1>10, <2>1, <2>2 DEF WritesSoundly
  <1>12. WriterKnows(r, w)
    BY <1>8, <1>10 DEF WriterKnows
  <1>13. \A m \in NodeIds(d) \ {n} : FileKept(d, r, m)
    BY <1>4, <1>6, SameContent DEF FileKept, NodeIds
  <1>14. RowsMatchBut(r, {n})
    <2>1. BlocksMatch(r)
      BY <1>4, <1>6, BlocksStillMatch
    <2> QED
      BY <1>4, <1>6, <1>13, <2>1, FileKeptMatches DEF RowsMatchBut, NodeIds
  <1>15. PICK c : c = WriteChunkDb(r, w, data)
    OBVIOUS
  <1>16. PICK v : v = WriteChunk(w, data)
    OBVIOUS
  <1>17. WritesSoundly(c, v) /\ c.nodes = r.nodes
    BY <1>5, <1>11, <1>15, <1>16, WriteChunkSound
  <1>18. RowsMatchBut(c, {n}) /\ WriterKnows(c, v) /\ \A m \in NodeIds(r) \ {n} : FileKept(r, c, m)
    BY <1>5, <1>10, <1>11, <1>12, <1>14, <1>15, <1>16, ChunkKnows
  <1>19. c.nodeSeq = r.nodeSeq
    <2>1. Chunks(data, bs) \in Seq(Seq(Bytes))
      BY <1>5, TablesAssumption, ChunksType
    <2> QED
      BY <1>7, <1>10, <1>15, <2>1, AttachContinues DEF WriteChunkDb, Sound
  <1>20. v.node = n /\ v.mode = "ab" /\ v.ver = d.nodes[n].ver
    BY <1>10, <1>16 DEF WriteChunk
  <1>21. PICK e : e = FinalizeDb(c, v)
    OBVIOUS
  <1>22. e = RechunkDb(d, n, bs)
    BY <1>1, <1>2, <1>3, <1>4, <1>5, <1>15, <1>16, <1>21, RechunkAppends
  <1>23. TypeSound(c) /\ CanFinalize(c, v)
    BY <1>17 DEF WritesSoundly, Sound
  <1>24. RowsMatchBut(e, {n} \ {n}) /\ \A m \in NodeIds(c) \ {n} : FileKept(c, e, m)
    BY <1>18, <1>20, <1>21, <1>23, FinalizeKnows
  <1>25. /\ Sound(e) /\ NodeIds(e) = NodeIds(c)
         /\ \A m \in NodeIds(c) : e.nodes[m].path = c.nodes[m].path /\ e.nodes[m].type = c.nodes[m].type
    BY <1>17, <1>21, FinalizeSound
  <1>26. e.nodeSeq = c.nodeSeq /\ e.nodes[n].ver = d.nodes[n].ver + 1
    BY <1>20, <1>21, <1>23, FinalizeShape
  <1>27. NodeIds(c) = NodeIds(d) /\ NodeIds(r) = NodeIds(d) /\ c.nodes = d.nodes
    BY <1>6, <1>17 DEF NodeIds
  <1>28. TreeSound(e)
    BY <1>4, <1>25, <1>27, TreeSame
  <1>29. RowsMatchContent(e)
    BY <1>24, MatchParts DEF RowsMatchBut
  <1>30. ASSUME NEW m \in NodeIds(d), m # n PROVE VersionTells(d, e, m)
    <2>1. FileKept(d, r, m) /\ FileKept(r, c, m) /\ FileKept(c, e, m)
      BY <1>13, <1>18, <1>24, <1>27, <1>30
    <2>2. e.nodes[m] = d.nodes[m] /\ Content(e, m) = Content(d, m)
      BY <2>1 DEF FileKept
    <2>3. d.nodes[m].ver \in Nat
      BY <1>4 DEF TypeSound, NodeRowSound
    <2> QED
      BY <2>2, <2>3 DEF VersionTells
  <1>31. VersionTells(d, e, n)
    BY <1>9, <1>25, <1>26, <1>27 DEF VersionTells
  <1>32. Evolves(d, e)
    BY <1>6, <1>9, <1>19, <1>25, <1>26, <1>27, <1>30, <1>31 DEF Evolves
  <1> QED
    BY <1>22, <1>25, <1>28, <1>29, <1>32 DEF Good

-----------------------------------------------------------------------------
(* The query for the blocks of a file: of sound tables it gives rows that pass
   every check, and the content of the file cut into pieces. *)

PiecesOfFile(rows, n) ==
  /\ Len(rows) \in Nat /\ Len(DataOf(rows)) = Len(rows)
  /\ DataOf(rows) \in Seq(Seq(Bytes))
  /\ FlattenSeq(DataOf(rows)) = Content(disk, n)

RowsPass(rows) ==
  /\ SequencesSound(rows)
  /\ \A i \in 1..Len(rows) : \A policy : BlockSound(rows[i].block, policy)

LEMMA BlockRowsAre ==
  ASSUME Good(disk), NEW n
  PROVE  PiecesOfFile(BlockRows(n), n) /\ RowsPass(BlockRows(n))
  <1>1. TypeSound(disk) /\ MapsSound(disk) /\ BlocksMatch(disk)
    BY GraphParts, MatchParts DEF Good, Sound
  <1>2. PICK k \in Nat : SequencesOf(disk, n) = 0..(k - 1)
    <2>1. CASE n \in NodeIds(disk)
      <3>1. disk.blockSeq \in Nat
        BY <1>1 DEF TypeSound
      <3>2. PICK l \in 0..disk.blockSeq : SequencesOf(disk, n) = 0..(l - 1)
        BY <1>1, <2>1 DEF MapsSound
      <3>3. l \in Nat
        BY <3>1
      <3> QED
        BY <3>2, <3>3
    <2>2. CASE n \notin NodeIds(disk)
      <3>1. MapsOf(disk, n) = {}
        BY <1>1, <2>2 DEF MapsSound, MapsOf
      <3>2. SequencesOf(disk, n) = 0..(0 - 1)
        BY <3>1 DEF SequencesOf
      <3> QED
        BY <3>2
    <2> QED
      BY <2>1, <2>2
  <1>3. /\ Cardinality(MapsOf(disk, n)) = k
        /\ \A i \in 1..k : \E m \in MapsOf(disk, n) : m.seq = i - 1 /\ OrderedMaps(disk, n)[i] = m
    BY <1>1, <1>2, OrderedMapsAre
  <1>4. OrderedData(disk, n) \in Seq(Seq(Bytes)) /\ Len(OrderedData(disk, n)) = k
    BY <1>1, <1>2, OrderedDataShape DEF BlocksInOrder
  <1> DEFINE rows == BlockRows(n)
             at(i) == OrderedMaps(disk, n)[i]
  <1>5. rows = [i \in 1..k |-> [seq |-> at(i).seq, block |-> disk.blocks[at(i).block]]]
    BY <1>3 DEF BlockRows
  <1>6. OrderedData(disk, n) = [i \in 1..k |-> disk.blocks[at(i).block].data]
    BY <1>3 DEF OrderedData
  <1>7. ASSUME NEW i \in 1..k
        PROVE  /\ at(i).seq = i - 1
               /\ at(i).block \in DOMAIN disk.blocks /\ ~disk.blocks[at(i).block].free
    <2>1. PICK m \in MapsOf(disk, n) : m.seq = i - 1 /\ at(i) = m
      BY <1>3
    <2>2. m \in disk.maps
      BY DEF MapsOf
    <2> QED
      BY <1>1, <2>1, <2>2 DEF MapsSound
  <1> HIDE DEF rows, at
  <1>8. Len(rows) = k
    BY <1>5
  <1>9. \A i \in 1..k : rows[i].seq = at(i).seq /\ rows[i].block = disk.blocks[at(i).block]
    BY <1>5
  <1>10. DataOf(rows) = [i \in 1..k |-> rows[i].block.data]
    BY <1>8 DEF DataOf
  <1>11. DataOf(rows) = OrderedData(disk, n)
    BY <1>6, <1>9, <1>10
  <1>12. PiecesOfFile(rows, n)
    BY <1>4, <1>8, <1>11 DEF PiecesOfFile, Content
  <1>13. SequencesSound(rows)
    BY <1>7, <1>8, <1>9 DEF SequencesSound
  <1>14. ASSUME NEW i \in 1..Len(rows), NEW policy PROVE BlockSound(rows[i].block, policy)
    BY <1>1, <1>7, <1>8, <1>9 DEF BlocksMatch, BlockSound
  <1> QED
    BY <1>12, <1>13, <1>14 DEF RowsPass, rows

(* Nothing below a file: on a backend that tells names apart, the query for
   rows below its path finds none. *)
LEMMA FileIsClear ==
  ASSUME Good(disk), CaseSensitiveLike, NEW c, c.row.type = "file", Calm(c)
  PROVE  TreeClear(c)
  <1>1. TreeSound(disk) /\ Pathed(disk)
    BY TypePathed DEF Good, Sound
  <1>2. c.node \in NodeIds(disk) /\ disk.nodes[c.node] = c.row
    BY DEF Calm
  <1>3. ASSUME NEW m \in NodeIds(disk) PROVE ~LikeBelow(c.row.path, disk.nodes[m].path)
    <2>1. ~Below(c.row.path, disk.nodes[m].path)
      BY <1>1, <1>2 DEF TreeSound
    <2>2. c.row.path \in Paths /\ disk.nodes[m].path \in Paths
      BY <1>1, <1>2 DEF Pathed
    <2> QED
      BY <2>1, <2>2, BelowLike
  <1> QED
    BY <1>3 DEF TreeClear, NodesLikeBelow

-----------------------------------------------------------------------------
(* What a reader knows of a committed database d *)

CallFields ==
  {"stage", "kind", "node", "row", "policy", "s", "e", "file", "loaded", "out", "truth", "calm"}

(* The content that an open handle was given is that of its version. *)
HandleKnows(d, f) ==
  /\ f.node \in Nat /\ f.node < d.nodeSeq /\ f.ver \in Nat
  /\ f.node \in NodeIds(d) =>
       /\ d.nodes[f.node].type = "file"
       /\ f.ver <= d.nodes[f.node].ver
       /\ f.ver = d.nodes[f.node].ver => Content(d, f.node) = f.was

(* The row that a read looked up was one of a finished file. *)
RowFinished(row) == row.type = "file" /\ \E data : row.sum = Hash(data)

(* The row describes these bytes. *)
RowDescribes(row, data) == row.size = Len(data) /\ row.sum = Hash(data)

LoadedRight(c) ==
  /\ c.kind = "whole"
  /\ RowsPass(c.loaded) /\ c.truth = FlattenSeq(DataOf(c.loaded))
  /\ c.calm => RowDescribes(c.row, c.truth)

(* Of one call, what ReadsAreSlices, ChecksumReadsRow and CalmReadsSucceed say
   of all. *)
DoneRight(c) ==
  /\ c.out.error = "none" => c.out.data = Wanted(c)
  /\ c.out.error = "none" /\ c.kind = "whole" /\ c.policy = "checksum"
       => RowDescribes(c.row, c.out.data)
  /\ CaseSensitiveLike /\ c.calm => c.out.error = "none"

CallRight(d, c) ==
  /\ DOMAIN c = CallFields
  /\ c.stage \in {"row", "tree", "loaded", "done"}
  /\ c.file = NoHandle \/ HandleKnows(d, c.file)
  /\ c.s \in Nat /\ c.e \in Nat
  /\ c.kind # "stream" => RowFinished(c.row)
  /\ c.stage = "loaded" => LoadedRight(c)
  /\ c.stage = "done" => DoneRight(c)

ReaderRight(d, c) ==
  \/ c = Nobody
  \/ c.stage = "headers"
  \/ c.stage = "open" /\ HandleKnows(d, c.file)
  \/ CallRight(d, c)

ReadsInv ==
  /\ Good(disk)
  /\ reader = [r \in Readers |-> reader[r]]
  /\ \A r \in Readers : ReaderRight(disk, reader[r])

LEMMA HandleOutlives ==
  ASSUME NEW d, Good(d), NEW e, Good(e), Evolves(d, e), NEW f, HandleKnows(d, f)
  PROVE  HandleKnows(e, f)
  <1>1. d.nodeSeq \in Nat /\ e.nodeSeq \in Nat /\ d.nodeSeq <= e.nodeSeq
    BY DEF Good, Sound, TypeSound, Evolves
  <1>2. f.node \in Nat /\ f.node < d.nodeSeq /\ f.ver \in Nat
    BY DEF HandleKnows
  <1>3. f.node \in NodeIds(e) => f.node \in NodeIds(d)
    BY <1>1, <1>2 DEF Evolves
  <1>4. ASSUME f.node \in NodeIds(e)
        PROVE  /\ e.nodes[f.node].type = "file"
               /\ f.ver <= e.nodes[f.node].ver
               /\ f.ver = e.nodes[f.node].ver => Content(e, f.node) = f.was
    <2>1. VersionTells(d, e, f.node)
      BY <1>3, <1>4 DEF Evolves
    <2>2. d.nodes[f.node].ver \in Nat /\ e.nodes[f.node].ver \in Nat
      BY <1>3, <1>4 DEF Good, Sound, TypeSound, NodeRowSound
    <2>3. /\ d.nodes[f.node].type = "file" /\ f.ver <= d.nodes[f.node].ver
          /\ f.ver = d.nodes[f.node].ver => Content(d, f.node) = f.was
      BY <1>3, <1>4 DEF HandleKnows
    <2> QED
      BY <1>2, <2>1, <2>2, <2>3 DEF VersionTells
  <1> QED
    BY <1>1, <1>2, <1>4 DEF HandleKnows

LEMMA ReaderOutlives ==
  ASSUME NEW d, Good(d), NEW e, Good(e), Evolves(d, e), NEW c, ReaderRight(d, c)
  PROVE  ReaderRight(e, c)
  <1>1. CASE c.stage = "open" /\ HandleKnows(d, c.file)
    BY <1>1, HandleOutlives DEF ReaderRight
  <1>2. CASE CallRight(d, c)
    <2>1. c.file = NoHandle \/ HandleKnows(e, c.file)
      BY <1>2, HandleOutlives DEF CallRight
    <2> QED
      BY <1>2, <2>1 DEF CallRight, ReaderRight
  <1> QED
    BY <1>1, <1>2 DEF ReaderRight

LEMMA CommitKeeps ==
  ASSUME ReadsInv, NEW e, Good(e), Evolves(disk, e), disk' = e, UNCHANGED reader
  PROVE  ReadsInv'
  <1>1. \A r \in Readers : ReaderRight(e, reader[r])
    BY ReaderOutlives DEF ReadsInv
  <1>2. Good(disk')
    OBVIOUS
  <1>3. reader' = [r \in Readers |-> reader'[r]]
    BY DEF ReadsInv
  <1>4. \A r \in Readers : ReaderRight(disk', reader'[r])
    BY <1>1
  <1> QED
    BY <1>2, <1>3, <1>4 DEF ReadsInv

LEMMA StepKeeps ==
  ASSUME ReadsInv, NEW r \in Readers, NEW c, ReaderRight(disk, c), Step(r, c)
  PROVE  ReadsInv'
  <1>1. reader' = [reader EXCEPT ![r] = c] /\ disk' = disk
    BY DEF Step
  <1>2. \A q \in Readers : reader'[q] = IF q = r THEN c ELSE reader[q]
    BY <1>1 DEF ReadsInv
  <1>3. reader' = [q \in Readers |-> reader'[q]]
    BY <1>1 DEF ReadsInv
  <1>4. Good(disk')
    BY <1>1 DEF ReadsInv
  <1>5. \A q \in Readers : ReaderRight(disk', reader'[q])
    BY <1>1, <1>2 DEF ReadsInv
  <1> QED
    BY <1>3, <1>4, <1>5 DEF ReadsInv

-----------------------------------------------------------------------------
(* One lemma per query of a reader *)

LEMMA FinishedRows ==
  ASSUME Good(disk), NEW n \in NodeIds(disk), disk.nodes[n].type = "file"
  PROVE  RowFinished(disk.nodes[n]) /\ RowDescribes(disk.nodes[n], Content(disk, n))
  BY DEF Good, RowsMatchContent, RowFinished, RowDescribes

LEMMA CallStarts ==
  ASSUME Good(disk), NEW kind, NEW n \in NodeIds(disk), NEW policy,
         kind # "stream" => disk.nodes[n].type = "file",
         NEW s \in Nat, NEW e \in Nat, NEW file, file = NoHandle \/ HandleKnows(disk, file)
  PROVE  ReaderRight(disk, Call(kind, n, policy, s, e, file))
  <1> DEFINE c == Call(kind, n, policy, s, e, file)
  <1>1. /\ DOMAIN c = CallFields /\ c.stage = "row" /\ c.kind = kind /\ c.row = disk.nodes[n]
        /\ c.s = s /\ c.e = e /\ c.file = file
    BY DEF Call, CallFields
  <1> HIDE DEF c
  <1>2. c.kind # "stream" => RowFinished(c.row)
    BY <1>1, FinishedRows
  <1>3. CallRight(disk, c)
    BY <1>1, <1>2 DEF CallRight
  <1> QED
    BY <1>3 DEF ReaderRight, c

LEMMA ReadFileKeeps ==
  ASSUME ReadsInv, NEW r \in Readers, NEW p, NEW policy, ReadFile(r, p, policy)
  PROVE  ReadsInv'
  <1>1. PICK n \in NodesAt(disk, p) :
          disk.nodes[n].type = "file" /\ Step(r, Call("whole", n, policy, 0, 0, NoHandle))
    BY DEF ReadFile
  <1>2. n \in NodeIds(disk)
    BY DEF NodesAt
  <1>3. ReaderRight(disk, Call("whole", n, policy, 0, 0, NoHandle))
    BY <1>1, <1>2, CallStarts DEF ReadsInv
  <1> QED
    BY <1>1, <1>3, StepKeeps

LEMMA OpenHandleKeeps ==
  ASSUME ReadsInv, NEW r \in Readers, NEW p, OpenHandle(r, p)
  PROVE  ReadsInv'
  <1>1. PICK n \in NodesAt(disk, p) :
          disk.nodes[n].type = "file" /\ Step(r, [stage |-> "open", file |-> Handle(n)])
    BY DEF OpenHandle
  <1>2. n \in NodeIds(disk) /\ TypeSound(disk)
    BY DEF NodesAt, ReadsInv, Good, Sound
  <1>3. n \in Nat /\ n < disk.nodeSeq /\ disk.nodes[n].ver \in Nat
    BY <1>2 DEF TypeSound, NodeRowSound
  <1>4. HandleKnows(disk, Handle(n))
    BY <1>1, <1>2, <1>3 DEF HandleKnows, Handle
  <1>5. ReaderRight(disk, [stage |-> "open", file |-> Handle(n)])
    BY <1>4 DEF ReaderRight
  <1> QED
    BY <1>1, <1>5, StepKeeps

(* A handle that is not stale: its row is a file, with the content it had. *)
LEMMA OpenReaders ==
  ASSUME ReadsInv, NEW r \in Readers, reader[r].stage = "open"
  PROVE  HandleKnows(disk, reader[r].file)
  <1>1. ReaderRight(disk, reader[r])
    BY DEF ReadsInv
  <1> QED
    BY <1>1 DEF ReaderRight, CallRight, Nobody

LEMMA FetchKeeps ==
  ASSUME ReadsInv, NEW r \in Readers, NEW s \in Nat, NEW e \in Nat, NEW policy,
         Fetch(r, s, e, policy)
  PROVE  /\ ReadsInv'
         /\ Content(disk, reader[r].file.node) = reader[r].file.was
  <1> DEFINE f == reader[r].file
             c == Call("range", f.node, policy, s, e, f)
  <1>1. HandleKnows(disk, f) /\ Unchanged(f) /\ Step(r, c)
    BY OpenReaders DEF Fetch
  <1> HIDE DEF f
  <1>2. /\ f.node \in NodeIds(disk) /\ disk.nodes[f.node].type = "file"
        /\ Content(disk, f.node) = f.was
    BY <1>1 DEF Unchanged, HandleKnows
  <1>3. ReaderRight(disk, c)
    BY <1>1, <1>2, CallStarts DEF ReadsInv
  <1> QED
    BY <1>1, <1>2, <1>3, StepKeeps DEF f

LEMMA GetHeadersKeeps ==
  ASSUME ReadsInv, NEW r \in Readers, NEW p, GetHeaders(r, p)
  PROVE  ReadsInv'
  <1>1. PICK n : Step(r, [stage |-> "headers", path |-> p, size |-> disk.nodes[n].size])
    BY DEF GetHeaders
  <1>2. ReaderRight(disk, [stage |-> "headers", path |-> p, size |-> disk.nodes[n].size])
    BY DEF ReaderRight
  <1> QED
    BY <1>1, <1>2, StepKeeps

LEMMA NobodyKeeps ==
  ASSUME ReadsInv, NEW r \in Readers, Step(r, Nobody)
  PROVE  ReadsInv'
  <1>1. ReaderRight(disk, Nobody)
    BY DEF ReaderRight
  <1> QED
    BY <1>1, StepKeeps

LEMMA GetBodyKeeps ==
  ASSUME ReadsInv, NEW r \in Readers, NEW s \in Nat, NEW e \in Nat, GetBody(r, s, e)
  PROVE  ReadsInv'
  <1>1. CASE Step(r, Nobody)
    BY <1>1, NobodyKeeps
  <1>2. ASSUME NEW n \in NodesAt(disk, reader[r].path), Step(r, Call("stream", n, "off", s, e, NoHandle))
        PROVE  ReadsInv'
    <2>1. n \in NodeIds(disk)
      BY DEF NodesAt
    <2>2. ReaderRight(disk, Call("stream", n, "off", s, e, NoHandle))
      BY <2>1, CallStarts DEF ReadsInv
    <2> QED
      BY <1>2, <2>2, StepKeeps
  <1> QED
    BY <1>1, <1>2 DEF GetBody

LEMMA CallsInProgress ==
  ASSUME ReadsInv, NEW r \in Readers, reader[r].stage \in {"row", "tree", "loaded", "done"}
  PROVE  CallRight(disk, reader[r])
  <1>1. ReaderRight(disk, reader[r])
    BY DEF ReadsInv
  <1> QED
    BY <1>1 DEF ReaderRight, Nobody

LEMMA ReturnKeeps ==
  ASSUME ReadsInv, NEW r \in Readers, Return(r)
  PROVE  ReadsInv'
  <1>1. CallRight(disk, reader[r])
    BY CallsInProgress DEF Return
  <1>2. CASE reader[r].file = NoHandle
    BY <1>2, NobodyKeeps DEF Return
  <1>3. CASE reader[r].file # NoHandle
    <2>1. HandleKnows(disk, reader[r].file)
      BY <1>1, <1>3 DEF CallRight
    <2>2. ReaderRight(disk, [stage |-> "open", file |-> reader[r].file])
      BY <2>1 DEF ReaderRight
    <2>3. Step(r, [stage |-> "open", file |-> reader[r].file])
      BY <1>3 DEF Return
    <2> QED
      BY <2>2, <2>3, StepKeeps
  <1> QED
    BY <1>2, <1>3

LEMMA CheckTreeKeeps ==
  ASSUME ReadsInv, NEW r \in Readers, CheckTree(r)
  PROVE  ReadsInv'
  <1>1. PICK c : c = reader[r]
    OBVIOUS
  <1>2. c.stage = "row" /\ c.kind = "range"
    BY <1>1 DEF CheckTree
  <1>3. CallRight(disk, c)
    BY <1>1, <1>2, CallsInProgress
  <1>4. CASE TreeClear(c)
    <2> DEFINE t == [c EXCEPT !.stage = "tree"]
    <2>1. /\ DOMAIN t = CallFields /\ t.stage = "tree" /\ t.file = c.file /\ t.s = c.s /\ t.e = c.e
          /\ t.kind = c.kind /\ t.row = c.row
      BY <1>3 DEF CallRight, CallFields
    <2>2. Step(r, t)
      BY <1>1, <1>4 DEF CheckTree
    <2> HIDE DEF t
    <2>3. CallRight(disk, t)
      BY <1>3, <2>1 DEF CallRight
    <2> QED
      BY <2>2, <2>3, StepKeeps DEF ReaderRight
  <1>5. CASE ~TreeClear(c)
    <2> DEFINE t == [c EXCEPT !.stage = "done", !.out = Damaged, !.calm = Calm(c)]
    <2>1. /\ DOMAIN t = CallFields /\ t.stage = "done" /\ t.file = c.file /\ t.s = c.s /\ t.e = c.e
          /\ t.kind = c.kind /\ t.row = c.row /\ t.out.error = "DataIntegrityError"
      BY <1>3 DEF CallRight, CallFields, Damaged
    <2>2. t.calm = Calm(c)
      BY <1>3 DEF CallRight, CallFields
    <2>3. Step(r, t)
      BY <1>1, <1>5 DEF CheckTree
    <2>4. CaseSensitiveLike => ~Calm(c)
      <3>1. c.row.type = "file"
        BY <1>2, <1>3 DEF CallRight, RowFinished
      <3> QED
        BY <1>5, <3>1, FileIsClear DEF ReadsInv
    <2> HIDE DEF t
    <2>5. DoneRight(t)
      BY <2>1, <2>2, <2>4 DEF DoneRight
    <2>6. CallRight(disk, t)
      BY <1>3, <2>1, <2>5 DEF CallRight
    <2> QED
      BY <2>3, <2>6, StepKeeps DEF ReaderRight
  <1> QED
    BY <1>4, <1>5

(* What a range read returns of rows that hold the file in pieces; and that
   it returns, when the rows pass every check. *)
LEMMA RangeResultIs ==
  ASSUME NEW c, c.s \in Nat, c.e \in Nat, NEW rows, NEW n, PiecesOfFile(rows, n)
  PROVE  /\ RangeResult(c, rows).error = "none"
              => RangeResult(c, rows).data = Slice(FlattenSeq(DataOf(rows)), c.s, c.e)
         /\ RowsPass(rows) /\ (c.kind # "stream" => c.row.size = Len(FlattenSeq(DataOf(rows))))
              => RangeResult(c, rows).error = "none"
  <1> DEFINE parts == DataOf(rows)
  <1>1. parts \in Seq(Seq(Bytes)) /\ Len(parts) = Len(rows)
    BY DEF PiecesOfFile
  <1> HIDE DEF parts
  <1>2. /\ WalkedRange(parts, c.s, c.e) = Slice(FlattenSeq(parts), c.s, c.e)
        /\ Walked(parts, c.s, c.e) \subseteq 1..Len(rows)
    <2>1. /\ WalkedRange(parts, c.s, c.e) = Slice(FlattenSeq(parts), c.s, c.e)
          /\ Walked(parts, c.s, c.e)
               = {j \in 1..Len(parts) : c.s < c.e /\ Reaches(parts, j, c.s, c.e)}
      BY <1>1, WalkGives
    <2> QED
      BY <1>1, <2>1
  <1>3. IndexedRange(parts, c.s, c.e) = Slice(FlattenSeq(parts), c.s, c.e)
    BY <1>1, IndexedGives
  <1>4. \A data : Returned(data).error = "none" /\ Returned(data).data = data
    BY DEF Returned
  <1>5. Damaged.error # "none"
    BY DEF Damaged
  <1>6. CASE c.kind = "stream"
    <2>1. RangeResult(c, rows) = Returned(WalkedRange(parts, c.s, c.e))
      BY <1>6 DEF RangeResult, parts
    <2> QED
      BY <1>2, <1>4, <2>1 DEF parts
  <1>7. CASE c.kind # "stream" /\ c.policy = "off"
    <2>1. RangeResult(c, rows) = Returned(IndexedRange(parts, c.s, c.e))
      BY <1>7 DEF RangeResult, parts
    <2> QED
      BY <1>3, <1>4, <2>1 DEF parts
  <1>8. CASE c.kind # "stream" /\ c.policy # "off"
    <2> DEFINE pass == /\ SequencesSound(rows)
                       /\ Len(FlattenSeq(parts)) = c.row.size
                       /\ \A i \in Walked(parts, c.s, c.e) : BlockSound(rows[i].block, c.policy)
    <2>1. RangeResult(c, rows) = IF pass THEN Returned(WalkedRange(parts, c.s, c.e)) ELSE Damaged
      BY <1>8 DEF RangeResult, parts
    <2>2. RowsPass(rows) /\ c.row.size = Len(FlattenSeq(parts)) => pass
      BY <1>2 DEF RowsPass
    <2> HIDE DEF pass
    <2>3. CASE pass
      BY <1>2, <1>4, <2>1, <2>3 DEF parts
    <2>4. CASE ~pass
      <3>1. RangeResult(c, rows) = Damaged
        BY <2>1, <2>4
      <3> QED
        BY <1>5, <1>8, <2>2, <2>4, <3>1 DEF parts
    <2> QED
      BY <2>3, <2>4
  <1> QED
    BY <1>6, <1>7, <1>8

(* A read whose row is still the same finds the bytes that the row describes. *)
LEMMA CalmDescribes ==
  ASSUME Good(disk), NEW c, RowFinished(c.row), Calm(c)
  PROVE  RowDescribes(c.row, Content(disk, c.node))
  BY FinishedRows DEF Calm, RowFinished

LEMMA LoadBlocksKeeps ==
  ASSUME ReadsInv, NEW r \in Readers, LoadBlocks(r)
  PROVE  ReadsInv'
  <1>1. PICK c : c = reader[r]
    OBVIOUS
  <1>2. PICK rows : rows = BlockRows(c.node)
    OBVIOUS
  <1>3. PICK data : data = FlattenSeq(DataOf(rows))
    OBVIOUS
  <1> DEFINE read == [c EXCEPT !.truth = data, !.calm = Calm(c)]
             ranged == [read EXCEPT !.stage = "done", !.out = RangeResult(c, rows)]
             held == [read EXCEPT !.stage = "loaded", !.loaded = rows]
             whole == [read EXCEPT !.stage = "done", !.out = Returned(data)]
  <1>4. /\ c.stage \in {"row", "tree"}
        /\ Step(r, IF c.kind # "whole" THEN ranged ELSE IF Checked(c) THEN held ELSE whole)
    BY <1>1, <1>2, <1>3 DEF LoadBlocks
  <1>5. CallRight(disk, c)
    BY <1>1, <1>4, CallsInProgress
  <1>6. DOMAIN c = CallFields /\ c.s \in Nat /\ c.e \in Nat
        /\ (c.kind # "stream" => RowFinished(c.row))
    BY <1>5 DEF CallRight
  <1>7. PiecesOfFile(rows, c.node) /\ RowsPass(rows) /\ data = Content(disk, c.node)
    BY <1>2, <1>3, BlockRowsAre DEF ReadsInv, PiecesOfFile
  <1>8. c.kind # "stream" /\ Calm(c) => RowDescribes(c.row, data)
    BY <1>6, <1>7, CalmDescribes DEF ReadsInv
  <1>9. CASE c.kind # "whole"
    <2>1. PICK out : out = RangeResult(c, rows)
      OBVIOUS
    <2>2. /\ DOMAIN ranged = CallFields /\ ranged.stage = "done" /\ ranged.file = c.file
          /\ ranged.s = c.s /\ ranged.e = c.e /\ ranged.kind = c.kind /\ ranged.row = c.row
          /\ ranged.truth = data /\ ranged.out = out /\ ranged.calm = Calm(c)
      BY <1>6, <2>1 DEF CallFields
    <2>3. Step(r, ranged)
      BY <1>4, <1>9
    <2> HIDE DEF ranged
    <2>4. out.error = "none" => out.data = Wanted(ranged)
      BY <1>3, <1>6, <1>7, <1>9, <2>1, <2>2, RangeResultIs DEF Wanted
    <2>5. Calm(c) => out.error = "none"
      BY <1>3, <1>6, <1>7, <1>8, <2>1, RangeResultIs DEF RowDescribes
    <2>6. DoneRight(ranged)
      BY <1>9, <2>2, <2>4, <2>5 DEF DoneRight
    <2>7. CallRight(disk, ranged)
      BY <1>5, <2>2, <2>6 DEF CallRight
    <2> QED
      BY <2>3, <2>7, StepKeeps DEF ReaderRight
  <1>10. CASE c.kind = "whole" /\ Checked(c)
    <2>1. /\ DOMAIN held = CallFields /\ held.stage = "loaded" /\ held.file = c.file
          /\ held.s = c.s /\ held.e = c.e /\ held.kind = c.kind /\ held.row = c.row
          /\ held.truth = data /\ held.loaded = rows /\ held.calm = Calm(c)
      BY <1>6 DEF CallFields
    <2>2. Step(r, held)
      BY <1>4, <1>10
    <2> HIDE DEF held
    <2>3. held.calm => RowDescribes(held.row, held.truth)
      BY <1>8, <1>10, <2>1
    <2>4. LoadedRight(held)
      BY <1>3, <1>7, <1>10, <2>1, <2>3 DEF LoadedRight
    <2>5. CallRight(disk, held)
      BY <1>5, <2>1, <2>4 DEF CallRight
    <2> QED
      BY <2>2, <2>5, StepKeeps DEF ReaderRight
  <1>11. CASE c.kind = "whole" /\ ~Checked(c)
    <2>1. /\ DOMAIN whole = CallFields /\ whole.stage = "done" /\ whole.file = c.file
          /\ whole.s = c.s /\ whole.e = c.e /\ whole.kind = c.kind /\ whole.row = c.row
          /\ whole.policy = c.policy
          /\ whole.truth = data /\ whole.out = Returned(data)
      BY <1>6 DEF CallFields
    <2>2. Step(r, whole)
      BY <1>4, <1>11
    <2>3. whole.policy # "checksum"
      BY <1>11, <2>1 DEF Checked
    <2> HIDE DEF whole
    <2>4. whole.out.error = "none" /\ whole.out.data = data
      BY <2>1 DEF Returned
    <2>5. DoneRight(whole)
      BY <1>11, <2>1, <2>3, <2>4 DEF DoneRight, Wanted
    <2>6. CallRight(disk, whole)
      BY <1>5, <2>1, <2>5 DEF CallRight
    <2> QED
      BY <2>2, <2>6, StepKeeps DEF ReaderRight
  <1> QED
    BY <1>9, <1>10, <1>11

LEMMA CheckWholeKeeps ==
  ASSUME ReadsInv, NEW r \in Readers, CheckWhole(r)
  PROVE  ReadsInv'
  <1>1. PICK c : c = reader[r]
    OBVIOUS
  <1>2. PICK out : out = IF TreeClear(c) /\ WholeSound(c)
                         THEN Returned(FlattenSeq(DataOf(c.loaded))) ELSE Damaged
    OBVIOUS
  <1>3. PICK calm : calm = (c.calm /\ Calm(c))
    OBVIOUS
  <1> DEFINE t == [c EXCEPT !.stage = "done", !.loaded = <<>>, !.calm = calm, !.out = out]
  <1>4. c.stage = "loaded"
    BY <1>1 DEF CheckWhole
  <1>5. CallRight(disk, c) /\ LoadedRight(c)
    BY <1>1, <1>4, CallsInProgress DEF CallRight
  <1>6. Step(r, t)
    <2>1. t = [c EXCEPT !.stage = "done", !.loaded = <<>>, !.calm = @ /\ Calm(c), !.out = out]
      BY <1>3, <1>5 DEF CallRight, CallFields
    <2> HIDE DEF t
    <2> QED
      BY <1>1, <1>2, <2>1 DEF CheckWhole
  <1>7. /\ DOMAIN t = CallFields /\ t.stage = "done" /\ t.file = c.file /\ t.s = c.s /\ t.e = c.e
        /\ t.kind = c.kind /\ t.row = c.row /\ t.policy = c.policy /\ t.truth = c.truth
        /\ t.out = out /\ t.calm = calm
    BY <1>5 DEF CallRight, CallFields
  <1> HIDE DEF t
  <1>8. c.kind = "whole" /\ RowFinished(c.row) /\ RowsPass(c.loaded)
        /\ c.truth = FlattenSeq(DataOf(c.loaded))
    BY <1>5 DEF CallRight, LoadedRight
  <1>9. \/ out = Damaged /\ ~(TreeClear(c) /\ WholeSound(c))
        \/ out = Returned(c.truth) /\ WholeSound(c)
    BY <1>2, <1>8
  <1>10. out.error = "none" => out.data = c.truth /\ WholeSound(c)
    BY <1>9 DEF Damaged, Returned
  <1>11. WholeSound(c) /\ c.policy = "checksum" => RowDescribes(c.row, c.truth)
    <2>1. PICK data : c.row.sum = <<data>>
      BY <1>8 DEF RowFinished, Hash
    <2>2. c.row.sum # NoHash
      BY <2>1 DEF NoHash
    <2> QED
      BY <1>8, <2>2 DEF WholeSound, RowDescribes
  <1>12. CaseSensitiveLike /\ calm => out.error = "none"
    <2> SUFFICES ASSUME CaseSensitiveLike, c.calm, Calm(c) PROVE out.error = "none"
      BY <1>3
    <2>1. TreeClear(c)
      BY <1>8, FileIsClear DEF ReadsInv, RowFinished
    <2>2. RowDescribes(c.row, c.truth)
      BY <1>5 DEF LoadedRight
    <2>3. WholeSound(c)
      BY <1>8, <2>2 DEF WholeSound, RowsPass, RowDescribes
    <2> QED
      BY <1>9, <2>1, <2>3 DEF Returned
  <1>13. DoneRight(t)
    BY <1>7, <1>8, <1>10, <1>11, <1>12 DEF DoneRight, Wanted
  <1>14. CallRight(disk, t)
    BY <1>5, <1>7, <1>13 DEF CallRight
  <1> QED
    BY <1>6, <1>14, StepKeeps DEF ReaderRight

-----------------------------------------------------------------------------
(* The theorems *)

LEMMA ReadsInit == Init => ReadsInv
  <1> SUFFICES ASSUME Init PROVE ReadsInv
    OBVIOUS
  <1>1. disk = EmptyDb /\ reader = [r \in Readers |-> Nobody]
    BY DEF Init
  <1>2. Good(EmptyDb)
    <2>1. NodeIds(EmptyDb) = {} /\ DOMAIN EmptyDb.blocks = {} /\ EmptyDb.maps = {}
      BY DEF EmptyDb, NodeIds
    <2>2. TypeSound(EmptyDb)
      BY <2>1 DEF EmptyDb, TypeSound, NodeIds
    <2>3. GraphSound(EmptyDb) /\ TreeSound(EmptyDb) /\ RowsMatchContent(EmptyDb)
      BY <2>1 DEF GraphSound, TreeSound, RowsMatchContent
    <2> QED
      BY <2>2, <2>3 DEF Good, Sound
  <1>3. \A r \in Readers : ReaderRight(disk, reader[r])
    BY <1>1 DEF ReaderRight
  <1>4. reader = [r \in Readers |-> reader[r]]
    BY <1>1
  <1> QED
    BY <1>1, <1>2, <1>3, <1>4 DEF ReadsInv

LEMMA CommitWriteKeeps ==
  ASSUME ReadsInv, NEW mode \in {"wb", "ab"}, NEW p \in Paths, NEW data \in Payloads,
         NEW bs \in BlockSizes, CommitWrite(mode, p, data, bs)
  PROVE  ReadsInv'
  <1>1. PICK c : c = StartDb(disk, mode, p, bs)
    OBVIOUS
  <1>2. PICK w : w = StartWriter(c, mode, p, bs)
    OBVIOUS
  <1>3. PICK e : e = FinalizeDb(WriteChunkDb(c, w, data), WriteChunk(w, data))
    OBVIOUS
  <1>4. CanStart(disk, mode, p) /\ disk' = e /\ UNCHANGED reader
    BY <1>1, <1>2, <1>3 DEF CommitWrite
  <1>5. mode \in Modes /\ data \in Seq(Bytes)
    BY ReadsAssumption DEF Modes
  <1>6. Good(e) /\ Evolves(disk, e)
    BY <1>1, <1>2, <1>3, <1>4, <1>5, WriteEvolves DEF ReadsInv
  <1> QED
    BY <1>4, <1>6, CommitKeeps

LEMMA CommitDeleteKeeps ==
  ASSUME ReadsInv, NEW p, CommitDelete(p)
  PROVE  ReadsInv'
  <1>1. PICK ids : ids = NodesAt(disk, p)
    OBVIOUS
  <1>2. PICK e : e = DeleteNodes(ReleaseFileBlocks(disk, ids), ids)
    OBVIOUS
  <1>3. disk' = e /\ UNCHANGED reader
    BY <1>1, <1>2 DEF CommitDelete
  <1>4. Good(e) /\ Evolves(disk, e)
    BY <1>2, DeleteEvolves DEF ReadsInv
  <1> QED
    BY <1>3, <1>4, CommitKeeps

LEMMA CommitRechunkKeeps ==
  ASSUME ReadsInv, NEW n \in NodeIds(disk), NEW bs \in BlockSizes, CommitRechunk(n, bs)
  PROVE  ReadsInv'
  <1>1. PICK e : e = RechunkDb(disk, n, bs)
    OBVIOUS
  <1>2. disk' = e /\ UNCHANGED reader /\ disk.nodes[n].type = "file"
    BY <1>1 DEF CommitRechunk
  <1>3. Good(e) /\ Evolves(disk, e)
    BY <1>1, <1>2, RechunkEvolves DEF ReadsInv
  <1> QED
    BY <1>2, <1>3, CommitKeeps

LEMMA ReadsStep == ReadsInv /\ [Next]_vars => ReadsInv'
  <1> SUFFICES ASSUME ReadsInv, [Next]_vars PROVE ReadsInv'
    OBVIOUS
  <1>1. Positions \subseteq Nat
    BY TablesAssumption DEF Positions
  <1>2. CASE UNCHANGED vars
    BY <1>2 DEF vars, ReadsInv
  <1>3. ASSUME NEW mode \in {"wb", "ab"}, NEW p \in Paths, NEW data \in Payloads,
               NEW bs \in BlockSizes, CommitWrite(mode, p, data, bs)
        PROVE  ReadsInv'
    BY <1>3, CommitWriteKeeps
  <1>4. ASSUME NEW p \in Paths, CommitDelete(p) PROVE ReadsInv'
    BY <1>4, CommitDeleteKeeps
  <1>5. ASSUME NEW n \in NodeIds(disk), NEW bs \in BlockSizes, CommitRechunk(n, bs)
        PROVE  ReadsInv'
    BY <1>5, CommitRechunkKeeps
  <1>6. ASSUME NEW r \in Readers, NEW p \in Paths,
               \/ OpenHandle(r, p)
               \/ GetHeaders(r, p)
               \/ \E policy \in Policies : ReadFile(r, p, policy)
        PROVE  ReadsInv'
    BY <1>6, OpenHandleKeeps, GetHeadersKeeps, ReadFileKeeps
  <1>7. ASSUME NEW r \in Readers, NEW s \in Positions, NEW e \in Positions,
               \/ GetBody(r, s, e)
               \/ \E policy \in Policies : Fetch(r, s, e, policy)
        PROVE  ReadsInv'
    BY <1>1, <1>7, GetBodyKeeps, FetchKeeps
  <1>8. ASSUME NEW r \in Readers, FetchRaises(r) \/ CloseHandle(r) PROVE ReadsInv'
    BY <1>8, NobodyKeeps DEF FetchRaises, CloseHandle
  <1>9. ASSUME NEW r \in Readers, CheckTree(r) \/ LoadBlocks(r) \/ CheckWhole(r) \/ Return(r)
        PROVE  ReadsInv'
    BY <1>9, CheckTreeKeeps, LoadBlocksKeeps, CheckWholeKeeps, ReturnKeeps
  <1> QED
    BY <1>2, <1>3, <1>4, <1>5, <1>6, <1>7, <1>8, <1>9 DEF Next

LEMMA ReadsAlways == Spec => []ReadsInv
  BY ReadsInit, ReadsStep, PTL DEF Spec

LEMMA DoneReaders ==
  ASSUME ReadsInv, NEW r \in Readers, Done(r)
  PROVE  DoneRight(reader[r])
  <1>1. reader[r].stage = "done"
    BY DEF Done
  <1>2. CallRight(disk, reader[r])
    BY <1>1, CallsInProgress
  <1> QED
    BY <1>1, <1>2 DEF CallRight

LEMMA ReadsHold ==
  ReadsInv => ReadsAreSlices /\ ChecksumReadsRow /\ (CaseSensitiveLike => CalmReadsSucceed)
  <1> SUFFICES ASSUME ReadsInv
               PROVE  ReadsAreSlices /\ ChecksumReadsRow /\ (CaseSensitiveLike => CalmReadsSucceed)
    OBVIOUS
  <1>1. ReadsAreSlices
    BY DoneReaders DEF ReadsAreSlices, ReturnedBytes, DoneRight
  <1>2. ChecksumReadsRow
    BY DoneReaders DEF ChecksumReadsRow, ReturnedBytes, DoneRight, RowDescribes
  <1>3. CaseSensitiveLike => CalmReadsSucceed
    BY DoneReaders DEF CalmReadsSucceed, ReturnedBytes, DoneRight
  <1> QED
    BY <1>1, <1>2, <1>3

(* The stage of a reader after a step of its own. *)
StaleRaise(r) ==
  reader[r].stage = "open" /\ reader'[r].stage = "row"
    => Content(disk, reader[r].file.node) = reader[r].file.was

LEMMA StepRaises ==
  ASSUME ReadsInv, NEW q \in Readers, NEW c, Step(q, c), reader[q].stage # "open" \/ c.stage # "row",
         NEW r \in Readers
  PROVE  StaleRaise(r)
  <1>1. reader' = [reader EXCEPT ![q] = c]
    BY DEF Step
  <1>2. reader'[r] = IF r = q THEN c ELSE reader[r]
    BY <1>1 DEF ReadsInv
  <1> QED
    BY <1>2 DEF StaleRaise

LEMMA FetchRaisesStale ==
  ASSUME ReadsInv, NEW q \in Readers, NEW s \in Nat, NEW e \in Nat, NEW policy,
         Fetch(q, s, e, policy), NEW r \in Readers
  PROVE  StaleRaise(r)
  <1>1. CASE r = q
    BY <1>1, FetchKeeps DEF StaleRaise
  <1>2. CASE r # q
    <2>1. PICK c : reader' = [reader EXCEPT ![q] = c]
      BY DEF Fetch, Step
    <2>2. reader'[r] = reader[r]
      BY <1>2, <2>1 DEF ReadsInv
    <2> QED
      BY <2>2 DEF StaleRaise
  <1> QED
    BY <1>1, <1>2

LEMMA StaleStep == ReadsInv /\ [Next]_vars => \A r \in Readers : StaleRaise(r)
  <1> SUFFICES ASSUME ReadsInv, [Next]_vars, NEW r \in Readers PROVE StaleRaise(r)
    OBVIOUS
  <1>1. Positions \subseteq Nat
    BY TablesAssumption DEF Positions
  <1>2. ASSUME reader' = reader PROVE StaleRaise(r)
    BY <1>2 DEF StaleRaise
  <1>3. ASSUME NEW q \in Readers, NEW p \in Paths,
               \/ OpenHandle(q, p)
               \/ GetHeaders(q, p)
               \/ \E policy \in Policies : ReadFile(q, p, policy)
        PROVE  StaleRaise(r)
    <2>1. reader[q] = Nobody /\ \E c : Step(q, c)
      BY <1>3 DEF OpenHandle, GetHeaders, ReadFile
    <2>2. reader[q].stage # "open"
      BY <2>1 DEF Nobody
    <2> QED
      BY <2>1, <2>2, StepRaises
  <1>4. ASSUME NEW q \in Readers, NEW s \in Positions, NEW e \in Positions, GetBody(q, s, e)
        PROVE  StaleRaise(r)
    <2>1. reader[q].stage = "headers" /\ \E c : Step(q, c)
      BY <1>4 DEF GetBody
    <2> QED
      BY <2>1, StepRaises
  <1>5. ASSUME NEW q \in Readers, NEW s \in Positions, NEW e \in Positions, NEW policy \in Policies,
               Fetch(q, s, e, policy)
        PROVE  StaleRaise(r)
    BY <1>1, <1>5, FetchRaisesStale
  <1>6. ASSUME NEW q \in Readers, FetchRaises(q) \/ CloseHandle(q) PROVE StaleRaise(r)
    <2>1. Step(q, Nobody)
      BY <1>6 DEF FetchRaises, CloseHandle
    <2>2. Nobody.stage # "row"
      BY DEF Nobody
    <2> QED
      BY <2>1, <2>2, StepRaises
  <1>7. ASSUME NEW q \in Readers, CheckTree(q) \/ LoadBlocks(q) \/ CheckWhole(q) \/ Return(q)
        PROVE  StaleRaise(r)
    <2>1. reader[q].stage \in {"row", "tree", "loaded", "done"} /\ \E c : Step(q, c)
      BY <1>7 DEF CheckTree, LoadBlocks, CheckWhole, Return
    <2>2. reader[q].stage # "open"
      BY <2>1
    <2> QED
      BY <2>1, <2>2, StepRaises
  <1>8. ASSUME NEW mode \in {"wb", "ab"}, NEW p \in Paths, NEW data \in Payloads,
               NEW bs \in BlockSizes, CommitWrite(mode, p, data, bs)
        PROVE  StaleRaise(r)
    BY <1>2, <1>8 DEF CommitWrite
  <1>9. ASSUME NEW p \in Paths, CommitDelete(p) PROVE StaleRaise(r)
    BY <1>2, <1>9 DEF CommitDelete
  <1>10. ASSUME NEW n \in NodeIds(disk), NEW bs \in BlockSizes, CommitRechunk(n, bs)
         PROVE  StaleRaise(r)
    BY <1>2, <1>10 DEF CommitRechunk
  <1>11. CASE UNCHANGED vars
    BY <1>2, <1>11 DEF vars
  <1> QED
    BY <1>3, <1>4, <1>5, <1>6, <1>7, <1>8, <1>9, <1>10, <1>11 DEF Next

(* Reads among commits give bytes of one committed content: read_file,
   read_file_range, read_file_streaming_range and DjangoFile, whatever the layout
   of the blocks and the length of files. *)
THEOREM ReadsCorrect == Spec => []ReadsAreSlices
  <1>1. ReadsInv => ReadsAreSlices
    BY ReadsHold
  <1> QED
    BY <1>1, ReadsAlways, PTL

(* A whole read checked with "checksum" gives what its row described, also
   where commits fall between the queries of _load_file_data. *)
THEOREM ChecksumsCorrect == Spec => []ChecksumReadsRow
  <1>1. ReadsInv => ChecksumReadsRow
    BY ReadsHold
  <1> QED
    BY <1>1, ReadsAlways, PTL

(* A handle whose file has another content than it was opened with raises
   instead of reading on (buffer.py: _fetch_range; operations.py: read_file_range). *)
THEOREM StaleHandlesCorrect == Spec => StaleHandlesRaise
  <1>1. ReadsInv /\ [Next]_vars
          => [\A r \in Readers :
                reader[r].stage = "open" /\ reader'[r].stage = "row"
                  => Content(disk, reader[r].file.node) = reader[r].file.was]_vars
    BY StaleStep DEF StaleRaise
  <1> QED
    BY <1>1, ReadsAlways, PTL DEF Spec, StaleHandlesRaise

(* On a backend whose LIKE tells every two names apart, a read whose file does
   not change meanwhile does not raise DataIntegrityError, whatever the policy
   (CalmReadsSucceed): the checks of _load_file_data and
   _read_file_range_with_integrity reject nothing that the writers store. *)
THEOREM CalmReadsCorrect ==
  ASSUME CaseSensitiveLike
  PROVE  Spec => []CalmReadsSucceed
  <1>1. ReadsInv => CalmReadsSucceed
    BY ReadsHold
  <1> QED
    BY <1>1, ReadsAlways, PTL
=============================================================================
