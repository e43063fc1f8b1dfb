----------------------------- MODULE TableProofs -----------------------------
(***************************************************************************)
(* What the operators of Tables compute, for data and files of any length. *)
(* Content joins the blocks of a file with FlattenSeq, which is defined by *)
(* recursion, so its equations are proved by induction over numbers, and   *)
(* everything else from them.                                              *)
(***************************************************************************)
EXTENDS Tables, WellFoundedInduction, SequenceTheorems, FiniteSetTheorems, TLAPS

(* Induction over a set of numbers. *)
LEMMA NumbersInductively ==
  ASSUME NEW S, 0 \in S, \A n \in Nat : n \in S => n + 1 \in S
  PROVE  \A n \in Nat : n \in S
  <1> DEFINE R == OpToRel(<, Nat)
             T == Nat \ S
  <1>1. IsWellFoundedOn(R, Nat)
    BY NatLessThanWellFounded
  <1>2. \A x, y \in Nat : y < x => <<y, x>> \in R
    BY DEF OpToRel
  <1> HIDE DEF R
  <1>3. SUFFICES ASSUME T # {} PROVE FALSE
    OBVIOUS
  <1>4. PICK x \in T : \A y \in T : ~(<<y, x>> \in R)
    <2>1. T \subseteq Nat
      OBVIOUS
    <2> HIDE DEF T
    <2> QED
      BY <1>1, <1>3, <2>1, WFMin
  <1>5. x \in Nat /\ x # 0 /\ x \notin S
    OBVIOUS
  <1>6. x - 1 \in Nat /\ x - 1 < x /\ (x - 1) + 1 = x
    BY <1>5
  <1>7. <<x - 1, x>> \in R
    BY <1>2, <1>5, <1>6
  <1>8. x - 1 \notin T
    BY <1>4, <1>7
  <1> QED
    BY <1>5, <1>6, <1>8

(* The function that FlattenSeq defines by recursion. *)
Flattens(g, s) == g = [i \in 1..Len(s) |-> IF i = 1 THEN s[i] ELSE g[i - 1] \o s[i]]

FlattensTo(n, g, s) == \A i \in 1..n : g[i] = IF i = 1 THEN s[i] ELSE g[i - 1] \o s[i]

LEMMA FlattensUpTo ==
  ASSUME NEW X, NEW s \in Seq(Seq(X)), NEW k \in Nat, k <= Len(s)
  PROVE  \E g \in [1..k -> Seq(X)] : FlattensTo(k, g, s)
  <1> DEFINE S == {n \in Nat : n <= Len(s) => \E g \in [1..n -> Seq(X)] : FlattensTo(n, g, s)}
  <1>1. 0 \in S
    <2> DEFINE g == [i \in 1..0 |-> <<>>]
    <2>1. g \in [1..0 -> Seq(X)] /\ FlattensTo(0, g, s)
      BY DEF FlattensTo
    <2> QED
      BY <2>1
  <1>2. ASSUME NEW n \in Nat, n \in S PROVE n + 1 \in S
    <2>1. SUFFICES ASSUME n + 1 <= Len(s) PROVE \E g \in [1..(n + 1) -> Seq(X)] : FlattensTo(n + 1, g, s)
      OBVIOUS
    <2>2. PICK g \in [1..n -> Seq(X)] : FlattensTo(n, g, s)
      BY <1>2, <2>1
    <2> DEFINE h == [i \in 1..(n + 1) |-> IF i <= n THEN g[i] ELSE
                       IF i = 1 THEN s[i] ELSE g[i - 1] \o s[i]]
    <2>3. \A i \in 1..(n + 1) : s[i] \in Seq(X)
      BY <2>1
    <2>4. h \in [1..(n + 1) -> Seq(X)]
      BY <2>3
    <2>5. ASSUME NEW i \in 1..(n + 1)
          PROVE  h[i] = IF i = 1 THEN s[i] ELSE h[i - 1] \o s[i]
      <3>1. i # 1 => i - 1 \in 1..(n + 1) /\ i - 1 <= n
        OBVIOUS
      <3>2. i # 1 => h[i - 1] = g[i - 1]
        BY <3>1
      <3>3. CASE i <= n
        <4>1. h[i] = g[i] /\ i \in 1..n
          BY <3>3
        <4>2. g[i] = IF i = 1 THEN s[i] ELSE g[i - 1] \o s[i]
          BY <2>2, <4>1 DEF FlattensTo
        <4> QED
          BY <3>2, <4>1, <4>2
      <3>4. CASE ~(i <= n)
        BY <3>2, <3>4
      <3> QED
        BY <3>3, <3>4
    <2> HIDE DEF h
    <2> QED
      BY <2>4, <2>5 DEF FlattensTo
  <1> HIDE DEF S
  <1>3. \A n \in Nat : n \in S
    BY <1>1, <1>2, NumbersInductively
  <1> QED
    BY <1>3 DEF S

(* ... is there, and is determined by the sequences up to each place. *)
LEMMA FlattensExists ==
  ASSUME NEW X, NEW s \in Seq(Seq(X))
  PROVE  \E g : Flattens(g, s) /\ g \in [1..Len(s) -> Seq(X)]
  <1> DEFINE n == Len(s)
  <1>1. n \in Nat /\ n <= Len(s)
    OBVIOUS
  <1> HIDE DEF n
  <1>2. PICK g \in [1..n -> Seq(X)] : FlattensTo(n, g, s)
    BY <1>1, FlattensUpTo
  <1>3. g = [i \in 1..n |-> IF i = 1 THEN s[i] ELSE g[i - 1] \o s[i]]
    BY <1>2 DEF FlattensTo
  <1> QED
    BY <1>2, <1>3 DEF Flattens, n

LEMMA FlattensAt ==
  ASSUME NEW s, Len(s) \in Nat, NEW g, Flattens(g, s), NEW n \in Nat, n < Len(s)
  PROVE  g[n + 1] = IF n = 0 THEN s[n + 1] ELSE g[n] \o s[n + 1]
  <1> DEFINE k == n + 1
  <1>1. k \in 1..Len(s) /\ k - 1 = n /\ (k = 1 <=> n = 0)
    OBVIOUS
  <1> HIDE DEF k
  <1>2. g[k] = IF k = 1 THEN s[k] ELSE g[k - 1] \o s[k]
    BY <1>1 DEF Flattens
  <1> QED
    BY <1>1, <1>2 DEF k

LEMMA FlattensUnique ==
  ASSUME NEW s, NEW t, Len(s) \in Nat, Len(t) \in Nat, NEW g, NEW h,
         Flattens(g, s), Flattens(h, t),
         NEW k \in Nat, k <= Len(s), k <= Len(t), \A i \in 1..k : s[i] = t[i]
  PROVE  \A i \in 1..k : g[i] = h[i]
  <1> DEFINE S == {n \in Nat : n \in 1..k => g[n] = h[n]}
  <1>1. 0 \in S
    OBVIOUS
  <1>2. ASSUME NEW n \in Nat, n \in S PROVE n + 1 \in S
    <2>1. SUFFICES ASSUME n + 1 \in 1..k PROVE g[n + 1] = h[n + 1]
      OBVIOUS
    <2>2. /\ g[n + 1] = IF n = 0 THEN s[n + 1] ELSE g[n] \o s[n + 1]
          /\ h[n + 1] = IF n = 0 THEN t[n + 1] ELSE h[n] \o t[n + 1]
      <3>1. n < Len(s) /\ n < Len(t)
        BY <2>1
      <3> QED
        BY <3>1, FlattensAt
    <2>3. n # 0 => g[n] = h[n]
      BY <1>2, <2>1
    <2> QED
      BY <2>1, <2>2, <2>3
  <1> HIDE DEF S
  <1>3. \A n \in Nat : n \in S
    BY <1>1, <1>2, NumbersInductively
  <1> QED
    BY <1>3 DEF S

LEMMA FlattenSeqIs ==
  ASSUME NEW X, NEW s \in Seq(Seq(X))
  PROVE  \E g : /\ Flattens(g, s) /\ g \in [1..Len(s) -> Seq(X)]
                /\ FlattenSeq(s) = IF Len(s) = 0 THEN <<>> ELSE g[Len(s)]
  <1> DEFINE g == CHOOSE f : f = [i \in 1..Len(s) |-> IF i = 1 THEN s[i] ELSE f[i - 1] \o s[i]]
  <1>1. PICK f : Flattens(f, s) /\ f \in [1..Len(s) -> Seq(X)]
    BY FlattensExists
  <1>2. Flattens(g, s)
    BY <1>1 DEF Flattens
  <1>3. FlattenSeq(s) = IF Len(s) = 0 THEN s ELSE g[Len(s)]
    BY DEF FlattenSeq
  <1>4. Len(s) = 0 => s = <<>>
    OBVIOUS
  <1> HIDE DEF g
  <1>5. g \in [1..Len(s) -> Seq(X)]
    <2>1. \A i \in 1..Len(s) : g[i] = f[i]
      <3> DEFINE k == Len(s)
      <3>1. k \in Nat /\ k <= Len(s) /\ Len(s) \in Nat /\ \A i \in 1..k : s[i] = s[i]
        OBVIOUS
      <3> HIDE DEF k
      <3>2. \A i \in 1..k : g[i] = f[i]
        BY <1>1, <1>2, <3>1, FlattensUnique
      <3> QED
        BY <3>2 DEF k
    <2>2. DOMAIN g = 1..Len(s) /\ g = [i \in DOMAIN g |-> g[i]]
      BY <1>2 DEF Flattens
    <2> QED
      BY <1>1, <2>1, <2>2
  <1> QED
    BY <1>2, <1>3, <1>4, <1>5

(* The equations of FlattenSeq, and what is of use about it. *)
LEMMA FlattenEmpty == FlattenSeq(<<>>) = <<>>
  BY DEF FlattenSeq

LEMMA FlattenType ==
  ASSUME NEW X, NEW s \in Seq(Seq(X))
  PROVE  FlattenSeq(s) \in Seq(X)
  <1>1. PICK g : /\ g \in [1..Len(s) -> Seq(X)]
                 /\ FlattenSeq(s) = IF Len(s) = 0 THEN <<>> ELSE g[Len(s)]
    BY FlattenSeqIs
  <1> QED
    BY <1>1

LEMMA FlattenAppend ==
  ASSUME NEW X, NEW s \in Seq(Seq(X)), NEW x \in Seq(X)
  PROVE  FlattenSeq(Append(s, x)) = FlattenSeq(s) \o x
  <1> DEFINE t == Append(s, x)
             n == Len(s)
  <1>1. /\ t \in Seq(Seq(X)) /\ Len(t) = n + 1 /\ n \in Nat
        /\ t[n + 1] = x /\ \A i \in 1..n : t[i] = s[i]
    OBVIOUS
  <1>2. PICK g : /\ Flattens(g, s) /\ g \in [1..n -> Seq(X)]
                 /\ FlattenSeq(s) = IF n = 0 THEN <<>> ELSE g[n]
    BY FlattenSeqIs
  <1> HIDE DEF t, n
  <1>3. PICK h : /\ Flattens(h, t) /\ h \in [1..Len(t) -> Seq(X)]
                 /\ FlattenSeq(t) = IF Len(t) = 0 THEN <<>> ELSE h[Len(t)]
    BY <1>1, FlattenSeqIs
  <1>4. h[n + 1] = IF n = 0 THEN x ELSE h[n] \o x
    <2>1. n < Len(t) /\ Len(t) \in Nat
      BY <1>1
    <2> QED
      BY <1>1, <1>3, <2>1, FlattensAt
  <1>5. n # 0 => h[n] = g[n]
    <2>0. n <= Len(s) /\ n <= Len(t) /\ Len(s) \in Nat /\ Len(t) \in Nat
      BY <1>1 DEF n
    <2>1. \A i \in 1..n : g[i] = h[i]
      <3>1. Flattens(g, s) /\ Flattens(h, t)
        BY <1>2, <1>3
      <3>2. \A i \in 1..n : s[i] = t[i]
        BY <1>1
      <3>3. n \in Nat
        BY <1>1
      <3> QED
        BY <2>0, <3>1, <3>2, <3>3, FlattensUnique
    <2>2. n # 0 => n \in 1..n
      BY <1>1
    <2> QED
      BY <2>1, <2>2
  <1>6. FlattenSeq(t) = h[n + 1]
    BY <1>1, <1>3
  <1>7. CASE n = 0
    <2>1. <<>> \o x = x
      OBVIOUS
    <2> QED
      BY <1>2, <1>4, <1>6, <1>7, <2>1 DEF t
  <1>8. CASE n # 0
    BY <1>2, <1>4, <1>5, <1>6, <1>8 DEF t
  <1> QED
    BY <1>7, <1>8

LEMMA FlattenConcat ==
  ASSUME NEW X, NEW s \in Seq(Seq(X)), NEW t \in Seq(Seq(X))
  PROVE  FlattenSeq(s \o t) = FlattenSeq(s) \o FlattenSeq(t)
  <1> DEFINE S == {n \in Nat : \A u \in Seq(Seq(X)) : Len(u) = n =>
                     FlattenSeq(s \o u) = FlattenSeq(s) \o FlattenSeq(u)}
  <1>1. 0 \in S
    <2>1. ASSUME NEW u \in Seq(Seq(X)), Len(u) = 0
          PROVE  FlattenSeq(s \o u) = FlattenSeq(s) \o FlattenSeq(u)
      <3>1. u = <<>> /\ s \o <<>> = s
        BY <2>1
      <3>2. FlattenSeq(s) \o <<>> = FlattenSeq(s)
        BY FlattenType, ConcatEmptySeq
      <3> QED
        BY <3>1, <3>2, FlattenEmpty
    <2> QED
      BY <2>1
  <1>2. ASSUME NEW n \in Nat, n \in S PROVE n + 1 \in S
    <2>1. ASSUME NEW u \in Seq(Seq(X)), Len(u) = n + 1
          PROVE  FlattenSeq(s \o u) = FlattenSeq(s) \o FlattenSeq(u)
      <3>1. PICK v \in Seq(Seq(X)), x \in Seq(X) : u = Append(v, x)
        <4>1. u # <<>>
          BY <2>1
        <4> QED
          BY <4>1, SequenceEmptyOrAppend
      <3>2. Len(v) = n
        BY <2>1, <3>1
      <3>3. s \o u = Append(s \o v, x) /\ s \o v \in Seq(Seq(X))
        BY <3>1
      <3>4. FlattenSeq(s \o v) = FlattenSeq(s) \o FlattenSeq(v)
        BY <1>2, <3>2
      <3>5. /\ FlattenSeq(u) = FlattenSeq(v) \o x
            /\ FlattenSeq(s \o u) = FlattenSeq(s \o v) \o x
        BY <3>1, <3>3, FlattenAppend
      <3>6. FlattenSeq(s) \in Seq(X) /\ FlattenSeq(v) \in Seq(X)
        BY FlattenType
      <3> QED
        BY <3>4, <3>5, <3>6, ConcatAssociative
    <2> QED
      BY <2>1
  <1> HIDE DEF S
  <1>3. \A n \in Nat : n \in S
    BY <1>1, <1>2, NumbersInductively
  <1>4. Len(t) \in Nat
    OBVIOUS
  <1> QED
    BY <1>3, <1>4 DEF S

(* Pieces that data was cut into make the data again, up to the last cut. *)
PiecesOf(s, data, n, cut) ==
  /\ n \in Nat /\ Len(s) = n
  /\ \A i \in 0..n : cut[i] \in 0..Len(data)
  /\ cut[0] = 0
  /\ \A i \in 1..n : cut[i - 1] <= cut[i] /\ s[i] = SubSeq(data, cut[i - 1] + 1, cut[i])

LEMMA FlattenPieces ==
  ASSUME NEW X, NEW data \in Seq(X), NEW s \in Seq(Seq(X)), NEW n, NEW cut,
         PiecesOf(s, data, n, cut)
  PROVE  FlattenSeq(s) = SubSeq(data, 1, cut[n])
  <1>0. /\ n \in Nat /\ Len(s) = n
        /\ \A i \in 0..n : cut[i] \in 0..Len(data)
        /\ cut[0] = 0
        /\ \A i \in 1..n : cut[i - 1] <= cut[i] /\ s[i] = SubSeq(data, cut[i - 1] + 1, cut[i])
    BY DEF PiecesOf
  <1>1. PICK g : /\ Flattens(g, s)
                 /\ FlattenSeq(s) = IF Len(s) = 0 THEN <<>> ELSE g[Len(s)]
    BY FlattenSeqIs
  <1> DEFINE S == {k \in Nat : k \in 1..n => g[k] = SubSeq(data, 1, cut[k])}
  <1>2. 0 \in S
    BY <1>0
  <1>3. ASSUME NEW k \in Nat, k \in S PROVE k + 1 \in S
    <2>1. SUFFICES ASSUME k + 1 \in 1..n PROVE g[k + 1] = SubSeq(data, 1, cut[k + 1])
      OBVIOUS
    <2>2. g[k + 1] = IF k = 0 THEN s[k + 1] ELSE g[k] \o s[k + 1]
      <3>1. k < Len(s) /\ Len(s) \in Nat
        BY <1>0, <2>1
      <3> QED
        BY <1>1, <3>1, FlattensAt
    <2>3. s[k + 1] = SubSeq(data, cut[k] + 1, cut[k + 1]) /\ cut[k] <= cut[k + 1]
      <3> DEFINE j == k + 1
      <3>1. j \in 1..n /\ j - 1 = k
        BY <2>1
      <3>2. s[j] = SubSeq(data, cut[j - 1] + 1, cut[j]) /\ cut[j - 1] <= cut[j]
        BY <1>0, <3>1
      <3> QED
        BY <3>1, <3>2
    <2>4. CASE k = 0
      <3>1. cut[k] + 1 = 1
        BY <1>0, <2>4
      <3> QED
        BY <2>2, <2>3, <2>4, <3>1
    <2>5. CASE k # 0
      <3>1. k \in 1..n /\ k \in 0..n /\ k + 1 \in 0..n
        BY <1>0, <2>1, <2>5
      <3>2. g[k] = SubSeq(data, 1, cut[k])
        BY <1>3, <3>1
      <3>3. cut[k] \in 0..Len(data) /\ cut[k + 1] \in 0..Len(data)
        BY <1>0, <3>1
      <3>4. SubSeq(data, 1, cut[k]) \o SubSeq(data, cut[k] + 1, cut[k + 1])
              = SubSeq(data, 1, cut[k + 1])
        <4>1. /\ 1 \in 1..Len(data) + 1 /\ cut[k] \in 1 - 1..Len(data)
              /\ cut[k + 1] \in cut[k]..Len(data)
          BY <2>3, <3>3
        <4> QED
          BY <4>1, ConcatAdjacentSubSeq
      <3> QED
        BY <2>2, <2>3, <2>5, <3>2, <3>4
    <2> QED
      BY <2>4, <2>5
  <1> HIDE DEF S
  <1>4. \A k \in Nat : k \in S
    BY <1>2, <1>3, NumbersInductively
  <1>5. CASE n = 0
    BY <1>0, <1>1, <1>5
  <1>6. CASE n # 0
    BY <1>0, <1>1, <1>4, <1>6 DEF S
  <1> QED
    BY <1>5, <1>6

LEMMA InsertNodeType ==
  ASSUME NEW d, TypeSound(d), NEW row, NodeRowSound(row)
  PROVE  TypeSound(InsertNode(d, row))
  BY DEF TypeSound, InsertNode, NodeIds

LEMMA DeleteNodesType ==
  ASSUME NEW d, TypeSound(d), NEW ids
  PROVE  TypeSound(DeleteNodes(d, ids))
  BY DEF TypeSound, DeleteNodes, NodeIds

(* What _release_file_blocks changes. *)
LEMMA ReleaseShape ==
  ASSUME NEW d, TypeSound(d), NEW ids
  PROVE  LET e     == ReleaseFileBlocks(d, ids)
             mine  == {m.block : m \in {k \in d.maps : k.file \in ids}}
             left  == {m \in d.maps : m.file \notin ids}
             owned == {m.block : m \in left}
         IN  /\ DOMAIN e = DOMAIN d
             /\ e.nodes = d.nodes /\ e.nodeSeq = d.nodeSeq /\ e.blockSeq = d.blockSeq
             /\ e.maps = left
             /\ DOMAIN e.blocks = DOMAIN d.blocks
             /\ \A b \in DOMAIN d.blocks :
                  /\ e.blocks[b].data = d.blocks[b].data
                  /\ b \in mine \ owned => e.blocks[b].free
                  /\ b \notin mine \ owned => e.blocks[b] = d.blocks[b]
  BY DEF TypeSound, ReleaseFileBlocks, BlockRowSound

LEMMA ReleaseType ==
  ASSUME NEW d, TypeSound(d), NEW ids
  PROVE  TypeSound(ReleaseFileBlocks(d, ids))
  BY DEF TypeSound, ReleaseFileBlocks, NodeIds, BlockRowSound

-----------------------------------------------------------------------------
(* Type of the helpers' results *)

LEMMA ChunksType ==
  ASSUME NEW data \in Seq(Bytes), NEW bs \in Nat \ {0}
  PROVE  Chunks(data, bs) \in Seq(Seq(Bytes))
  <1> DEFINE n == (Len(data) + bs - 1) \div bs
  <1>1. Len(data) \in Nat /\ bs \in Nat /\ bs > 0
    OBVIOUS
  <1>2. n \in Nat
    <2>1. Len(data) + bs - 1 \in Nat
      BY <1>1
    <2> QED
      BY <1>1, <2>1
  <1>3. ASSUME NEW i \in 1..n
        PROVE  SubSeq(data, (i - 1) * bs + 1, IF i * bs < Len(data) THEN i * bs ELSE Len(data))
                 \in Seq(Bytes)
    <2>1. (i - 1) * bs \in Nat /\ i * bs \in Nat
      BY <1>1, <1>2
    <2> QED
      BY <1>1, <2>1
  <1>4. Chunks(data, bs) = [i \in 1..n |->
          SubSeq(data, (i - 1) * bs + 1, IF i * bs < Len(data) THEN i * bs ELSE Len(data))]
    BY DEF Chunks
  <1> HIDE DEF n
  <1> QED
    BY <1>2, <1>3, <1>4

LEMMA AttachType ==
  ASSUME NEW d, TypeSound(d), NEW f \in Nat, NEW seq \in Nat, NEW cs \in Seq(Seq(Bytes))
  PROVE  TypeSound(AttachBlocks(d, f, seq, cs))
  <1> DEFINE first == d.blockSeq - 1
             new   == {first + i : i \in 1..Len(cs)}
             e     == AttachBlocks(d, f, seq, cs)
  <1>1. /\ DOMAIN e = DOMAIN d
        /\ e.nodes = d.nodes /\ e.nodeSeq = d.nodeSeq
        /\ e.blockSeq = d.blockSeq + Len(cs)
        /\ DOMAIN e.blocks = DOMAIN d.blocks \cup new
        /\ \A b \in DOMAIN e.blocks :
             e.blocks[b] = IF b \in new THEN NewBlock(cs[b - first]) ELSE d.blocks[b]
        /\ e.maps = d.maps \cup {[file |-> f, block |-> first + i, seq |-> seq + i - 1] :
                                   i \in 1..Len(cs)}
    BY DEF AttachBlocks, TypeSound
  <1>2. Len(cs) \in Nat /\ first \in Nat
    BY DEF TypeSound
  <1>3. ASSUME NEW b \in new PROVE BlockRowSound(NewBlock(cs[b - first]))
    BY <1>2 DEF BlockRowSound, NewBlock
  <1>4. e.maps \subseteq MapRow
    BY <1>1, <1>2 DEF TypeSound, MapRow
  <1>5. e.blockSeq \in Nat \ {0} /\ DOMAIN e.blocks \subseteq 1..(e.blockSeq - 1)
    BY <1>1, <1>2 DEF TypeSound
  <1>6. \A b \in DOMAIN e.blocks : BlockRowSound(e.blocks[b])
    BY <1>1, <1>3 DEF TypeSound
  <1> HIDE DEF e
  <1>7. TypeSound(e)
    BY <1>1, <1>4, <1>5, <1>6 DEF TypeSound, NodeIds
  <1> QED
    BY <1>7 DEF e

LEMMA StartDbType ==
  ASSUME NEW d, TypeSound(d), NEW mode, NEW p \in Paths, NEW bs \in BlockSizes
  PROVE  TypeSound(StartDb(d, mode, p, bs))
  <1>0. bs \in Nat \ {0}
    BY TablesAssumption
  <1>1. CASE ~HasNode(d, p)
    <2>1. NodeRowSound(NewFileRow(p, bs))
      BY <1>0 DEF NodeRowSound, NewFileRow
    <2> QED
      BY <1>1, <2>1, InsertNodeType DEF StartDb
  <1>2. CASE HasNode(d, p)
    <2> DEFINE f == CHOOSE n \in NodesAt(d, p) : TRUE
               r == ReleaseFileBlocks(d, {f})
    <2>1. f \in NodeIds(d)
      BY <1>2 DEF HasNode, NodesAt
    <2>2. TypeSound(r)
      BY ReleaseType
    <2>3. r.nodes = d.nodes
      BY ReleaseShape
    <2> HIDE DEF f, r
    <2>4. TypeSound([r EXCEPT !.nodes[f].size = 0, !.nodes[f].bsize = bs,
                              !.nodes[f].sum = NoHash, !.nodes[f].ver = @ + 1])
      BY <1>0, <2>1, <2>2, <2>3 DEF TypeSound, NodeIds, NodeRowSound
    <2> QED
      BY <1>2, <2>4 DEF StartDb, f, r
  <1> QED
    BY <1>1, <1>2

-----------------------------------------------------------------------------
(* The block graph *)

(* GraphSound in two parts: what the mappings say, and that no used block is
   left without a mapping. *)
MapsSound(d) ==
  /\ \A m \in d.maps :
       /\ m.file \in NodeIds(d) /\ d.nodes[m.file].type = "file"
       /\ m.block \in DOMAIN d.blocks /\ ~d.blocks[m.block].free
  /\ \A m, k \in d.maps :
       m.block = k.block \/ (m.file = k.file /\ m.seq = k.seq) => m = k
  /\ \A f \in NodeIds(d) : \E n \in 0..d.blockSeq : SequencesOf(d, f) = 0..(n - 1)

BlocksOwned(d) ==
  \A b \in DOMAIN d.blocks : ~d.blocks[b].free => \E m \in d.maps : m.block = b

LEMMA GraphParts ==
  \A d : GraphSound(d) <=> MapsSound(d) /\ BlocksOwned(d)
  BY DEF GraphSound, MapsSound, BlocksOwned

(* Changes of nodes that keep every mapped file leave the graph sound. *)
LEMMA NodesChangeGraph ==
  ASSUME NEW d, TypeSound(d), GraphSound(d), NEW e,
         e.maps = d.maps, e.blocks = d.blocks, e.blockSeq = d.blockSeq,
         \A m \in d.maps : m.file \in NodeIds(e) /\ e.nodes[m.file].type = "file"
  PROVE  GraphSound(e)
  <1>1. ASSUME NEW f \in NodeIds(e)
        PROVE  \E n \in 0..e.blockSeq : SequencesOf(e, f) = 0..(n - 1)
    <2>1. SequencesOf(e, f) = SequencesOf(d, f)
      BY DEF SequencesOf, MapsOf
    <2>2. CASE f \in NodeIds(d)
      BY <2>1, <2>2 DEF GraphSound
    <2>3. CASE f \notin NodeIds(d)
      <3>1. SequencesOf(e, f) = {}
        BY <2>1, <2>3 DEF GraphSound, SequencesOf, MapsOf
      <3>2. 0..(0 - 1) = {} /\ 0 \in 0..e.blockSeq
        BY DEF TypeSound
      <3> QED
        BY <3>1, <3>2
    <2> QED
      BY <2>2, <2>3
  <1>2. e.maps = d.maps /\ e.blocks = d.blocks
    OBVIOUS
  <1> QED
    BY <1>1, <1>2 DEF GraphSound

LEMMA ReleaseGraph ==
  ASSUME NEW d, TypeSound(d), GraphSound(d), NEW ids
  PROVE  /\ GraphSound(ReleaseFileBlocks(d, ids))
         /\ \A m \in ReleaseFileBlocks(d, ids).maps : m \in d.maps /\ m.file \notin ids
  <1> DEFINE e     == ReleaseFileBlocks(d, ids)
             mine  == {m.block : m \in {k \in d.maps : k.file \in ids}}
             left  == {m \in d.maps : m.file \notin ids}
             owned == {m.block : m \in left}
  <1>1. /\ e.nodes = d.nodes /\ e.nodeSeq = d.nodeSeq /\ e.blockSeq = d.blockSeq
        /\ e.maps = left
        /\ DOMAIN e.blocks = DOMAIN d.blocks
        /\ \A b \in DOMAIN d.blocks :
             /\ b \in mine \ owned => e.blocks[b].free
             /\ b \notin mine \ owned => e.blocks[b] = d.blocks[b]
    BY ReleaseShape
  <1> HIDE DEF e
  <1>2. ASSUME NEW f \in NodeIds(e)
        PROVE  \E n \in 0..e.blockSeq : SequencesOf(e, f) = 0..(n - 1)
    <2>1. CASE f \in ids
      <3>1. SequencesOf(e, f) = {}
        BY <1>1, <2>1 DEF SequencesOf, MapsOf
      <3>2. 0..(0 - 1) = {} /\ 0 \in 0..e.blockSeq
        BY <1>1 DEF TypeSound
      <3> QED
        BY <3>1, <3>2
    <2>2. CASE f \notin ids
      <3>1. SequencesOf(e, f) = SequencesOf(d, f)
        BY <1>1, <2>2 DEF SequencesOf, MapsOf
      <3> QED
        BY <1>1, <3>1 DEF GraphSound, NodeIds
    <2> QED
      BY <2>1, <2>2
  <1>3. ASSUME NEW m \in e.maps
        PROVE  /\ m.file \in NodeIds(e) /\ e.nodes[m.file].type = "file"
               /\ m.block \in DOMAIN e.blocks /\ ~e.blocks[m.block].free
    <2>1. m.block \notin mine \ owned
      BY <1>1
    <2> QED
      BY <1>1, <2>1 DEF GraphSound, NodeIds
  <1>4. ASSUME NEW b \in DOMAIN e.blocks, ~e.blocks[b].free
        PROVE  \E m \in e.maps : m.block = b
    <2>1. b \notin mine \ owned /\ ~d.blocks[b].free
      BY <1>1, <1>4
    <2>2. PICK m \in d.maps : m.block = b
      BY <1>1, <2>1 DEF GraphSound
    <2> QED
      BY <1>1, <2>1, <2>2
  <1>5. GraphSound(e)
    <2>1. \A m, k \in e.maps : m.block = k.block \/ (m.file = k.file /\ m.seq = k.seq) => m = k
      BY <1>1 DEF GraphSound
    <2> QED
      BY <1>2, <1>3, <1>4, <2>1 DEF GraphSound
  <1> QED
    BY <1>1, <1>5 DEF e

(* Deleting nodes after their blocks are released. *)
LEMMA DeleteGraph ==
  ASSUME NEW d, TypeSound(d), GraphSound(d), NEW ids
  PROVE  LET e == DeleteNodes(ReleaseFileBlocks(d, ids), ids)
         IN  /\ TypeSound(e)
             /\ GraphSound(e)
             /\ NodeIds(e) = NodeIds(d) \ ids
             /\ \A n \in NodeIds(e) : e.nodes[n] = d.nodes[n]
             /\ e.nodeSeq = d.nodeSeq
  <1> DEFINE r == ReleaseFileBlocks(d, ids)
             e == DeleteNodes(r, ids)
  <1>1. TypeSound(r) /\ GraphSound(r) /\ r.nodes = d.nodes /\ r.nodeSeq = d.nodeSeq
    BY ReleaseType, ReleaseGraph, ReleaseShape
  <1>2. \A m \in r.maps : m \in d.maps /\ m.file \notin ids
    BY ReleaseGraph
  <1> HIDE DEF r
  <1>3. TypeSound(e)
    BY <1>1, DeleteNodesType
  <1>4. /\ NodeIds(e) = NodeIds(r) \ ids /\ \A n \in NodeIds(e) : e.nodes[n] = r.nodes[n]
        /\ e.maps = {m \in r.maps : m.file \notin ids}
        /\ e.blocks = r.blocks /\ e.blockSeq = r.blockSeq /\ e.nodeSeq = r.nodeSeq
    BY <1>1 DEF TypeSound, DeleteNodes, NodeIds
  <1>5. e.maps = r.maps
    BY <1>2, <1>4
  <1> HIDE DEF e
  <1>6. \A m \in r.maps : m.file \in NodeIds(e) /\ e.nodes[m.file].type = "file"
    BY <1>1, <1>2, <1>4 DEF GraphSound
  <1>7. GraphSound(e)
    BY <1>1, <1>4, <1>5, <1>6, NodesChangeGraph
  <1> QED
    BY <1>1, <1>3, <1>4, <1>7 DEF e, r, NodeIds

LEMMA InsertNodeShape ==
  ASSUME NEW d, TypeSound(d), GraphSound(d), NEW row, NodeRowSound(row)
  PROVE  LET e == InsertNode(d, row)
         IN  /\ TypeSound(e)
             /\ GraphSound(e)
             /\ d.nodeSeq \notin NodeIds(d)
             /\ NodeIds(e) = NodeIds(d) \cup {d.nodeSeq}
             /\ e.nodes[d.nodeSeq] = row
             /\ \A n \in NodeIds(d) : e.nodes[n] = d.nodes[n]
             /\ e.maps = d.maps /\ e.blocks = d.blocks /\ e.blockSeq = d.blockSeq
             /\ SequencesOf(e, d.nodeSeq) = {}
  <1> DEFINE e == InsertNode(d, row)
  <1>1. TypeSound(e)
    BY InsertNodeType
  <1>2. d.nodeSeq \notin NodeIds(d)
    BY DEF TypeSound
  <1>3. /\ NodeIds(e) = NodeIds(d) \cup {d.nodeSeq}
        /\ e.nodes[d.nodeSeq] = row
        /\ \A n \in NodeIds(d) : e.nodes[n] = d.nodes[n]
        /\ e.maps = d.maps /\ e.blocks = d.blocks /\ e.blockSeq = d.blockSeq
    BY <1>2 DEF TypeSound, InsertNode, NodeIds
  <1> HIDE DEF e
  <1>4. GraphSound(e)
    BY <1>3, NodesChangeGraph DEF GraphSound
  <1>5. SequencesOf(e, d.nodeSeq) = {}
    BY <1>2, <1>3 DEF GraphSound, SequencesOf, MapsOf
  <1> QED
    BY <1>1, <1>2, <1>3, <1>4, <1>5 DEF e

(* NextSequence continues the sequences of a sound file. *)
LEMMA NextSequenceSound ==
  ASSUME NEW d, TypeSound(d), MapsSound(d), NEW f \in NodeIds(d)
  PROVE  /\ NextSequence(d, f) \in Nat /\ NextSequence(d, f) <= d.blockSeq
         /\ SequencesOf(d, f) = 0..(NextSequence(d, f) - 1)
  <1>1. PICK n \in 0..d.blockSeq : SequencesOf(d, f) = 0..(n - 1)
    BY DEF MapsSound
  <1>2. n \in Nat /\ n <= d.blockSeq /\ d.blockSeq \in Nat
    BY <1>1 DEF TypeSound
  <1>3. CASE n = 0
    BY <1>1, <1>2, <1>3 DEF NextSequence
  <1>4. CASE n > 0
    <2>1. \E x \in 0..(n - 1) : \A y \in 0..(n - 1) : x >= y
      <3>1. n - 1 \in 0..(n - 1) /\ \A y \in 0..(n - 1) : n - 1 >= y
        BY <1>2, <1>4
      <3> QED
        BY <3>1
    <2>2. /\ Max(0..(n - 1)) \in 0..(n - 1)
          /\ \A y \in 0..(n - 1) : Max(0..(n - 1)) >= y
      BY <2>1 DEF Max
    <2>3. Max(0..(n - 1)) = n - 1
      BY <1>2, <1>4, <2>2
    <2> QED
      BY <1>1, <1>2, <1>4, <2>3 DEF NextSequence
  <1> QED
    BY <1>2, <1>3, <1>4

(* New blocks at the end of a file's sequences keep the mappings sound. *)
Added(f, first, seq, cs) ==
  {[file |-> f, block |-> first + i, seq |-> seq + i - 1] : i \in 1..Len(cs)}

AddedOnly(S, f, first, seq, l) ==
  /\ \A m \in S : /\ m.file = f /\ m.seq \in seq..(seq + l - 1)
                  /\ \E i \in 1..l : m.block = first + i /\ m.seq = seq + i - 1
  /\ \A m, k \in S : m.block = k.block \/ m.seq = k.seq => m = k
  /\ \A s \in seq..(seq + l - 1) : \E m \in S : m.seq = s
  /\ \A i \in 1..l : \E m \in S : m.block = first + i

LEMMA AddedShape ==
  ASSUME NEW f, NEW first \in Nat, NEW seq \in Nat, NEW cs \in Seq(Seq(Bytes))
  PROVE  AddedOnly(Added(f, first, seq, cs), f, first, seq, Len(cs))
  <1> DEFINE added == Added(f, first, seq, cs)
  <1>1. ASSUME NEW m \in added
        PROVE  /\ m.file = f /\ m.seq \in seq..(seq + Len(cs) - 1)
               /\ \E i \in 1..Len(cs) : m.block = first + i /\ m.seq = seq + i - 1
    <2>1. PICK i \in 1..Len(cs) : m = [file |-> f, block |-> first + i, seq |-> seq + i - 1]
      BY DEF Added
    <2> QED
      BY <2>1
  <1>2. ASSUME NEW m \in added, NEW k \in added, m.block = k.block \/ m.seq = k.seq
        PROVE  m = k
    <2>1. PICK i \in 1..Len(cs) : m = [file |-> f, block |-> first + i, seq |-> seq + i - 1]
      BY DEF Added
    <2>2. PICK j \in 1..Len(cs) : k = [file |-> f, block |-> first + j, seq |-> seq + j - 1]
      BY DEF Added
    <2>3. first + i = first + j \/ seq + i - 1 = seq + j - 1
      BY <1>2, <2>1, <2>2
    <2>4. i = j
      BY <2>3
    <2> QED
      BY <2>1, <2>2, <2>4
  <1>3. ASSUME NEW s \in seq..(seq + Len(cs) - 1)
        PROVE  \E m \in added : m.seq = s
    <2>1. s - seq + 1 \in 1..Len(cs) /\ seq + (s - seq + 1) - 1 = s
      OBVIOUS
    <2> DEFINE m == [file |-> f, block |-> first + (s - seq + 1), seq |-> seq + (s - seq + 1) - 1]
    <2>2. m \in added /\ m.seq = s
      BY <2>1 DEF Added
    <2> QED
      BY <2>2
  <1>4. ASSUME NEW i \in 1..Len(cs)
        PROVE  \E m \in added : m.block = first + i
    <2> DEFINE m == [file |-> f, block |-> first + i, seq |-> seq + i - 1]
    <2>1. m \in added /\ m.block = first + i
      BY DEF Added
    <2> QED
      BY <2>1
  <1> HIDE DEF added
  <1> QED
    BY <1>1, <1>2, <1>3, <1>4 DEF added, AddedOnly

(* What e has more than d is the chunks cs, in blocks from first + 1 on and at
   the end of file f, which may be new. *)
Attaches(d, e, f, seq, cs, first) ==
  /\ e.maps = d.maps \cup Added(f, first, seq, cs)
  /\ \A i \in 1..Len(cs) : /\ first + i \in DOMAIN e.blocks /\ first + i \notin DOMAIN d.blocks
                           /\ e.blocks[first + i] = NewBlock(cs[i])
  /\ \A m \in d.maps : /\ m.file \in NodeIds(e) /\ e.nodes[m.file].type = "file"
                       /\ m.block \in DOMAIN e.blocks /\ ~e.blocks[m.block].free
                       /\ e.blocks[m.block].data = d.blocks[m.block].data
  /\ f \in NodeIds(e) /\ e.nodes[f].type = "file"
  /\ NodeIds(e) \ {f} \subseteq NodeIds(d)
  /\ e.blockSeq \in Nat /\ d.blockSeq <= e.blockSeq /\ seq + Len(cs) <= e.blockSeq

LEMMA AttachesOthers ==
  ASSUME NEW d, NEW e, NEW f, NEW seq, NEW cs, NEW first,
         Attaches(d, e, f, seq, cs, first), NEW g, g # f
  PROVE  MapsOf(e, g) = MapsOf(d, g)
  BY DEF Attaches, Added, MapsOf

LEMMA AttachesMaps ==
  ASSUME NEW d, TypeSound(d), MapsSound(d), NEW e, NEW f, NEW seq \in Nat,
         SequencesOf(d, f) = 0..(seq - 1), NEW cs \in Seq(Seq(Bytes)), NEW first \in Nat,
         Attaches(d, e, f, seq, cs, first)
  PROVE  /\ MapsSound(e)
         /\ SequencesOf(e, f) = 0..(seq + Len(cs) - 1)
  <1> DEFINE added == Added(f, first, seq, cs)
  <1>1. e.maps = d.maps \cup added
    BY DEF Attaches
  <1>0. AddedOnly(added, f, first, seq, Len(cs)) /\ Len(cs) \in Nat
    BY AddedShape
  <1> HIDE DEF added
  <1>2. /\ \A m \in added : m.file = f /\ m.seq \in seq..(seq + Len(cs) - 1)
        /\ \A m, k \in added : m.block = k.block \/ m.seq = k.seq => m = k
        /\ \A s \in seq..(seq + Len(cs) - 1) : \E m \in added : m.seq = s
    BY <1>0 DEF AddedOnly
  <1>3. ASSUME NEW m \in added
        PROVE  /\ m.block \in DOMAIN e.blocks /\ m.block \notin DOMAIN d.blocks
               /\ ~e.blocks[m.block].free
    <2>1. PICK i \in 1..Len(cs) : m.block = first + i
      BY <1>0 DEF AddedOnly
    <2>2. /\ first + i \in DOMAIN e.blocks /\ first + i \notin DOMAIN d.blocks
          /\ e.blocks[first + i] = NewBlock(cs[i])
      BY DEF Attaches
    <2> QED
      BY <2>1, <2>2 DEF NewBlock
  <1>4. \A m \in d.maps : m.file = f => m.seq \in 0..(seq - 1)
    BY DEF SequencesOf, MapsOf
  <1>5. SequencesOf(e, f) = 0..(seq + Len(cs) - 1)
    <2>1. SequencesOf(e, f) = SequencesOf(d, f) \cup {m.seq : m \in added}
      BY <1>1, <1>2 DEF SequencesOf, MapsOf
    <2>2. {m.seq : m \in added} = seq..(seq + Len(cs) - 1)
      <3> DEFINE S == seq..(seq + Len(cs) - 1)
      <3>1. (\A m \in added : m.seq \in S) /\ (\A s \in S : \E m \in added : m.seq = s)
        BY <1>2
      <3> HIDE DEF S
      <3>2. {m.seq : m \in added} = S
        BY <3>1
      <3> QED
        BY <3>2 DEF S
    <2>3. ASSUME NEW l \in Nat PROVE (0..(seq - 1)) \cup (seq..(seq + l - 1)) = 0..(seq + l - 1)
      OBVIOUS
    <2>4. (0..(seq - 1)) \cup (seq..(seq + Len(cs) - 1)) = 0..(seq + Len(cs) - 1)
      BY <2>3
    <2> QED
      BY <2>1, <2>2, <2>4
  <1>6. \A g : g # f => MapsOf(e, g) = MapsOf(d, g)
    BY AttachesOthers
  <1>7. ASSUME NEW g \in NodeIds(e)
        PROVE  \E n \in 0..e.blockSeq : SequencesOf(e, g) = 0..(n - 1)
    <2>1. CASE g = f
      <3>1. seq + Len(cs) \in 0..e.blockSeq
        BY DEF Attaches
      <3> QED
        BY <1>5, <2>1, <3>1
    <2>2. CASE g # f
      <3>1. g \in NodeIds(d) /\ SequencesOf(e, g) = SequencesOf(d, g)
        BY <1>6, <2>2 DEF Attaches, SequencesOf
      <3>2. PICK n \in 0..d.blockSeq : SequencesOf(d, g) = 0..(n - 1)
        BY <3>1 DEF MapsSound
      <3>3. n \in 0..e.blockSeq
        BY <3>2 DEF TypeSound, Attaches
      <3> QED
        BY <3>1, <3>2, <3>3
    <2> QED
      BY <2>1, <2>2
  <1>8. \A m \in e.maps : /\ m.file \in NodeIds(e) /\ e.nodes[m.file].type = "file"
                          /\ m.block \in DOMAIN e.blocks /\ ~e.blocks[m.block].free
    BY <1>1, <1>2, <1>3 DEF Attaches
  <1>9. \A m, k \in e.maps : m.block = k.block \/ (m.file = k.file /\ m.seq = k.seq) => m = k
    <2>1. \A m, k \in d.maps : m.block = k.block \/ (m.file = k.file /\ m.seq = k.seq) => m = k
      BY DEF MapsSound
    <2>2. \A m \in d.maps, k \in added : m.block # k.block
      BY <1>3 DEF MapsSound
    <2>3. \A m \in d.maps, k \in added : ~(m.file = k.file /\ m.seq = k.seq)
      BY <1>2, <1>4
    <2> QED
      BY <1>1, <1>2, <2>1, <2>2, <2>3
  <1>10. MapsSound(e)
    BY <1>7, <1>8, <1>9 DEF MapsSound
  <1> QED
    BY <1>5, <1>10

LEMMA AttachAttaches ==
  ASSUME NEW d, TypeSound(d), MapsSound(d), NEW f \in NodeIds(d),
         d.nodes[f].type = "file", NEW seq \in Nat, SequencesOf(d, f) = 0..(seq - 1),
         NEW cs \in Seq(Seq(Bytes))
  PROVE  Attaches(d, AttachBlocks(d, f, seq, cs), f, seq, cs, d.blockSeq - 1)
  <1> DEFINE first == d.blockSeq - 1
             new   == {first + i : i \in 1..Len(cs)}
             e     == AttachBlocks(d, f, seq, cs)
  <1>1. /\ e.nodes = d.nodes
        /\ e.blockSeq = d.blockSeq + Len(cs)
        /\ DOMAIN e.blocks = DOMAIN d.blocks \cup new
        /\ \A b \in DOMAIN e.blocks :
             e.blocks[b] = IF b \in new THEN NewBlock(cs[b - first]) ELSE d.blocks[b]
        /\ e.maps = d.maps \cup Added(f, first, seq, cs)
    BY DEF AttachBlocks, TypeSound, Added
  <1>2. Len(cs) \in Nat /\ first \in Nat /\ DOMAIN d.blocks \subseteq 1..first
    BY DEF TypeSound
  <1> HIDE DEF e
  <1>3. ASSUME NEW i \in 1..Len(cs)
        PROVE  /\ first + i \in DOMAIN e.blocks /\ first + i \notin DOMAIN d.blocks
               /\ e.blocks[first + i] = NewBlock(cs[i])
    <2>1. first + i \in new /\ (first + i) - first = i /\ first + i \notin DOMAIN d.blocks
      BY <1>2
    <2> HIDE DEF new
    <2> QED
      BY <1>1, <2>1
  <1>4. \A b \in DOMAIN d.blocks : b \notin new
    BY <1>2
  <1>5. \A m \in d.maps : /\ m.file \in NodeIds(e) /\ e.nodes[m.file].type = "file"
                          /\ m.block \in DOMAIN e.blocks /\ ~e.blocks[m.block].free
                          /\ e.blocks[m.block].data = d.blocks[m.block].data
    <2> HIDE DEF new
    <2> QED
      BY <1>1, <1>4 DEF MapsSound, NodeIds
  <1>6. seq + Len(cs) <= e.blockSeq /\ d.blockSeq <= e.blockSeq /\ e.blockSeq \in Nat
    <2>1. PICK n \in 0..d.blockSeq : SequencesOf(d, f) = 0..(n - 1)
      BY DEF MapsSound
    <2>2. n = seq
      BY <2>1 DEF TypeSound
    <2> QED
      BY <1>1, <1>2, <2>1, <2>2 DEF TypeSound
  <1> HIDE DEF first
  <1> QED
    BY <1>1, <1>3, <1>5, <1>6 DEF Attaches, NodeIds, e, first

LEMMA AttachMaps ==
  ASSUME NEW d, TypeSound(d), MapsSound(d), NEW f \in NodeIds(d),
         d.nodes[f].type = "file", NEW seq \in Nat, SequencesOf(d, f) = 0..(seq - 1),
         NEW cs \in Seq(Seq(Bytes))
  PROVE  LET e == AttachBlocks(d, f, seq, cs)
         IN  /\ TypeSound(e)
             /\ MapsSound(e)
             /\ e.nodes = d.nodes /\ e.nodeSeq = d.nodeSeq
             /\ SequencesOf(e, f) = 0..(seq + Len(cs) - 1)
             /\ DOMAIN d.blocks \subseteq DOMAIN e.blocks
  <1> DEFINE e == AttachBlocks(d, f, seq, cs)
  <1>1. /\ e.nodes = d.nodes /\ e.nodeSeq = d.nodeSeq
        /\ DOMAIN d.blocks \subseteq DOMAIN e.blocks
    BY DEF AttachBlocks, TypeSound
  <1>2. f \in Nat /\ d.blockSeq - 1 \in Nat /\ Len(cs) \in Nat
    BY DEF TypeSound
  <1>3. TypeSound(e)
    BY <1>2, AttachType
  <1>4. Attaches(d, e, f, seq, cs, d.blockSeq - 1)
    BY AttachAttaches
  <1> HIDE DEF e
  <1>5. MapsSound(e) /\ SequencesOf(e, f) = 0..(seq + Len(cs) - 1)
    <2>1. TypeSound(d) /\ MapsSound(d) /\ SequencesOf(d, f) = 0..(seq - 1)
      OBVIOUS
    <2> DEFINE first == d.blockSeq - 1
    <2>2. first \in Nat /\ Attaches(d, e, f, seq, cs, first)
      BY <1>2, <1>4
    <2> HIDE DEF first
    <2> QED
      BY <2>1, <2>2, AttachesMaps
  <1> QED
    BY <1>1, <1>3, <1>5 DEF e

(* ... and leave no used block without an owner. *)
LEMMA AttachGraph ==
  ASSUME NEW d, TypeSound(d), GraphSound(d), NEW f \in NodeIds(d),
         d.nodes[f].type = "file", NEW seq \in Nat, SequencesOf(d, f) = 0..(seq - 1),
         NEW cs \in Seq(Seq(Bytes))
  PROVE  LET e == AttachBlocks(d, f, seq, cs)
         IN  /\ TypeSound(e)
             /\ GraphSound(e)
             /\ e.nodes = d.nodes /\ e.nodeSeq = d.nodeSeq
             /\ SequencesOf(e, f) = 0..(seq + Len(cs) - 1)
             /\ DOMAIN d.blocks \subseteq DOMAIN e.blocks
  <1> DEFINE first == d.blockSeq - 1
             new   == {first + i : i \in 1..Len(cs)}
             e     == AttachBlocks(d, f, seq, cs)
  <1>1. MapsSound(d) /\ BlocksOwned(d)
    BY GraphParts
  <1>2. /\ TypeSound(e) /\ MapsSound(e)
        /\ e.nodes = d.nodes /\ e.nodeSeq = d.nodeSeq
        /\ SequencesOf(e, f) = 0..(seq + Len(cs) - 1)
        /\ DOMAIN d.blocks \subseteq DOMAIN e.blocks
    BY <1>1, AttachMaps
  <1>3. /\ DOMAIN e.blocks = DOMAIN d.blocks \cup new
        /\ \A b \in DOMAIN e.blocks :
             e.blocks[b] = IF b \in new THEN NewBlock(cs[b - first]) ELSE d.blocks[b]
        /\ e.maps = d.maps \cup {[file |-> f, block |-> first + i, seq |-> seq + i - 1] :
                                   i \in 1..Len(cs)}
    BY DEF AttachBlocks, TypeSound
  <1> HIDE DEF e
  <1>4. ASSUME NEW b \in new PROVE \E m \in e.maps : m.block = b
    <2>1. PICK i \in 1..Len(cs) : b = first + i
      OBVIOUS
    <2> DEFINE m == [file |-> f, block |-> first + i, seq |-> seq + i - 1]
    <2>2. m \in e.maps /\ m.block = b
      BY <1>3, <2>1
    <2> QED
      BY <2>2
  <1> HIDE DEF new
  <1>5. BlocksOwned(e)
    BY <1>1, <1>3, <1>4 DEF BlocksOwned
  <1> QED
    BY <1>2, <1>5, GraphParts DEF e

-----------------------------------------------------------------------------
(* Writers *)

Sound(d) == TypeSound(d) /\ GraphSound(d)

(* Paths and types that a start leaves as they are, or one new file. *)
LEMMA StartDbSound ==
  ASSUME NEW d, Sound(d), NEW mode, NEW p \in Paths, NEW bs \in BlockSizes,
         CanStart(d, mode, p)
  PROVE  LET e == StartDb(d, mode, p, bs)
         IN  /\ Sound(e)
             /\ NodeIds(d) \subseteq NodeIds(e)
             /\ \A n \in NodeIds(d) : /\ e.nodes[n].path = d.nodes[n].path
                                      /\ e.nodes[n].type = d.nodes[n].type
             /\ \A n \in NodeIds(e) \ NodeIds(d) :
                  /\ n = d.nodeSeq /\ ~HasNode(d, p)
                  /\ e.nodes[n].path = p /\ e.nodes[n].type = "file"
             /\ HasNode(e, p)
             /\ \A n \in NodesAt(e, p) : e.nodes[n].type = "file"
  <1> DEFINE e == StartDb(d, mode, p, bs)
  <1>0. bs \in Nat \ {0} /\ TypeSound(d) /\ GraphSound(d)
    BY TablesAssumption DEF Sound
  <1>1. CASE ~HasNode(d, p)
    <2>1. NodeRowSound(NewFileRow(p, bs))
      BY <1>0 DEF NodeRowSound, NewFileRow
    <2>2. e = InsertNode(d, NewFileRow(p, bs))
      BY <1>1 DEF StartDb
    <2>3. /\ TypeSound(e) /\ GraphSound(e)
          /\ NodeIds(e) = NodeIds(d) \cup {d.nodeSeq}
          /\ e.nodes[d.nodeSeq] = NewFileRow(p, bs)
          /\ \A n \in NodeIds(d) : e.nodes[n] = d.nodes[n]
      BY <1>0, <2>1, <2>2, InsertNodeShape
    <2> HIDE DEF e
    <2>4. e.nodes[d.nodeSeq].path = p /\ e.nodes[d.nodeSeq].type = "file"
      BY <2>3 DEF NewFileRow
    <2>5. HasNode(e, p) /\ \A n \in NodesAt(e, p) : e.nodes[n].type = "file"
      BY <1>1, <2>3, <2>4 DEF HasNode, NodesAt
    <2> QED
      BY <1>1, <2>3, <2>4, <2>5 DEF e, Sound
  <1>2. CASE HasNode(d, p)
    <2> DEFINE f == CHOOSE n \in NodesAt(d, p) : TRUE
               r == ReleaseFileBlocks(d, {f})
    <2>1. f \in NodeIds(d)
      BY <1>2 DEF HasNode, NodesAt
    <2>2. TypeSound(r) /\ GraphSound(r) /\ r.nodes = d.nodes
      BY <1>0, ReleaseType, ReleaseGraph, ReleaseShape
    <2> HIDE DEF f, r
    <2>3. TypeSound(e)
      BY <1>0, StartDbType
    <2>4. /\ NodeIds(e) = NodeIds(d)
          /\ \A n \in NodeIds(d) : /\ e.nodes[n].path = d.nodes[n].path
                                   /\ e.nodes[n].type = d.nodes[n].type
          /\ GraphSound(e)
      <3>1. CASE mode = "ab"
        BY <1>0, <1>2, <3>1 DEF StartDb
      <3>2. CASE mode # "ab"
        <4> DEFINE u == [r EXCEPT !.nodes[f].size = 0, !.nodes[f].bsize = bs,
                                  !.nodes[f].sum = NoHash, !.nodes[f].ver = @ + 1]
        <4>1. e = u
          BY <1>2, <3>2 DEF StartDb, f, r
        <4>2. /\ NodeIds(u) = NodeIds(r)
              /\ \A n \in NodeIds(r) : /\ u.nodes[n].path = r.nodes[n].path
                                       /\ u.nodes[n].type = r.nodes[n].type
              /\ u.maps = r.maps /\ u.blocks = r.blocks /\ u.blockSeq = r.blockSeq
          BY <2>1, <2>2 DEF TypeSound, NodeIds, NodeRowSound
        <4> HIDE DEF u, e
        <4>3. \A m \in r.maps : m.file \in NodeIds(u) /\ u.nodes[m.file].type = "file"
          BY <2>2, <4>2 DEF GraphSound
        <4>4. GraphSound(u)
          BY <2>2, <4>2, <4>3, NodesChangeGraph
        <4> QED
          BY <2>2, <4>1, <4>2, <4>4 DEF NodeIds
      <3> QED
        BY <3>1, <3>2
    <2> HIDE DEF e
    <2>5. \A n \in NodesAt(d, p) : d.nodes[n].type = "file"
      BY <1>0 DEF CanStart, TargetOk, DirectoryAt, NodesAt, TypeSound, NodeRowSound
    <2>6. HasNode(e, p) /\ \A n \in NodesAt(e, p) : e.nodes[n].type = "file"
      BY <1>2, <2>4, <2>5 DEF HasNode, NodesAt
    <2> QED
      BY <2>3, <2>4, <2>6 DEF e, Sound
  <1> QED
    BY <1>1, <1>2

(* How the blocks and the files of a database value e come after those of d. *)
BlocksKept(d, e) ==
  \A b \in DOMAIN d.blocks :
    /\ b \in DOMAIN e.blocks
    /\ d.blocks[b].free => e.blocks[b].free
    /\ e.blocks[b].data = d.blocks[b].data

(* The blocks of e are among those of d, as they were but for being free. *)
BlocksAmong(d, e) ==
  \A b \in DOMAIN e.blocks :
    /\ b \in DOMAIN d.blocks
    /\ e.blocks[b].data = d.blocks[b].data
    /\ e.blocks[b].size = d.blocks[b].size
    /\ e.blocks[b].sum = d.blocks[b].sum

(* What start() does for a writer on p: the row of the file is new, or as it
   was, or in its next version and empty; the other rows are untouched. *)
Started(d, mode, p, e, w) ==
  /\ w.node \in NodeIds(e) /\ w.mode = mode
  /\ w.ver = e.nodes[w.node].ver
  /\ w.size = e.nodes[w.node].size /\ w.hashed = Content(e, w.node)
  /\ e.nodes[w.node].path = p
  /\ BlocksKept(d, e) /\ BlocksAmong(d, e)
  /\ NodeIds(e) = NodeIds(d) \cup {w.node}
  /\ \A n \in NodeIds(e) \ {w.node} : e.nodes[n] = d.nodes[n] /\ MapsOf(e, n) = MapsOf(d, n)
  /\ \/ /\ ~HasNode(d, p)
        /\ w.node = d.nodeSeq /\ e.nodeSeq = d.nodeSeq + 1
        /\ e.nodes[w.node].ver = 1 /\ e.nodes[w.node].size = 0 /\ MapsOf(e, w.node) = {}
     \/ w.node \in NodesAt(d, p) /\ mode = "ab" /\ e = d
     \/ /\ w.node \in NodesAt(d, p) /\ mode # "ab"
        /\ e.nodeSeq = d.nodeSeq
        /\ e.nodes[w.node].ver = d.nodes[w.node].ver + 1
        /\ e.nodes[w.node].size = 0 /\ MapsOf(e, w.node) = {}

-----------------------------------------------------------------------------
(* Releasing and attaching blocks, and starting a writer *)

(* Releasing and deleting rows touches no other file, and no byte of a block. *)
LEMMA ReleaseContinues ==
  ASSUME NEW d, TypeSound(d), NEW ids
  PROVE  LET e == ReleaseFileBlocks(d, ids)
         IN  /\ BlocksKept(d, e)
             /\ e.nodes = d.nodes /\ e.nodeSeq = d.nodeSeq
             /\ \A n : n \notin ids => MapsOf(e, n) = MapsOf(d, n)
  <1> DEFINE e == ReleaseFileBlocks(d, ids)
             mine  == {m.block : m \in {k \in d.maps : k.file \in ids}}
             left  == {m \in d.maps : m.file \notin ids}
             owned == {m.block : m \in left}
  <1>1. /\ e.nodes = d.nodes /\ e.nodeSeq = d.nodeSeq
        /\ e.maps = left
        /\ DOMAIN e.blocks = DOMAIN d.blocks
        /\ \A b \in DOMAIN d.blocks :
             /\ e.blocks[b].data = d.blocks[b].data
             /\ b \in mine \ owned => e.blocks[b].free
             /\ b \notin mine \ owned => e.blocks[b] = d.blocks[b]
    BY ReleaseShape
  <1> HIDE DEF e, mine, owned
  <1>2. BlocksKept(d, e)
    BY <1>1 DEF BlocksKept
  <1>3. \A n : n \notin ids => MapsOf(e, n) = MapsOf(d, n)
    BY <1>1 DEF MapsOf
  <1> QED
    BY <1>1, <1>2, <1>3 DEF e

LEMMA ReleaseBlocks ==
  ASSUME NEW d, TypeSound(d), NEW ids
  PROVE  BlocksAmong(d, ReleaseFileBlocks(d, ids))
  <1> DEFINE e == ReleaseFileBlocks(d, ids)
             gone == {m.block : m \in {k \in d.maps : k.file \in ids}}
                       \ {m.block : m \in {k \in d.maps : k.file \notin ids}}
  <1>1. /\ DOMAIN e.blocks = DOMAIN d.blocks
        /\ \A b \in DOMAIN d.blocks :
             e.blocks[b] = IF b \in gone THEN [d.blocks[b] EXCEPT !.free = TRUE] ELSE d.blocks[b]
    BY DEF ReleaseFileBlocks, TypeSound
  <1> HIDE DEF e, gone
  <1>2. BlocksAmong(d, e)
    BY <1>1 DEF BlocksAmong, TypeSound, BlockRowSound
  <1> QED
    BY <1>2 DEF e

(* _allocate_blocks makes blocks beside those that are there. *)
LEMMA AttachContinues ==
  ASSUME NEW d, TypeSound(d), NEW f, NEW seq, NEW cs \in Seq(Seq(Bytes))
  PROVE  LET e == AttachBlocks(d, f, seq, cs)
         IN  /\ BlocksKept(d, e)
             /\ e.nodes = d.nodes /\ e.nodeSeq = d.nodeSeq
             /\ \A n : n # f => MapsOf(e, n) = MapsOf(d, n)
  <1> DEFINE first == d.blockSeq - 1
             new   == {first + i : i \in 1..Len(cs)}
             added == {[file |-> f, block |-> first + i, seq |-> seq + i - 1] : i \in 1..Len(cs)}
             e     == AttachBlocks(d, f, seq, cs)
  <1>1. /\ e.nodes = d.nodes /\ e.nodeSeq = d.nodeSeq
        /\ e.blocks = [b \in DOMAIN d.blocks \cup new |->
                         IF b \in new THEN NewBlock(cs[b - first]) ELSE d.blocks[b]]
        /\ e.maps = d.maps \cup added
    BY DEF AttachBlocks, TypeSound
  <1>2. \A b \in DOMAIN d.blocks : b \notin new
    BY DEF TypeSound
  <1>3. \A m \in added : m.file = f
    OBVIOUS
  <1> HIDE DEF e, new, added
  <1>4. BlocksKept(d, e)
    BY <1>1, <1>2 DEF BlocksKept
  <1>5. \A n : n # f => MapsOf(e, n) = MapsOf(d, n)
    BY <1>1, <1>3 DEF MapsOf
  <1> QED
    BY <1>1, <1>4, <1>5 DEF e

LEMMA StartShape ==
  ASSUME NEW d, Sound(d), NEW mode, NEW p \in Paths, NEW bs \in BlockSizes,
         CanStart(d, mode, p)
  PROVE  LET e == StartDb(d, mode, p, bs)
         IN  Started(d, mode, p, e, StartWriter(e, mode, p, bs))
  <1> DEFINE e == StartDb(d, mode, p, bs)
             w == StartWriter(e, mode, p, bs)
             f == CHOOSE n \in NodesAt(e, p) : TRUE
  <1>1. TypeSound(d) /\ GraphSound(d) /\ d.nodeSeq \in Nat
    BY DEF Sound, TypeSound
  <1>2. /\ w.node = f /\ w.mode = mode /\ w.ver = e.nodes[f].ver
        /\ w.size = e.nodes[f].size /\ w.hashed = Content(e, f)
    BY DEF StartWriter
  <1> HIDE DEF w
  <1>3. CASE ~HasNode(d, p)
    <2>1. NodeRowSound(NewFileRow(p, bs))
      BY TablesAssumption DEF NodeRowSound, NewFileRow
    <2>2. /\ e = InsertNode(d, NewFileRow(p, bs))
          /\ d.nodeSeq \notin NodeIds(d)
          /\ NodeIds(e) = NodeIds(d) \cup {d.nodeSeq}
          /\ e.nodes[d.nodeSeq] = NewFileRow(p, bs)
          /\ \A n \in NodeIds(d) : e.nodes[n] = d.nodes[n]
          /\ e.maps = d.maps /\ e.blocks = d.blocks
      BY <1>1, <1>3, <2>1, InsertNodeShape DEF StartDb
    <2>3. e.nodeSeq = d.nodeSeq + 1
      BY <1>1, <2>2 DEF InsertNode, TypeSound
    <2> HIDE DEF e
    <2>4. e.nodes[d.nodeSeq].path = p /\ e.nodes[d.nodeSeq].ver = 1 /\ e.nodes[d.nodeSeq].size = 0
      BY <2>2 DEF NewFileRow
    <2>5. NodesAt(e, p) = {d.nodeSeq}
      BY <1>3, <2>2, <2>4 DEF HasNode, NodesAt
    <2>6. f = d.nodeSeq
      BY <2>5
    <2> HIDE DEF f
    <2>7. MapsOf(e, f) = {} /\ \A n \in NodeIds(e) \ {f} : MapsOf(e, n) = MapsOf(d, n)
      BY <1>1, <2>2, <2>6 DEF MapsOf, GraphSound
    <2>8. BlocksKept(d, e) /\ BlocksAmong(d, e)
      BY <2>2 DEF BlocksKept, BlocksAmong
    <2> QED
      BY <1>2, <1>3, <2>2, <2>3, <2>4, <2>6, <2>7, <2>8 DEF Started, e, w
  <1>4. CASE HasNode(d, p) /\ mode = "ab"
    <2>1. e = d
      BY <1>4 DEF StartDb
    <2> HIDE DEF e
    <2>2. f \in NodesAt(d, p)
      BY <1>4, <2>1 DEF HasNode
    <2> HIDE DEF f
    <2>3. BlocksKept(d, e) /\ BlocksAmong(d, e) /\ f \in NodeIds(d) /\ d.nodes[f].path = p
      BY <2>1, <2>2 DEF BlocksKept, BlocksAmong, NodesAt
    <2> QED
      BY <1>2, <1>4, <2>1, <2>2, <2>3 DEF Started, e, w
  <1>5. CASE HasNode(d, p) /\ mode # "ab"
    <2> DEFINE g == CHOOSE n \in NodesAt(d, p) : TRUE
               r == ReleaseFileBlocks(d, {g})
               u == [r EXCEPT !.nodes[g].size = 0, !.nodes[g].bsize = bs,
                              !.nodes[g].sum = NoHash, !.nodes[g].ver = @ + 1]
    <2>1. g \in NodesAt(d, p) /\ g \in NodeIds(d) /\ d.nodes[g].path = p
      BY <1>5 DEF HasNode, NodesAt
    <2>2. /\ BlocksKept(d, r) /\ BlocksAmong(d, r)
          /\ r.nodes = d.nodes /\ r.nodeSeq = d.nodeSeq
          /\ \A n : n # g => MapsOf(r, n) = MapsOf(d, n)
      BY <1>1, ReleaseContinues, ReleaseBlocks
    <2>3. TypeSound(r) /\ MapsOf(r, g) = {}
      BY <1>1, ReleaseType, ReleaseGraph DEF MapsOf
    <2>4. e = u
      BY <1>5 DEF StartDb
    <2> HIDE DEF r, g
    <2>5. /\ NodeIds(u) = NodeIds(d) /\ u.nodeSeq = d.nodeSeq
          /\ \A n \in NodeIds(d) : u.nodes[n].path = d.nodes[n].path
          /\ \A n \in NodeIds(d) \ {g} : u.nodes[n] = d.nodes[n]
          /\ u.nodes[g].ver = d.nodes[g].ver + 1 /\ u.nodes[g].size = 0
          /\ u.maps = r.maps /\ u.blocks = r.blocks
      BY <1>1, <2>1, <2>2, <2>3 DEF TypeSound, NodeIds, NodeRowSound
    <2> HIDE DEF u, e
    <2>6. NodesAt(e, p) = NodesAt(d, p)
      BY <2>4, <2>5 DEF NodesAt
    <2>7. f = g
      BY <2>6 DEF g
    <2> HIDE DEF f
    <2>8. /\ BlocksKept(d, e) /\ BlocksAmong(d, e)
          /\ MapsOf(e, g) = {} /\ \A n : n # g => MapsOf(e, n) = MapsOf(d, n)
      BY <2>2, <2>3, <2>4, <2>5 DEF BlocksKept, BlocksAmong, MapsOf
    <2> QED
      BY <1>2, <1>5, <2>1, <2>4, <2>5, <2>7, <2>8 DEF Started, e, w
  <1> QED
    BY <1>3, <1>4, <1>5

-----------------------------------------------------------------------------
(* The content of a file is made of its mappings and their blocks alone. *)

LEMMA SequencesMaps ==
  ASSUME NEW d, NEW f
  PROVE  /\ \A m \in MapsOf(d, f) : m.seq \in SequencesOf(d, f)
         /\ \A s \in SequencesOf(d, f) : \E m \in MapsOf(d, f) : m.seq = s
  BY DEF SequencesOf

MapsBefore(d, f, k) == {m \in MapsOf(d, f) : m.seq < k}

(* The mappings of a file before sequence k are k, if it has that many. *)
LEMMA MapsCounted ==
  ASSUME NEW d, TypeSound(d), MapsSound(d), NEW f, NEW n \in Nat,
         SequencesOf(d, f) = 0..(n - 1), NEW k \in 0..n
  PROVE  Cardinality(MapsBefore(d, f, k)) = k
  <1> DEFINE S == 0..(k - 1)
             T == MapsBefore(d, f, k)
             g == [s \in S |-> CHOOSE m \in MapsOf(d, f) : m.seq = s]
  <1>1. \A s \in S : g[s] \in MapsOf(d, f) /\ g[s].seq = s
    <2>1. ASSUME NEW s \in S PROVE \E m \in MapsOf(d, f) : m.seq = s
      <3>1. s \in SequencesOf(d, f)
        OBVIOUS
      <3> QED
        BY <3>1, SequencesMaps
    <2> QED
      BY <2>1
  <1>2. \A m \in T : m.seq \in S /\ m \in MapsOf(d, f)
    <2>1. \A m \in T : m.seq \in 0..(n - 1) /\ m.seq < k /\ m \in MapsOf(d, f)
      BY SequencesMaps DEF MapsBefore
    <2> QED
      BY <2>1
  <1>3. \A m, h \in MapsOf(d, f) : m.seq = h.seq => m = h
    BY DEF MapsSound, MapsOf
  <1>4. g \in [S -> T]
    BY <1>1 DEF MapsBefore
  <1>5. g \in Bijection(S, T)
    <2>1. \A a, b \in S : g[a] = g[b] => a = b
      BY <1>1
    <2>2. \A m \in T : g[m.seq] = m
      BY <1>1, <1>2, <1>3
    <2> HIDE DEF g
    <2> QED
      BY <1>2, <1>4, <2>1, <2>2 DEF Bijection, Injection, Surjection, IsInjective
  <1>6. IsFiniteSet(S) /\ Cardinality(S) = k
    BY FS_Interval
  <1> QED
    BY <1>5, <1>6, FS_Bijection DEF ExistsBijection

LEMMA OrderedMapsAre ==
  ASSUME NEW d, TypeSound(d), MapsSound(d), NEW f, NEW n \in Nat,
         SequencesOf(d, f) = 0..(n - 1)
  PROVE  /\ Cardinality(MapsOf(d, f)) = n
         /\ \A m \in MapsOf(d, f) : m.seq + 1 \in 1..n /\ OrderedMaps(d, f)[m.seq + 1] = m
         /\ \A i \in 1..n : \E m \in MapsOf(d, f) : m.seq = i - 1 /\ OrderedMaps(d, f)[i] = m
  <1> DEFINE ms == MapsOf(d, f)
  <1>1. \A k \in 0..n : Cardinality(MapsBefore(d, f, k)) = k
    BY MapsCounted
  <1>2. \A m \in ms : m.seq \in 0..(n - 1)
    BY SequencesMaps
  <1>3. Cardinality(ms) = n
    <2>1. MapsBefore(d, f, n) = ms
      BY <1>2 DEF MapsBefore
    <2> QED
      BY <1>1, <2>1
  <1>4. \A m, h \in ms : m.seq = h.seq => m = h
    BY DEF MapsSound, MapsOf
  <1>5. ASSUME NEW m \in ms
        PROVE  m.seq + 1 \in 1..n /\ OrderedMaps(d, f)[m.seq + 1] = m
    <2>1. m.seq \in 0..(n - 1) /\ m.seq + 1 \in 1..n /\ (m.seq + 1) - 1 = m.seq
      BY <1>2
    <2>2. OrderedMaps(d, f)[m.seq + 1]
            = CHOOSE h \in ms : Cardinality(MapsBefore(d, f, h.seq)) = m.seq
      BY <1>3, <2>1 DEF OrderedMaps, MapsBefore
    <2>3. \A h \in ms : Cardinality(MapsBefore(d, f, h.seq)) = h.seq
      BY <1>1, <1>2
    <2> HIDE DEF ms
    <2>4. \A h \in ms : Cardinality(MapsBefore(d, f, h.seq)) = m.seq => h = m
      BY <1>4, <2>3
    <2> QED
      BY <2>1, <2>2, <2>3, <2>4
  <1>6. ASSUME NEW i \in 1..n
        PROVE  \E m \in ms : m.seq = i - 1 /\ OrderedMaps(d, f)[i] = m
    <2>1. PICK m \in ms : m.seq = i - 1
      <3>1. i - 1 \in SequencesOf(d, f)
        OBVIOUS
      <3> QED
        BY <3>1, SequencesMaps
    <2>2. m.seq + 1 = i
      BY <2>1
    <2> QED
      BY <1>5, <2>1, <2>2
  <1> QED
    BY <1>3, <1>5, <1>6

(* The data of a file's blocks by sequence, and nothing else has it. *)
BlocksInOrder(d, f, n, s) ==
  /\ s \in Seq(Seq(Bytes)) /\ Len(s) = n
  /\ \A m \in MapsOf(d, f) : m.seq + 1 \in 1..n /\ s[m.seq + 1] = d.blocks[m.block].data

LEMMA OrderedDataShape ==
  ASSUME NEW d, TypeSound(d), MapsSound(d), NEW f, NEW n \in Nat,
         SequencesOf(d, f) = 0..(n - 1)
  PROVE  /\ BlocksInOrder(d, f, n, OrderedData(d, f))
         /\ \A s : BlocksInOrder(d, f, n, s) => OrderedData(d, f) = s
  <1> DEFINE o == OrderedData(d, f)
  <1>1. /\ Cardinality(MapsOf(d, f)) = n
        /\ \A m \in MapsOf(d, f) : m.seq + 1 \in 1..n /\ OrderedMaps(d, f)[m.seq + 1] = m
        /\ \A i \in 1..n : \E m \in MapsOf(d, f) : m.seq = i - 1 /\ OrderedMaps(d, f)[i] = m
    BY OrderedMapsAre
  <1>2. o = [i \in 1..n |-> d.blocks[OrderedMaps(d, f)[i].block].data]
    BY <1>1 DEF OrderedData
  <1>3. \A m \in MapsOf(d, f) : d.blocks[m.block].data \in Seq(Bytes)
    BY DEF MapsOf, MapsSound, TypeSound, BlockRowSound
  <1> HIDE DEF o
  <1>4. o \in Seq(Seq(Bytes)) /\ Len(o) = n
    <2>1. \A i \in 1..n : o[i] \in Seq(Bytes)
      BY <1>1, <1>2, <1>3
    <2> QED
      BY <1>2, <2>1
  <1>5. \A m \in MapsOf(d, f) : m.seq + 1 \in 1..n /\ o[m.seq + 1] = d.blocks[m.block].data
    BY <1>1, <1>2
  <1>6. ASSUME NEW s, BlocksInOrder(d, f, n, s)
        PROVE  o = s
    <2>0. /\ s \in Seq(Seq(Bytes)) /\ Len(s) = n
          /\ \A m \in MapsOf(d, f) : s[m.seq + 1] = d.blocks[m.block].data
      BY <1>6 DEF BlocksInOrder
    <2>1. ASSUME NEW i \in 1..n PROVE o[i] = s[i]
      <3>1. PICK m \in MapsOf(d, f) : m.seq = i - 1
        BY <1>1
      <3>2. m.seq + 1 = i
        BY <3>1
      <3>3. o[m.seq + 1] = s[m.seq + 1]
        BY <1>5, <2>0
      <3> QED
        BY <3>2, <3>3
    <2> QED
      BY <1>4, <2>0, <2>1
  <1>7. BlocksInOrder(d, f, n, o)
    BY <1>4, <1>5 DEF BlocksInOrder
  <1> QED
    BY <1>6, <1>7 DEF o

(* The same mappings to blocks whose bytes are kept are the same content. *)
LEMMA SameFile ==
  ASSUME NEW d, TypeSound(d), MapsSound(d), NEW e,
         NEW f \in NodeIds(d), MapsOf(e, f) = MapsOf(d, f),
         \A m \in MapsOf(d, f) : e.blocks[m.block].data = d.blocks[m.block].data
  PROVE  Content(e, f) = Content(d, f)
  <1>0. PICK n \in Nat : SequencesOf(d, f) = 0..(n - 1)
    BY DEF MapsSound, TypeSound
  <1>1. OrderedMaps(e, f) = OrderedMaps(d, f)
    BY DEF OrderedMaps
  <1>2. ASSUME NEW i \in 1..Cardinality(MapsOf(d, f))
        PROVE  e.blocks[OrderedMaps(d, f)[i].block].data = d.blocks[OrderedMaps(d, f)[i].block].data
    <2>1. OrderedMaps(d, f)[i] \in MapsOf(d, f)
      <3>1. /\ Cardinality(MapsOf(d, f)) = n
            /\ \A j \in 1..n : \E m \in MapsOf(d, f) : m.seq = j - 1 /\ OrderedMaps(d, f)[j] = m
        <4>1. /\ Cardinality(MapsOf(d, f)) = n
              /\ \A m \in MapsOf(d, f) : m.seq + 1 \in 1..n /\ OrderedMaps(d, f)[m.seq + 1] = m
              /\ \A j \in 1..n : \E m \in MapsOf(d, f) : m.seq = j - 1 /\ OrderedMaps(d, f)[j] = m
          BY <1>0, OrderedMapsAre
        <4> QED
          BY <4>1
      <3>2. PICK m \in MapsOf(d, f) : m.seq = i - 1 /\ OrderedMaps(d, f)[i] = m
        BY <3>1
      <3> QED
        BY <3>2
    <2> QED
      BY <2>1
  <1>3. OrderedData(e, f) = OrderedData(d, f)
    BY <1>1, <1>2 DEF OrderedData
  <1> QED
    BY <1>3 DEF Content

LEMMA SameContent ==
  ASSUME NEW d, TypeSound(d), MapsSound(d), NEW e, BlocksKept(d, e),
         NEW f \in NodeIds(d), MapsOf(e, f) = MapsOf(d, f)
  PROVE  Content(e, f) = Content(d, f)
  <1>1. \A m \in MapsOf(d, f) : e.blocks[m.block].data = d.blocks[m.block].data
    BY DEF BlocksKept, MapsSound, MapsOf
  <1> QED
    BY <1>1, SameFile

(* The content of a file is data. *)
LEMMA ContentType ==
  ASSUME NEW d, TypeSound(d), MapsSound(d), NEW f \in NodeIds(d)
  PROVE  Content(d, f) \in Seq(Bytes)
  <1>1. PICK n \in Nat : SequencesOf(d, f) = 0..(n - 1)
    BY DEF MapsSound, TypeSound
  <1>2. OrderedData(d, f) \in Seq(Seq(Bytes))
    BY <1>1, OrderedDataShape DEF BlocksInOrder
  <1> QED
    BY <1>2, FlattenType DEF Content

(* A file without mappings is empty. *)
LEMMA NoMapsNoContent ==
  ASSUME NEW d, NEW f, MapsOf(d, f) = {}
  PROVE  Content(d, f) = <<>>
  <1>1. Cardinality({}) = 0
    BY FS_EmptySet
  <1>2. OrderedData(d, f) = [i \in 1..0 |-> d.blocks[OrderedMaps(d, f)[i].block].data]
    BY <1>1 DEF OrderedData
  <1>3. OrderedData(d, f) = <<>>
    BY <1>2
  <1> QED
    BY <1>3, FlattenEmpty DEF Content

(* Chunks attached at the end of a file add their data to it. *)
LEMMA AttachesContent ==
  ASSUME NEW d, TypeSound(d), MapsSound(d), NEW e, TypeSound(e), NEW f, NEW n \in Nat,
         SequencesOf(d, f) = 0..(n - 1), NEW cs \in Seq(Seq(Bytes)), NEW first \in Nat,
         Attaches(d, e, f, n, cs, first)
  PROVE  /\ Content(e, f) = Content(d, f) \o FlattenSeq(cs)
         /\ \A g \in NodeIds(d) \ {f} : Content(e, g) = Content(d, g)
  <1> DEFINE added == Added(f, first, n, cs)
             o == OrderedData(d, f)
  <1>0. Len(cs) \in Nat
    OBVIOUS
  <1>a. AddedOnly(added, f, first, n, Len(cs))
    BY AddedShape
  <1>1. /\ MapsSound(e) /\ SequencesOf(e, f) = 0..(n + Len(cs) - 1)
    <2>1. TypeSound(d) /\ MapsSound(d) /\ SequencesOf(d, f) = 0..(n - 1)
      OBVIOUS
    <2>2. Attaches(d, e, f, n, cs, first)
      OBVIOUS
    <2> HIDE DEF added, o
    <2> QED
      BY <2>1, <2>2, AttachesMaps
  <1>2. e.maps = d.maps \cup added
    BY DEF Attaches
  <1>3. /\ o \in Seq(Seq(Bytes)) /\ Len(o) = n
        /\ \A m \in MapsOf(d, f) : m.seq + 1 \in 1..n /\ o[m.seq + 1] = d.blocks[m.block].data
    BY OrderedDataShape DEF BlocksInOrder
  <1> DEFINE oc == o \o cs
  <1> HIDE DEF o
  <1>4. /\ oc \in Seq(Seq(Bytes)) /\ Len(oc) = n + Len(cs) /\ Len(cs) \in Nat
        /\ \A i \in 1..n : oc[i] = o[i]
        /\ \A i \in 1..Len(cs) : oc[n + i] = cs[i]
    <2>1. oc \in Seq(Seq(Bytes)) /\ Len(oc) = n + Len(cs) /\ Len(cs) \in Nat
      BY <1>0, <1>3, ConcatProperties
    <2>2. ASSUME NEW i \in 1..n PROVE oc[i] = o[i]
      BY <1>3
    <2>3. ASSUME NEW i \in 1..Len(cs) PROVE oc[n + i] = cs[i]
      BY <1>3
    <2> QED
      BY <2>1, <2>2, <2>3
  <1> HIDE DEF oc, added
  <1>6. ASSUME NEW m \in MapsOf(e, f)
        PROVE  m.seq + 1 \in 1..(n + Len(cs)) /\ oc[m.seq + 1] = e.blocks[m.block].data
    <2>1. CASE m \in d.maps
      <3>1. m \in MapsOf(d, f) /\ e.blocks[m.block].data = d.blocks[m.block].data
        BY <1>6, <2>1 DEF MapsOf, Attaches
      <3>2. m.seq + 1 \in 1..n /\ o[m.seq + 1] = d.blocks[m.block].data
        BY <1>3, <3>1
      <3> QED
        BY <1>4, <3>1, <3>2
    <2>2. CASE m \in added
      <3>1. PICK i \in 1..Len(cs) : m.block = first + i /\ m.seq = n + i - 1
        BY <1>a, <2>2 DEF AddedOnly
      <3>2. m.seq + 1 = n + i
        BY <3>1
      <3>3. e.blocks[first + i] = NewBlock(cs[i])
        BY DEF Attaches
      <3>4. e.blocks[m.block].data = cs[i]
        BY <3>1, <3>3 DEF NewBlock
      <3>5. oc[m.seq + 1] = cs[i] /\ m.seq + 1 \in 1..(n + Len(cs))
        BY <1>4, <3>2
      <3> QED
        BY <3>4, <3>5
    <2> QED
      BY <1>2, <1>6, <2>1, <2>2 DEF MapsOf
  <1>7. OrderedData(e, f) = oc
    <2> DEFINE k == n + Len(cs)
    <2>1. k \in Nat /\ SequencesOf(e, f) = 0..(k - 1)
      BY <1>1, <1>4
    <2>2. BlocksInOrder(e, f, k, oc)
      BY <1>4, <1>6 DEF BlocksInOrder
    <2> HIDE DEF k
    <2> QED
      BY <1>1, <2>1, <2>2, OrderedDataShape
  <1>8. FlattenSeq(oc) = FlattenSeq(o) \o FlattenSeq(cs)
    BY <1>3, FlattenConcat DEF oc
  <1>9. ASSUME NEW g \in NodeIds(d) \ {f} PROVE Content(e, g) = Content(d, g)
    <2>1. MapsOf(e, g) = MapsOf(d, g)
      BY AttachesOthers
    <2>2. \A m \in MapsOf(d, g) : e.blocks[m.block].data = d.blocks[m.block].data
      BY DEF Attaches, MapsOf
    <2> QED
      BY <2>1, <2>2, SameFile
  <1> QED
    BY <1>7, <1>8, <1>9 DEF Content, o

LEMMA AttachContent ==
  ASSUME NEW d, TypeSound(d), MapsSound(d), NEW f \in NodeIds(d),
         d.nodes[f].type = "file", NEW n \in Nat, SequencesOf(d, f) = 0..(n - 1),
         NEW cs \in Seq(Seq(Bytes))
  PROVE  Content(AttachBlocks(d, f, n, cs), f) = Content(d, f) \o FlattenSeq(cs)
  <1> DEFINE e == AttachBlocks(d, f, n, cs)
  <1>1. TypeSound(e) /\ Attaches(d, e, f, n, cs, d.blockSeq - 1) /\ d.blockSeq - 1 \in Nat
    BY AttachMaps, AttachAttaches DEF TypeSound
  <1> HIDE DEF e
  <1>2. Content(e, f) = Content(d, f) \o FlattenSeq(cs)
    BY <1>1, AttachesContent
  <1> QED
    BY <1>2 DEF e

-----------------------------------------------------------------------------
(* write_chunk adds a chunk to the content, cut into blocks of any size. *)

(* _chunk_data cuts at the multiples of the block size and at the end. *)
LEMMA Multiples ==
  ASSUME NEW b \in Nat \ {0}, NEW i \in Nat
  PROVE  /\ i * b \in Nat
         /\ (i + 1) * b = i * b + b
         /\ \A j \in Nat : i <= j => i * b <= j * b
  <1>1. i * b \in Nat /\ (i + 1) * b = i * b + b
    OBVIOUS
  <1>2. ASSUME NEW j \in Nat, i <= j PROVE i * b <= j * b
    <2>1. PICK k \in Nat : j = i + k
      <3>1. j - i \in Nat /\ j = i + (j - i)
        BY <1>2
      <3> QED
        BY <3>1
    <2>2. j * b = i * b + k * b /\ k * b \in Nat /\ i * b \in Nat
      BY <2>1
    <2> QED
      BY <2>2
  <1> QED
    BY <1>1, <1>2

LEMMA LastMultiple ==
  ASSUME NEW b \in Nat \ {0}, NEW l \in Nat, NEW n, n = (l + b - 1) \div b
  PROVE  /\ n \in Nat
         /\ n * b >= l
         /\ n # 0 => (n - 1) * b < l
  <1>1. n \in Nat
    <2>1. l + b - 1 \in Nat
      OBVIOUS
    <2> QED
      BY <2>1
  <1>2. n * b <= l + b - 1 /\ l + b - 1 < n * b + b
    <2> DEFINE x == l + b - 1
    <2>1. x \in Nat
      OBVIOUS
    <2>2. n = x \div b
      OBVIOUS
    <2> HIDE DEF x
    <2>3. n * b <= x /\ x < n * b + b
      BY <2>1, <2>2, <1>1
    <2> QED
      BY <2>3 DEF x
  <1>3. ASSUME n # 0 PROVE (n - 1) * b < l
    <2>1. (n - 1) * b = n * b - b /\ n * b \in Nat
      BY <1>1, <1>3
    <2> QED
      BY <1>2, <2>1
  <1>4. n * b \in Nat
    BY <1>1
  <1> QED
    BY <1>1, <1>2, <1>3, <1>4

LEMMA ChunksJoin ==
  ASSUME NEW data \in Seq(Bytes), NEW bs \in Nat \ {0}
  PROVE  FlattenSeq(Chunks(data, bs)) = data
  <1> DEFINE l == Len(data)
             n == (l + bs - 1) \div bs
             cut == [i \in 0..n |-> IF i * bs < l THEN i * bs ELSE l]
             s == Chunks(data, bs)
  <1>1. l \in Nat
    OBVIOUS
  <1>2. n \in Nat /\ n * bs >= l /\ (n # 0 => (n - 1) * bs < l)
    BY <1>1, LastMultiple
  <1>3. s \in Seq(Seq(Bytes))
    BY ChunksType
  <1>4. s = [i \in 1..n |-> SubSeq(data, (i - 1) * bs + 1, IF i * bs < l THEN i * bs ELSE l)]
    BY DEF Chunks
  <1> HIDE DEF s, n, l
  <1>5. Len(s) = n
    BY <1>2, <1>4
  <1>6. \A i \in 0..n : i \in Nat /\ i * bs \in Nat /\ cut[i] \in 0..l
    BY <1>1, <1>2
  <1>7. ASSUME NEW i \in 1..n
        PROVE  cut[i - 1] = (i - 1) * bs /\ cut[i - 1] <= cut[i]
    <2>1. i - 1 \in Nat /\ i - 1 \in 0..n /\ i \in 0..n /\ n # 0 /\ n - 1 \in Nat /\ i - 1 <= n - 1
      BY <1>2
    <2>2. (i - 1) * bs <= (n - 1) * bs /\ (n - 1) * bs \in Nat /\ (i - 1) * bs \in Nat
      BY <2>1, Multiples
    <2>3. (i - 1) * bs < l
      BY <1>1, <1>2, <2>1, <2>2
    <2>4. i * bs = (i - 1) * bs + bs
      BY <2>1
    <2>5. cut[i - 1] = (i - 1) * bs
      BY <2>1, <2>3
    <2>6. cut[i] = i * bs \/ cut[i] = l
      BY <2>1
    <2> HIDE DEF cut
    <2> QED
      BY <1>1, <2>2, <2>3, <2>4, <2>5, <2>6
  <1>8. cut[0] = 0 /\ cut[n] = l
    <2>1. 0 * bs = 0 /\ n * bs \in Nat /\ 0 \in 0..n /\ n \in 0..n
      BY <1>2
    <2> QED
      BY <1>1, <1>2, <2>1
  <1>9. \A i \in 1..n : s[i] = SubSeq(data, cut[i - 1] + 1, cut[i])
    <2>1. ASSUME NEW i \in 1..n PROVE s[i] = SubSeq(data, cut[i - 1] + 1, cut[i])
      <3>1. s[i] = SubSeq(data, (i - 1) * bs + 1, IF i * bs < l THEN i * bs ELSE l)
        BY <1>4
      <3>2. cut[i] = IF i * bs < l THEN i * bs ELSE l
        BY <1>2
      <3> HIDE DEF cut
      <3> QED
        BY <1>7, <3>1, <3>2
    <2> QED
      BY <2>1
  <1> HIDE DEF cut
  <1>10. FlattenSeq(s) = SubSeq(data, 1, cut[n])
    <2>1. PiecesOf(s, data, n, cut)
      BY <1>2, <1>5, <1>6, <1>7, <1>8, <1>9 DEF PiecesOf, l
    <2> QED
      BY <1>3, <2>1, FlattenPieces
  <1> QED
    BY <1>8, <1>10, SubSeqFull DEF s, l

(* _finalize writes the counters into the row. *)
LEMMA FinalizeShape ==
  ASSUME NEW d, TypeSound(d), NEW w, CanFinalize(d, w)
  PROVE  LET e == FinalizeDb(d, w)
         IN  /\ w.node \in NodeIds(d) /\ NodeIds(e) = NodeIds(d)
             /\ e.nodeSeq = d.nodeSeq /\ e.maps = d.maps /\ e.blocks = d.blocks
             /\ \A n \in NodeIds(d) \ {w.node} : e.nodes[n] = d.nodes[n]
             /\ e.nodes[w.node].path = d.nodes[w.node].path
             /\ e.nodes[w.node].type = d.nodes[w.node].type
             /\ e.nodes[w.node].size = w.size /\ e.nodes[w.node].sum = Hash(w.hashed)
             /\ e.nodes[w.node].ver = w.ver + IF w.mode = "ab" THEN 1 ELSE 0
  <1>1. w.node \in NodeIds(d) /\ d.nodes[w.node].ver = w.ver /\ w.ver \in Nat
    BY DEF CanFinalize, TypeSound, NodeRowSound
  <1> QED
    BY <1>1 DEF FinalizeDb, TypeSound, NodeIds, NodeRowSound

FileMatches(d, n) ==
  d.nodes[n].type = "file" =>
    /\ d.nodes[n].size = Len(Content(d, n))
    /\ d.nodes[n].sum = Hash(Content(d, n))

BlocksMatch(d) ==
  \A b \in DOMAIN d.blocks : /\ d.blocks[b].size = Len(d.blocks[b].data)
                             /\ d.blocks[b].sum = Hash(d.blocks[b].data)

-----------------------------------------------------------------------------
(* Paths *)

LEMMA PathsType ==
  ASSUME NEW p \in Paths
  PROVE  /\ p \in Seq(Names)
         /\ Len(p) \in 1..MaxDepth
         /\ Len(p) \in Nat
         /\ \A i \in 1..Len(p) : p[i] \in Names
  BY PathsAssumption DEF Paths

LEMMA PathsIntro ==
  ASSUME NEW p \in Seq(Names), Len(p) \in 1..MaxDepth
  PROVE  p \in Paths
  BY PathsAssumption DEF Paths

(* What a prefix of a path is. *)
LEMMA UptoPath ==
  ASSUME NEW p \in Paths, NEW k \in 1..Len(p)
  PROVE  /\ Upto(p, k) \in Paths
         /\ Len(Upto(p, k)) = k
         /\ \A i \in 1..k : Upto(p, k)[i] = p[i]
  <1>1. /\ Upto(p, k) \in Seq(Names)
        /\ Len(Upto(p, k)) = k
        /\ \A i \in 1..k : Upto(p, k)[i] = p[i]
    BY PathsType DEF Upto
  <1>2. k \in 1..MaxDepth
    BY PathsType, PathsAssumption
  <1> QED
    BY <1>1, <1>2, PathsIntro

(* What is above a path is one of its ancestors, the segments it has. *)
LEMMA BelowAncestor ==
  ASSUME NEW p \in Paths, NEW q \in Paths, Below(q, p)
  PROVE  /\ Len(q) \in 1..(Len(p) - 1)
         /\ q = Upto(p, Len(q))
         /\ q \in Ancestors(p)
  <1>1. /\ q \in Seq(Names) /\ Len(q) \in 1..(Len(p) - 1)
        /\ \A i \in 1..Len(q) : p[i] = q[i]
    BY PathsType DEF Below
  <1> DEFINE u == Upto(p, Len(q))
  <1>2. u \in Seq(Names) /\ Len(u) = Len(q) /\ \A i \in 1..Len(q) : u[i] = p[i]
    <2>1. Len(q) \in 1..Len(p)
      BY <1>1, PathsType
    <2> QED
      BY <2>1, UptoPath, PathsType
  <1> HIDE DEF u
  <1>3. q = u
    BY <1>1, <1>2
  <1> QED
    BY <1>1, <1>3 DEF u, Ancestors

(* LIKE matches every exact descendant, and nothing else where it is case
   sensitive. *)
LEMMA BelowLike ==
  ASSUME NEW p \in Paths, NEW q \in Paths
  PROVE  /\ Below(p, q) => LikeBelow(p, q)
         /\ CaseSensitiveLike => (LikeBelow(p, q) <=> Below(p, q))
  BY PathsType DEF Below, LikeBelow, CaseSensitiveLike

LEMMA BelowOrder ==
  ASSUME NEW p \in Paths, NEW q \in Paths
  PROVE  /\ ~Below(p, p)
         /\ \A r \in Paths : Below(p, q) /\ Below(q, r) => Below(p, r)
         /\ \A r \in Paths : Below(p, r) /\ Below(q, r) => p = q \/ Below(p, q) \/ Below(q, p)
  <1>1. ~Below(p, p)
    BY PathsType DEF Below
  <1>2. ASSUME NEW r \in Paths, Below(p, q), Below(q, r) PROVE Below(p, r)
    BY <1>2, PathsType DEF Below
  <1>3. ASSUME NEW r \in Paths, Below(p, r), Below(q, r)
        PROVE  p = q \/ Below(p, q) \/ Below(q, p)
    <2>1. CASE Len(p) = Len(q)
      BY <1>3, <2>1, BelowAncestor
    <2>2. CASE Len(p) # Len(q)
      BY <1>3, <2>2, PathsType DEF Below
    <2> QED
      BY <2>1, <2>2
  <1> QED
    BY <1>1, <1>2, <1>3

-----------------------------------------------------------------------------
(* Trees.  Pathed(d) is what TypeSound says about paths and types. *)

Pathed(d) ==
  \A n \in NodeIds(d) : d.nodes[n].path \in Paths /\ d.nodes[n].type \in {"file", "directory"}

LEMMA TypePathed ==
  ASSUME NEW d, TypeSound(d)
  PROVE  Pathed(d)
  BY DEF TypeSound, NodeRowSound, Pathed

(* Deleting rows, and changing anything but paths and types. *)
LEMMA TreeSame ==
  ASSUME NEW d, TreeSound(d), NEW e, NodeIds(e) \subseteq NodeIds(d),
         \A n \in NodeIds(e) : /\ e.nodes[n].path = d.nodes[n].path
                               /\ e.nodes[n].type = d.nodes[n].type
  PROVE  TreeSound(e)
  BY DEF TreeSound

(* A file above a row is found by path__in on the row's ancestors. *)
LEMMA FileAboveFound ==
  ASSUME NEW d, Pathed(d), NEW p \in Paths, NEW m \in NodeIds(d),
         d.nodes[m].type = "file", Below(d.nodes[m].path, p)
  PROVE  \E q \in Ancestors(p) : FileAt(d, q)
  <1>1. d.nodes[m].path \in Ancestors(p)
    BY BelowAncestor DEF Pathed
  <1> QED
    BY <1>1 DEF FileAt, NodesAt

(* A writer that starts on a new path. *)
LEMMA StartTree ==
  ASSUME NEW d, Sound(d), TreeSound(d), NEW mode \in Modes, NEW p \in Paths,
         NEW bs \in BlockSizes, CanStart(d, mode, p)
  PROVE  TreeSound(StartDb(d, mode, p, bs))
  <1> DEFINE e == StartDb(d, mode, p, bs)
  <1>1. /\ NodeIds(d) \subseteq NodeIds(e)
        /\ \A n \in NodeIds(d) : /\ e.nodes[n].path = d.nodes[n].path
                                 /\ e.nodes[n].type = d.nodes[n].type
        /\ \A n \in NodeIds(e) \ NodeIds(d) :
             /\ n = d.nodeSeq /\ ~HasNode(d, p)
             /\ e.nodes[n].path = p /\ e.nodes[n].type = "file"
    BY StartDbSound
  <1> HIDE DEF e
  <1>2. Pathed(d)
    BY TypePathed DEF Sound
  <1>3. \A n \in NodeIds(d) : ~Below(p, d.nodes[n].path)
    BY <1>2, BelowLike DEF CanStart, TargetOk, HasDescendants, NodesLikeBelow, Pathed
  <1>4. \A m \in NodeIds(d) : d.nodes[m].type = "file" => ~Below(d.nodes[m].path, p)
    BY <1>2, FileAboveFound DEF CanStart, ParentOk
  <1>5. ~Below(p, p)
    BY BelowOrder
  <1>6. ASSUME NEW m \in NodeIds(e), NEW n \in NodeIds(e),
               e.nodes[m].path = e.nodes[n].path
        PROVE  m = n
    BY <1>1, <1>6 DEF TreeSound, HasNode, NodesAt
  <1>7. ASSUME NEW m \in NodeIds(e), NEW n \in NodeIds(e), e.nodes[m].type = "file"
        PROVE  ~Below(e.nodes[m].path, e.nodes[n].path)
    <2>1. CASE m \in NodeIds(d) /\ n \in NodeIds(d)
      BY <1>1, <1>7, <2>1 DEF TreeSound
    <2>2. CASE m \in NodeIds(d) /\ n \notin NodeIds(d)
      BY <1>1, <1>4, <1>7, <2>2
    <2>3. CASE m \notin NodeIds(d) /\ n \in NodeIds(d)
      BY <1>1, <1>3, <2>3
    <2>4. CASE m \notin NodeIds(d) /\ n \notin NodeIds(d)
      BY <1>1, <1>5, <2>4
    <2> QED
      BY <2>1, <2>2, <2>3, <2>4
  <1> QED
    BY <1>6, <1>7 DEF TreeSound, e

-----------------------------------------------------------------------------
(* An open writer *)

LEMMA FinalizeType ==
  ASSUME NEW d, TypeSound(d), NEW w, WriterSound(w), CanFinalize(d, w)
  PROVE  TypeSound(FinalizeDb(d, w))
  BY TablesAssumption DEF TypeSound, WriterSound, CanFinalize, FinalizeDb, NodeIds, NodeRowSound

WritesSoundly(d, w) ==
  /\ Sound(d) /\ WriterSound(w)
  /\ CanFinalize(d, w)
  /\ d.nodes[w.node].type = "file"
  /\ SequencesOf(d, w.node) = 0..(w.seq - 1)

(* The writer that start() leaves. *)
LEMMA StartWriterSound ==
  ASSUME NEW d, Sound(d), NEW mode \in Modes, NEW p \in Paths, NEW bs \in BlockSizes,
         HasNode(d, p), \A n \in NodesAt(d, p) : d.nodes[n].type = "file"
  PROVE  WritesSoundly(d, StartWriter(d, mode, p, bs))
  <1> DEFINE f == CHOOSE n \in NodesAt(d, p) : TRUE
             w == StartWriter(d, mode, p, bs)
  <1>1. f \in NodesAt(d, p) /\ f \in NodeIds(d) /\ f \in Nat /\ d.nodes[f].type = "file"
    BY DEF HasNode, NodesAt, Sound, TypeSound
  <1>2. w = [node |-> f, mode |-> mode, ver |-> d.nodes[f].ver, size |-> d.nodes[f].size,
             hashed |-> Content(d, f), seq |-> NextSequence(d, f), bsize |-> bs]
    BY DEF StartWriter
  <1> HIDE DEF f, w
  <1>3. /\ NextSequence(d, f) \in Nat
        /\ SequencesOf(d, f) = 0..(NextSequence(d, f) - 1)
    BY <1>1, NextSequenceSound, GraphParts DEF Sound
  <1>4. NodeRowSound(d.nodes[f])
    BY <1>1 DEF Sound, TypeSound
  <1>5. WriterSound(w)
    BY <1>1, <1>2, <1>3, <1>4 DEF WriterSound, NodeRowSound
  <1>6. w.node = f /\ w.seq = NextSequence(d, f) /\ w.ver = d.nodes[f].ver
    BY <1>2
  <1>7. WritesSoundly(d, w)
    BY <1>1, <1>3, <1>5, <1>6 DEF WritesSoundly, CanFinalize
  <1> QED
    BY <1>7 DEF w

(* A chunk: the nodes stay, the graph grows. *)
LEMMA WriteChunkSound ==
  ASSUME NEW d, NEW w, WritesSoundly(d, w), NEW chunk \in Seq(Bytes)
  PROVE  /\ WritesSoundly(WriteChunkDb(d, w, chunk), WriteChunk(w, chunk))
         /\ WriteChunkDb(d, w, chunk).nodes = d.nodes
         /\ DOMAIN d.blocks \subseteq DOMAIN WriteChunkDb(d, w, chunk).blocks
  <1> DEFINE cs == Chunks(chunk, w.bsize)
             e  == AttachBlocks(d, w.node, w.seq, cs)
             v  == WriteChunk(w, chunk)
  <1>1. /\ w.bsize \in Nat \ {0} /\ w.node \in NodeIds(d) /\ w.seq \in Nat
        /\ Sound(d) /\ WriterSound(w) /\ d.nodes[w.node].type = "file"
    BY TablesAssumption DEF WritesSoundly, WriterSound, CanFinalize
  <1>2. cs \in Seq(Seq(Bytes))
    BY <1>1, ChunksType
  <1> HIDE DEF cs
  <1>3. /\ TypeSound(e) /\ GraphSound(e)
        /\ e.nodes = d.nodes
        /\ SequencesOf(e, w.node) = 0..(w.seq + Len(cs) - 1)
        /\ DOMAIN d.blocks \subseteq DOMAIN e.blocks
    BY <1>1, <1>2, AttachGraph DEF Sound, WritesSoundly
  <1> HIDE DEF e
  <1>4. /\ WriterSound(v)
        /\ v.node = w.node /\ v.ver = w.ver
        /\ v.seq = w.seq + Len(cs)
    BY <1>1, <1>2 DEF WriterSound, WriteChunk, cs
  <1> HIDE DEF v
  <1>5. WritesSoundly(e, v)
    BY <1>1, <1>3, <1>4 DEF WritesSoundly, CanFinalize, Sound, NodeIds
  <1> QED
    BY <1>3, <1>5 DEF WriteChunkDb, e, v, cs

(* The final UPDATE: only columns that are neither path nor type. *)
LEMMA FinalizeSound ==
  ASSUME NEW d, NEW w, WritesSoundly(d, w)
  PROVE  LET e == FinalizeDb(d, w)
         IN  /\ Sound(e)
             /\ NodeIds(e) = NodeIds(d)
             /\ \A n \in NodeIds(d) : /\ e.nodes[n].path = d.nodes[n].path
                                      /\ e.nodes[n].type = d.nodes[n].type
  <1> DEFINE e == FinalizeDb(d, w)
  <1>1. TypeSound(d) /\ GraphSound(d) /\ WriterSound(w) /\ CanFinalize(d, w)
    BY DEF WritesSoundly, Sound
  <1>2. TypeSound(e)
    BY <1>1, FinalizeType
  <1>3. /\ NodeIds(e) = NodeIds(d)
        /\ \A n \in NodeIds(d) : /\ e.nodes[n].path = d.nodes[n].path
                                 /\ e.nodes[n].type = d.nodes[n].type
        /\ e.maps = d.maps /\ e.blocks = d.blocks /\ e.blockSeq = d.blockSeq
    BY <1>1 DEF FinalizeDb, TypeSound, NodeIds, NodeRowSound, CanFinalize
  <1> HIDE DEF e
  <1>4. \A m \in d.maps : m.file \in NodeIds(e) /\ e.nodes[m.file].type = "file"
    BY <1>1, <1>3 DEF GraphSound
  <1>5. GraphSound(e)
    BY <1>1, <1>3, <1>4, NodesChangeGraph
  <1> QED
    BY <1>2, <1>3, <1>5 DEF e, Sound

LEMMA MatchParts ==
  ASSUME NEW d
  PROVE  RowsMatchContent(d) <=> BlocksMatch(d) /\ \A n \in NodeIds(d) : FileMatches(d, n)
  BY DEF RowsMatchContent, BlocksMatch, FileMatches

LEMMA BlocksStillMatch ==
  ASSUME NEW d, BlocksMatch(d), NEW e, BlocksAmong(d, e)
  PROVE  BlocksMatch(e)
  BY DEF BlocksMatch, BlocksAmong

(* A row that describes its content goes on doing so while both stay. *)
LEMMA FileStillMatches ==
  ASSUME NEW d, TypeSound(d), GraphSound(d), NEW e, BlocksKept(d, e),
         NEW n \in NodeIds(d), FileMatches(d, n), MapsOf(e, n) = MapsOf(d, n),
         e.nodes[n].type = d.nodes[n].type, e.nodes[n].size = d.nodes[n].size,
         e.nodes[n].sum = d.nodes[n].sum
  PROVE  FileMatches(e, n)
  BY SameContent, GraphParts DEF FileMatches

(* write_chunk adds the chunk to the content, whole. *)
LEMMA ChunkContent ==
  ASSUME NEW d, NEW w, WritesSoundly(d, w), NEW chunk \in Seq(Bytes)
  PROVE  /\ Content(WriteChunkDb(d, w, chunk), w.node) = Content(d, w.node) \o chunk
         /\ \A n \in NodeIds(d) \ {w.node} :
              Content(WriteChunkDb(d, w, chunk), n) = Content(d, n)
  <1> DEFINE cs == Chunks(chunk, w.bsize)
             e == WriteChunkDb(d, w, chunk)
  <1>1. /\ TypeSound(d) /\ GraphSound(d) /\ w.node \in NodeIds(d)
        /\ d.nodes[w.node].type = "file" /\ w.seq \in Nat
        /\ SequencesOf(d, w.node) = 0..(w.seq - 1)
        /\ w.bsize \in Nat \ {0}
    BY TablesAssumption DEF WritesSoundly, Sound, WriterSound, CanFinalize
  <1>2. cs \in Seq(Seq(Bytes)) /\ FlattenSeq(cs) = chunk
    BY <1>1, ChunksType, ChunksJoin
  <1>3. e = AttachBlocks(d, w.node, w.seq, cs)
    BY DEF WriteChunkDb
  <1> HIDE DEF cs, e
  <1>4. Content(e, w.node) = Content(d, w.node) \o chunk
    BY <1>1, <1>2, <1>3, AttachContent, GraphParts
  <1>5. BlocksKept(d, e) /\ \A n : n # w.node => MapsOf(e, n) = MapsOf(d, n)
    BY <1>1, <1>2, <1>3, AttachContinues
  <1>6. \A n \in NodeIds(d) \ {w.node} : Content(e, n) = Content(d, n)
    BY <1>1, <1>5, SameContent, GraphParts
  <1> QED
    BY <1>4, <1>6 DEF e

-----------------------------------------------------------------------------
(* Several writers open at once, each with a file of its own *)

(* While writers are at work, the rows of their files N say nothing about the
   content, but the writers' counters do. *)
RowsMatchBut(d, N) == BlocksMatch(d) /\ \A n \in NodeIds(d) \ N : FileMatches(d, n)

WriterKnows(d, w) == w.hashed = Content(d, w.node) /\ w.size = Len(w.hashed)

(* File n of d is in e with its row, its mappings and its bytes. *)
FileKept(d, e, n) ==
  /\ n \in NodeIds(e) /\ e.nodes[n] = d.nodes[n]
  /\ MapsOf(e, n) = MapsOf(d, n) /\ Content(e, n) = Content(d, n)

(* A writer whose file is kept goes on as it was. *)
LEMMA OtherWriterKept ==
  ASSUME NEW d, NEW e, Sound(e), NEW w, WritesSoundly(d, w), WriterKnows(d, w),
         FileKept(d, e, w.node)
  PROVE  WritesSoundly(e, w) /\ WriterKnows(e, w)
  BY DEF WritesSoundly, WriterKnows, FileKept, CanFinalize, SequencesOf

LEMMA FileKeptMatches ==
  ASSUME NEW d, NEW e, NEW n, FileKept(d, e, n), FileMatches(d, n)
  PROVE  FileMatches(e, n)
  BY DEF FileKept, FileMatches

LEMMA StartKnows ==
  ASSUME NEW d, Sound(d), NEW N, RowsMatchBut(d, N), NEW mode, NEW p, NEW e, NEW w,
         Started(d, mode, p, e, w), w.node \notin N, e.nodes[w.node].type = "file"
  PROVE  /\ RowsMatchBut(e, N \cup {w.node})
         /\ WriterKnows(e, w)
         /\ \A n \in NodeIds(d) \ {w.node} : FileKept(d, e, n)
  <1>1. TypeSound(d) /\ GraphSound(d) /\ BlocksMatch(d)
    BY DEF Sound, RowsMatchBut
  <1>2. BlocksMatch(e)
    BY <1>1, BlocksStillMatch DEF Started
  <1>3. ASSUME NEW n \in NodeIds(d) \ {w.node} PROVE FileKept(d, e, n)
    <2>1. n \in NodeIds(e) /\ e.nodes[n] = d.nodes[n] /\ MapsOf(e, n) = MapsOf(d, n)
      BY DEF Started
    <2>2. BlocksKept(d, e) /\ MapsSound(d)
      BY <1>1, GraphParts DEF Started
    <2>3. Content(e, n) = Content(d, n)
      BY <1>1, <2>1, <2>2, SameContent
    <2> QED
      BY <2>1, <2>3 DEF FileKept
  <1>4. \A n \in NodeIds(e) \ (N \cup {w.node}) : FileMatches(e, n)
    <2>1. \A n \in NodeIds(e) \ {w.node} : n \in NodeIds(d)
      BY DEF Started
    <2> QED
      BY <1>3, <2>1, FileKeptMatches DEF RowsMatchBut
  <1>5. w.hashed = Content(e, w.node) /\ w.size = e.nodes[w.node].size
    BY DEF Started
  <1>6. e.nodes[w.node].size = Len(Content(e, w.node))
    <2>1. CASE w.node \in NodesAt(d, p) /\ e = d
      <3>1. FileMatches(d, w.node)
        BY <2>1 DEF RowsMatchBut, NodesAt
      <3> QED
        BY <2>1, <3>1 DEF FileMatches
    <2>2. CASE MapsOf(e, w.node) = {} /\ e.nodes[w.node].size = 0
      BY <2>2, NoMapsNoContent
    <2> QED
      BY <2>1, <2>2 DEF Started
  <1> QED
    BY <1>2, <1>3, <1>4, <1>5, <1>6 DEF RowsMatchBut, WriterKnows

LEMMA ChunkKnows ==
  ASSUME NEW d, NEW w, WritesSoundly(d, w), NEW N, RowsMatchBut(d, N), w.node \in N,
         WriterKnows(d, w), NEW chunk \in Seq(Bytes)
  PROVE  LET e == WriteChunkDb(d, w, chunk)
         IN  /\ RowsMatchBut(e, N)
             /\ WriterKnows(e, WriteChunk(w, chunk))
             /\ \A n \in NodeIds(d) \ {w.node} : FileKept(d, e, n)
  <1> DEFINE cs == Chunks(chunk, w.bsize)
             e == WriteChunkDb(d, w, chunk)
             v == WriteChunk(w, chunk)
  <1>1. TypeSound(d) /\ GraphSound(d) /\ w.node \in NodeIds(d) /\ w.bsize \in Nat \ {0}
    BY TablesAssumption DEF WritesSoundly, Sound, WriterSound, CanFinalize
  <1>2. cs \in Seq(Seq(Bytes))
    BY <1>1, ChunksType
  <1>3. /\ v.node = w.node /\ v.hashed = w.hashed \o chunk /\ v.size = w.size + Len(chunk)
    BY DEF WriteChunk, WritesSoundly, WriterSound
  <1>4. e = AttachBlocks(d, w.node, w.seq, cs)
    BY DEF WriteChunkDb
  <1>5. e.nodes = d.nodes /\ \A n : n # w.node => MapsOf(e, n) = MapsOf(d, n)
    BY <1>1, <1>2, <1>4, AttachContinues
  <1>6. BlocksMatch(e)
    <2> DEFINE first == d.blockSeq - 1
               new == {first + i : i \in 1..Len(cs)}
    <2>1. e.blocks = [b \in DOMAIN d.blocks \cup new |->
                        IF b \in new THEN NewBlock(cs[b - first]) ELSE d.blocks[b]]
      BY <1>1, <1>4 DEF AttachBlocks, TypeSound
    <2> HIDE DEF new, e, cs
    <2>2. ASSUME NEW b \in DOMAIN e.blocks
          PROVE  e.blocks[b].size = Len(e.blocks[b].data) /\ e.blocks[b].sum = Hash(e.blocks[b].data)
      <3>1. CASE b \in new
        <4>1. e.blocks[b] = NewBlock(cs[b - first])
          BY <2>1, <3>1
        <4> QED
          BY <4>1 DEF NewBlock
      <3>2. CASE b \notin new
        BY <2>1, <2>2, <3>2 DEF RowsMatchBut, BlocksMatch
      <3> QED
        BY <3>1, <3>2
    <2> QED
      BY <2>2 DEF BlocksMatch
  <1>7. /\ Content(e, w.node) = Content(d, w.node) \o chunk
        /\ \A n \in NodeIds(d) \ {w.node} : Content(e, n) = Content(d, n)
    BY ChunkContent
  <1> HIDE DEF e, v, cs
  <1>8. \A n \in NodeIds(d) \ {w.node} : FileKept(d, e, n)
    BY <1>5, <1>7 DEF FileKept, NodeIds
  <1>9. \A n \in NodeIds(e) \ N : FileMatches(e, n)
    <2>1. NodeIds(e) = NodeIds(d)
      BY <1>5 DEF NodeIds
    <2> QED
      BY <1>8, <2>1, FileKeptMatches DEF RowsMatchBut
  <1>10. Len(w.hashed \o chunk) = Len(w.hashed) + Len(chunk)
    <2>1. w.hashed \in Seq(Bytes)
      BY <1>1, ContentType, GraphParts DEF WriterKnows
    <2> QED
      BY <2>1
  <1>11. WriterKnows(e, v)
    BY <1>3, <1>7, <1>10 DEF WriterKnows
  <1> QED
    BY <1>6, <1>8, <1>9, <1>11 DEF RowsMatchBut, e, v

LEMMA FinalizeKnows ==
  ASSUME NEW d, TypeSound(d), NEW w, CanFinalize(d, w), NEW N, RowsMatchBut(d, N),
         WriterKnows(d, w)
  PROVE  LET e == FinalizeDb(d, w)
         IN  /\ RowsMatchBut(e, N \ {w.node})
             /\ \A n \in NodeIds(d) \ {w.node} : FileKept(d, e, n)
  <1> DEFINE e == FinalizeDb(d, w)
  <1>1. /\ w.node \in NodeIds(d) /\ NodeIds(e) = NodeIds(d)
        /\ e.maps = d.maps /\ e.blocks = d.blocks
        /\ \A n \in NodeIds(d) \ {w.node} : e.nodes[n] = d.nodes[n]
        /\ e.nodes[w.node].size = w.size /\ e.nodes[w.node].sum = Hash(w.hashed)
    BY FinalizeShape
  <1> HIDE DEF e
  <1>2. \A n : MapsOf(e, n) = MapsOf(d, n) /\ Content(e, n) = Content(d, n)
    BY <1>1 DEF Content, OrderedData, OrderedMaps, MapsOf
  <1>3. \A n \in NodeIds(d) \ {w.node} : FileKept(d, e, n)
    BY <1>1, <1>2 DEF FileKept
  <1>4. FileMatches(e, w.node)
    BY <1>1, <1>2 DEF WriterKnows, FileMatches
  <1>5. \A n \in NodeIds(e) \ (N \ {w.node}) : FileMatches(e, n)
    BY <1>1, <1>3, <1>4, FileKeptMatches DEF RowsMatchBut
  <1>6. BlocksMatch(e)
    BY <1>1 DEF RowsMatchBut, BlocksMatch
  <1> QED
    BY <1>3, <1>5, <1>6 DEF RowsMatchBut, e
=============================================================================
