---------------------------- MODULE RepairProofs ----------------------------
(***************************************************************************)
(* What fsspec_repair leaves, for every value of the constants of Repair   *)
(* and after any sequence of writes, damaged fields and earlier repairs.   *)
(*                                                                         *)
(* The invariant, Storable, is weaker than the invariants of the other     *)
(* components: of damaged rows it only keeps what the columns and their    *)
(* constraints enforce.  The mappings of a file are then in an order with  *)
(* gaps, which the first part numbers; next there is one lemma for each    *)
(* phase of a repair, and from them what the phases leave together.        *)
(***************************************************************************)
EXTENDS Repair, TableProofs

-----------------------------------------------------------------------------
(* Mappings in the order of their sequences, gaps or not *)

(* A finite set of mappings, no two of one sequence. *)
Ordered(M) ==
  /\ IsFiniteSet(M) /\ M \subseteq MapRow
  /\ \A m, k \in M : m.seq = k.seq => m = k

(* How many mappings of M come before m. *)
Rank(M, m) == Cardinality({k \in M : k.seq < m.seq})

(* Ranks count up from 0 in the order of the sequences. *)
LEMMA RankGrows ==
  ASSUME NEW M, Ordered(M), NEW m \in M
  PROVE  /\ Rank(M, m) \in 0..(Cardinality(M) - 1)
         /\ \A k \in M : m.seq < k.seq => Rank(M, m) < Rank(M, k)
  <1> DEFINE Before(k) == {h \in M : h.seq < k.seq}
  <1>1. IsFiniteSet(M) /\ Cardinality(M) \in Nat /\ \A k \in M : k.seq \in Nat
    BY FS_CardinalityType DEF Ordered, MapRow
  <1>2. ASSUME NEW S, S \subseteq M
        PROVE  IsFiniteSet(S) /\ Cardinality(S) \in Nat
    BY <1>1, <1>2, FS_Subset, FS_CardinalityType
  <1>3. ASSUME NEW S, NEW T, T \subseteq M, S \subseteq T, m \in T, m \notin S
        PROVE  Cardinality(S) < Cardinality(T)
    <2>1. IsFiniteSet(T) /\ Cardinality(T) \in Nat /\ Cardinality(S) \in Nat
      BY <1>2, <1>3
    <2>2. Cardinality(S) <= Cardinality(T) /\ Cardinality(S) # Cardinality(T)
      <3>1. S \in SUBSET T /\ S # T
        BY <1>3
      <3> QED
        BY <2>1, <3>1, FS_Subset
    <2> QED
      BY <2>1, <2>2
  <1>4. Before(m) \subseteq M /\ m \notin Before(m)
    BY <1>1
  <1>5. Rank(M, m) \in 0..(Cardinality(M) - 1)
    <2>1. Cardinality(Before(m)) < Cardinality(M) /\ Cardinality(Before(m)) \in Nat
      BY <1>2, <1>3, <1>4
    <2> QED
      BY <1>1, <2>1 DEF Rank
  <1>6. ASSUME NEW k \in M, m.seq < k.seq
        PROVE  Rank(M, m) < Rank(M, k)
    <2>1. Before(k) \subseteq M /\ Before(m) \subseteq Before(k) /\ m \in Before(k)
      BY <1>1, <1>6
    <2>2. Cardinality(Before(m)) < Cardinality(Before(k))
      BY <1>3, <1>4, <2>1
    <2> QED
      BY <2>2 DEF Rank
  <1> QED
    BY <1>5, <1>6

(* No two mappings have one rank, and every rank is somebody's. *)
LEMMA RankOnto ==
  ASSUME NEW M, Ordered(M)
  PROVE  /\ \A m, k \in M : Rank(M, m) = Rank(M, k) => m = k
         /\ \A i \in 0..(Cardinality(M) - 1) : \E m \in M : Rank(M, m) = i
  <1> DEFINE c == Cardinality(M)
             T == 0..(c - 1)
             f == [m \in M |-> Rank(M, m)]
  <1>1. IsFiniteSet(M) /\ c \in Nat /\ \A k \in M : k.seq \in Nat
    BY FS_CardinalityType DEF Ordered, MapRow
  <1>2. \A m, k \in M : Rank(M, m) = Rank(M, k) => m = k
    <2>1. ASSUME NEW m \in M, NEW k \in M, Rank(M, m) = Rank(M, k)
          PROVE  m = k
      <3>1. Rank(M, m) \in Nat /\ Rank(M, k) \in Nat
        BY <1>1, RankGrows
      <3>2. ~(m.seq < k.seq) /\ ~(k.seq < m.seq)
        BY <2>1, <3>1, RankGrows
      <3>3. m.seq = k.seq
        BY <1>1, <3>2
      <3> QED
        BY <3>3 DEF Ordered
    <2> QED
      BY <2>1
  <1>3. f \in Injection(M, T)
    <2>1. f \in [M -> T]
      BY RankGrows
    <2>2. \A m, k \in DOMAIN f : f[m] = f[k] => m = k
      BY <1>2
    <2> HIDE DEF f, T
    <2> QED
      BY <2>1, <2>2 DEF Injection, IsInjective
  <1>4. IsFiniteSet(T) /\ Cardinality(T) = c
    BY <1>1, FS_Interval
  <1>5. f \in Surjection(M, T)
    BY <1>3, <1>4, FS_Injection, Zenon
  <1>6. \A i \in T : \E m \in M : f[m] = i
    BY <1>5 DEF Surjection
  <1> QED
    BY <1>2, <1>6

(* Sequences without a gap are the ranks. *)
LEMMA RankContiguous ==
  ASSUME NEW M, Ordered(M), {m.seq : m \in M} = 0..(Cardinality(M) - 1)
  PROVE  \A m \in M : Rank(M, m) = m.seq
  <1> SUFFICES ASSUME NEW m \in M PROVE Rank(M, m) = m.seq
    OBVIOUS
  <1> DEFINE S == 0..(m.seq - 1)
             T == {k \in M : k.seq < m.seq}
             g == [s \in S |-> CHOOSE k \in M : k.seq = s]
  <1>1. m.seq \in Nat /\ (\A k \in M : k.seq \in Nat) /\ Cardinality(M) \in Nat
    BY FS_CardinalityType DEF Ordered, MapRow
  <1>2. \A s \in S : g[s] \in M /\ g[s].seq = s
    <2>1. ASSUME NEW s \in S PROVE \E k \in M : k.seq = s
      <3>1. m.seq \in {k.seq : k \in M}
        OBVIOUS
      <3>2. m.seq \in 0..(Cardinality(M) - 1)
        BY <3>1
      <3>3. s \in 0..(Cardinality(M) - 1)
        BY <1>1, <3>2
      <3> QED
        BY <3>3
    <2> QED
      BY <2>1
  <1>3. \A k \in T : k \in M /\ k.seq \in S
    BY <1>1
  <1>4. g \in [S -> T]
    BY <1>1, <1>2
  <1>5. g \in Bijection(S, T)
    <2>1. \A x, y \in S : g[x] = g[y] => x = y
      BY <1>2
    <2>2. \A k \in T : g[k.seq] = k
      BY <1>2, <1>3 DEF Ordered
    <2> HIDE DEF g
    <2> QED
      BY <1>3, <1>4, <2>1, <2>2 DEF Bijection, Injection, Surjection, IsInjective
  <1>6. IsFiniteSet(S) /\ Cardinality(S) = m.seq
    <2>1. \A n \in Nat : IsFiniteSet(0..(n - 1)) /\ Cardinality(0..(n - 1)) = n
      BY FS_Interval
    <2> QED
      BY <1>1, <2>1
  <1>7. Cardinality(T) = Cardinality(S)
    <2> HIDE DEF S, T, g
    <2> QED
      BY <1>5, <1>6, FS_Bijection DEF ExistsBijection
  <1> QED
    BY <1>6, <1>7 DEF Rank

(* OrderedMaps lists the mappings of a file by rank. *)
LEMMA OrderedMapsRanked ==
  ASSUME NEW d, NEW f, Ordered(MapsOf(d, f)), NEW i \in 1..Cardinality(MapsOf(d, f))
  PROVE  /\ OrderedMaps(d, f)[i] \in MapsOf(d, f)
         /\ Rank(MapsOf(d, f), OrderedMaps(d, f)[i]) = i - 1
         /\ \A m \in MapsOf(d, f) : Rank(MapsOf(d, f), m) = i - 1 => OrderedMaps(d, f)[i] = m
  <1> DEFINE M == MapsOf(d, f)
  <1>1. Cardinality(M) \in Nat /\ i - 1 \in 0..(Cardinality(M) - 1)
    BY FS_CardinalityType DEF Ordered
  <1>2. OrderedMaps(d, f)[i] = CHOOSE m \in M : Rank(M, m) = i - 1
    BY DEF OrderedMaps, Rank
  <1>3. \E m \in M : Rank(M, m) = i - 1
    BY <1>1, RankOnto
  <1> HIDE DEF M
  <1>4. OrderedMaps(d, f)[i] \in M /\ Rank(M, OrderedMaps(d, f)[i]) = i - 1
    BY <1>2, <1>3
  <1>5. \A m, k \in M : Rank(M, m) = Rank(M, k) => m = k
    BY RankOnto DEF M
  <1> QED
    BY <1>4, <1>5 DEF M

(* M with ranks for sequences. *)
Renumbered(M) == {[m EXCEPT !.seq = Rank(M, m)] : m \in M}

LEMMA RenumberedShape ==
  ASSUME NEW M, Ordered(M)
  PROVE  /\ Ordered(Renumbered(M))
         /\ Cardinality(Renumbered(M)) = Cardinality(M)
         /\ {m.seq : m \in Renumbered(M)} = 0..(Cardinality(M) - 1)
         /\ \A m \in M : LET k == [m EXCEPT !.seq = Rank(M, m)]
                         IN  k \in Renumbered(M) /\ k.seq = Rank(M, m)
                             /\ k.file = m.file /\ k.block = m.block
         /\ \A k \in Renumbered(M) : \E m \in M :
              k.seq = Rank(M, m) /\ k.file = m.file /\ k.block = m.block
  <1> DEFINE N == Renumbered(M)
             f == [m \in M |-> [m EXCEPT !.seq = Rank(M, m)]]
  <1>1. IsFiniteSet(M) /\ Cardinality(M) \in Nat /\ \A m \in M : m \in MapRow
    BY FS_CardinalityType DEF Ordered
  <1>2. \A m \in M : Rank(M, m) \in Nat
    BY <1>1, RankGrows
  <1>3. \A m \in M : /\ f[m] \in N /\ f[m] \in MapRow /\ f[m].seq = Rank(M, m)
                     /\ f[m].file = m.file /\ f[m].block = m.block
    BY <1>1, <1>2 DEF Renumbered, MapRow
  <1>4. \A k \in N : \E m \in M : k = f[m]
    BY DEF Renumbered
  <1> HIDE DEF f, N
  <1>5. /\ \A m, k \in M : Rank(M, m) = Rank(M, k) => m = k
        /\ \A i \in 0..(Cardinality(M) - 1) : \E m \in M : Rank(M, m) = i
        /\ \A m \in M : Rank(M, m) \in 0..(Cardinality(M) - 1)
    BY RankOnto, RankGrows
  <1>6. \A m, k \in M : f[m].seq = f[k].seq => m = k
    BY <1>3, <1>5
  <1>7. f \in Bijection(M, N)
    <2>1. f \in [M -> N] /\ DOMAIN f = M
      BY <1>3 DEF f
    <2> QED
      BY <1>4, <1>6, <2>1 DEF Bijection, Injection, Surjection, IsInjective
  <1>8. IsFiniteSet(N) /\ Cardinality(N) = Cardinality(M)
    BY <1>1, <1>7, FS_Bijection DEF ExistsBijection
  <1>9. Ordered(N)
    <2>1. N \subseteq MapRow
      BY <1>3, <1>4
    <2>2. \A m, k \in N : m.seq = k.seq => m = k
      BY <1>4, <1>6
    <2> QED
      BY <1>8, <2>1, <2>2 DEF Ordered
  <1>10. {m.seq : m \in N} = 0..(Cardinality(M) - 1)
    <2>1. \A k \in N : k.seq \in 0..(Cardinality(M) - 1)
      BY <1>3, <1>4, <1>5
    <2>2. \A i \in 0..(Cardinality(M) - 1) : \E k \in N : k.seq = i
      BY <1>3, <1>5
    <2> QED
      BY <2>1, <2>2
  <1>11. \A m \in M : LET k == [m EXCEPT !.seq = Rank(M, m)]
                     IN  k \in N /\ k.seq = Rank(M, m) /\ k.file = m.file /\ k.block = m.block
    BY <1>3 DEF f
  <1>12. \A k \in N : \E m \in M :
           k.seq = Rank(M, m) /\ k.file = m.file /\ k.block = m.block
    BY <1>3, <1>4
  <1> QED
    BY <1>8, <1>9, <1>10, <1>11, <1>12 DEF N

(* Without a gap, nothing is renumbered. *)
LEMMA RenumberedContiguous ==
  ASSUME NEW M, Ordered(M), {m.seq : m \in M} = 0..(Cardinality(M) - 1)
  PROVE  Renumbered(M) = M
  <1>1. \A m \in M : [m EXCEPT !.seq = Rank(M, m)] = m
    <2>1. ASSUME NEW m \in M PROVE [m EXCEPT !.seq = Rank(M, m)] = m
      <3>1. Rank(M, m) = m.seq
        BY RankContiguous
      <3>2. m \in MapRow
        BY DEF Ordered
      <3> QED
        BY <3>1, <3>2 DEF MapRow
    <2> QED
      BY <2>1
  <1> QED
    BY <1>1 DEF Renumbered

(* A file with the same mappings, or with renumbered ones, of blocks that hold
   the same data has the same content. *)
LEMMA ContentOfMaps ==
  ASSUME NEW d, NEW e, NEW f, Ordered(MapsOf(d, f)),
         \/ MapsOf(e, f) = MapsOf(d, f)
         \/ MapsOf(e, f) = Renumbered(MapsOf(d, f)),
         \A m \in MapsOf(d, f) : e.blocks[m.block].data = d.blocks[m.block].data
  PROVE  Content(e, f) = Content(d, f)
  <1> DEFINE M == MapsOf(d, f)
             N == MapsOf(e, f)
  <1>1. CASE N = M
    <2>1. OrderedMaps(e, f) = OrderedMaps(d, f)
      BY <1>1 DEF OrderedMaps
    <2>2. OrderedData(e, f) = OrderedData(d, f)
      <3>1. \A i \in 1..Cardinality(M) : OrderedMaps(d, f)[i] \in M
        BY OrderedMapsRanked
      <3> QED
        BY <1>1, <2>1, <3>1 DEF OrderedData
    <2> QED
      BY <2>2 DEF Content
  <1>2. CASE N = Renumbered(M)
    <2>1. /\ Ordered(N) /\ Cardinality(N) = Cardinality(M)
          /\ \A k \in N : Rank(N, k) = k.seq
          /\ \A k \in N : \E m \in M : k.seq = Rank(M, m) /\ k.block = m.block
      BY <1>2, RenumberedShape, RankContiguous
    <2>2. ASSUME NEW i \in 1..Cardinality(M)
          PROVE  /\ OrderedMaps(e, f)[i].block = OrderedMaps(d, f)[i].block
                 /\ OrderedMaps(d, f)[i] \in M
      <3>1. OrderedMaps(e, f)[i] \in N /\ Rank(N, OrderedMaps(e, f)[i]) = i - 1
        BY <2>1, OrderedMapsRanked
      <3>2. PICK m \in M : Rank(M, m) = i - 1 /\ OrderedMaps(e, f)[i].block = m.block
        BY <2>1, <3>1
      <3>3. OrderedMaps(d, f)[i] = m
        BY <3>2, OrderedMapsRanked
      <3> QED
        BY <3>2, <3>3
    <2>3. OrderedData(e, f) = OrderedData(d, f)
      BY <2>1, <2>2 DEF OrderedData
    <2> QED
      BY <2>3 DEF Content
  <1> QED
    BY <1>1, <1>2

-----------------------------------------------------------------------------
(* Rows as the columns and their constraints take them, damaged or not *)

NodeRows ==
  [path : Paths, type : {"file", "directory", "other"}, size : Nat, bsize : BlockSizes,
   sum : Seq(Seq(Bytes)), ver : Nat \ {0}, ns : Namespaces]

BlockRows == [data : Seq(Bytes), size : Nat, sum : Seq(Seq(Bytes)), free : BOOLEAN]

(* A mapping refers to rows that are there, and has a sequence of its own in its
   file; it may share its block with any other. *)
MapsStorable(d) ==
  /\ d.maps \subseteq MapRow /\ IsFiniteSet(d.maps)
  /\ \A m \in d.maps : m.file \in NodeIds(d) /\ m.block \in DOMAIN d.blocks
  /\ \A m, k \in d.maps : m.file = k.file /\ m.seq = k.seq => m = k

RowsStorable(d) ==
  /\ d = [nodes |-> d.nodes, blocks |-> d.blocks, maps |-> d.maps,
          nodeSeq |-> d.nodeSeq, blockSeq |-> d.blockSeq]
  /\ d.nodeSeq \in Nat \ {0} /\ d.blockSeq \in Nat \ {0}
  /\ d.nodes \in [NodeIds(d) -> NodeRows] /\ NodeIds(d) \subseteq 1..(d.nodeSeq - 1)
  /\ d.blocks \in [DOMAIN d.blocks -> BlockRows]
  /\ DOMAIN d.blocks \subseteq 1..(d.blockSeq - 1)

Storable(d) == RowsStorable(d) /\ MapsStorable(d)

LEMMA StorableMaps ==
  ASSUME NEW d, MapsStorable(d), NEW f
  PROVE  Ordered(MapsOf(d, f)) /\ \A m \in MapsOf(d, f) : m \in d.maps /\ m.file = f
  <1>1. MapsOf(d, f) \in SUBSET d.maps
    BY DEF MapsOf
  <1>2. IsFiniteSet(MapsOf(d, f))
    BY <1>1, FS_Subset DEF MapsStorable
  <1>3. MapsOf(d, f) \subseteq MapRow
    BY <1>1 DEF MapsStorable
  <1>4. \A m, k \in MapsOf(d, f) : m.seq = k.seq => m = k
    BY DEF MapsOf, MapsStorable
  <1> QED
    BY <1>2, <1>3, <1>4 DEF Ordered, MapsOf

(* A value with the rows and numbers of d but for the fields given. *)
LEMMA WithBlocks ==
  ASSUME NEW d, RowsStorable(d), NEW x
  PROVE  LET e == [d EXCEPT !.blocks = x]
         IN  /\ e = [nodes |-> d.nodes, blocks |-> x, maps |-> d.maps,
                     nodeSeq |-> d.nodeSeq, blockSeq |-> d.blockSeq]
             /\ e.nodes = d.nodes /\ e.blocks = x /\ e.maps = d.maps
             /\ e.nodeSeq = d.nodeSeq /\ e.blockSeq = d.blockSeq
  BY DEF RowsStorable

LEMMA WithNodes ==
  ASSUME NEW d, RowsStorable(d), NEW x
  PROVE  LET e == [d EXCEPT !.nodes = x]
         IN  /\ e = [nodes |-> x, blocks |-> d.blocks, maps |-> d.maps,
                     nodeSeq |-> d.nodeSeq, blockSeq |-> d.blockSeq]
             /\ e.nodes = x /\ e.blocks = d.blocks /\ e.maps = d.maps
             /\ e.nodeSeq = d.nodeSeq /\ e.blockSeq = d.blockSeq
  BY DEF RowsStorable

(* The same nodes and mappings over rows of the same blocks. *)
LEMMA StorableBlocks ==
  ASSUME NEW d, Storable(d), NEW B \in [DOMAIN d.blocks -> BlockRows]
  PROVE  LET e == [d EXCEPT !.blocks = B]
         IN  /\ Storable(e)
             /\ e.nodes = d.nodes /\ e.blocks = B /\ e.maps = d.maps
             /\ e.nodeSeq = d.nodeSeq /\ e.blockSeq = d.blockSeq
  <1> DEFINE e == [d EXCEPT !.blocks = B]
  <1>1. /\ e = [nodes |-> d.nodes, blocks |-> B, maps |-> d.maps,
                nodeSeq |-> d.nodeSeq, blockSeq |-> d.blockSeq]
        /\ e.nodes = d.nodes /\ e.blocks = B /\ e.maps = d.maps
        /\ e.nodeSeq = d.nodeSeq /\ e.blockSeq = d.blockSeq
    BY WithBlocks DEF Storable
  <1> HIDE DEF e
  <1>2. DOMAIN B = DOMAIN d.blocks
    OBVIOUS
  <1>3. RowsStorable(e)
    BY <1>1, <1>2 DEF Storable, RowsStorable, NodeIds
  <1>4. MapsStorable(e)
    BY <1>1, <1>2 DEF Storable, MapsStorable, NodeIds
  <1> QED
    BY <1>1, <1>3, <1>4 DEF e, Storable

(* The same blocks and mappings over rows of the same nodes. *)
LEMMA StorableNodes ==
  ASSUME NEW d, Storable(d), NEW N \in [NodeIds(d) -> NodeRows]
  PROVE  LET e == [d EXCEPT !.nodes = N]
         IN  /\ Storable(e)
             /\ e.nodes = N /\ e.blocks = d.blocks /\ e.maps = d.maps
             /\ e.nodeSeq = d.nodeSeq /\ e.blockSeq = d.blockSeq
  <1> DEFINE e == [d EXCEPT !.nodes = N]
  <1>1. /\ e = [nodes |-> N, blocks |-> d.blocks, maps |-> d.maps,
                nodeSeq |-> d.nodeSeq, blockSeq |-> d.blockSeq]
        /\ e.nodes = N /\ e.blocks = d.blocks /\ e.maps = d.maps
        /\ e.nodeSeq = d.nodeSeq /\ e.blockSeq = d.blockSeq
    BY WithNodes DEF Storable
  <1> HIDE DEF e
  <1>2. DOMAIN N = DOMAIN d.nodes
    BY DEF NodeIds
  <1>3. RowsStorable(e)
    BY <1>1, <1>2 DEF Storable, RowsStorable, NodeIds
  <1>4. MapsStorable(e)
    BY <1>1, <1>2 DEF Storable, MapsStorable, NodeIds
  <1> QED
    BY <1>1, <1>3, <1>4 DEF e, Storable

-----------------------------------------------------------------------------
(* The phases of a repair *)

(* _repair_free_referenced_blocks *)
LEMMA UseReferencedShape ==
  ASSUME NEW d, Storable(d), NEW scope
  PROVE  LET e == UseReferenced(d, scope)
         IN  /\ Storable(e)
             /\ e.nodes = d.nodes /\ e.maps = d.maps
             /\ e.nodeSeq = d.nodeSeq /\ e.blockSeq = d.blockSeq
             /\ DOMAIN e.blocks = DOMAIN d.blocks
             /\ \A b \in DOMAIN d.blocks :
                  /\ e.blocks[b].data = d.blocks[b].data
                  /\ e.blocks[b].size = d.blocks[b].size
                  /\ e.blocks[b].sum = d.blocks[b].sum
                  /\ e.blocks[b].free <=> d.blocks[b].free /\ b \notin MappedIn(d, scope)
             /\ (\A b \in MappedIn(d, scope) : ~d.blocks[b].free) => e = d
  <1> DEFINE B == [b \in DOMAIN d.blocks |->
                     IF b \in MappedIn(d, scope)
                     THEN [d.blocks[b] EXCEPT !.free = FALSE] ELSE d.blocks[b]]
             e == [d EXCEPT !.blocks = B]
  <1>1. d.blocks \in [DOMAIN d.blocks -> BlockRows]
    BY DEF Storable, RowsStorable
  <1>2. \A b \in DOMAIN d.blocks :
          /\ B[b] \in BlockRows
          /\ B[b].data = d.blocks[b].data /\ B[b].size = d.blocks[b].size
          /\ B[b].sum = d.blocks[b].sum
          /\ B[b].free <=> d.blocks[b].free /\ b \notin MappedIn(d, scope)
    BY <1>1 DEF BlockRows
  <1>3. B \in [DOMAIN d.blocks -> BlockRows]
    BY <1>2
  <1>4. ASSUME \A b \in MappedIn(d, scope) : ~d.blocks[b].free
        PROVE  B = d.blocks
    <2>1. ASSUME NEW b \in DOMAIN d.blocks PROVE B[b] = d.blocks[b]
      <3>1. CASE b \in MappedIn(d, scope)
        <4>1. d.blocks[b].free = FALSE /\ d.blocks[b] \in BlockRows
          BY <1>1, <1>4, <3>1 DEF BlockRows
        <4>2. [d.blocks[b] EXCEPT !.free = FALSE] = d.blocks[b]
          BY <4>1 DEF BlockRows
        <4> QED
          BY <3>1, <4>2
      <3>2. CASE b \notin MappedIn(d, scope)
        BY <3>2
      <3> QED
        BY <3>1, <3>2
    <2> QED
      BY <1>1, <2>1
  <1> HIDE DEF B
  <1>5. /\ Storable(e)
        /\ e.nodes = d.nodes /\ e.blocks = B /\ e.maps = d.maps
        /\ e.nodeSeq = d.nodeSeq /\ e.blockSeq = d.blockSeq
    BY <1>3, StorableBlocks
  <1>6. B = d.blocks => e = d
    BY WithBlocks DEF Storable, RowsStorable
  <1>7. UseReferenced(d, scope) = e
    BY DEF UseReferenced, B
  <1> HIDE DEF e
  <1> QED
    BY <1>2, <1>3, <1>4, <1>5, <1>6, <1>7

(* ReleaseFileBlocks on rows of any kind. *)
LEMMA ReleaseStorable ==
  ASSUME NEW d, Storable(d), NEW ids
  PROVE  LET e == ReleaseFileBlocks(d, ids)
         IN  /\ Storable(e)
             /\ e.nodes = d.nodes
             /\ e.nodeSeq = d.nodeSeq /\ e.blockSeq = d.blockSeq
             /\ e.maps = {m \in d.maps : m.file \notin ids}
             /\ DOMAIN e.blocks = DOMAIN d.blocks
             /\ \A b \in DOMAIN d.blocks :
                  /\ e.blocks[b].data = d.blocks[b].data
                  /\ e.blocks[b].size = d.blocks[b].size
                  /\ e.blocks[b].sum = d.blocks[b].sum
                  /\ d.blocks[b].free => e.blocks[b].free
                  /\ e.blocks[b].free => d.blocks[b].free \/ \A m \in e.maps : m.block # b
             /\ (\A m \in d.maps : m.file \notin ids) => e = d
  <1> DEFINE mine  == {m.block : m \in {k \in d.maps : k.file \in ids}}
             left  == {m \in d.maps : m.file \notin ids}
             owned == {m.block : m \in left}
             B == [b \in DOMAIN d.blocks |->
                     IF b \in mine \ owned THEN [d.blocks[b] EXCEPT !.free = TRUE]
                     ELSE d.blocks[b]]
             e == [d EXCEPT !.maps = left, !.blocks = B]
  <1>1. d.blocks \in [DOMAIN d.blocks -> BlockRows] /\ RowsStorable(d) /\ MapsStorable(d)
    BY DEF Storable, RowsStorable
  <1>2. \A b \in DOMAIN d.blocks :
          /\ B[b] \in BlockRows
          /\ B[b].data = d.blocks[b].data /\ B[b].size = d.blocks[b].size
          /\ B[b].sum = d.blocks[b].sum
          /\ d.blocks[b].free => B[b].free
          /\ B[b].free => d.blocks[b].free \/ b \notin owned
    BY <1>1 DEF BlockRows
  <1>3. B \in [DOMAIN d.blocks -> BlockRows] /\ DOMAIN B = DOMAIN d.blocks
    BY <1>2
  <1>4. \A b : b \notin owned => \A m \in left : m.block # b
    OBVIOUS
  <1>5. (\A m \in d.maps : m.file \notin ids) => left = d.maps /\ B = d.blocks
    <2> SUFFICES ASSUME \A m \in d.maps : m.file \notin ids
                 PROVE  left = d.maps /\ B = d.blocks
      OBVIOUS
    <2>1. mine = {} /\ left = d.maps
      OBVIOUS
    <2>2. \A b \in DOMAIN d.blocks : B[b] = d.blocks[b]
      BY <2>1
    <2> HIDE DEF B
    <2> QED
      BY <1>1, <1>3, <2>1, <2>2
  <1>6. left \subseteq d.maps /\ IsFiniteSet(left)
    <2>1. left \in SUBSET d.maps
      OBVIOUS
    <2> QED
      BY <1>1, <2>1, FS_Subset DEF MapsStorable
  <1> HIDE DEF B
  <1>7. ReleaseFileBlocks(d, ids) = e
    BY DEF ReleaseFileBlocks, B
  <1> HIDE DEF mine, left, owned
  <1>8. /\ e = [nodes |-> d.nodes, blocks |-> B, maps |-> left,
                nodeSeq |-> d.nodeSeq, blockSeq |-> d.blockSeq]
        /\ e.nodes = d.nodes /\ e.blocks = B /\ e.maps = left
        /\ e.nodeSeq = d.nodeSeq /\ e.blockSeq = d.blockSeq
    <2>1. /\ e.nodes = d.nodes /\ e.blocks = B /\ e.maps = left
          /\ e.nodeSeq = d.nodeSeq /\ e.blockSeq = d.blockSeq
      BY <1>1 DEF RowsStorable
    <2>2. e = [k \in DOMAIN e |-> e[k]] /\ DOMAIN e = DOMAIN d
      OBVIOUS
    <2>3. DOMAIN d = {"nodes", "blocks", "maps", "nodeSeq", "blockSeq"}
      BY <1>1 DEF RowsStorable
    <2> HIDE DEF e
    <2>4. e = [nodes |-> e.nodes, blocks |-> e.blocks, maps |-> e.maps,
               nodeSeq |-> e.nodeSeq, blockSeq |-> e.blockSeq]
      BY <2>2, <2>3
    <2> QED
      BY <2>1, <2>4
  <1>9. B = d.blocks /\ left = d.maps => e = d
    BY <1>1, <1>8 DEF RowsStorable
  <1> HIDE DEF e
  <1>10. RowsStorable(e)
    BY <1>1, <1>3, <1>8 DEF RowsStorable, NodeIds
  <1>11. MapsStorable(e)
    BY <1>1, <1>3, <1>6, <1>8 DEF MapsStorable, NodeIds
  <1>12. left = {m \in d.maps : m.file \notin ids}
    BY DEF left
  <1> QED
    BY <1>2, <1>3, <1>4, <1>5, <1>7, <1>8, <1>9, <1>10, <1>11, <1>12 DEF Storable

(* _repair_directories *)
LEMMA FixDirectoriesShape ==
  ASSUME NEW d, Storable(d), NEW scope
  PROVE  LET e    == FixDirectories(d, scope)
             dirs == TypedIn(d, scope, "directory")
         IN  /\ Storable(e)
             /\ NodeIds(e) = NodeIds(d)
             /\ e.nodeSeq = d.nodeSeq /\ e.blockSeq = d.blockSeq
             /\ e.maps = {m \in d.maps : m.file \notin dirs}
             /\ \A n \in NodeIds(d) :
                  /\ e.nodes[n].path = d.nodes[n].path /\ e.nodes[n].ns = d.nodes[n].ns
                  /\ e.nodes[n].type = d.nodes[n].type
                  /\ n \in dirs => e.nodes[n].size = 0 /\ e.nodes[n].sum = NoHash
                  /\ n \notin dirs => e.nodes[n] = d.nodes[n]
             /\ DOMAIN e.blocks = DOMAIN d.blocks
             /\ \A b \in DOMAIN d.blocks :
                  /\ e.blocks[b].data = d.blocks[b].data
                  /\ e.blocks[b].size = d.blocks[b].size
                  /\ e.blocks[b].sum = d.blocks[b].sum
                  /\ e.blocks[b].free => d.blocks[b].free \/ \A m \in e.maps : m.block # b
             /\ /\ \A n \in dirs : d.nodes[n].size = 0 /\ d.nodes[n].sum = NoHash
                /\ \A m \in d.maps : m.file \notin dirs
                => e = d
  <1> DEFINE dirs == TypedIn(d, scope, "directory")
             r == ReleaseFileBlocks(d, dirs)
             N == [n \in DOMAIN d.nodes |->
                     IF n \in dirs THEN [d.nodes[n] EXCEPT !.size = 0, !.sum = NoHash]
                     ELSE d.nodes[n]]
             e == [r EXCEPT !.nodes = N]
  <1>1. d.nodes \in [NodeIds(d) -> NodeRows] /\ DOMAIN d.nodes = NodeIds(d)
    BY DEF Storable, RowsStorable, NodeIds
  <1>2. NoHash \in Seq(Seq(Bytes))
    BY DEF NoHash
  <1> HIDE DEF dirs
  <1>3. \A n \in NodeIds(d) :
          /\ N[n] \in NodeRows
          /\ N[n].path = d.nodes[n].path /\ N[n].ns = d.nodes[n].ns
          /\ N[n].type = d.nodes[n].type
          /\ n \in dirs => N[n].size = 0 /\ N[n].sum = NoHash
          /\ n \notin dirs => N[n] = d.nodes[n]
    BY <1>1, <1>2 DEF NodeRows
  <1>4. N \in [NodeIds(d) -> NodeRows]
    BY <1>1, <1>3
  <1>5. (\A n \in dirs : d.nodes[n].size = 0 /\ d.nodes[n].sum = NoHash) => N = d.nodes
    <2> SUFFICES ASSUME \A n \in dirs : d.nodes[n].size = 0 /\ d.nodes[n].sum = NoHash
                 PROVE  \A n \in NodeIds(d) : N[n] = d.nodes[n]
      BY <1>1
    <2>1. ASSUME NEW n \in NodeIds(d), n \in dirs PROVE N[n] = d.nodes[n]
      <3>1. d.nodes[n] \in NodeRows /\ d.nodes[n].size = 0 /\ d.nodes[n].sum = NoHash
        BY <1>1, <2>1
      <3>2. [d.nodes[n] EXCEPT !.size = 0, !.sum = NoHash] = d.nodes[n]
        BY <3>1 DEF NodeRows
      <3> QED
        BY <1>1, <2>1, <3>2
    <2> QED
      BY <1>1, <2>1
  <1> HIDE DEF N
  <1>6. /\ Storable(r) /\ r.nodes = d.nodes
        /\ r.nodeSeq = d.nodeSeq /\ r.blockSeq = d.blockSeq
        /\ r.maps = {m \in d.maps : m.file \notin dirs}
        /\ DOMAIN r.blocks = DOMAIN d.blocks
        /\ \A b \in DOMAIN d.blocks :
             /\ r.blocks[b].data = d.blocks[b].data
             /\ r.blocks[b].size = d.blocks[b].size
             /\ r.blocks[b].sum = d.blocks[b].sum
             /\ r.blocks[b].free => d.blocks[b].free \/ \A m \in r.maps : m.block # b
        /\ (\A m \in d.maps : m.file \notin dirs) => r = d
    BY ReleaseStorable
  <1>7. FixDirectories(d, scope) = e
    <2>1. FixDirectories(d, scope) =
            [r EXCEPT !.nodes = [n \in DOMAIN r.nodes |->
               IF n \in dirs THEN [r.nodes[n] EXCEPT !.size = 0, !.sum = NoHash]
               ELSE r.nodes[n]]]
      BY DEF FixDirectories, dirs
    <2> HIDE DEF r
    <2> QED
      BY <1>6, <2>1 DEF N
  <1> HIDE DEF r
  <1>8. N \in [NodeIds(r) -> NodeRows]
    BY <1>4, <1>6 DEF NodeIds
  <1>9. /\ Storable(e)
        /\ e.nodes = N /\ e.blocks = r.blocks /\ e.maps = r.maps
        /\ e.nodeSeq = r.nodeSeq /\ e.blockSeq = r.blockSeq
    BY <1>6, <1>8, StorableNodes
  <1>10. N = d.nodes /\ r = d => e = d
    BY <1>6, <1>9, WithNodes DEF Storable, RowsStorable
  <1> HIDE DEF e
  <1>11. NodeIds(e) = NodeIds(d)
    BY <1>4, <1>9 DEF NodeIds
  <1> QED
    BY <1>3, <1>5, <1>6, <1>7, <1>9, <1>10, <1>11 DEF dirs

(* _repair_block_metadata *)
LEMMA FixBlocksShape ==
  ASSUME NEW d, Storable(d), NEW scope
  PROVE  LET e    == FixBlocks(d, scope)
             done == IF scope = "all" THEN {b \in DOMAIN d.blocks : ~d.blocks[b].free}
                     ELSE MappedIn(d, scope)
         IN  /\ Storable(e)
             /\ e.nodes = d.nodes /\ e.maps = d.maps
             /\ e.nodeSeq = d.nodeSeq /\ e.blockSeq = d.blockSeq
             /\ DOMAIN e.blocks = DOMAIN d.blocks
             /\ \A b \in DOMAIN d.blocks :
                  /\ e.blocks[b].data = d.blocks[b].data
                  /\ e.blocks[b].free = d.blocks[b].free
                  /\ b \in done => Describes(e.blocks[b], e.blocks[b].data)
             /\ (\A b \in done : Describes(d.blocks[b], d.blocks[b].data)) => e = d
  <1> DEFINE done == IF scope = "all" THEN {b \in DOMAIN d.blocks : ~d.blocks[b].free}
                     ELSE MappedIn(d, scope)
             B == [b \in DOMAIN d.blocks |->
                     IF b \in done
                     THEN [d.blocks[b] EXCEPT !.size = Len(d.blocks[b].data),
                                              !.sum = Hash(d.blocks[b].data)]
                     ELSE d.blocks[b]]
             e == [d EXCEPT !.blocks = B]
  <1>1. d.blocks \in [DOMAIN d.blocks -> BlockRows]
    BY DEF Storable, RowsStorable
  <1> HIDE DEF done
  <1>2. ASSUME NEW b \in DOMAIN d.blocks
        PROVE  /\ B[b] \in BlockRows
               /\ B[b].data = d.blocks[b].data /\ B[b].free = d.blocks[b].free
               /\ b \in done => Describes(B[b], B[b].data)
    <2>1. d.blocks[b] \in BlockRows /\ d.blocks[b].data \in Seq(Bytes)
      BY <1>1 DEF BlockRows
    <2>2. Len(d.blocks[b].data) \in Nat /\ Hash(d.blocks[b].data) \in Seq(Seq(Bytes))
      BY <2>1 DEF Hash
    <2> QED
      BY <2>1, <2>2 DEF BlockRows, Describes
  <1>3. B \in [DOMAIN d.blocks -> BlockRows] /\ DOMAIN B = DOMAIN d.blocks
    BY <1>2
  <1>4. (\A b \in done : Describes(d.blocks[b], d.blocks[b].data)) => B = d.blocks
    <2> SUFFICES ASSUME \A b \in done : Describes(d.blocks[b], d.blocks[b].data)
                 PROVE  \A b \in DOMAIN d.blocks : B[b] = d.blocks[b]
      BY <1>1
    <2>1. ASSUME NEW b \in DOMAIN d.blocks, b \in done PROVE B[b] = d.blocks[b]
      <3>1. /\ d.blocks[b] \in BlockRows
            /\ d.blocks[b].size = Len(d.blocks[b].data)
            /\ d.blocks[b].sum = Hash(d.blocks[b].data)
        BY <1>1, <2>1 DEF Describes
      <3>2. [d.blocks[b] EXCEPT !.size = Len(d.blocks[b].data),
                                !.sum = Hash(d.blocks[b].data)] = d.blocks[b]
        BY <3>1 DEF BlockRows
      <3> QED
        BY <2>1, <3>2
    <2> QED
      BY <2>1
  <1> HIDE DEF B
  <1>5. /\ Storable(e)
        /\ e.nodes = d.nodes /\ e.blocks = B /\ e.maps = d.maps
        /\ e.nodeSeq = d.nodeSeq /\ e.blockSeq = d.blockSeq
    BY <1>3, StorableBlocks
  <1>6. B = d.blocks => e = d
    BY WithBlocks DEF Storable, RowsStorable
  <1>7. FixBlocks(d, scope) = e
    BY DEF FixBlocks, B, done
  <1> HIDE DEF e
  <1> QED
    BY <1>2, <1>3, <1>4, <1>5, <1>6, <1>7 DEF done

(* _repair_unreferenced_used_blocks *)
LEMMA FreeUnreferencedShape ==
  ASSUME NEW d, Storable(d), NEW scope
  PROVE  LET e == FreeUnreferenced(d, scope)
         IN  /\ Storable(e)
             /\ e.nodes = d.nodes /\ e.maps = d.maps
             /\ e.nodeSeq = d.nodeSeq /\ e.blockSeq = d.blockSeq
             /\ DOMAIN e.blocks = DOMAIN d.blocks
             /\ \A b \in DOMAIN d.blocks :
                  /\ e.blocks[b].data = d.blocks[b].data
                  /\ e.blocks[b].size = d.blocks[b].size
                  /\ e.blocks[b].sum = d.blocks[b].sum
                  /\ d.blocks[b].free => e.blocks[b].free
                  /\ b \in MappedIn(d, "all") => e.blocks[b].free = d.blocks[b].free
                  /\ scope = "all" /\ b \notin MappedIn(d, "all") => e.blocks[b].free
             /\ /\ scope = "all"
                   => \A b \in DOMAIN d.blocks : d.blocks[b].free \/ b \in MappedIn(d, "all")
                => e = d
  <1>1. CASE scope # "all"
    <2>1. FreeUnreferenced(d, scope) = d
      BY <1>1 DEF FreeUnreferenced
    <2> QED
      BY <1>1, <2>1
  <1>2. CASE scope = "all"
    <2> DEFINE owned == MappedIn(d, "all")
               B == [b \in DOMAIN d.blocks |->
                       IF b \in owned THEN d.blocks[b] ELSE [d.blocks[b] EXCEPT !.free = TRUE]]
               e == [d EXCEPT !.blocks = B]
    <2>1. d.blocks \in [DOMAIN d.blocks -> BlockRows]
      BY DEF Storable, RowsStorable
    <2> HIDE DEF owned
    <2>2. \A b \in DOMAIN d.blocks :
            /\ B[b] \in BlockRows
            /\ B[b].data = d.blocks[b].data /\ B[b].size = d.blocks[b].size
            /\ B[b].sum = d.blocks[b].sum
            /\ d.blocks[b].free => B[b].free
            /\ b \in owned => B[b].free = d.blocks[b].free
            /\ b \notin owned => B[b].free
      BY <2>1 DEF BlockRows
    <2>3. B \in [DOMAIN d.blocks -> BlockRows] /\ DOMAIN B = DOMAIN d.blocks
      BY <2>2
    <2>4. (\A b \in DOMAIN d.blocks : d.blocks[b].free \/ b \in owned) => B = d.blocks
      <3> SUFFICES ASSUME \A b \in DOMAIN d.blocks : d.blocks[b].free \/ b \in owned
                   PROVE  \A b \in DOMAIN d.blocks : B[b] = d.blocks[b]
        BY <2>1
      <3>1. ASSUME NEW b \in DOMAIN d.blocks, b \notin owned PROVE B[b] = d.blocks[b]
        <4>1. d.blocks[b] \in BlockRows /\ d.blocks[b].free = TRUE
          BY <2>1, <3>1 DEF BlockRows
        <4>2. [d.blocks[b] EXCEPT !.free = TRUE] = d.blocks[b]
          BY <4>1 DEF BlockRows
        <4> QED
          BY <3>1, <4>2
      <3> QED
        BY <3>1
    <2> HIDE DEF B
    <2>5. /\ Storable(e)
          /\ e.nodes = d.nodes /\ e.blocks = B /\ e.maps = d.maps
          /\ e.nodeSeq = d.nodeSeq /\ e.blockSeq = d.blockSeq
      BY <2>3, StorableBlocks
    <2>6. B = d.blocks => e = d
      BY WithBlocks DEF Storable, RowsStorable
    <2>7. FreeUnreferenced(d, scope) = e
      BY <1>2 DEF FreeUnreferenced, B, owned
    <2> HIDE DEF e
    <2> QED
      BY <1>2, <2>2, <2>3, <2>4, <2>5, <2>6, <2>7 DEF owned
  <1> QED
    BY <1>1, <1>2

(* What a reader of any node joins together is a sequence of bytes. *)
LEMMA ContentStorable ==
  ASSUME NEW d, Storable(d), NEW f
  PROVE  /\ Content(d, f) \in Seq(Bytes)
         /\ Len(Content(d, f)) \in Nat
         /\ Hash(Content(d, f)) \in Seq(Seq(Bytes))
  <1>1. Ordered(MapsOf(d, f)) /\ \A m \in MapsOf(d, f) : m \in d.maps
    BY StorableMaps DEF Storable
  <1>2. Cardinality(MapsOf(d, f)) \in Nat
    BY <1>1, FS_CardinalityType DEF Ordered
  <1>3. ASSUME NEW i \in 1..Cardinality(MapsOf(d, f))
        PROVE  d.blocks[OrderedMaps(d, f)[i].block].data \in Seq(Bytes)
    <2>1. OrderedMaps(d, f)[i] \in d.maps
      BY <1>1, OrderedMapsRanked
    <2>2. OrderedMaps(d, f)[i].block \in DOMAIN d.blocks
      BY <2>1 DEF Storable, MapsStorable
    <2>3. d.blocks[OrderedMaps(d, f)[i].block] \in BlockRows
      BY <2>2 DEF Storable, RowsStorable
    <2> QED
      BY <2>3 DEF BlockRows
  <1>4. OrderedData(d, f) \in Seq(Seq(Bytes))
    BY <1>2, <1>3 DEF OrderedData
  <1>5. Content(d, f) \in Seq(Bytes)
    BY <1>4, FlattenType DEF Content
  <1> QED
    BY <1>5 DEF Hash

(* The mappings after _repair_file_nodes. *)
FixedMaps(d, files) ==
  {IF m.file \in files THEN [m EXCEPT !.seq = RankOf(d, m)] ELSE m : m \in d.maps}

LEMMA FixedMapsShape ==
  ASSUME NEW d, Storable(d), NEW files, NEW e, NEW G,
         G = FixedMaps(d, files), e.maps = G,
         NodeIds(e) = NodeIds(d), e.blocks = d.blocks
  PROVE  /\ MapsStorable(e)
         /\ \A f : f \in files => MapsOf(e, f) = Renumbered(MapsOf(d, f))
         /\ \A f : f \notin files => MapsOf(e, f) = MapsOf(d, f)
         /\ \A k \in e.maps : \E m \in d.maps : k.file = m.file /\ k.block = m.block
         /\ \A m \in d.maps : \E k \in e.maps : k.file = m.file /\ k.block = m.block
  <1> DEFINE To(m) == IF m.file \in files THEN [m EXCEPT !.seq = RankOf(d, m)] ELSE m
             h == [m \in d.maps |-> To(m)]
  <1>1. /\ d.maps \subseteq MapRow /\ IsFiniteSet(d.maps)
        /\ \A m \in d.maps : m.file \in NodeIds(d) /\ m.block \in DOMAIN d.blocks
    BY DEF Storable, MapsStorable
  <1>2. \A f : Ordered(MapsOf(d, f))
    BY StorableMaps DEF Storable
  <1>3. \A m \in d.maps : m \in MapsOf(d, m.file) /\ RankOf(d, m) = Rank(MapsOf(d, m.file), m)
    BY DEF RankOf, Rank, MapsOf
  <1>4. ASSUME NEW m \in d.maps PROVE RankOf(d, m) \in Nat
    <2>1. /\ Ordered(MapsOf(d, m.file)) /\ m \in MapsOf(d, m.file)
          /\ RankOf(d, m) = Rank(MapsOf(d, m.file), m)
      BY <1>2, <1>3
    <2>2. Rank(MapsOf(d, m.file), m) \in 0..(Cardinality(MapsOf(d, m.file)) - 1)
      BY <2>1, RankGrows
    <2> QED
      BY <2>1, <2>2
  <1>5. ASSUME NEW m \in d.maps
        PROVE  h[m] \in MapRow /\ h[m].file = m.file /\ h[m].block = m.block
    BY <1>1, <1>4 DEF MapRow
  <1>6. G = {h[m] : m \in d.maps}
    BY DEF FixedMaps
  <1>7. ASSUME NEW f, f \in files
        PROVE  MapsOf(e, f) = Renumbered(MapsOf(d, f))
    <2>1. \A m \in MapsOf(d, f) : h[m] = [m EXCEPT !.seq = Rank(MapsOf(d, f), m)]
      BY <1>3, <1>7 DEF MapsOf
    <2>2. MapsOf(e, f) = {h[m] : m \in MapsOf(d, f)}
      <3> HIDE DEF h
      <3> QED
        BY <1>5, <1>6 DEF MapsOf
    <2> HIDE DEF h
    <2>3. \A k \in Renumbered(MapsOf(d, f)) : \E m \in MapsOf(d, f) : k = h[m]
      BY <2>1 DEF Renumbered
    <2>4. \A m \in MapsOf(d, f) : h[m] \in Renumbered(MapsOf(d, f))
      BY <2>1 DEF Renumbered
    <2> QED
      BY <2>2, <2>3, <2>4
  <1>8. ASSUME NEW f, f \notin files
        PROVE  MapsOf(e, f) = MapsOf(d, f)
    <2>1. \A m \in MapsOf(d, f) : h[m] = m
      BY <1>8 DEF MapsOf
    <2> HIDE DEF h
    <2>2. MapsOf(e, f) = {h[m] : m \in MapsOf(d, f)}
      BY <1>5, <1>6 DEF MapsOf
    <2> QED
      BY <2>1, <2>2
  <1>9. h \in [d.maps -> G]
    BY <1>6
  <1> HIDE DEF h
  <1>10. IsFiniteSet(G)
    <2>1. h \in Surjection(d.maps, G)
      BY <1>6, <1>9 DEF Surjection
    <2> QED
      BY <1>1, <2>1, FS_Surjection
  <1>11. MapsStorable(e)
    <2>1. G \subseteq MapRow /\ \A k \in G : k.file \in NodeIds(e) /\ k.block \in DOMAIN e.blocks
      BY <1>1, <1>5, <1>6
    <2>2. ASSUME NEW m \in G, NEW k \in G, m.file = k.file, m.seq = k.seq PROVE m = k
      <3>1. m \in MapsOf(e, m.file) /\ k \in MapsOf(e, m.file)
        BY <2>2 DEF MapsOf
      <3>2. Ordered(MapsOf(e, m.file))
        BY <1>2, <1>7, <1>8, RenumberedShape
      <3> QED
        BY <2>2, <3>1, <3>2 DEF Ordered
    <2> QED
      BY <1>10, <2>1, <2>2 DEF MapsStorable
  <1> QED
    BY <1>5, <1>6, <1>7, <1>8, <1>11

(* A node whose sequences have no gap keeps its mappings. *)
LEMMA FixedMapsContiguous ==
  ASSUME NEW d, Storable(d), NEW files, \A f \in files : Contiguous(d, f)
  PROVE  FixedMaps(d, files) = d.maps
  <1>1. ASSUME NEW m \in d.maps, m.file \in files
        PROVE  [m EXCEPT !.seq = RankOf(d, m)] = m
    <2>1. Ordered(MapsOf(d, m.file)) /\ m \in MapsOf(d, m.file)
      BY StorableMaps DEF Storable, MapsOf
    <2>2. {k.seq : k \in MapsOf(d, m.file)} = 0..(Cardinality(MapsOf(d, m.file)) - 1)
      BY <1>1 DEF Contiguous, SequencesOf
    <2>3. Rank(MapsOf(d, m.file), m) = m.seq
      BY <2>1, <2>2, RankContiguous
    <2>4. RankOf(d, m) = m.seq /\ m \in MapRow
      BY <2>1, <2>3 DEF RankOf, Rank, Ordered
    <2> QED
      BY <2>4 DEF MapRow
  <1>2. \A m \in d.maps : (IF m.file \in files THEN [m EXCEPT !.seq = RankOf(d, m)] ELSE m) = m
    BY <1>1
  <1> QED
    BY <1>2 DEF FixedMaps

(* _repair_file_nodes *)
LEMMA FixFilesShape ==
  ASSUME NEW d, Storable(d), NEW scope
  PROVE  LET e     == FixFiles(d, scope)
             files == TypedIn(d, scope, "file")
         IN  /\ Storable(e)
             /\ NodeIds(e) = NodeIds(d) /\ e.blocks = d.blocks
             /\ e.nodeSeq = d.nodeSeq /\ e.blockSeq = d.blockSeq
             /\ \A f : f \in files => MapsOf(e, f) = Renumbered(MapsOf(d, f))
             /\ \A f : f \notin files => MapsOf(e, f) = MapsOf(d, f)
             /\ \A k \in e.maps : \E m \in d.maps : k.file = m.file /\ k.block = m.block
             /\ \A m \in d.maps : \E k \in e.maps : k.file = m.file /\ k.block = m.block
             /\ \A n \in NodeIds(d) :
                  /\ e.nodes[n].path = d.nodes[n].path /\ e.nodes[n].ns = d.nodes[n].ns
                  /\ e.nodes[n].type = d.nodes[n].type
                  /\ n \in files /\ StaleRow(d, n) =>
                       /\ Describes(e.nodes[n], Content(d, n))
                       /\ e.nodes[n].ver = d.nodes[n].ver + 1
                  /\ ~(n \in files /\ StaleRow(d, n)) => e.nodes[n] = d.nodes[n]
             /\ (\A f \in files : ~StaleRow(d, f)) => e = d
  <1> DEFINE files == TypedIn(d, scope, "file")
             stale(n) == n \in files /\ StaleRow(d, n)
             G == FixedMaps(d, files)
             N == [n \in DOMAIN d.nodes |->
                     IF stale(n)
                     THEN [d.nodes[n] EXCEPT !.size = Len(Content(d, n)),
                                             !.sum = Hash(Content(d, n)),
                                             !.ver = d.nodes[n].ver + 1]
                     ELSE d.nodes[n]]
             e == [d EXCEPT !.maps = G, !.nodes = N]
  <1>1. d.nodes \in [NodeIds(d) -> NodeRows] /\ DOMAIN d.nodes = NodeIds(d) /\ RowsStorable(d)
    BY DEF Storable, RowsStorable, NodeIds
  <1>2. \A n : Len(Content(d, n)) \in Nat /\ Hash(Content(d, n)) \in Seq(Seq(Bytes))
    BY ContentStorable
  <1>3. e = FixFiles(d, scope)
    BY DEF FixFiles, FixedMaps
  <1> HIDE DEF files
  <1>4. \A n \in NodeIds(d) :
          /\ N[n] \in NodeRows
          /\ N[n].path = d.nodes[n].path /\ N[n].ns = d.nodes[n].ns
          /\ N[n].type = d.nodes[n].type
          /\ stale(n) => /\ N[n].size = Len(Content(d, n)) /\ N[n].sum = Hash(Content(d, n))
                         /\ N[n].ver = d.nodes[n].ver + 1
          /\ ~stale(n) => N[n] = d.nodes[n]
    <2>1. \A n \in NodeIds(d) : d.nodes[n] \in NodeRows
      BY <1>1
    <2> HIDE DEF stale
    <2>2. \A n \in NodeIds(d) :
            /\ stale(n) => N[n] = [d.nodes[n] EXCEPT !.size = Len(Content(d, n)),
                                                    !.sum = Hash(Content(d, n)),
                                                    !.ver = d.nodes[n].ver + 1]
            /\ ~stale(n) => N[n] = d.nodes[n]
      BY <1>1
    <2> HIDE DEF N
    <2>3. ASSUME NEW n \in NodeIds(d), stale(n)
          PROVE  /\ N[n] \in NodeRows
                 /\ N[n].path = d.nodes[n].path /\ N[n].ns = d.nodes[n].ns
                 /\ N[n].type = d.nodes[n].type
                 /\ N[n].size = Len(Content(d, n)) /\ N[n].sum = Hash(Content(d, n))
                 /\ N[n].ver = d.nodes[n].ver + 1
      <3> DEFINE row == d.nodes[n]
                 l == Len(Content(d, n))
                 h == Hash(Content(d, n))
      <3>1. /\ row \in NodeRows /\ l \in Nat /\ h \in Seq(Seq(Bytes))
            /\ N[n] = [row EXCEPT !.size = l, !.sum = h, !.ver = row.ver + 1]
        BY <1>2, <2>1, <2>2, <2>3
      <3> HIDE DEF row, l, h
      <3>2. row.ver + 1 \in Nat \ {0}
        BY <3>1 DEF NodeRows
      <3>3. /\ N[n] \in NodeRows
            /\ N[n].path = row.path /\ N[n].ns = row.ns /\ N[n].type = row.type
            /\ N[n].size = l /\ N[n].sum = h /\ N[n].ver = row.ver + 1
        BY <3>1, <3>2 DEF NodeRows
      <3> QED
        BY <3>3 DEF row, l, h
    <2> QED
      BY <2>1, <2>2, <2>3
  <1>5. N \in [NodeIds(d) -> NodeRows] /\ DOMAIN N = NodeIds(d)
    BY <1>1, <1>4
  <1>6. (\A f \in files : ~StaleRow(d, f)) => N = d.nodes
    BY <1>1
  <1> HIDE DEF N
  <1>7. (\A f \in files : ~StaleRow(d, f)) => G = d.maps
    BY FixedMapsContiguous DEF StaleRow
  <1> HIDE DEF G
  <1>8. /\ e.nodes = N /\ e.blocks = d.blocks /\ e.maps = G
        /\ e.nodeSeq = d.nodeSeq /\ e.blockSeq = d.blockSeq
    BY <1>1 DEF RowsStorable
  <1>9. e = [nodes |-> e.nodes, blocks |-> e.blocks, maps |-> e.maps,
             nodeSeq |-> e.nodeSeq, blockSeq |-> e.blockSeq]
    <2>1. e = [k \in DOMAIN e |-> e[k]] /\ DOMAIN e = DOMAIN d
      OBVIOUS
    <2>2. DOMAIN d = {"nodes", "blocks", "maps", "nodeSeq", "blockSeq"}
      BY <1>1 DEF RowsStorable
    <2> HIDE DEF e
    <2> QED
      BY <2>1, <2>2
  <1> HIDE DEF e
  <1>10. N = d.nodes /\ G = d.maps => e = d
    BY <1>1, <1>8, <1>9 DEF RowsStorable
  <1>11. NodeIds(e) = NodeIds(d)
    BY <1>5, <1>8 DEF NodeIds
  <1>12. RowsStorable(e)
    BY <1>1, <1>5, <1>8, <1>9, <1>11 DEF RowsStorable, NodeIds
  <1>13. /\ MapsStorable(e)
         /\ \A f : f \in files => MapsOf(e, f) = Renumbered(MapsOf(d, f))
         /\ \A f : f \notin files => MapsOf(e, f) = MapsOf(d, f)
         /\ \A k \in e.maps : \E m \in d.maps : k.file = m.file /\ k.block = m.block
         /\ \A m \in d.maps : \E k \in e.maps : k.file = m.file /\ k.block = m.block
    BY <1>8, <1>11, FixedMapsShape DEF G
  <1>14. \A n \in NodeIds(d) : stale(n) => Describes(e.nodes[n], Content(d, n))
    BY <1>4, <1>8 DEF Describes
  <1> QED
    BY <1>3, <1>4, <1>6, <1>7, <1>8, <1>10, <1>11, <1>12, <1>13, <1>14 DEF files, Storable

(* The scopes depend on no more than this. *)
SameNodes(d, e) ==
  /\ NodeIds(e) = NodeIds(d)
  /\ \A n \in NodeIds(d) : /\ e.nodes[n].ns = d.nodes[n].ns
                           /\ e.nodes[n].type = d.nodes[n].type

LEMMA SameScopes ==
  ASSUME NEW d, NEW e, SameNodes(d, e), NEW scope
  PROVE  /\ NodesIn(e, scope) = NodesIn(d, scope)
         /\ \A t : TypedIn(e, scope, t) = TypedIn(d, scope, t)
  <1>1. NodesIn(e, scope) = NodesIn(d, scope)
    BY DEF SameNodes, NodesIn
  <1>2. \A t : TypedIn(e, scope, t) = TypedIn(d, scope, t)
    BY <1>1 DEF SameNodes, TypedIn, NodesIn
  <1> QED
    BY <1>1, <1>2

LEMMA ScopeParts ==
  ASSUME NEW d, NEW scope
  PROVE  /\ NodesIn(d, scope) \subseteq NodeIds(d)
         /\ NodesIn(d, "all") = NodeIds(d)
         /\ \A t : TypedIn(d, scope, t) \subseteq NodesIn(d, scope)
         /\ \A n \in NodesIn(d, scope) : \A t : n \in TypedIn(d, scope, t) <=> d.nodes[n].type = t
         /\ TypedIn(d, scope, "file") \cap TypedIn(d, scope, "directory") = {}
         /\ \A b : b \in MappedIn(d, scope)
                     <=> \E m \in d.maps : m.file \in NodesIn(d, scope) /\ m.block = b
  BY DEF NodesIn, TypedIn, MappedIn, MapsIn

(* The rows of the nodes and the mappings that a repair of scope leaves. *)
NodesRepaired(d, e, scope) ==
  LET files == TypedIn(d, scope, "file")
      dirs  == TypedIn(d, scope, "directory")
  IN  /\ \A n \in NodeIds(d) : e.nodes[n].path = d.nodes[n].path
      /\ \A n \in dirs :
           MapsOf(e, n) = {} /\ e.nodes[n].size = 0 /\ e.nodes[n].sum = NoHash
      /\ \A f \in files :
           /\ MapsOf(e, f) = Renumbered(MapsOf(d, f))
           /\ StaleRow(d, f) => /\ Describes(e.nodes[f], Content(d, f))
                                /\ e.nodes[f].ver = d.nodes[f].ver + 1
           /\ ~StaleRow(d, f) => e.nodes[f] = d.nodes[f]
      /\ \A n \in NodeIds(d) \ (files \cup dirs) :
           e.nodes[n] = d.nodes[n] /\ MapsOf(e, n) = MapsOf(d, n)
      /\ \A k \in e.maps : \E m \in d.maps : k.file = m.file /\ k.block = m.block

(* The blocks that it leaves. *)
BlocksRepaired(d, e, scope) ==
  /\ DOMAIN e.blocks = DOMAIN d.blocks
  /\ \A b \in DOMAIN d.blocks : e.blocks[b].data = d.blocks[b].data
  /\ \A m \in e.maps : ~d.blocks[m.block].free => ~e.blocks[m.block].free
  /\ \A b \in MappedIn(e, scope) :
       ~e.blocks[b].free /\ Describes(e.blocks[b], e.blocks[b].data)
  /\ scope = "all" => \A b \in DOMAIN e.blocks : e.blocks[b].free \/ b \in MappedIn(e, "all")

(* The second phase; the first one touches neither nodes nor mappings. *)
LEMMA DirectoriesRepaired ==
  ASSUME NEW d, Storable(d), NEW scope,
         NEW d1, d1 = UseReferenced(d, scope), NEW d2, d2 = FixDirectories(d1, scope)
  PROVE  /\ Storable(d1) /\ Storable(d2) /\ SameNodes(d, d2)
         /\ d2.maps = {m \in d.maps : m.file \notin TypedIn(d, scope, "directory")}
         /\ \A n \in NodeIds(d) : d2.nodes[n].path = d.nodes[n].path
         /\ \A n \in TypedIn(d, scope, "directory") :
              MapsOf(d2, n) = {} /\ d2.nodes[n].size = 0 /\ d2.nodes[n].sum = NoHash
         /\ \A n \in NodeIds(d) \ TypedIn(d, scope, "directory") :
              /\ d2.nodes[n] = d.nodes[n] /\ MapsOf(d2, n) = MapsOf(d, n)
              /\ Content(d2, n) = Content(d, n)
              /\ StaleRow(d2, n) <=> StaleRow(d, n)
         /\ DOMAIN d2.blocks = DOMAIN d.blocks
         /\ \A b \in DOMAIN d.blocks : d2.blocks[b].data = d.blocks[b].data
         /\ \A m \in d2.maps :
              ~d.blocks[m.block].free \/ m.file \in NodesIn(d, scope) => ~d2.blocks[m.block].free
  <1> DEFINE dirs == TypedIn(d, scope, "directory")
  <1>1. /\ Storable(d1) /\ d1.nodes = d.nodes /\ d1.maps = d.maps
        /\ DOMAIN d1.blocks = DOMAIN d.blocks
        /\ \A b \in DOMAIN d.blocks :
             /\ d1.blocks[b].data = d.blocks[b].data
             /\ d1.blocks[b].free <=> d.blocks[b].free /\ b \notin MappedIn(d, scope)
    BY UseReferencedShape
  <1>2. NodeIds(d1) = NodeIds(d) /\ TypedIn(d1, scope, "directory") = dirs
    <2>1. SameNodes(d, d1)
      BY <1>1 DEF SameNodes, NodeIds
    <2> QED
      BY <2>1, SameScopes DEF SameNodes
  <1> HIDE DEF dirs
  <1>3. /\ Storable(d2) /\ NodeIds(d2) = NodeIds(d)
        /\ d2.maps = {m \in d.maps : m.file \notin dirs}
        /\ \A n \in NodeIds(d) :
             /\ d2.nodes[n].path = d.nodes[n].path /\ d2.nodes[n].ns = d.nodes[n].ns
             /\ d2.nodes[n].type = d.nodes[n].type
             /\ n \in dirs => d2.nodes[n].size = 0 /\ d2.nodes[n].sum = NoHash
             /\ n \notin dirs => d2.nodes[n] = d.nodes[n]
        /\ DOMAIN d2.blocks = DOMAIN d.blocks
        /\ \A b \in DOMAIN d.blocks :
             /\ d2.blocks[b].data = d.blocks[b].data
             /\ d2.blocks[b].free => d1.blocks[b].free \/ \A m \in d2.maps : m.block # b
    <2>1. LET e == d2
          IN  /\ Storable(e) /\ NodeIds(e) = NodeIds(d1)
              /\ e.maps = {m \in d1.maps : m.file \notin dirs}
              /\ \A n \in NodeIds(d1) :
                   /\ e.nodes[n].path = d1.nodes[n].path /\ e.nodes[n].ns = d1.nodes[n].ns
                   /\ e.nodes[n].type = d1.nodes[n].type
                   /\ n \in dirs => e.nodes[n].size = 0 /\ e.nodes[n].sum = NoHash
                   /\ n \notin dirs => e.nodes[n] = d1.nodes[n]
              /\ DOMAIN e.blocks = DOMAIN d1.blocks
              /\ \A b \in DOMAIN d1.blocks :
                   /\ e.blocks[b].data = d1.blocks[b].data
                   /\ e.blocks[b].free => d1.blocks[b].free \/ \A m \in e.maps : m.block # b
      BY <1>1, <1>2, FixDirectoriesShape
    <2> QED
      BY <1>1, <1>2, <2>1
  <1>4. SameNodes(d, d2)
    BY <1>3 DEF SameNodes
  <1>5. ASSUME NEW n \in dirs PROVE MapsOf(d2, n) = {}
    BY <1>3, <1>5 DEF MapsOf
  <1>6. dirs \subseteq NodeIds(d)
    BY ScopeParts DEF dirs
  <1>7. ASSUME NEW n \in NodeIds(d) \ dirs
        PROVE  /\ d2.nodes[n] = d.nodes[n] /\ MapsOf(d2, n) = MapsOf(d, n)
               /\ Content(d2, n) = Content(d, n)
               /\ StaleRow(d2, n) <=> StaleRow(d, n)
    <2>1. d2.nodes[n] = d.nodes[n] /\ MapsOf(d2, n) = MapsOf(d, n)
      BY <1>3, <1>7 DEF MapsOf
    <2>2. Ordered(MapsOf(d, n)) /\ \A m \in MapsOf(d, n) : m \in d.maps
      BY StorableMaps DEF Storable
    <2>3. \A m \in d.maps : m.block \in DOMAIN d.blocks
      BY DEF Storable, MapsStorable
    <2>4. \A m \in MapsOf(d, n) : d2.blocks[m.block].data = d.blocks[m.block].data
      BY <1>3, <2>2, <2>3
    <2>5. Content(d2, n) = Content(d, n)
      BY <2>1, <2>2, <2>4, ContentOfMaps
    <2> QED
      BY <2>1, <2>5 DEF StaleRow, Contiguous, SequencesOf
  <1>8. ASSUME NEW m \in d2.maps,
               ~d.blocks[m.block].free \/ m.file \in NodesIn(d, scope)
        PROVE  ~d2.blocks[m.block].free
    <2>1. m \in d.maps /\ m.block \in DOMAIN d.blocks
      BY <1>3 DEF Storable, MapsStorable
    <2>2. m.file \in NodesIn(d, scope) => m.block \in MappedIn(d, scope)
      BY <2>1, ScopeParts
    <2>3. ~d1.blocks[m.block].free
      BY <1>1, <1>8, <2>1, <2>2
    <2> QED
      BY <1>3, <2>1, <2>3
  <1> QED
    BY <1>1, <1>3, <1>4, <1>5, <1>6, <1>7, <1>8 DEF dirs

(* All phases together. *)
LEMMA RepairedShape ==
  ASSUME NEW d, Storable(d), NEW scope, NEW e, e = Repaired(d, scope)
  PROVE  /\ Storable(e) /\ SameNodes(d, e)
         /\ NodesRepaired(d, e, scope)
         /\ BlocksRepaired(d, e, scope)
  <1>1. PICK d1 : d1 = UseReferenced(d, scope)
    OBVIOUS
  <1>2. PICK d2 : d2 = FixDirectories(d1, scope)
    OBVIOUS
  <1>3. PICK d3 : d3 = FixFiles(d2, scope)
    OBVIOUS
  <1>4. PICK d4 : d4 = FixBlocks(d3, scope)
    OBVIOUS
  <1>5. e = FreeUnreferenced(d4, scope)
    BY <1>1, <1>2, <1>3, <1>4 DEF Repaired
  <1> DEFINE files == TypedIn(d, scope, "file")
             dirs  == TypedIn(d, scope, "directory")
  <1>6. /\ Storable(d1) /\ Storable(d2) /\ SameNodes(d, d2)
        /\ d2.maps = {m \in d.maps : m.file \notin dirs}
        /\ \A n \in NodeIds(d) : d2.nodes[n].path = d.nodes[n].path
        /\ \A n \in dirs :
             MapsOf(d2, n) = {} /\ d2.nodes[n].size = 0 /\ d2.nodes[n].sum = NoHash
        /\ \A n \in NodeIds(d) \ dirs :
             /\ d2.nodes[n] = d.nodes[n] /\ MapsOf(d2, n) = MapsOf(d, n)
             /\ Content(d2, n) = Content(d, n)
             /\ StaleRow(d2, n) <=> StaleRow(d, n)
        /\ DOMAIN d2.blocks = DOMAIN d.blocks
        /\ \A b \in DOMAIN d.blocks : d2.blocks[b].data = d.blocks[b].data
        /\ \A m \in d2.maps :
             ~d.blocks[m.block].free \/ m.file \in NodesIn(d, scope) => ~d2.blocks[m.block].free
    BY <1>1, <1>2, DirectoriesRepaired
  <1>7. TypedIn(d2, scope, "file") = files
    BY <1>6, SameScopes
  <1>8. /\ files \subseteq NodeIds(d) /\ dirs \subseteq NodeIds(d) /\ files \cap dirs = {}
        /\ files \subseteq NodesIn(d, scope)
    BY ScopeParts
  <1> HIDE DEF files, dirs
  <1>9. /\ Storable(d3) /\ NodeIds(d3) = NodeIds(d2) /\ d3.blocks = d2.blocks
        /\ \A f : f \in files => MapsOf(d3, f) = Renumbered(MapsOf(d2, f))
        /\ \A f : f \notin files => MapsOf(d3, f) = MapsOf(d2, f)
        /\ \A k \in d3.maps : \E m \in d2.maps : k.file = m.file /\ k.block = m.block
        /\ \A n \in NodeIds(d2) :
             /\ d3.nodes[n].path = d2.nodes[n].path /\ d3.nodes[n].ns = d2.nodes[n].ns
             /\ d3.nodes[n].type = d2.nodes[n].type
             /\ n \in files /\ StaleRow(d2, n) =>
                  /\ Describes(d3.nodes[n], Content(d2, n))
                  /\ d3.nodes[n].ver = d2.nodes[n].ver + 1
             /\ ~(n \in files /\ StaleRow(d2, n)) => d3.nodes[n] = d2.nodes[n]
    BY <1>3, <1>6, <1>7, FixFilesShape
  <1>10. /\ Storable(d4) /\ d4.nodes = d3.nodes /\ d4.maps = d3.maps
         /\ DOMAIN d4.blocks = DOMAIN d3.blocks
         /\ \A b \in DOMAIN d3.blocks :
              /\ d4.blocks[b].data = d3.blocks[b].data
              /\ d4.blocks[b].free = d3.blocks[b].free
              /\ (IF scope = "all" THEN ~d3.blocks[b].free ELSE b \in MappedIn(d3, scope))
                 => Describes(d4.blocks[b], d4.blocks[b].data)
    BY <1>4, <1>9, FixBlocksShape
  <1>11. /\ Storable(e) /\ e.nodes = d4.nodes /\ e.maps = d4.maps
         /\ DOMAIN e.blocks = DOMAIN d4.blocks
         /\ \A b \in DOMAIN d4.blocks :
              /\ e.blocks[b].data = d4.blocks[b].data
              /\ e.blocks[b].size = d4.blocks[b].size
              /\ e.blocks[b].sum = d4.blocks[b].sum
              /\ b \in MappedIn(d4, "all") => e.blocks[b].free = d4.blocks[b].free
              /\ scope = "all" /\ b \notin MappedIn(d4, "all") => e.blocks[b].free
    BY <1>5, <1>10, FreeUnreferencedShape
  <1>12. e.nodes = d3.nodes /\ e.maps = d3.maps /\ NodeIds(e) = NodeIds(d)
         /\ \A n : MapsOf(e, n) = MapsOf(d3, n)
    BY <1>6, <1>9, <1>10, <1>11 DEF SameNodes, NodeIds, MapsOf
  <1>13. SameNodes(d, e)
    BY <1>6, <1>9, <1>12 DEF SameNodes
  <1>14. NodesRepaired(d, e, scope)
    <2>1. \A n \in NodeIds(d) : e.nodes[n].path = d.nodes[n].path
      BY <1>6, <1>9, <1>12 DEF SameNodes
    <2>2. ASSUME NEW n \in dirs
          PROVE  MapsOf(e, n) = {} /\ e.nodes[n].size = 0 /\ e.nodes[n].sum = NoHash
      <3>1. n \in NodeIds(d2) /\ n \notin files
        BY <1>6, <1>8 DEF SameNodes
      <3> QED
        BY <1>6, <1>9, <1>12, <3>1
    <2>3. ASSUME NEW f \in files
          PROVE  /\ MapsOf(e, f) = Renumbered(MapsOf(d, f))
                 /\ StaleRow(d, f) => /\ Describes(e.nodes[f], Content(d, f))
                                      /\ e.nodes[f].ver = d.nodes[f].ver + 1
                 /\ ~StaleRow(d, f) => e.nodes[f] = d.nodes[f]
      <3>1. f \in NodeIds(d2) /\ f \in NodeIds(d) \ dirs
        BY <1>6, <1>8 DEF SameNodes
      <3>2. /\ d2.nodes[f] = d.nodes[f] /\ MapsOf(d2, f) = MapsOf(d, f)
            /\ Content(d2, f) = Content(d, f)
            /\ StaleRow(d2, f) <=> StaleRow(d, f)
        BY <1>6, <3>1
      <3> QED
        BY <1>9, <1>12, <3>1, <3>2
    <2>4. ASSUME NEW n \in NodeIds(d) \ (files \cup dirs)
          PROVE  e.nodes[n] = d.nodes[n] /\ MapsOf(e, n) = MapsOf(d, n)
      <3>1. n \in NodeIds(d2) /\ n \in NodeIds(d) \ dirs /\ n \notin files
        BY <1>6 DEF SameNodes
      <3> QED
        BY <1>6, <1>9, <1>12, <3>1
    <2>5. \A k \in e.maps : \E m \in d.maps : k.file = m.file /\ k.block = m.block
      BY <1>6, <1>9, <1>12
    <2> QED
      BY <2>1, <2>2, <2>3, <2>4, <2>5 DEF NodesRepaired, files, dirs
  <1>15. BlocksRepaired(d, e, scope)
    <2>1. DOMAIN e.blocks = DOMAIN d.blocks
      BY <1>6, <1>9, <1>10, <1>11
    <2>2. \A b \in DOMAIN d.blocks : e.blocks[b].data = d.blocks[b].data
      BY <1>6, <1>9, <1>10, <1>11
    <2>3. ASSUME NEW m \in e.maps
          PROVE  /\ m.block \in DOMAIN d.blocks
                 /\ e.blocks[m.block].free = d2.blocks[m.block].free
                 /\ \E k \in d2.maps : m.file = k.file /\ m.block = k.block
      <3>1. m.block \in DOMAIN d.blocks /\ m.file \in NodeIds(d4) /\ m \in d4.maps
        BY <1>11, <2>1 DEF Storable, MapsStorable, NodeIds
      <3>2. m.block \in MappedIn(d4, "all")
        BY <3>1, ScopeParts
      <3> QED
        BY <1>6, <1>9, <1>10, <1>11, <1>12, <3>1, <3>2
    <2>4. \A m \in e.maps : ~d.blocks[m.block].free \/ m.file \in NodesIn(d, scope)
                              => ~e.blocks[m.block].free
      BY <1>6, <2>3
    <2>5. NodesIn(e, scope) = NodesIn(d, scope) /\ NodesIn(d3, scope) = NodesIn(d, scope)
      <3>1. SameNodes(d, d3)
        BY <1>6, <1>9 DEF SameNodes
      <3> QED
        BY <1>13, <3>1, SameScopes
    <2>6. ASSUME NEW b \in MappedIn(e, scope)
          PROVE  ~e.blocks[b].free /\ Describes(e.blocks[b], e.blocks[b].data)
      <3>1. PICK m \in e.maps : m.file \in NodesIn(d, scope) /\ m.block = b
        BY <2>5, ScopeParts
      <3>2. ~e.blocks[b].free /\ b \in DOMAIN d.blocks /\ ~d2.blocks[b].free
        BY <2>3, <2>4, <3>1
      <3>3. b \in MappedIn(d3, scope)
        BY <1>12, <2>5, <3>1, ScopeParts
      <3>4. b \in DOMAIN d3.blocks /\ ~d3.blocks[b].free
        BY <1>6, <1>9, <3>2
      <3>5. Describes(d4.blocks[b], d4.blocks[b].data)
        BY <1>10, <3>3, <3>4
      <3>6. Describes(e.blocks[b], e.blocks[b].data)
        BY <1>10, <1>11, <3>4, <3>5 DEF Describes
      <3> QED
        BY <3>2, <3>6
    <2>7. ASSUME scope = "all", NEW b \in DOMAIN e.blocks
          PROVE  e.blocks[b].free \/ b \in MappedIn(e, "all")
      <3>1. b \in MappedIn(d4, "all") => b \in MappedIn(e, "all")
        BY <1>11 DEF MappedIn, MapsIn, NodesIn, NodeIds
      <3> QED
        BY <1>11, <2>7, <3>1
    <2> QED
      BY <2>1, <2>2, <2>4, <2>6, <2>7 DEF BlocksRepaired
  <1> QED
    BY <1>11, <1>13, <1>14, <1>15

(* Mappings renumbered, or left, give the same bytes. *)
LEMMA RepairedContent ==
  ASSUME NEW d, Storable(d), NEW scope, NEW e, NodesRepaired(d, e, scope),
         BlocksRepaired(d, e, scope), NEW n \in NodeIds(d), d.nodes[n].type # "directory"
  PROVE  Content(e, n) = Content(d, n)
  <1>1. Ordered(MapsOf(d, n)) /\ \A m \in MapsOf(d, n) : m \in d.maps
    BY StorableMaps DEF Storable
  <1>2. \A m \in MapsOf(d, n) : e.blocks[m.block].data = d.blocks[m.block].data
    BY <1>1 DEF Storable, MapsStorable, BlocksRepaired
  <1>3. MapsOf(e, n) = MapsOf(d, n) \/ MapsOf(e, n) = Renumbered(MapsOf(d, n))
    <2>1. n \notin TypedIn(d, scope, "directory")
      BY DEF TypedIn
    <2> QED
      BY <2>1 DEF NodesRepaired
  <1> QED
    BY <1>1, <1>2, <1>3, ContentOfMaps

(* What the phases look for, found nowhere in the scope. *)
Settled(d, scope) ==
  /\ \A b \in MappedIn(d, scope) :
       ~d.blocks[b].free /\ Describes(d.blocks[b], d.blocks[b].data)
  /\ \A n \in TypedIn(d, scope, "directory") :
       MapsOf(d, n) = {} /\ d.nodes[n].size = 0 /\ d.nodes[n].sum = NoHash
  /\ \A f \in TypedIn(d, scope, "file") : ~StaleRow(d, f)
  /\ scope = "all" => \A b \in DOMAIN d.blocks : d.blocks[b].free \/ b \in MappedIn(d, "all")

(* A renumbered file is contiguous, and a row written from its content
   describes it. *)
LEMMA RepairedSettled ==
  ASSUME NEW d, Storable(d), NEW scope, NEW e, SameNodes(d, e), NodesRepaired(d, e, scope),
         BlocksRepaired(d, e, scope)
  PROVE  Settled(e, scope)
  <1>1. /\ TypedIn(e, scope, "directory") = TypedIn(d, scope, "directory")
        /\ TypedIn(e, scope, "file") = TypedIn(d, scope, "file")
    BY SameScopes
  <1>2. ASSUME NEW f \in TypedIn(e, scope, "file")
        PROVE  ~StaleRow(e, f)
    <2>1. f \in TypedIn(d, scope, "file") /\ f \in NodeIds(d) /\ d.nodes[f].type # "directory"
      BY <1>1 DEF TypedIn, NodesIn
    <2>2. Content(e, f) = Content(d, f)
      BY <2>1, RepairedContent
    <2>3. Ordered(MapsOf(d, f))
      BY StorableMaps DEF Storable
    <2>4. MapsOf(e, f) = Renumbered(MapsOf(d, f))
      BY <2>1 DEF NodesRepaired
    <2>5. Contiguous(e, f)
      BY <2>3, <2>4, RenumberedShape DEF Contiguous, SequencesOf
    <2>6. Describes(e.nodes[f], Content(e, f))
      BY <2>1, <2>2 DEF NodesRepaired, StaleRow
    <2> QED
      BY <2>5, <2>6 DEF StaleRow
  <1>3. \A n \in TypedIn(e, scope, "directory") :
          MapsOf(e, n) = {} /\ e.nodes[n].size = 0 /\ e.nodes[n].sum = NoHash
    BY <1>1 DEF NodesRepaired
  <1> QED
    BY <1>2, <1>3 DEF Settled, BlocksRepaired

(* Then every phase leaves the rows alone. *)
LEMMA SettledStays ==
  ASSUME NEW d, Storable(d), NEW scope, Settled(d, scope)
  PROVE  Repaired(d, scope) = d
  <1>1. UseReferenced(d, scope) = d
    BY UseReferencedShape DEF Settled
  <1>2. FixDirectories(d, scope) = d
    <2>1. \A m \in d.maps : m.file \notin TypedIn(d, scope, "directory")
      BY DEF Settled, MapsOf
    <2>2. \A n \in TypedIn(d, scope, "directory") : d.nodes[n].size = 0 /\ d.nodes[n].sum = NoHash
      BY DEF Settled
    <2> QED
      BY <2>1, <2>2, FixDirectoriesShape
  <1>3. FixFiles(d, scope) = d
    BY FixFilesShape DEF Settled
  <1>4. FixBlocks(d, scope) = d
    <2> DEFINE done == IF scope = "all" THEN {b \in DOMAIN d.blocks : ~d.blocks[b].free}
                       ELSE MappedIn(d, scope)
    <2>1. \A b \in done : Describes(d.blocks[b], d.blocks[b].data)
      BY DEF Settled
    <2> QED
      BY <2>1, FixBlocksShape
  <1>5. FreeUnreferenced(d, scope) = d
    <2>1. scope = "all" => \A b \in DOMAIN d.blocks : d.blocks[b].free \/ b \in MappedIn(d, "all")
      BY DEF Settled
    <2> QED
      BY <2>1, FreeUnreferencedShape
  <1> QED
    BY <1>1, <1>2, <1>3, <1>4, <1>5 DEF Repaired

-----------------------------------------------------------------------------
(* The recovery of path conflicts *)

(* A bounded set of numbers that is not empty has a largest one. *)
LEMMA LargestNumber ==
  ASSUME NEW S, S \subseteq Nat, S # {}, NEW k \in Nat, \A x \in S : x <= k
  PROVE  Max(S) \in S /\ \A x \in S : x <= Max(S)
  <1> DEFINE R == OpToRel(<, Nat)
             U == {u \in Nat : \A x \in S : x <= u}
  <1>1. \A x, y \in Nat : y < x => <<y, x>> \in R
    BY DEF OpToRel
  <1>2. IsWellFoundedOn(R, Nat)
    BY NatLessThanWellFounded
  <1>3. U \subseteq Nat /\ k \in U
    OBVIOUS
  <1> HIDE DEF R, U
  <1>4. PICK u \in U : \A v \in U : <<v, u>> \notin R
    BY <1>2, <1>3, WFMin
  <1>5. u \in Nat /\ \A x \in S : x <= u
    BY DEF U
  <1>6. u \in S
    <2> SUFFICES ASSUME u \notin S PROVE FALSE
      OBVIOUS
    <2>1. \A x \in S : x \in Nat /\ x < u
      BY <1>5
    <2>2. PICK s \in S : s \in Nat /\ s < u
      BY <2>1
    <2>3. u - 1 \in Nat /\ u - 1 < u
      BY <1>5, <2>2
    <2>4. \A x \in S : x <= u - 1
      <3>1. ASSUME NEW x \in S PROVE x <= u - 1
        <4>1. x \in Nat /\ x < u /\ u \in Nat
          BY <1>5, <2>1
        <4> QED
          BY <4>1
      <3> QED
        BY <3>1
    <2>5. u - 1 \in U
      BY <2>3, <2>4 DEF U
    <2>6. <<u - 1, u>> \in R
      BY <1>1, <1>5, <2>3
    <2> QED
      BY <1>4, <2>5, <2>6
  <1>7. \E x \in S : \A y \in S : x >= y
    BY <1>5, <1>6
  <1>8. Max(S) \in S /\ \A y \in S : Max(S) >= y
    BY <1>7 DEF Max
  <1> QED
    BY <1>8

(* The files of the scope that node n is below. *)
AboveIn(d, scope, n) == {f \in ConflictFiles(d, scope) : n \in DescendantsIn(d, scope, f)}

LEMMA AboveLast ==
  ASSUME NEW d, Storable(d), NEW scope, NEW n, AboveIn(d, scope, n) # {}
  PROVE  /\ Max(AboveIn(d, scope, n)) \in AboveIn(d, scope, n)
         /\ Max(AboveIn(d, scope, n)) \in NodeIds(d)
         /\ n \in NodesIn(d, scope)
  <1>1. AboveIn(d, scope, n) \subseteq NodeIds(d) /\ n \in NodesIn(d, scope)
    BY DEF AboveIn, ConflictFiles, DescendantsIn, TypedIn, NodesIn
  <1>2. NodeIds(d) \subseteq 1..(d.nodeSeq - 1) /\ d.nodeSeq \in Nat
    BY DEF Storable, RowsStorable
  <1>3. AboveIn(d, scope, n) \subseteq Nat /\ \A x \in AboveIn(d, scope, n) : x <= d.nodeSeq
    BY <1>1, <1>2
  <1> QED
    BY <1>1, <1>2, <1>3, LargestNumber

(* The path that a recovery gives to node n. *)
PathRecovered(d, scope, stamp, n) ==
  IF AboveIn(d, scope, n) = {} THEN d.nodes[n].path
  ELSE RecoveryRoot(d, Max(AboveIn(d, scope, n)), stamp) \o d.nodes[n].path

(* How a recovery leaves row n. *)
RowMoved(d, e, scope, stamp, n) ==
  /\ e.nodes[n] = [d.nodes[n] EXCEPT !.path = PathRecovered(d, scope, stamp, n)]
  /\ e.nodes[n].path = PathRecovered(d, scope, stamp, n)
  /\ e.nodes[n].type = d.nodes[n].type /\ e.nodes[n].ns = d.nodes[n].ns
  /\ e.nodes[n].size = d.nodes[n].size /\ e.nodes[n].sum = d.nodes[n].sum
  /\ e.nodes[n].ver = d.nodes[n].ver
  /\ n \notin NodesIn(d, scope) => e.nodes[n] = d.nodes[n]

(* A recovery changes nothing but the paths of rows below a file of the scope. *)
LEMMA RecoveredShape ==
  ASSUME NEW d, Storable(d), NEW scope, NEW stamp, NEW e, e = Recovered(d, scope, stamp)
  PROVE  /\ e.maps = d.maps /\ e.blocks = d.blocks
         /\ e.nodeSeq = d.nodeSeq /\ e.blockSeq = d.blockSeq
         /\ e = [nodes |-> e.nodes, blocks |-> e.blocks, maps |-> e.maps,
                 nodeSeq |-> e.nodeSeq, blockSeq |-> e.blockSeq]
         /\ NodeIds(e) = NodeIds(d) /\ e.nodes = [n \in NodeIds(d) |-> e.nodes[n]]
         /\ \A n \in NodeIds(d) : RowMoved(d, e, scope, stamp, n)
  <1> DEFINE N == [n \in DOMAIN d.nodes |->
                     IF AboveIn(d, scope, n) = {} THEN d.nodes[n]
                     ELSE [d.nodes[n] EXCEPT
                             !.path = RecoveryRoot(d, Max(AboveIn(d, scope, n)), stamp)
                                        \o d.nodes[n].path]]
  <1>1. e = [d EXCEPT !.nodes = N]
    BY DEF Recovered, AboveIn
  <1>2. d.nodes \in [NodeIds(d) -> NodeRows] /\ DOMAIN d.nodes = NodeIds(d)
    BY DEF Storable, RowsStorable, NodeIds
  <1>3. ASSUME NEW n \in NodeIds(d)
        PROVE  /\ N[n] = [d.nodes[n] EXCEPT !.path = PathRecovered(d, scope, stamp, n)]
               /\ N[n].path = PathRecovered(d, scope, stamp, n)
               /\ N[n].type = d.nodes[n].type /\ N[n].ns = d.nodes[n].ns
               /\ N[n].size = d.nodes[n].size /\ N[n].sum = d.nodes[n].sum
               /\ N[n].ver = d.nodes[n].ver
               /\ n \notin NodesIn(d, scope) => N[n] = d.nodes[n]
    <2>1. d.nodes[n] \in NodeRows
      BY <1>2
    <2>2. CASE AboveIn(d, scope, n) = {}
      <3>1. N[n] = d.nodes[n] /\ PathRecovered(d, scope, stamp, n) = d.nodes[n].path
        BY <1>2, <2>2 DEF PathRecovered
      <3>2. [d.nodes[n] EXCEPT !.path = d.nodes[n].path] = d.nodes[n]
        BY <2>1 DEF NodeRows
      <3> HIDE DEF N
      <3> QED
        BY <3>1, <3>2
    <2>3. CASE AboveIn(d, scope, n) # {}
      <3>1. n \in NodesIn(d, scope)
        BY <2>3, AboveLast
      <3>2. N[n] = [d.nodes[n] EXCEPT !.path = PathRecovered(d, scope, stamp, n)]
        BY <1>2, <2>3 DEF PathRecovered
      <3> HIDE DEF N
      <3>3. /\ N[n].path = PathRecovered(d, scope, stamp, n)
            /\ N[n].type = d.nodes[n].type /\ N[n].ns = d.nodes[n].ns
            /\ N[n].size = d.nodes[n].size /\ N[n].sum = d.nodes[n].sum
            /\ N[n].ver = d.nodes[n].ver
        BY <2>1, <3>2 DEF NodeRows
      <3> QED
        BY <3>1, <3>2, <3>3
    <2> QED
      BY <2>2, <2>3
  <1>4. N = [n \in NodeIds(d) |-> N[n]] /\ DOMAIN N = NodeIds(d)
    BY <1>2
  <1> HIDE DEF N
  <1>5. /\ e = [nodes |-> N, blocks |-> d.blocks, maps |-> d.maps,
                nodeSeq |-> d.nodeSeq, blockSeq |-> d.blockSeq]
        /\ e.nodes = N /\ e.blocks = d.blocks /\ e.maps = d.maps
        /\ e.nodeSeq = d.nodeSeq /\ e.blockSeq = d.blockSeq
    BY <1>1, WithNodes DEF Storable
  <1>6. NodeIds(e) = NodeIds(d)
    BY <1>4, <1>5 DEF NodeIds
  <1>7. \A n \in NodeIds(d) : RowMoved(d, e, scope, stamp, n)
    BY <1>3, <1>5 DEF RowMoved
  <1> QED
    BY <1>4, <1>5, <1>6, <1>7

(* Moved rows are rows, if their paths fit the column. *)
LEMMA RecoveredStorable ==
  ASSUME NEW d, Storable(d), NEW scope, NEW stamp \in Names,
         NEW e, e = Recovered(d, scope, stamp),
         \A n \in Moved(d, e) : Fits(e.nodes[n].path)
  PROVE  Storable(e)
  <1>1. /\ e.maps = d.maps /\ e.blocks = d.blocks
        /\ e.nodeSeq = d.nodeSeq /\ e.blockSeq = d.blockSeq
        /\ e = [nodes |-> e.nodes, blocks |-> e.blocks, maps |-> e.maps,
                nodeSeq |-> e.nodeSeq, blockSeq |-> e.blockSeq]
        /\ NodeIds(e) = NodeIds(d) /\ e.nodes = [n \in NodeIds(d) |-> e.nodes[n]]
        /\ \A n \in NodeIds(d) :
             /\ e.nodes[n] = [d.nodes[n] EXCEPT !.path = PathRecovered(d, scope, stamp, n)]
             /\ e.nodes[n].path = PathRecovered(d, scope, stamp, n)
    BY RecoveredShape DEF RowMoved
  <1>2. d.nodes \in [NodeIds(d) -> NodeRows]
    BY DEF Storable, RowsStorable
  <1>3. ASSUME NEW n \in NodeIds(d) PROVE PathRecovered(d, scope, stamp, n) \in Paths
    <2>1. d.nodes[n].path \in Paths
      BY <1>2 DEF NodeRows
    <2>2. CASE PathRecovered(d, scope, stamp, n) = d.nodes[n].path
      BY <2>1, <2>2
    <2>3. CASE PathRecovered(d, scope, stamp, n) # d.nodes[n].path
      <3>1. Fits(PathRecovered(d, scope, stamp, n))
        BY <1>1, <2>3 DEF Moved
      <3>2. PICK f : f = Max(AboveIn(d, scope, n))
        OBVIOUS
      <3>3. AboveIn(d, scope, n) # {} /\ f \in NodeIds(d)
        BY <2>3, <3>2, AboveLast DEF PathRecovered
      <3>4. d.nodes[f].ns \in Names
        BY <1>2, <3>3, RepairAssumption DEF NodeRows
      <3>5. PathRecovered(d, scope, stamp, n) = <<d.nodes[f].ns, stamp>> \o d.nodes[n].path
        BY <3>2, <3>3 DEF PathRecovered, RecoveryRoot
      <3>6. d.nodes[n].path \in Seq(Names) /\ Len(d.nodes[n].path) \in Nat
        BY <2>1, PathsType
      <3>7. <<d.nodes[f].ns, stamp>> \in Seq(Names) /\ Len(<<d.nodes[f].ns, stamp>>) = 2
        BY <3>4
      <3> DEFINE p == <<d.nodes[f].ns, stamp>> \o d.nodes[n].path
      <3>8. p \in Seq(Names) /\ Len(p) = 2 + Len(d.nodes[n].path)
        BY <3>6, <3>7, ConcatProperties
      <3> HIDE DEF p
      <3>9. Len(p) \in 1..MaxDepth
        BY <3>1, <3>5, <3>6, <3>8, PathsAssumption DEF p, Fits
      <3> QED
        BY <3>5, <3>8, <3>9, PathsIntro DEF p
    <2> QED
      BY <2>2, <2>3
  <1>4. ASSUME NEW n \in NodeIds(d) PROVE e.nodes[n] \in NodeRows
    <2>1. PICK row : row = d.nodes[n]
      OBVIOUS
    <2>2. PICK p : p = PathRecovered(d, scope, stamp, n)
      OBVIOUS
    <2>3. e.nodes[n] = [row EXCEPT !.path = p] /\ row \in NodeRows /\ p \in Paths
      BY <1>1, <1>2, <1>3, <2>1, <2>2
    <2> QED
      BY <2>3 DEF NodeRows
  <1>5. e.nodes \in [NodeIds(d) -> NodeRows]
    BY <1>1, <1>4
  <1>6. RowsStorable(e)
    BY <1>1, <1>5 DEF Storable, RowsStorable, NodeIds
  <1>7. MapsStorable(e)
    BY <1>1 DEF Storable, MapsStorable
  <1> QED
    BY <1>6, <1>7 DEF Storable

(* What a repair leaves of the rows it found. *)
RowsRepaired(d, e, scope) ==
  /\ SameNodes(d, e)
  /\ \A n \in NodeIds(d) \ NodesIn(d, scope) :
       e.nodes[n] = d.nodes[n] /\ MapsOf(e, n) = MapsOf(d, n)
  /\ \A f \in TypedIn(d, scope, "file") :
       /\ MapsOf(e, f) = Renumbered(MapsOf(d, f))
       /\ StaleRow(d, f) => /\ Describes(e.nodes[f], Content(d, f))
                            /\ e.nodes[f].ver = d.nodes[f].ver + 1
       /\ ~StaleRow(d, f) => /\ e.nodes[f].size = d.nodes[f].size
                             /\ e.nodes[f].sum = d.nodes[f].sum
                             /\ e.nodes[f].ver = d.nodes[f].ver
  /\ \A n \in NodeIds(d) : d.nodes[n].type # "directory" => Content(e, n) = Content(d, n)
  /\ \A m \in e.maps : ~d.blocks[m.block].free => ~e.blocks[m.block].free
  /\ \A k \in e.maps : \E m \in d.maps : k.file = m.file /\ k.block = m.block

LEMMA RepairedRows ==
  ASSUME NEW d, Storable(d), NEW scope, NEW e, SameNodes(d, e), NodesRepaired(d, e, scope),
         BlocksRepaired(d, e, scope)
  PROVE  RowsRepaired(d, e, scope)
  <1>1. \A n \in NodeIds(d) \ NodesIn(d, scope) :
          e.nodes[n] = d.nodes[n] /\ MapsOf(e, n) = MapsOf(d, n)
    BY ScopeParts DEF NodesRepaired
  <1>2. \A f \in TypedIn(d, scope, "file") :
          /\ MapsOf(e, f) = Renumbered(MapsOf(d, f))
          /\ StaleRow(d, f) => /\ Describes(e.nodes[f], Content(d, f))
                               /\ e.nodes[f].ver = d.nodes[f].ver + 1
          /\ ~StaleRow(d, f) => e.nodes[f] = d.nodes[f]
    BY DEF NodesRepaired
  <1>3. \A n \in NodeIds(d) : d.nodes[n].type # "directory" => Content(e, n) = Content(d, n)
    BY RepairedContent
  <1>4. \A m \in e.maps : ~d.blocks[m.block].free => ~e.blocks[m.block].free
    BY DEF BlocksRepaired
  <1>5. \A k \in e.maps : \E m \in d.maps : k.file = m.file /\ k.block = m.block
    BY DEF NodesRepaired
  <1> QED
    BY <1>1, <1>2, <1>3, <1>4, <1>5 DEF RowsRepaired

(* Moving rows disturbs neither what was repaired nor what is settled. *)
LEMMA RecoveredRows ==
  ASSUME NEW d, NEW c, Storable(c), NEW scope, NEW stamp, RowsRepaired(d, c, scope),
         Settled(c, scope), NEW e, e = Recovered(c, scope, stamp)
  PROVE  RowsRepaired(d, e, scope) /\ Settled(e, scope)
  <1>1. /\ e.maps = c.maps /\ e.blocks = c.blocks /\ NodeIds(e) = NodeIds(c)
        /\ \A n \in NodeIds(c) :
             /\ e.nodes[n].type = c.nodes[n].type /\ e.nodes[n].ns = c.nodes[n].ns
             /\ e.nodes[n].size = c.nodes[n].size /\ e.nodes[n].sum = c.nodes[n].sum
             /\ e.nodes[n].ver = c.nodes[n].ver
             /\ n \notin NodesIn(c, scope) => e.nodes[n] = c.nodes[n]
    <2>1. /\ e.maps = c.maps /\ e.blocks = c.blocks
          /\ e.nodeSeq = c.nodeSeq /\ e.blockSeq = c.blockSeq
          /\ e = [nodes |-> e.nodes, blocks |-> e.blocks, maps |-> e.maps,
                  nodeSeq |-> e.nodeSeq, blockSeq |-> e.blockSeq]
          /\ NodeIds(e) = NodeIds(c) /\ e.nodes = [n \in NodeIds(c) |-> e.nodes[n]]
          /\ \A n \in NodeIds(c) : RowMoved(c, e, scope, stamp, n)
      BY RecoveredShape
    <2> QED
      BY <2>1 DEF RowMoved
  <1>2. SameNodes(c, e) /\ SameNodes(d, c) /\ SameNodes(d, e)
    BY <1>1 DEF SameNodes, RowsRepaired
  <1>3. \A n : MapsOf(e, n) = MapsOf(c, n) /\ Content(e, n) = Content(c, n)
    BY <1>1 DEF MapsOf, Content, OrderedData, OrderedMaps
  <1>4. \A f \in NodeIds(c) : StaleRow(e, f) <=> StaleRow(c, f)
    BY <1>1, <1>3 DEF StaleRow, Describes, Contiguous, SequencesOf
  <1>5. /\ NodesIn(c, scope) = NodesIn(d, scope) /\ NodesIn(e, scope) = NodesIn(c, scope)
        /\ \A t : TypedIn(e, scope, t) = TypedIn(c, scope, t)
    BY <1>2, SameScopes
  <1>6. NodesIn(e, "all") = NodesIn(c, "all")
    BY <1>2, SameScopes
  <1>7. /\ \A t : TypedIn(c, scope, t) \subseteq NodeIds(c)
        /\ TypedIn(d, scope, "file") \subseteq NodeIds(d) /\ NodeIds(c) = NodeIds(d)
    BY <1>2 DEF TypedIn, NodesIn, SameNodes
  <1>8. RowsRepaired(d, e, scope)
    <2>1. \A n \in NodeIds(d) \ NodesIn(d, scope) :
            e.nodes[n] = d.nodes[n] /\ MapsOf(e, n) = MapsOf(d, n)
      BY <1>1, <1>3, <1>5, <1>7 DEF RowsRepaired
    <2>2. ASSUME NEW f \in TypedIn(d, scope, "file")
          PROVE  /\ MapsOf(e, f) = Renumbered(MapsOf(d, f))
                 /\ StaleRow(d, f) => /\ Describes(e.nodes[f], Content(d, f))
                                      /\ e.nodes[f].ver = d.nodes[f].ver + 1
                 /\ ~StaleRow(d, f) => /\ e.nodes[f].size = d.nodes[f].size
                                       /\ e.nodes[f].sum = d.nodes[f].sum
                                       /\ e.nodes[f].ver = d.nodes[f].ver
      <3>1. f \in NodeIds(c)
        BY <1>7
      <3>2. /\ MapsOf(c, f) = Renumbered(MapsOf(d, f))
            /\ StaleRow(d, f) => /\ Describes(c.nodes[f], Content(d, f))
                                 /\ c.nodes[f].ver = d.nodes[f].ver + 1
            /\ ~StaleRow(d, f) => /\ c.nodes[f].size = d.nodes[f].size
                                  /\ c.nodes[f].sum = d.nodes[f].sum
                                  /\ c.nodes[f].ver = d.nodes[f].ver
        BY DEF RowsRepaired
      <3> QED
        BY <1>1, <1>3, <3>1, <3>2 DEF Describes
    <2>3. \A n \in NodeIds(d) : d.nodes[n].type # "directory" => Content(e, n) = Content(d, n)
      BY <1>3 DEF RowsRepaired
    <2>4. \A m \in e.maps : ~d.blocks[m.block].free => ~e.blocks[m.block].free
      BY <1>1 DEF RowsRepaired
    <2>5. \A k \in e.maps : \E m \in d.maps : k.file = m.file /\ k.block = m.block
      BY <1>1 DEF RowsRepaired
    <2> QED
      BY <1>2, <2>1, <2>2, <2>3, <2>4, <2>5 DEF RowsRepaired
  <1>9. Settled(e, scope)
    <2>1. MappedIn(e, scope) = MappedIn(c, scope) /\ MappedIn(e, "all") = MappedIn(c, "all")
      BY <1>1, <1>5, <1>6 DEF MappedIn, MapsIn
    <2>2. \A n \in TypedIn(e, scope, "directory") :
            MapsOf(e, n) = {} /\ e.nodes[n].size = 0 /\ e.nodes[n].sum = NoHash
      BY <1>1, <1>3, <1>5, <1>7 DEF Settled
    <2>3. \A f \in TypedIn(e, scope, "file") : ~StaleRow(e, f)
      BY <1>4, <1>5, <1>7 DEF Settled
    <2> QED
      BY <1>1, <2>1, <2>2, <2>3 DEF Settled
  <1> QED
    BY <1>8, <1>9

LEMMA ResultFields ==
  ASSUME NEW x, NEW y, NEW r, r = [db |-> x, outcome |-> y]
  PROVE  r.db = x /\ r.outcome = y
  OBVIOUS

(* How a repair ends: rolled back, or committed and settled. *)
LEMMA RepairEnds ==
  ASSUME NEW d, Storable(d), NEW scope, NEW recover, NEW stamp,
         Moves(d, scope, recover) => stamp \in Names,
         NEW r, r = RepairResult(d, scope, recover, stamp)
  PROVE  /\ Storable(r.db)
         /\ \/ r.db = d /\ r.outcome \in {"invalid path", "path too long"}
            \/ /\ RowsRepaired(d, r.db, scope) /\ Settled(r.db, scope)
               /\ r.outcome = IF Unresolved(r.db, scope, recover) THEN "attention" ELSE "ok"
  <1>1. PICK c : c = Repaired(d, scope)
    OBVIOUS
  <1>2. PICK e : e = IF Moves(d, scope, recover) THEN Recovered(c, scope, stamp) ELSE c
    OBVIOUS
  <1>3. r = IF \E n \in Moved(d, e) : ~Valid(e.nodes[n].path)
            THEN [db |-> d, outcome |-> "invalid path"]
            ELSE IF \E n \in Moved(d, e) : ~Fits(e.nodes[n].path)
            THEN [db |-> d, outcome |-> "path too long"]
            ELSE [db |-> e, outcome |-> IF Unresolved(e, scope, recover) THEN "attention" ELSE "ok"]
    BY <1>1, <1>2 DEF RepairResult
  <1>4. Storable(c) /\ SameNodes(d, c) /\ NodesRepaired(d, c, scope) /\ BlocksRepaired(d, c, scope)
    BY <1>1, RepairedShape
  <1>5. RowsRepaired(d, c, scope) /\ Settled(c, scope)
    BY <1>4, RepairedRows, RepairedSettled
  <1>6. RowsRepaired(d, e, scope) /\ Settled(e, scope)
    BY <1>2, <1>4, <1>5, RecoveredRows
  <1>7. CASE \E n \in Moved(d, e) : ~Valid(e.nodes[n].path) \/ ~Fits(e.nodes[n].path)
    <2>1. r \in {[db |-> d, outcome |-> "invalid path"], [db |-> d, outcome |-> "path too long"]}
      <3>1. CASE \E n \in Moved(d, e) : ~Valid(e.nodes[n].path)
        BY <1>3, <3>1
      <3>2. CASE ~\E n \in Moved(d, e) : ~Valid(e.nodes[n].path)
        BY <1>3, <1>7, <3>2
      <3> QED
        BY <3>1, <3>2
    <2>2. CASE r = [db |-> d, outcome |-> "invalid path"]
      <3>1. r.db = d /\ r.outcome = "invalid path"
        BY <2>2, ResultFields
      <3> QED
        BY <3>1
    <2>3. CASE r = [db |-> d, outcome |-> "path too long"]
      <3>1. r.db = d /\ r.outcome = "path too long"
        BY <2>3, ResultFields
      <3> QED
        BY <3>1
    <2> QED
      BY <2>1, <2>2, <2>3
  <1>8. CASE ~\E n \in Moved(d, e) : ~Valid(e.nodes[n].path) \/ ~Fits(e.nodes[n].path)
    <2>1. r = [db |-> e, outcome |-> IF Unresolved(e, scope, recover) THEN "attention" ELSE "ok"]
      BY <1>3, <1>8
    <2>2. Storable(e)
      <3>1. CASE Moves(d, scope, recover)
        <4>1. \A n \in Moved(c, e) : Fits(e.nodes[n].path)
          <5>1. Moved(c, e) = Moved(d, e)
            BY <1>4 DEF Moved, NodesRepaired, SameNodes
          <5> QED
            BY <1>8, <5>1
        <4> QED
          BY <1>2, <1>4, <3>1, <4>1, RecoveredStorable
      <3>2. CASE ~Moves(d, scope, recover)
        BY <1>2, <1>4, <3>2
      <3> QED
        BY <3>1, <3>2
    <2> QED
      BY <1>6, <2>1, <2>2
  <1> QED
    BY <1>7, <1>8

-----------------------------------------------------------------------------
(* The writes and the damage between two repairs *)

LEMMA EmptyStorable == Storable(EmptyDb)
  <1>1. DOMAIN EmptyDb.nodes = {} /\ DOMAIN EmptyDb.blocks = {} /\ EmptyDb.maps = {}
    BY DEF EmptyDb
  <1>2. IsFiniteSet(EmptyDb.maps)
    BY <1>1, FS_EmptySet
  <1>3. RowsStorable(EmptyDb)
    BY DEF EmptyDb, RowsStorable, NodeIds
  <1>4. MapsStorable(EmptyDb)
    BY <1>1, <1>2 DEF MapsStorable
  <1> QED
    BY <1>3, <1>4 DEF Storable

LEMMA BlockChanged ==
  ASSUME NEW d, Storable(d), NEW b \in DOMAIN d.blocks, NEW row \in BlockRows
  PROVE  Storable([d EXCEPT !.blocks[b] = row])
  <1> DEFINE B == [d.blocks EXCEPT ![b] = row]
  <1>1. [d EXCEPT !.blocks[b] = row] = [d EXCEPT !.blocks = B]
    OBVIOUS
  <1>2. d.blocks \in [DOMAIN d.blocks -> BlockRows]
    BY DEF Storable, RowsStorable
  <1>3. B \in [DOMAIN d.blocks -> BlockRows]
    BY <1>2
  <1> HIDE DEF B
  <1> QED
    BY <1>1, <1>3, StorableBlocks

LEMMA NodeChanged ==
  ASSUME NEW d, Storable(d), NEW n \in NodeIds(d), NEW row \in NodeRows
  PROVE  Storable([d EXCEPT !.nodes[n] = row])
  <1> DEFINE N == [d.nodes EXCEPT ![n] = row]
  <1>1. [d EXCEPT !.nodes[n] = row] = [d EXCEPT !.nodes = N]
    OBVIOUS
  <1>2. d.nodes \in [NodeIds(d) -> NodeRows]
    BY DEF Storable, RowsStorable
  <1>3. N \in [NodeIds(d) -> NodeRows]
    BY <1>2
  <1> HIDE DEF N
  <1> QED
    BY <1>1, <1>3, StorableNodes

(* Other mappings over the same rows. *)
LEMMA StorableWithMaps ==
  ASSUME NEW d, Storable(d), NEW M, M \subseteq MapRow, IsFiniteSet(M),
         \A m \in M : m.file \in NodeIds(d) /\ m.block \in DOMAIN d.blocks,
         \A m, k \in M : m.file = k.file /\ m.seq = k.seq => m = k
  PROVE  Storable([d EXCEPT !.maps = M])
  <1> DEFINE e == [d EXCEPT !.maps = M]
  <1>1. /\ e = [nodes |-> d.nodes, blocks |-> d.blocks, maps |-> M,
                nodeSeq |-> d.nodeSeq, blockSeq |-> d.blockSeq]
        /\ e.nodes = d.nodes /\ e.blocks = d.blocks /\ e.maps = M
        /\ e.nodeSeq = d.nodeSeq /\ e.blockSeq = d.blockSeq
    BY DEF Storable, RowsStorable
  <1> HIDE DEF e
  <1>2. RowsStorable(e)
    BY <1>1 DEF Storable, RowsStorable, NodeIds
  <1>3. MapsStorable(e)
    BY <1>1 DEF MapsStorable, NodeIds
  <1> QED
    BY <1>2, <1>3 DEF e, Storable

LEMMA MappingRemoved ==
  ASSUME NEW d, Storable(d), NEW m
  PROVE  Storable([d EXCEPT !.maps = @ \ {m}])
  <1> DEFINE M == d.maps \ {m}
  <1>1. d.maps \subseteq MapRow /\ IsFiniteSet(d.maps) /\ M \in SUBSET d.maps
    BY DEF Storable, MapsStorable
  <1>2. IsFiniteSet(M)
    BY <1>1, FS_Subset
  <1>3. /\ \A x \in M : x.file \in NodeIds(d) /\ x.block \in DOMAIN d.blocks
        /\ \A x, y \in M : x.file = y.file /\ x.seq = y.seq => x = y
    BY DEF Storable, MapsStorable
  <1>4. [d EXCEPT !.maps = @ \ {m}] = [d EXCEPT !.maps = M]
    OBVIOUS
  <1> HIDE DEF M
  <1> QED
    BY <1>1, <1>2, <1>3, <1>4, StorableWithMaps

LEMMA MappingAdded ==
  ASSUME NEW d, Storable(d), NEW f \in NodeIds(d), NEW b \in DOMAIN d.blocks, NEW s \in Nat,
         s \notin SequencesOf(d, f)
  PROVE  Storable([d EXCEPT !.maps = @ \cup {[file |-> f, block |-> b, seq |-> s]}])
  <1> DEFINE new == [file |-> f, block |-> b, seq |-> s]
             M == d.maps \cup {new}
  <1>1. f \in Nat /\ b \in Nat /\ d.maps \subseteq MapRow /\ IsFiniteSet(d.maps)
    BY DEF Storable, RowsStorable, MapsStorable
  <1>2. new \in MapRow /\ new.file = f /\ new.block = b /\ new.seq = s
    BY <1>1 DEF MapRow
  <1>3. \A m \in d.maps : m.file = f => m.seq # s
    BY DEF SequencesOf, MapsOf
  <1>4. [d EXCEPT !.maps = @ \cup {[file |-> f, block |-> b, seq |-> s]}] = [d EXCEPT !.maps = M]
    OBVIOUS
  <1> HIDE DEF new
  <1>5. M \subseteq MapRow
    BY <1>1, <1>2
  <1>6. IsFiniteSet(M)
    BY <1>1, FS_AddElement
  <1>7. /\ \A m \in M : m.file \in NodeIds(d) /\ m.block \in DOMAIN d.blocks
        /\ \A m, k \in M : m.file = k.file /\ m.seq = k.seq => m = k
    BY <1>2, <1>3 DEF Storable, MapsStorable
  <1> HIDE DEF M
  <1> QED
    BY <1>4, <1>5, <1>6, <1>7, StorableWithMaps

(* A new row in the place of the next number. *)
LEMMA NodeInserted ==
  ASSUME NEW d, Storable(d), NEW row \in NodeRows
  PROVE  LET e == InsertNode(d, row)
         IN  /\ Storable(e)
             /\ d.nodeSeq \notin NodeIds(d)
             /\ NodeIds(e) = NodeIds(d) \cup {d.nodeSeq}
             /\ e.maps = d.maps /\ e.blocks = d.blocks /\ e.blockSeq = d.blockSeq
  <1> DEFINE N == [n \in DOMAIN d.nodes \cup {d.nodeSeq} |->
                     IF n = d.nodeSeq THEN row ELSE d.nodes[n]]
             e == [d EXCEPT !.nodes = N, !.nodeSeq = d.nodeSeq + 1]
  <1>1. /\ d.nodes \in [NodeIds(d) -> NodeRows] /\ NodeIds(d) \subseteq 1..(d.nodeSeq - 1)
        /\ d.nodeSeq \in Nat \ {0} /\ DOMAIN d.nodes = NodeIds(d)
    BY DEF Storable, RowsStorable, NodeIds
  <1>2. /\ N \in [NodeIds(d) \cup {d.nodeSeq} -> NodeRows]
        /\ DOMAIN N = NodeIds(d) \cup {d.nodeSeq}
    BY <1>1
  <1>3. InsertNode(d, row) = e
    BY DEF InsertNode
  <1> HIDE DEF N
  <1>4. /\ e = [nodes |-> N, blocks |-> d.blocks, maps |-> d.maps,
                nodeSeq |-> d.nodeSeq + 1, blockSeq |-> d.blockSeq]
        /\ e.nodes = N /\ e.blocks = d.blocks /\ e.maps = d.maps
        /\ e.nodeSeq = d.nodeSeq + 1 /\ e.blockSeq = d.blockSeq
    <2>1. /\ e.nodes = N /\ e.blocks = d.blocks /\ e.maps = d.maps
          /\ e.nodeSeq = d.nodeSeq + 1 /\ e.blockSeq = d.blockSeq
      BY DEF Storable, RowsStorable
    <2>2. e = [k \in DOMAIN e |-> e[k]] /\ DOMAIN e = DOMAIN d
      OBVIOUS
    <2>3. DOMAIN d = {"nodes", "blocks", "maps", "nodeSeq", "blockSeq"}
      BY DEF Storable, RowsStorable
    <2> HIDE DEF e
    <2>4. e = [nodes |-> e.nodes, blocks |-> e.blocks, maps |-> e.maps,
               nodeSeq |-> e.nodeSeq, blockSeq |-> e.blockSeq]
      BY <2>2, <2>3
    <2> QED
      BY <2>1, <2>4
  <1> HIDE DEF e
  <1>5. NodeIds(e) = NodeIds(d) \cup {d.nodeSeq}
    BY <1>2, <1>4 DEF NodeIds
  <1>6. RowsStorable(e)
    <2>1. NodeIds(e) \subseteq 1..(e.nodeSeq - 1) /\ e.nodeSeq \in Nat \ {0}
      BY <1>1, <1>4, <1>5
    <2> QED
      BY <1>2, <1>4, <1>5, <2>1 DEF Storable, RowsStorable
  <1>7. MapsStorable(e)
    BY <1>4, <1>5 DEF Storable, MapsStorable
  <1> QED
    BY <1>1, <1>3, <1>4, <1>5, <1>6, <1>7 DEF Storable

(* Blocks attached to a file without mappings. *)
LEMMA AttachStorable ==
  ASSUME NEW d, Storable(d), NEW f \in NodeIds(d), \A m \in d.maps : m.file # f,
         NEW cs \in Seq(Seq(Bytes))
  PROVE  LET e == AttachBlocks(d, f, 0, cs)
         IN  /\ Storable(e)
             /\ NodeIds(e) = NodeIds(d) /\ e.nodes = d.nodes
             /\ \A m \in e.maps : m \in d.maps \/ m.block \notin DOMAIN d.blocks
             /\ \A b \in DOMAIN d.blocks : e.blocks[b] = d.blocks[b]
  <1> DEFINE first == d.blockSeq - 1
             new   == {first + i : i \in 1..Len(cs)}
             B == [b \in DOMAIN d.blocks \cup new |->
                     IF b \in new THEN NewBlock(cs[b - first]) ELSE d.blocks[b]]
             M == d.maps \cup Added(f, first, 0, cs)
             e == [d EXCEPT !.blocks = B, !.blockSeq = d.blockSeq + Len(cs), !.maps = M]
  <1>1. /\ d.blocks \in [DOMAIN d.blocks -> BlockRows] /\ d.blockSeq \in Nat \ {0}
        /\ DOMAIN d.blocks \subseteq 1..(d.blockSeq - 1)
        /\ first \in Nat /\ Len(cs) \in Nat /\ f \in Nat
        /\ d.maps \subseteq MapRow /\ IsFiniteSet(d.maps)
    BY DEF Storable, RowsStorable, MapsStorable
  <1>2. ASSUME NEW b \in new PROVE b \notin DOMAIN d.blocks /\ b - first \in 1..Len(cs)
    <2>1. PICK i \in 1..Len(cs) : b = first + i
      OBVIOUS
    <2>2. PICK l : l = Len(cs)
      OBVIOUS
    <2>3. PICK x : x = d.blockSeq
      OBVIOUS
    <2>4. b = x - 1 + i /\ x \in Nat \ {0} /\ l \in Nat /\ i \in 1..l
      BY <1>1, <2>1, <2>2, <2>3
    <2>5. ASSUME NEW y \in Nat \ {0}, NEW j \in Nat \ {0}
          PROVE  y - 1 + j - (y - 1) = j /\ y - 1 + j \notin 1..(y - 1)
      OBVIOUS
    <2>6. i \in Nat \ {0}
      BY <2>4
    <2>7. b - (x - 1) = i /\ b \notin 1..(x - 1)
      BY <2>4, <2>5, <2>6
    <2> QED
      BY <1>1, <2>2, <2>3, <2>4, <2>7
  <1>3. \A b \in new : NewBlock(cs[b - first]) \in BlockRows
    <2>1. \A i \in 1..Len(cs) : cs[i] \in Seq(Bytes) /\ Len(cs[i]) \in Nat
      OBVIOUS
    <2>2. ASSUME NEW chunk \in Seq(Bytes), Len(chunk) \in Nat PROVE NewBlock(chunk) \in BlockRows
      BY <2>2 DEF NewBlock, BlockRows, Hash
    <2> QED
      BY <1>2, <2>1, <2>2
  <1>4. /\ B \in [DOMAIN d.blocks \cup new -> BlockRows] /\ DOMAIN B = DOMAIN d.blocks \cup new
        /\ \A b \in DOMAIN d.blocks : B[b] = d.blocks[b]
    BY <1>1, <1>2, <1>3
  <1>5. AddedOnly(Added(f, first, 0, cs), f, first, 0, Len(cs))
    BY <1>1, AddedShape
  <1>6. \A m \in Added(f, first, 0, cs) : m \in MapRow /\ m.file = f /\ m.block \in new
    <2>1. \A i \in 1..Len(cs) : [file |-> f, block |-> first + i, seq |-> 0 + i - 1] \in MapRow
      BY <1>1 DEF MapRow
    <2> QED
      BY <2>1 DEF Added
  <1>7. IsFiniteSet(Added(f, first, 0, cs))
    <2>1. IsFiniteSet(1..Len(cs))
      BY <1>1, FS_Interval
    <2> DEFINE S == 1..Len(cs)
               T == Added(f, first, 0, cs)
               g == [i \in S |-> [file |-> f, block |-> first + i, seq |-> 0 + i - 1]]
    <2>2. g \in Surjection(S, T)
      BY DEF Added, Surjection
    <2> HIDE DEF S, T, g
    <2>3. IsFiniteSet(T)
      BY <2>1, <2>2, FS_Surjection DEF S
    <2> QED
      BY <2>3 DEF T
  <1> HIDE DEF B, new
  <1>8. AttachBlocks(d, f, 0, cs) = e
    BY DEF AttachBlocks, Added, B, new
  <1>9. IsFiniteSet(M)
    BY <1>1, <1>7, FS_Union
  <1>10. \A m \in M : /\ m \in MapRow /\ m.file \in NodeIds(d)
                      /\ m.block \in DOMAIN d.blocks \cup new
                      /\ m \in d.maps \/ m.block \in new
    BY <1>6 DEF Storable, MapsStorable
  <1>11. ASSUME NEW m \in M, NEW k \in M, m.file = k.file, m.seq = k.seq PROVE m = k
    <2>1. m \in d.maps <=> k \in d.maps
      BY <1>6, <1>11
    <2>2. CASE m \in d.maps /\ k \in d.maps
      BY <1>11, <2>2 DEF Storable, MapsStorable
    <2>3. CASE m \in Added(f, first, 0, cs) /\ k \in Added(f, first, 0, cs)
      BY <1>5, <1>11, <2>3 DEF AddedOnly
    <2> QED
      BY <2>1, <2>2, <2>3
  <1> HIDE DEF M, first
  <1>12. /\ e = [nodes |-> d.nodes, blocks |-> B, maps |-> M,
                 nodeSeq |-> d.nodeSeq, blockSeq |-> d.blockSeq + Len(cs)]
         /\ e.nodes = d.nodes /\ e.blocks = B /\ e.maps = M
         /\ e.nodeSeq = d.nodeSeq /\ e.blockSeq = d.blockSeq + Len(cs)
    <2>1. /\ e.nodes = d.nodes /\ e.blocks = B /\ e.maps = M
          /\ e.nodeSeq = d.nodeSeq /\ e.blockSeq = d.blockSeq + Len(cs)
      BY DEF Storable, RowsStorable
    <2>2. e = [k \in DOMAIN e |-> e[k]] /\ DOMAIN e = DOMAIN d
      OBVIOUS
    <2>3. DOMAIN d = {"nodes", "blocks", "maps", "nodeSeq", "blockSeq"}
      BY DEF Storable, RowsStorable
    <2> HIDE DEF e
    <2>4. e = [nodes |-> e.nodes, blocks |-> e.blocks, maps |-> e.maps,
               nodeSeq |-> e.nodeSeq, blockSeq |-> e.blockSeq]
      BY <2>2, <2>3
    <2> QED
      BY <2>1, <2>4
  <1> HIDE DEF e
  <1>13. NodeIds(e) = NodeIds(d)
    BY <1>12 DEF NodeIds
  <1>14. RowsStorable(e)
    <2>1. DOMAIN e.blocks \subseteq 1..(e.blockSeq - 1) /\ e.blockSeq \in Nat \ {0}
      BY <1>1, <1>4, <1>12 DEF new, first
    <2>2. e.nodeSeq \in Nat \ {0} /\ e.nodes \in [NodeIds(e) -> NodeRows]
          /\ NodeIds(e) \subseteq 1..(e.nodeSeq - 1)
      BY <1>12, <1>13 DEF Storable, RowsStorable
    <2>3. e.blocks \in [DOMAIN e.blocks -> BlockRows]
      BY <1>4, <1>12
    <2> QED
      BY <1>12, <2>1, <2>2, <2>3 DEF RowsStorable
  <1>15. MapsStorable(e)
    BY <1>4, <1>9, <1>10, <1>11, <1>12, <1>13 DEF MapsStorable
  <1> QED
    BY <1>2, <1>4, <1>8, <1>10, <1>12, <1>13, <1>14, <1>15 DEF Storable

(* The rows of one namespace. *)
LEMMA WithinRows ==
  ASSUME NEW d, Storable(d), NEW ns
  PROVE  /\ NodeIds(Within(d, ns)) = NodesIn(d, ns)
         /\ \A n \in NodesIn(d, ns) : n \in NodeIds(d) /\ Within(d, ns).nodes[n] = d.nodes[n]
  <1> DEFINE N == [n \in NodesIn(d, ns) |-> d.nodes[n]]
  <1>1. Within(d, ns) = [d EXCEPT !.nodes = N]
    BY DEF Within
  <1>2. DOMAIN N = NodesIn(d, ns) /\ \A n \in NodesIn(d, ns) : N[n] = d.nodes[n]
    OBVIOUS
  <1> HIDE DEF N
  <1>3. Within(d, ns).nodes = N
    BY <1>1, WithNodes DEF Storable
  <1> QED
    BY <1>2, <1>3, ScopeParts DEF NodeIds

(* The row and the mappings that a write finds or makes, before it attaches
   the new blocks. *)
Opened(d, ns, p) ==
  LET at == NodesAt(Within(d, ns), p)
      f  == IF at = {} THEN d.nodeSeq ELSE CHOOSE n \in at : TRUE
  IN  IF at = {} THEN InsertNode(d, InNamespace(NewFileRow(p, BlockSize), ns))
      ELSE [ReleaseFileBlocks(d, {f}) EXCEPT !.nodes[f].ver = @ + 1]

Target(d, ns, p) ==
  LET at == NodesAt(Within(d, ns), p)
  IN  IF at = {} THEN d.nodeSeq ELSE CHOOSE n \in at : TRUE

LEMMA NewRow ==
  ASSUME NEW p \in Paths, NEW ns \in Namespaces
  PROVE  InNamespace(NewFileRow(p, BlockSize), ns) \in NodeRows
  <1>1. InNamespace(NewFileRow(p, BlockSize), ns)
          = [path |-> p, type |-> "file", size |-> 0, bsize |-> BlockSize, sum |-> NoHash,
             ver |-> 1, ns |-> ns]
    BY DEF NewFileRow, InNamespace
  <1>2. BlockSize \in BlockSizes /\ NoHash \in Seq(Seq(Bytes))
    BY TablesAssumption DEF NoHash
  <1> QED
    BY <1>1, <1>2 DEF NodeRows

LEMMA OpenedStorable ==
  ASSUME NEW d, Storable(d), NEW ns \in Namespaces, NEW p \in Paths,
         NEW e, e = Opened(d, ns, p), NEW f, f = Target(d, ns, p)
  PROVE  /\ Storable(e) /\ f \in NodeIds(e) /\ \A m \in e.maps : m.file # f
         /\ e.maps \subseteq d.maps /\ DOMAIN e.blocks = DOMAIN d.blocks
         /\ \A m \in e.maps : ~d.blocks[m.block].free => ~e.blocks[m.block].free
  <1> DEFINE at == NodesAt(Within(d, ns), p)
  <1>1. CASE at = {}
    <2>1. PICK row : row = InNamespace(NewFileRow(p, BlockSize), ns)
      OBVIOUS
    <2>2. row \in NodeRows
      BY <2>1, NewRow
    <2>3. e = InsertNode(d, row) /\ f = d.nodeSeq
      BY <1>1, <2>1 DEF Opened, Target
    <2>4. /\ Storable(e) /\ f \notin NodeIds(d) /\ f \in NodeIds(e)
          /\ e.maps = d.maps /\ e.blocks = d.blocks
      BY <2>2, <2>3, NodeInserted
    <2>5. \A m \in d.maps : m.file \in NodeIds(d)
      BY DEF Storable, MapsStorable
    <2> QED
      BY <2>4, <2>5
  <1>2. CASE at # {}
    <2>1. PICK g : g = ReleaseFileBlocks(d, {f})
      OBVIOUS
    <2>2. f \in at
      BY <1>2 DEF Target
    <2>3. f \in NodeIds(d)
      BY <2>2, WithinRows DEF NodesAt
    <2>4. e = [g EXCEPT !.nodes[f].ver = @ + 1]
      BY <1>2, <2>1 DEF Opened, Target
    <2>5. /\ Storable(g) /\ g.nodes = d.nodes /\ DOMAIN g.blocks = DOMAIN d.blocks
          /\ g.maps = {m \in d.maps : m.file \notin {f}}
          /\ \A b \in DOMAIN d.blocks :
               g.blocks[b].free => d.blocks[b].free \/ \A m \in g.maps : m.block # b
      BY <2>1, ReleaseStorable
    <2>6. f \in NodeIds(g) /\ g.nodes \in [NodeIds(g) -> NodeRows]
      BY <2>3, <2>5 DEF NodeIds, Storable, RowsStorable
    <2> DEFINE row == [g.nodes[f] EXCEPT !.ver = g.nodes[f].ver + 1]
    <2>7. row \in NodeRows
      <3>1. PICK x : x = g.nodes[f]
        OBVIOUS
      <3>2. x \in NodeRows
        BY <2>6, <3>1
      <3>3. PICK v : v = x.ver + 1
        OBVIOUS
      <3>4. v \in Nat \ {0}
        BY <3>2, <3>3 DEF NodeRows
      <3>5. [x EXCEPT !.ver = v] \in NodeRows
        BY <3>2, <3>4 DEF NodeRows
      <3> QED
        BY <3>1, <3>3, <3>5
    <2>8. e = [g EXCEPT !.nodes[f] = row]
      BY <2>4
    <2> HIDE DEF row
    <2> DEFINE N == [g.nodes EXCEPT ![f] = row]
    <2>9. N \in [NodeIds(g) -> NodeRows]
      BY <2>6, <2>7
    <2>10. e = [g EXCEPT !.nodes = N]
      BY <2>8
    <2>11. DOMAIN N = NodeIds(g)
      BY <2>9
    <2> HIDE DEF N
    <2>12. Storable(e) /\ e.nodes = N /\ e.blocks = g.blocks /\ e.maps = g.maps
      BY <2>5, <2>9, <2>10, StorableNodes
    <2>13. f \in NodeIds(e)
      BY <2>6, <2>11, <2>12 DEF NodeIds
    <2>14. \A m \in d.maps : m.block \in DOMAIN d.blocks
      BY DEF Storable, MapsStorable
    <2> QED
      BY <2>5, <2>12, <2>13, <2>14
  <1> QED
    BY <1>1, <1>2

LEMMA WriteStorable ==
  ASSUME NEW d, Storable(d), NEW ns \in Namespaces, NEW p \in Paths, NEW data \in Seq(Bytes),
         NEW r, r = WriteDb(d, ns, p, data)
  PROVE  /\ Storable(r)
         /\ \A m \in r.maps :
              m.block \in DOMAIN d.blocks /\ ~d.blocks[m.block].free => ~r.blocks[m.block].free
  <1>1. PICK f : f = Target(d, ns, p)
    OBVIOUS
  <1>2. PICK e : e = Opened(d, ns, p)
    OBVIOUS
  <1>3. PICK cs : cs = Chunks(data, BlockSize)
    OBVIOUS
  <1>4. PICK g : g = AttachBlocks(e, f, 0, cs)
    OBVIOUS
  <1>5. r = [g EXCEPT !.nodes[f].size = Len(data), !.nodes[f].bsize = BlockSize,
                      !.nodes[f].sum = Hash(data)]
    BY <1>1, <1>2, <1>3, <1>4 DEF WriteDb, Target, Opened
  <1>6. /\ Storable(e) /\ f \in NodeIds(e) /\ \A m \in e.maps : m.file # f
        /\ e.maps \subseteq d.maps /\ DOMAIN e.blocks = DOMAIN d.blocks
        /\ \A m \in e.maps : ~d.blocks[m.block].free => ~e.blocks[m.block].free
    BY <1>1, <1>2, OpenedStorable
  <1>7. cs \in Seq(Seq(Bytes))
    BY <1>3, TablesAssumption, ChunksType
  <1>8. /\ Storable(g) /\ NodeIds(g) = NodeIds(e)
        /\ \A m \in g.maps : m \in e.maps \/ m.block \notin DOMAIN e.blocks
        /\ \A b \in DOMAIN e.blocks : g.blocks[b] = e.blocks[b]
    BY <1>4, <1>6, <1>7, AttachStorable
  <1>9. /\ f \in NodeIds(g) /\ g.nodes \in [NodeIds(g) -> NodeRows]
    BY <1>6, <1>8 DEF Storable, RowsStorable
  <1>10. r.nodes[f] \in NodeRows
    <2>1. g.nodes[f] \in NodeRows
      BY <1>9
    <2>2. Len(data) \in Nat /\ BlockSize \in BlockSizes /\ Hash(data) \in Seq(Seq(Bytes))
      BY TablesAssumption DEF Hash
    <2>3. /\ r.nodes[f].path = g.nodes[f].path /\ r.nodes[f].type = g.nodes[f].type
          /\ r.nodes[f].size = Len(data) /\ r.nodes[f].bsize = BlockSize
          /\ r.nodes[f].sum = Hash(data)
          /\ r.nodes[f].ver = g.nodes[f].ver /\ r.nodes[f].ns = g.nodes[f].ns
      BY <1>5, <1>8, <1>9, <2>1 DEF Storable, RowsStorable, NodeRows, NodeIds
    <2>4. /\ DOMAIN r.nodes[f] = DOMAIN g.nodes[f]
          /\ r.nodes[f] = [k \in DOMAIN r.nodes[f] |-> r.nodes[f][k]]
      <3>1. "nodes" \in DOMAIN g /\ f \in DOMAIN g.nodes
        BY <1>8, <1>9 DEF Storable, RowsStorable, NodeIds
      <3>2. PICK x : x = g.nodes[f]
        OBVIOUS
      <3>3. r.nodes[f] = [x EXCEPT !.size = Len(data), !.bsize = BlockSize, !.sum = Hash(data)]
        BY <1>5, <3>1, <3>2
      <3>4. PICK y : y = [x EXCEPT !.size = Len(data), !.bsize = BlockSize, !.sum = Hash(data)]
        OBVIOUS
      <3>5. DOMAIN y = DOMAIN x /\ y = [k \in DOMAIN y |-> y[k]]
        BY <3>4
      <3> QED
        BY <3>2, <3>3, <3>4, <3>5
    <2>5. DOMAIN g.nodes[f] = {"path", "type", "size", "bsize", "sum", "ver", "ns"}
      BY <2>1 DEF NodeRows
    <2> QED
      BY <2>1, <2>2, <2>3, <2>4, <2>5 DEF NodeRows
  <1>11. /\ DOMAIN r = DOMAIN g /\ r = [k \in DOMAIN r |-> r[k]]
         /\ r.blocks = g.blocks /\ r.maps = g.maps
         /\ r.nodeSeq = g.nodeSeq /\ r.blockSeq = g.blockSeq
         /\ DOMAIN r.nodes = NodeIds(g) /\ r.nodes = [n \in DOMAIN r.nodes |-> r.nodes[n]]
         /\ \A n \in NodeIds(g) \ {f} : r.nodes[n] = g.nodes[n]
    BY <1>5, <1>8 DEF Storable, RowsStorable, NodeIds
  <1>12. r.nodes \in [NodeIds(g) -> NodeRows]
    BY <1>9, <1>10, <1>11
  <1>13. Storable(r)
    <2>1. DOMAIN g = {"nodes", "blocks", "maps", "nodeSeq", "blockSeq"}
      BY <1>8 DEF Storable, RowsStorable
    <2>2. r = [nodes |-> r.nodes, blocks |-> r.blocks, maps |-> r.maps,
               nodeSeq |-> r.nodeSeq, blockSeq |-> r.blockSeq]
      BY <1>11, <2>1
    <2>3. NodeIds(r) = NodeIds(g)
      BY <1>11 DEF NodeIds
    <2>4. RowsStorable(r)
      BY <1>8, <1>11, <1>12, <2>2, <2>3 DEF Storable, RowsStorable
    <2>5. MapsStorable(r)
      BY <1>8, <1>11, <2>3 DEF Storable, MapsStorable
    <2> QED
      BY <2>4, <2>5 DEF Storable
  <1> QED
    BY <1>6, <1>8, <1>11, <1>13

-----------------------------------------------------------------------------
(* What settled rows show to fsck, to readers and to the dry run *)

(* A block has no more owners in a scope than anywhere, and mappings of the
   same files to the same blocks add none. *)
LEMMA OwnersFewer ==
  ASSUME NEW d, Storable(d), NEW e, Storable(e), NEW b, NEW scope,
         OwnersOf(e, b, scope) \subseteq OwnersOf(d, b, "all")
  PROVE  /\ Cardinality(OwnersOf(e, b, scope)) \in Nat
         /\ Cardinality(OwnersOf(d, b, "all")) \in Nat
         /\ Cardinality(OwnersOf(e, b, scope)) <= Cardinality(OwnersOf(d, b, "all"))
  <1>1. OwnersOf(d, b, "all") \in SUBSET NodeIds(d)
    BY ScopeParts DEF OwnersOf, MapsIn, NodesIn, Storable, MapsStorable
  <1>2. NodeIds(d) \in SUBSET (1..(d.nodeSeq - 1)) /\ d.nodeSeq \in Nat
    BY DEF Storable, RowsStorable
  <1>3. IsFiniteSet(1..(d.nodeSeq - 1))
    BY <1>2, FS_Interval
  <1>4. IsFiniteSet(OwnersOf(d, b, "all"))
    BY <1>1, <1>2, <1>3, FS_Subset
  <1>5. OwnersOf(e, b, scope) \in SUBSET OwnersOf(d, b, "all")
    OBVIOUS
  <1> QED
    BY <1>4, <1>5, FS_Subset, FS_CardinalityType

LEMMA ScopeOwners ==
  ASSUME NEW d, NEW b, NEW scope
  PROVE  OwnersOf(d, b, scope) \subseteq OwnersOf(d, b, "all")
  BY DEF OwnersOf, MapsIn, NodesIn

(* Conflicts are seen within the scope. *)
LEMMA ConflictsSeen ==
  ASSUME NEW d, Storable(d), NEW scope, ConflictFiles(d, scope) = {}
  PROVE  ConflictsWithin(d, scope) = {}
  <1> SUFFICES ASSUME NEW f \in TypedIn(d, scope, "file"), NEW n \in NodesIn(d, d.nodes[f].ns),
                      LikeBelow(d.nodes[f].path, d.nodes[n].path)
               PROVE  FALSE
    BY DEF ConflictsWithin
  <1>1. f \in NodeIds(d) /\ scope \in {"all", d.nodes[f].ns}
    BY DEF TypedIn, NodesIn
  <1>2. n \in NodeIds(d) /\ d.nodes[f].ns \in {"all", d.nodes[n].ns}
    BY DEF NodesIn
  <1>3. d.nodes[f].ns # "all"
    BY <1>1, RepairAssumption DEF Storable, RowsStorable, NodeRows
  <1>4. n \in NodesIn(d, scope)
    BY <1>1, <1>2, <1>3 DEF NodesIn
  <1> QED
    BY <1>4 DEF ConflictFiles, DescendantsIn

(* fsck reports nothing that a repair has to settle. *)
LEMMA SettledPasses ==
  ASSUME NEW d, Storable(d), NEW scope, Settled(d, scope), NEW recover,
         ~Unresolved(d, scope, recover),
         NodesIn(d, scope) = TypedIn(d, scope, "file") \cup TypedIn(d, scope, "directory")
  PROVE  Findings(d, scope) \subseteq IF recover THEN {"path_conflict"} ELSE {}
  <1>1. /\ \A b \in MappedIn(d, scope) :
             ~d.blocks[b].free /\ Describes(d.blocks[b], d.blocks[b].data)
        /\ \A n \in TypedIn(d, scope, "directory") :
             MapsOf(d, n) = {} /\ d.nodes[n].size = 0 /\ d.nodes[n].sum = NoHash
        /\ \A f \in TypedIn(d, scope, "file") :
             Describes(d.nodes[f], Content(d, f)) /\ Contiguous(d, f)
        /\ scope = "all" => \A b \in DOMAIN d.blocks : d.blocks[b].free \/ b \in MappedIn(d, scope)
    BY DEF Settled, StaleRow
  <1>2. /\ ~recover => ConflictFiles(d, scope) = {}
        /\ SharedBlocks(d, scope) = {} /\ InvalidPaths(d, scope) = {}
    BY DEF Unresolved
  <1>3. BlockFindings(d, scope) = {}
    <2> DEFINE checked == {b \in DOMAIN d.blocks :
                             ~d.blocks[b].free /\ (scope = "all" \/ b \in MappedIn(d, scope))}
    <2>1. \A b \in checked : Describes(d.blocks[b], d.blocks[b].data)
      BY <1>1
    <2>2. /\ {b \in checked : d.blocks[b].sum \notin {NoHash, Hash(d.blocks[b].data)}} = {}
          /\ {b \in checked : d.blocks[b].size # Len(d.blocks[b].data)} = {}
      BY <2>1 DEF Describes
    <2> QED
      BY <2>2 DEF BlockFindings, Found
  <1>4. GraphFindings(d, scope) = {}
    <2>1. {b \in MappedIn(d, scope) : d.blocks[b].free} = {}
      BY <1>1
    <2>2. {b \in MappedIn(d, scope) : Cardinality(OwnersOf(d, b, scope)) > 1} = {}
      <3> SUFFICES ASSUME NEW b \in MappedIn(d, scope), Cardinality(OwnersOf(d, b, scope)) > 1
                   PROVE  FALSE
        OBVIOUS
      <3>1. ~(Cardinality(OwnersOf(d, b, "all")) > 1)
        BY <1>2 DEF SharedBlocks
      <3> QED
        BY <3>1, ScopeOwners, OwnersFewer
    <2>3. {b \in DOMAIN d.blocks :
             scope = "all" /\ ~d.blocks[b].free /\ b \notin MappedIn(d, "all")} = {}
      BY <1>1
    <2> QED
      BY <2>1, <2>2, <2>3 DEF GraphFindings, Found
  <1>5. NodeFindings(d, scope) \subseteq IF recover THEN {"path_conflict"} ELSE {}
    <2> DEFINE directories == TypedIn(d, scope, "directory")
               others == NodesIn(d, scope) \ directories
    <2>1. others = TypedIn(d, scope, "file")
      BY ScopeParts
    <2>2. /\ others \ TypedIn(d, scope, "file") = {}
          /\ {n \in directories : MapsOf(d, n) # {}} = {}
          /\ {n \in directories : d.nodes[n].size # 0} = {}
          /\ {n \in directories : d.nodes[n].sum # NoHash} = {}
      BY <1>1, <2>1
    <2>3. /\ {n \in others : d.nodes[n].size # Len(Content(d, n))} = {}
          /\ {n \in others : d.nodes[n].sum \notin {NoHash, Hash(Content(d, n))}} = {}
          /\ {n \in others : ~Contiguous(d, n)} = {}
      BY <1>1, <2>1 DEF Describes
    <2>4. ~recover => ConflictsWithin(d, scope) = {}
      BY <1>2, ConflictsSeen
    <2> HIDE DEF directories, others
    <2>5. NodeFindings(d, scope) = Found("path_conflict", ConflictsWithin(d, scope))
      BY <1>2, <2>2, <2>3 DEF NodeFindings, Found, directories, others
    <2> QED
      BY <2>4, <2>5 DEF Found
  <1> QED
    BY <1>3, <1>4, <1>5 DEF Findings

(* The version of a file grows when its size, checksum or mappings change. *)
LEMMA VersionCounts ==
  ASSUME NEW d, Storable(d), NEW scope, NEW e, RowsRepaired(d, e, scope),
         NEW f \in TypedIn(d, "all", "file")
  PROVE  LET Relied(x) == <<x.nodes[f].size, x.nodes[f].sum, MapsOf(x, f)>>
         IN  e.nodes[f].ver = d.nodes[f].ver + IF Relied(e) = Relied(d) THEN 0 ELSE 1
  <1> DEFINE Relied(x) == <<x.nodes[f].size, x.nodes[f].sum, MapsOf(x, f)>>
  <1>1. f \in NodeIds(d) /\ d.nodes[f].type = "file"
    BY DEF TypedIn, NodesIn
  <1>2. d.nodes[f].ver \in Nat /\ d.nodes[f].ver + 0 = d.nodes[f].ver
    BY <1>1 DEF Storable, RowsStorable, NodeRows
  <1>3. CASE f \notin NodesIn(d, scope)
    <2>1. e.nodes[f] = d.nodes[f] /\ MapsOf(e, f) = MapsOf(d, f)
      BY <1>1, <1>3 DEF RowsRepaired
    <2> QED
      BY <1>2, <2>1
  <1>4. CASE f \in NodesIn(d, scope)
    <2>1. f \in TypedIn(d, scope, "file")
      BY <1>1, <1>4 DEF TypedIn
    <2>2. Ordered(MapsOf(d, f)) /\ MapsOf(e, f) = Renumbered(MapsOf(d, f))
      BY <2>1, StorableMaps DEF Storable, RowsRepaired
    <2>3. CASE StaleRow(d, f)
      <3>1. Describes(e.nodes[f], Content(d, f)) /\ e.nodes[f].ver = d.nodes[f].ver + 1
        BY <2>1, <2>3 DEF RowsRepaired
      <3>2. CASE ~Describes(d.nodes[f], Content(d, f))
        <4>1. ~(d.nodes[f].size = e.nodes[f].size /\ d.nodes[f].sum = e.nodes[f].sum)
          BY <3>1, <3>2 DEF Describes
        <4> QED
          BY <3>1, <4>1
      <3>3. CASE ~Contiguous(d, f)
        <4>1. MapsOf(e, f) # MapsOf(d, f)
          BY <2>2, <3>3, RenumberedShape DEF Contiguous, SequencesOf
        <4> QED
          BY <3>1, <4>1
      <3> QED
        BY <2>3, <3>2, <3>3 DEF StaleRow
    <2>4. CASE ~StaleRow(d, f)
      <3>1. /\ e.nodes[f].size = d.nodes[f].size /\ e.nodes[f].sum = d.nodes[f].sum
            /\ e.nodes[f].ver = d.nodes[f].ver
        BY <2>1, <2>4 DEF RowsRepaired
      <3>2. MapsOf(e, f) = MapsOf(d, f)
        BY <2>2, <2>4, RenumberedContiguous DEF StaleRow, Contiguous, SequencesOf
      <3> QED
        BY <1>2, <3>1, <3>2
    <2> QED
      BY <2>3, <2>4
  <1> QED
    BY <1>3, <1>4

(* A recovered path is refused because of what stood in it before. *)
LEMMA RootValid ==
  ASSUME NEW p \in Seq(Names), NEW x \in Names, NEW s \in Names \ InvalidNames
  PROVE  /\ Valid(<<x, s>> \o p) <=> x \notin InvalidNames /\ Valid(p)
         /\ <<x, s>> \o p # p
  <1> DEFINE q == <<x, s>> \o p
  <1>1. <<x, s>> \in Seq(Names) /\ Len(<<x, s>>) = 2 /\ Len(p) \in Nat
    OBVIOUS
  <1>2. Len(q) = 2 + Len(p) /\ \A i \in 1..Len(q) : q[i] = IF i <= 2 THEN <<x, s>>[i] ELSE p[i - 2]
    BY <1>1, ConcatProperties
  <1>3. q # p
    BY <1>1, <1>2
  <1>4. q[1] = x /\ q[2] = s
    BY <1>1, <1>2
  <1>5. \A i \in 1..Len(p) : i + 2 \in 1..Len(q) /\ q[i + 2] = p[i]
    BY <1>1, <1>2
  <1>6. \A i \in 1..Len(q) : i \in {1, 2} \/ (i - 2 \in 1..Len(p) /\ q[i] = p[i - 2])
    BY <1>1, <1>2
  <1> HIDE DEF q
  <1>7. ASSUME Valid(q) PROVE x \notin InvalidNames /\ Valid(p)
    <2>1. 1 \in 1..Len(q)
      BY <1>1, <1>2
    <2> QED
      BY <1>4, <1>5, <1>7, <2>1 DEF Valid
  <1>8. ASSUME x \notin InvalidNames, Valid(p) PROVE Valid(q)
    BY <1>4, <1>6, <1>8 DEF Valid
  <1> QED
    BY <1>3, <1>7, <1>8 DEF q

(* Repaired rows have the paths, and so the conflicts, of the rows before. *)
LEMMA SameConflicts ==
  ASSUME NEW d, NEW c, SameNodes(d, c), \A n \in NodeIds(d) : c.nodes[n].path = d.nodes[n].path,
         NEW scope
  PROVE  /\ ConflictFiles(c, scope) = ConflictFiles(d, scope)
         /\ \A n : AboveIn(c, scope, n) = AboveIn(d, scope, n)
         /\ InvalidPaths(c, scope) = InvalidPaths(d, scope)
  <1>1. /\ NodesIn(c, scope) = NodesIn(d, scope)
        /\ TypedIn(c, scope, "file") = TypedIn(d, scope, "file")
        /\ NodesIn(d, scope) \subseteq NodeIds(d)
        /\ TypedIn(d, scope, "file") \subseteq NodeIds(d)
    BY SameScopes, ScopeParts
  <1>2. \A f \in TypedIn(d, scope, "file") : DescendantsIn(c, scope, f) = DescendantsIn(d, scope, f)
    BY <1>1 DEF DescendantsIn
  <1>3. ConflictFiles(c, scope) = ConflictFiles(d, scope)
    BY <1>1, <1>2 DEF ConflictFiles
  <1>4. ConflictFiles(d, scope) \subseteq TypedIn(d, scope, "file")
    BY DEF ConflictFiles
  <1>5. \A n : AboveIn(c, scope, n) = AboveIn(d, scope, n)
    BY <1>2, <1>3, <1>4 DEF AboveIn
  <1>6. InvalidPaths(c, scope) = InvalidPaths(d, scope)
    BY <1>1 DEF InvalidPaths
  <1> QED
    BY <1>3, <1>5, <1>6

(* Repaired rows share no block that was not shared before. *)
LEMMA SharedBefore ==
  ASSUME NEW d, Storable(d), NEW e, Storable(e), NEW scope, RowsRepaired(d, e, scope),
         SharedBlocks(e, scope) # {}
  PROVE  SharedBlocks(d, scope) # {}
  <1>1. PICK b \in MappedIn(e, scope) : Cardinality(OwnersOf(e, b, "all")) > 1
    BY DEF SharedBlocks
  <1>2. SameNodes(d, e) /\ \A k \in e.maps : \E m \in d.maps : k.file = m.file /\ k.block = m.block
    BY DEF RowsRepaired
  <1>3. NodesIn(e, scope) = NodesIn(d, scope) /\ NodesIn(e, "all") = NodesIn(d, "all")
    BY <1>2, SameScopes
  <1>4. b \in MappedIn(d, scope)
    BY <1>1, <1>2, <1>3, ScopeParts
  <1>5. OwnersOf(e, b, "all") \subseteq OwnersOf(d, b, "all")
    BY <1>2, <1>3 DEF OwnersOf, MapsIn
  <1>6. Cardinality(OwnersOf(d, b, "all")) > 1
    BY <1>1, <1>5, OwnersFewer
  <1> QED
    BY <1>4, <1>6 DEF SharedBlocks

(* A dry run does not say "ok" of a repair that ends with a refused path or
   with something left to do. *)
LEMMA PreviewSees ==
  ASSUME NEW d, Storable(d), NEW scope, NEW recover, NEW stamp, NEW first,
         Moves(d, scope, recover) =>
           stamp \in Names \ InvalidNames /\ first \in Names \ InvalidNames,
         NEW r, r = RepairResult(d, scope, recover, stamp),
         r.outcome \in {"attention", "invalid path"}
  PROVE  PreviewOutcome(d, scope, recover, first) # "ok"
  <1>1. PICK c : c = Repaired(d, scope)
    OBVIOUS
  <1>2. PICK e : e = IF Moves(d, scope, recover) THEN Recovered(c, scope, stamp) ELSE c
    OBVIOUS
  <1>3. r = IF \E n \in Moved(d, e) : ~Valid(e.nodes[n].path)
            THEN [db |-> d, outcome |-> "invalid path"]
            ELSE IF \E n \in Moved(d, e) : ~Fits(e.nodes[n].path)
            THEN [db |-> d, outcome |-> "path too long"]
            ELSE [db |-> e, outcome |-> IF Unresolved(e, scope, recover) THEN "attention" ELSE "ok"]
    BY <1>1, <1>2 DEF RepairResult
  <1>4. Storable(c) /\ SameNodes(d, c) /\ NodesRepaired(d, c, scope) /\ BlocksRepaired(d, c, scope)
    BY <1>1, RepairedShape
  <1>5. RowsRepaired(d, c, scope) /\ Settled(c, scope)
    BY <1>4, RepairedRows, RepairedSettled
  <1>6. RowsRepaired(d, e, scope)
    BY <1>2, <1>4, <1>5, RecoveredRows
  <1>7. \A n \in NodeIds(d) : c.nodes[n].path = d.nodes[n].path
    BY <1>4 DEF NodesRepaired
  <1>8. /\ ConflictFiles(c, scope) = ConflictFiles(d, scope)
        /\ \A n : AboveIn(c, scope, n) = AboveIn(d, scope, n)
        /\ InvalidPaths(c, scope) = InvalidPaths(d, scope)
    BY <1>4, <1>7, SameConflicts
  <1>9. PICK m : m = Recovered(d, scope, first)
    OBVIOUS
  <1>10. CASE \E n \in Moved(d, e) : ~Valid(e.nodes[n].path)
    <2>1. PICK n \in Moved(d, e) : ~Valid(e.nodes[n].path)
      BY <1>10
    <2>2. n \in NodeIds(d) /\ e.nodes[n].path # d.nodes[n].path
      BY DEF Moved
    <2>3. Moves(d, scope, recover)
      BY <1>2, <1>7, <2>2
    <2>4. e.nodes[n].path = PathRecovered(c, scope, stamp, n)
      <3>1. e = Recovered(c, scope, stamp) /\ n \in NodeIds(c)
        BY <1>2, <1>4, <2>2, <2>3 DEF SameNodes
      <3>2. RowMoved(c, e, scope, stamp, n)
        BY <1>4, <3>1, RecoveredShape
      <3> QED
        BY <3>2 DEF RowMoved
    <2>5. m.nodes[n].path = PathRecovered(d, scope, first, n)
      <3>1. RowMoved(d, m, scope, first, n)
        BY <1>9, <2>2, RecoveredShape
      <3> QED
        BY <3>1 DEF RowMoved
    <2>6. AboveIn(c, scope, n) # {}
      BY <1>7, <2>2, <2>4 DEF PathRecovered
    <2>7. PICK f : f = Max(AboveIn(d, scope, n))
      OBVIOUS
    <2>8. f \in NodeIds(d) /\ AboveIn(d, scope, n) # {}
      BY <1>8, <2>6, <2>7, AboveLast
    <2>9. c.nodes[f].ns = d.nodes[f].ns /\ c.nodes[n].path = d.nodes[n].path
      BY <1>4, <1>7, <2>2, <2>8 DEF SameNodes
    <2>10. /\ e.nodes[n].path = <<d.nodes[f].ns, stamp>> \o d.nodes[n].path
           /\ m.nodes[n].path = <<d.nodes[f].ns, first>> \o d.nodes[n].path
      BY <1>8, <2>4, <2>5, <2>7, <2>8, <2>9 DEF PathRecovered, RecoveryRoot
    <2>11. d.nodes[f].ns \in Names /\ d.nodes[n].path \in Seq(Names)
      BY <2>2, <2>8, RepairAssumption, PathsType DEF Storable, RowsStorable, NodeRows
    <2>12. ~Valid(m.nodes[n].path) /\ m.nodes[n].path # d.nodes[n].path
      <3>1. PICK p : p = d.nodes[n].path
        OBVIOUS
      <3>2. PICK x : x = d.nodes[f].ns
        OBVIOUS
      <3>3. /\ p \in Seq(Names) /\ x \in Names
            /\ stamp \in Names \ InvalidNames /\ first \in Names \ InvalidNames
        BY <2>3, <2>11, <3>1, <3>2
      <3>4. Valid(<<x, stamp>> \o p) <=> x \notin InvalidNames /\ Valid(p)
        BY <3>3, RootValid
      <3>5. /\ Valid(<<x, first>> \o p) <=> x \notin InvalidNames /\ Valid(p)
            /\ <<x, first>> \o p # p
        BY <3>3, RootValid
      <3> QED
        BY <2>1, <2>10, <3>1, <3>2, <3>4, <3>5
    <2>13. \E x \in Moved(d, m) : ~Valid(m.nodes[x].path)
      BY <2>2, <2>12 DEF Moved
    <2> QED
      BY <1>9, <2>3, <2>13 DEF PreviewOutcome
  <1>11. CASE ~\E n \in Moved(d, e) : ~Valid(e.nodes[n].path)
    <2>1. Unresolved(e, scope, recover) /\ Storable(e)
      <3>1. CASE \E n \in Moved(d, e) : ~Fits(e.nodes[n].path)
        <4>1. r = [db |-> d, outcome |-> "path too long"]
          BY <1>3, <1>11, <3>1
        <4>2. r.outcome = "path too long"
          BY <4>1, ResultFields
        <4> QED
          BY <4>2
      <3>2. CASE ~\E n \in Moved(d, e) : ~Fits(e.nodes[n].path)
        <4>1. PICK o : o = IF Unresolved(e, scope, recover) THEN "attention" ELSE "ok"
          OBVIOUS
        <4>2. r = [db |-> e, outcome |-> o]
          BY <1>3, <1>11, <3>2, <4>1
        <4>3. r.db = e /\ r.outcome = o
          BY <4>2, ResultFields
        <4>4. Unresolved(e, scope, recover)
          BY <4>1, <4>3
        <4>5. Storable(r.db)
          BY RepairEnds
        <4> QED
          BY <4>3, <4>4, <4>5
      <3> QED
        BY <3>1, <3>2
    <2>2. CASE ~recover /\ ConflictFiles(e, scope) # {}
      BY <1>2, <1>8, <2>2 DEF Moves, Unresolved, PreviewOutcome
    <2>3. CASE SharedBlocks(e, scope) # {}
      <3>1. SharedBlocks(d, scope) # {}
        BY <1>6, <2>1, <2>3, SharedBefore
      <3> QED
        BY <3>1 DEF Unresolved, PreviewOutcome
    <2>4. CASE InvalidPaths(e, scope) # {}
      <3>1. PICK n \in NodesIn(e, scope) : ~Valid(e.nodes[n].path)
        BY <2>4 DEF InvalidPaths
      <3>2. n \in NodesIn(d, scope) /\ n \in NodeIds(d)
        <4>1. SameNodes(d, e)
          BY <1>6 DEF RowsRepaired
        <4>2. NodesIn(e, scope) = NodesIn(d, scope)
          BY <4>1, SameScopes
        <4> QED
          BY <3>1, <4>2, ScopeParts
      <3>3. e.nodes[n].path = d.nodes[n].path
        BY <1>11, <3>1, <3>2 DEF Moved
      <3>4. InvalidPaths(d, scope) # {}
        BY <3>1, <3>2, <3>3 DEF InvalidPaths
      <3> QED
        BY <3>4 DEF Unresolved, PreviewOutcome
    <2> QED
      BY <2>1, <2>2, <2>3, <2>4 DEF Unresolved
  <1> QED
    BY <1>10, <1>11

-----------------------------------------------------------------------------
(* The steps *)

(* What the steps keep: rows that the columns take, whatever was damaged. *)
Stored == Storable(db) /\ recovered \in Nat /\ damage \in Nat /\ scenario \in Scenarios

(* Blocks that were in use and are mapped are in use. *)
BlocksStayLive(d, e) ==
  \A m \in e.maps :
    m.block \in DOMAIN d.blocks /\ ~d.blocks[m.block].free => ~e.blocks[m.block].free

LEMMA ScenarioTypes ==
  ASSUME scenario \in Scenarios
  PROVE  scenario.paths \subseteq Paths /\ scenario.payloads \subseteq Seq(Bytes)
  BY RepairAssumption

LEMMA WriteStep ==
  ASSUME Stored, NEW ns \in Namespaces, NEW p \in scenario.paths, NEW data \in scenario.payloads,
         Write(ns, p, data)
  PROVE  /\ Storable(db') /\ last' = Nothing /\ recovered' = recovered /\ damage' = damage
         /\ BlocksStayLive(db, db')
  <1>1. p \in Paths /\ data \in Seq(Bytes)
    BY ScenarioTypes DEF Stored
  <1>2. /\ db' = WriteDb(db, ns, p, data)
        /\ last' = Nothing /\ recovered' = recovered /\ damage' = damage
    BY DEF Write
  <1> QED
    BY <1>1, <1>2, WriteStorable DEF Stored, BlocksStayLive

(* Damage of one kind that leaves storable rows. *)
LEMMA DamageStep ==
  ASSUME Stored, NEW kind, NEW d, Storable(d), Damage(kind, d)
  PROVE  /\ Storable(db') /\ last' = Nothing /\ recovered' = recovered
         /\ damage' \in Nat /\ damage' # damage
  BY DEF Damage, Stored

(* What the damage actions leave. *)
Damaged ==
  /\ Storable(db') /\ last' = Nothing /\ recovered' = recovered
  /\ damage' \in Nat /\ damage' # damage

LEMMA DamageBlockStep ==
  ASSUME Stored, DamageBlock
  PROVE  Damaged
  <1>1. PICK b \in DOMAIN db.blocks :
          LET row == db.blocks[b] IN
          \E new \in {[row EXCEPT !.free = ~@], [row EXCEPT !.size = @ + 1],
                      [row EXCEPT !.sum = NoHash], [row EXCEPT !.sum = Hash(<<>>)],
                      [row EXCEPT !.data = <<>>]} :
            Damage("block", [db EXCEPT !.blocks[b] = new])
    BY DEF DamageBlock
  <1>2. PICK row : row = db.blocks[b]
    OBVIOUS
  <1>3. row \in BlockRows
    BY <1>2 DEF Stored, Storable, RowsStorable
  <1>4. PICK new \in {[row EXCEPT !.free = ~row.free], [row EXCEPT !.size = row.size + 1],
                      [row EXCEPT !.sum = NoHash], [row EXCEPT !.sum = Hash(<<>>)],
                      [row EXCEPT !.data = <<>>]} :
          Damage("block", [db EXCEPT !.blocks[b] = new])
    BY <1>1, <1>2
  <1>5. /\ (~row.free) \in BOOLEAN /\ row.size + 1 \in Nat /\ NoHash \in Seq(Seq(Bytes))
        /\ Hash(<<>>) \in Seq(Seq(Bytes)) /\ <<>> \in Seq(Bytes)
    BY <1>3 DEF BlockRows, NoHash, Hash
  <1>6. ASSUME NEW x \in BOOLEAN PROVE [row EXCEPT !.free = x] \in BlockRows
    BY <1>3 DEF BlockRows
  <1>7. ASSUME NEW x \in Nat PROVE [row EXCEPT !.size = x] \in BlockRows
    BY <1>3 DEF BlockRows
  <1>8. ASSUME NEW x \in Seq(Seq(Bytes)) PROVE [row EXCEPT !.sum = x] \in BlockRows
    BY <1>3 DEF BlockRows
  <1>9. ASSUME NEW x \in Seq(Bytes) PROVE [row EXCEPT !.data = x] \in BlockRows
    BY <1>3 DEF BlockRows
  <1>10. new \in BlockRows
    BY <1>5, <1>6, <1>7, <1>8, <1>9
  <1>11. Storable([db EXCEPT !.blocks[b] = new])
    BY <1>10, BlockChanged DEF Stored
  <1> QED
    BY <1>4, <1>11, DamageStep DEF Damaged

LEMMA DamageNodeStep ==
  ASSUME Stored, DamageNode
  PROVE  Damaged
  <1>1. PICK n \in NodeIds(db) :
          LET row == db.nodes[n] IN
          \E new \in {[row EXCEPT !.size = @ + 1], [row EXCEPT !.sum = NoHash],
                      [row EXCEPT !.sum = Hash(<<>>)]} :
            Damage("node", [db EXCEPT !.nodes[n] = new])
    BY DEF DamageNode
  <1>2. PICK row : row = db.nodes[n]
    OBVIOUS
  <1>3. row \in NodeRows
    BY <1>2 DEF Stored, Storable, RowsStorable
  <1>4. PICK new \in {[row EXCEPT !.size = row.size + 1], [row EXCEPT !.sum = NoHash],
                      [row EXCEPT !.sum = Hash(<<>>)]} :
          Damage("node", [db EXCEPT !.nodes[n] = new])
    BY <1>1, <1>2
  <1>5. /\ row.size + 1 \in Nat /\ NoHash \in Seq(Seq(Bytes))
        /\ Hash(<<>>) \in Seq(Seq(Bytes))
    BY <1>3 DEF NodeRows, NoHash, Hash
  <1>6. ASSUME NEW x \in Nat PROVE [row EXCEPT !.size = x] \in NodeRows
    BY <1>3 DEF NodeRows
  <1>7. ASSUME NEW x \in Seq(Seq(Bytes)) PROVE [row EXCEPT !.sum = x] \in NodeRows
    BY <1>3 DEF NodeRows
  <1>8. new \in NodeRows
    BY <1>5, <1>6, <1>7
  <1>9. Storable([db EXCEPT !.nodes[n] = new])
    BY <1>8, NodeChanged DEF Stored
  <1> QED
    BY <1>4, <1>9, DamageStep DEF Damaged

(* One field of a node row changed. *)
LEMMA FieldChanged ==
  ASSUME NEW d, Storable(d), NEW n \in NodeIds(d)
  PROVE  /\ \A t \in {"file", "directory", "other"} : Storable([d EXCEPT !.nodes[n].type = t])
         /\ \A p \in Paths : Storable([d EXCEPT !.nodes[n].path = p])
  <1>1. d.nodes[n] \in NodeRows
    BY DEF Storable, RowsStorable
  <1>2. ASSUME NEW t \in {"file", "directory", "other"}
        PROVE  Storable([d EXCEPT !.nodes[n].type = t])
    <2> DEFINE row == [d.nodes[n] EXCEPT !.type = t]
    <2>1. row \in NodeRows
      BY <1>1 DEF NodeRows
    <2>2. [d EXCEPT !.nodes[n].type = t] = [d EXCEPT !.nodes[n] = row]
      OBVIOUS
    <2> HIDE DEF row
    <2> QED
      BY <2>1, <2>2, NodeChanged
  <1>3. ASSUME NEW p \in Paths
        PROVE  Storable([d EXCEPT !.nodes[n].path = p])
    <2> DEFINE row == [d.nodes[n] EXCEPT !.path = p]
    <2>1. row \in NodeRows
      BY <1>1 DEF NodeRows
    <2>2. [d EXCEPT !.nodes[n].path = p] = [d EXCEPT !.nodes[n] = row]
      OBVIOUS
    <2> HIDE DEF row
    <2> QED
      BY <2>1, <2>2, NodeChanged
  <1> QED
    BY <1>2, <1>3

LEMMA DamageTypeStep ==
  ASSUME Stored, DamageType
  PROVE  Damaged
  <1>1. PICK n \in NodeIds(db), t \in {"file", "directory", "other"} :
          Damage("type", [db EXCEPT !.nodes[n].type = t])
    BY DEF DamageType
  <1>2. Storable([db EXCEPT !.nodes[n].type = t])
    BY FieldChanged DEF Stored
  <1> QED
    BY <1>1, <1>2, DamageStep DEF Damaged

LEMMA DamagePathStep ==
  ASSUME Stored, DamagePath
  PROVE  Damaged
  <1>1. PICK n \in NodeIds(db), p \in scenario.paths :
          Damage("path", [db EXCEPT !.nodes[n].path = p])
    BY DEF DamagePath
  <1>2. p \in Paths
    BY ScenarioTypes DEF Stored
  <1>3. Storable([db EXCEPT !.nodes[n].path = p])
    BY <1>2, FieldChanged DEF Stored
  <1> QED
    BY <1>1, <1>3, DamageStep DEF Damaged

LEMMA DamageMappingStep ==
  ASSUME Stored, DamageMapping
  PROVE  Damaged
  <1>1. ASSUME NEW m \in db.maps, Damage("mapping", [db EXCEPT !.maps = @ \ {m}])
        PROVE  Damaged
    BY <1>1, MappingRemoved, DamageStep DEF Damaged, Stored
  <1>2. ASSUME NEW f \in NodeIds(db), NEW b \in DOMAIN db.blocks, NEW s \in 0..MaxSequence,
               s \notin SequencesOf(db, f),
               Damage("mapping", [db EXCEPT !.maps = @ \cup {[file |-> f, block |-> b, seq |-> s]}])
        PROVE  Damaged
    <2>1. s \in Nat
      BY RepairAssumption
    <2>2. Storable([db EXCEPT !.maps = @ \cup {[file |-> f, block |-> b, seq |-> s]}])
      BY <1>2, <2>1, MappingAdded DEF Stored
    <2> QED
      BY <1>2, <2>2, DamageStep DEF Damaged
  <1> QED
    BY <1>1, <1>2 DEF DamageMapping

(* How a repair of scope ends in the state after it. *)
Committed(scope, recover) ==
  /\ RowsRepaired(db, db', scope) /\ Settled(db', scope)
  /\ last'.outcome = IF Unresolved(db', scope, recover) THEN "attention" ELSE "ok"

RolledBack == db' = db /\ last'.outcome \in {"invalid path", "path too long"}

LEMMA RepairStep ==
  ASSUME Stored, NEW scope \in Scopes, NEW recover \in BOOLEAN, Repair(scope, recover)
  PROVE  /\ Storable(db') /\ recovered' \in Nat /\ damage' = damage
         /\ last'.op = "repair" /\ last'.scope = scope /\ last'.recover = recover
         /\ RolledBack \/ Committed(scope, recover)
         /\ last'.outcome \in {"attention", "invalid path"} =>
              PreviewOutcome(db, scope, recover, Stamps[1]) # "ok"
  <1>1. PICK stamp : stamp = IF recovered < Len(Stamps) THEN Stamps[recovered + 1] ELSE Stamps[1]
    OBVIOUS
  <1>2. PICK r : r = RepairResult(db, scope, recover, stamp)
    OBVIOUS
  <1>3. /\ Moves(db, scope, recover) => recovered < Len(Stamps)
        /\ db' = r.db
        /\ last' = [op |-> "repair", scope |-> scope, recover |-> recover, outcome |-> r.outcome]
        /\ recovered' = recovered + IF Moves(db, scope, recover) THEN 1 ELSE 0
        /\ damage' = damage
    BY <1>1, <1>2 DEF Repair
  <1>4. /\ last'.op = "repair" /\ last'.scope = scope /\ last'.recover = recover
        /\ last'.outcome = r.outcome
    BY <1>3
  <1>5. recovered' \in Nat /\ recovered \in Nat
    BY <1>3 DEF Stored
  <1>6. Moves(db, scope, recover) =>
          stamp \in Names \ InvalidNames /\ Stamps[1] \in Names \ InvalidNames
    <2> SUFFICES ASSUME Moves(db, scope, recover)
                 PROVE  stamp \in Names \ InvalidNames /\ Stamps[1] \in Names \ InvalidNames
      OBVIOUS
    <2>1. recovered < Len(Stamps) /\ Len(Stamps) \in Nat
      BY <1>3, RepairAssumption
    <2>2. recovered + 1 \in 1..Len(Stamps) /\ 1 \in 1..Len(Stamps)
      BY <1>5, <2>1
    <2>3. stamp = Stamps[recovered + 1]
      BY <1>1, <2>1
    <2> QED
      BY <2>2, <2>3, RepairAssumption
  <1>7. Storable(db) /\ (Moves(db, scope, recover) => stamp \in Names)
    BY <1>6 DEF Stored
  <1>8. /\ Storable(r.db)
        /\ \/ r.db = db /\ r.outcome \in {"invalid path", "path too long"}
           \/ /\ RowsRepaired(db, r.db, scope) /\ Settled(r.db, scope)
              /\ r.outcome = IF Unresolved(r.db, scope, recover) THEN "attention" ELSE "ok"
    BY <1>2, <1>7, RepairEnds
  <1>9. r.outcome \in {"attention", "invalid path"} =>
          PreviewOutcome(db, scope, recover, Stamps[1]) # "ok"
    BY <1>2, <1>6, <1>7, PreviewSees
  <1>10. RolledBack \/ Committed(scope, recover)
    BY <1>3, <1>4, <1>8 DEF RolledBack, Committed
  <1> QED
    BY <1>3, <1>4, <1>5, <1>8, <1>9, <1>10

-----------------------------------------------------------------------------
(* Theorems *)

(* What a step that is no repair leaves. *)
Unrepaired ==
  /\ Storable(db') /\ last' = Nothing /\ recovered' = recovered /\ damage' \in Nat
  /\ damage' = damage => BlocksStayLive(db, db')

LEMMA StepKinds ==
  ASSUME Stored, Next
  PROVE  /\ scenario' = scenario
         /\ Unrepaired \/ \E scope \in Scopes, recover \in BOOLEAN : Repair(scope, recover)
  <1>1. Step /\ scenario' = scenario
    BY DEF Next
  <1>2. ASSUME NEW ns \in Namespaces, NEW p \in scenario.paths, NEW data \in scenario.payloads,
               Write(ns, p, data)
        PROVE  Unrepaired
    BY <1>2, WriteStep DEF Unrepaired, Stored
  <1>3. Damaged => Unrepaired
    BY DEF Damaged, Unrepaired
  <1>4. DamageBlock => Unrepaired
    BY <1>3, DamageBlockStep
  <1>5. DamageNode => Unrepaired
    BY <1>3, DamageNodeStep
  <1>6. DamageType => Unrepaired
    BY <1>3, DamageTypeStep
  <1>7. DamageMapping => Unrepaired
    BY <1>3, DamageMappingStep
  <1>8. DamagePath => Unrepaired
    BY <1>3, DamagePathStep
  <1> QED
    BY <1>1, <1>2, <1>4, <1>5, <1>6, <1>7, <1>8 DEF Step

LEMMA InitStored == Init => Stored /\ RepairSettles
  BY EmptyStorable DEF Init, Stored, RepairSettles, JustRepaired, Nothing

LEMMA NextStored ==
  ASSUME Stored, [Next]_vars
  PROVE  Stored'
  <1>1. CASE Next
    <2>1. scenario' \in Scenarios
      BY <1>1, StepKinds DEF Stored
    <2>2. CASE Unrepaired
      BY <2>1, <2>2 DEF Unrepaired, Stored
    <2>3. ASSUME NEW scope \in Scopes, NEW recover \in BOOLEAN, Repair(scope, recover)
          PROVE  Stored'
      <3>1. Storable(db') /\ recovered' \in Nat /\ damage' = damage
        BY <2>3, RepairStep
      <3> QED
        BY <2>1, <3>1 DEF Stored
    <2> QED
      BY <1>1, <2>2, <2>3, StepKinds
  <1>2. CASE UNCHANGED vars
    BY <1>2 DEF vars, Stored
  <1> QED
    BY <1>1, <1>2

LEMMA NextSettles ==
  ASSUME Stored, RepairSettles, [Next]_vars
  PROVE  RepairSettles'
  <1>1. CASE Next
    <2>1. CASE Unrepaired
      <3>1. ~JustRepaired'
        BY <2>1 DEF Unrepaired, Nothing, JustRepaired
      <3> QED
        BY <3>1 DEF RepairSettles
    <2>2. ASSUME NEW scope \in Scopes, NEW recover \in BOOLEAN, Repair(scope, recover)
          PROVE  RepairSettles'
      <3>1. /\ Storable(db') /\ last'.scope = scope /\ last'.recover = recover
            /\ RolledBack \/ Committed(scope, recover)
        BY <2>2, RepairStep
      <3>2. CASE RolledBack
        <4>1. ~Ended'
          BY <3>2 DEF RolledBack, Ended
        <4> QED
          BY <4>1 DEF RepairSettles
      <3>3. CASE Committed(scope, recover)
        <4>1. PICK e : e = db'
          OBVIOUS
        <4>2. Storable(e) /\ Settled(e, scope)
          BY <3>1, <3>3, <4>1 DEF Committed
        <4>3. last'.outcome = IF Unresolved(e, scope, recover) THEN "attention" ELSE "ok"
          BY <3>3, <4>1 DEF Committed
        <4>4. RepairedPassesFsck'
          <5> SUFFICES ASSUME last'.outcome = "ok",
                              NodesIn(e, scope) = TypedIn(e, scope, "file")
                                                    \cup TypedIn(e, scope, "directory")
                       PROVE  Findings(e, scope) \subseteq IF recover THEN {"path_conflict"} ELSE {}
            BY <3>1, <4>1 DEF RepairedPassesFsck
          <5>1. ~Unresolved(e, scope, recover)
            BY <4>3
          <5> QED
            BY <4>2, <5>1, SettledPasses
        <4>5. RepairedFilesVerify'
          <5> SUFFICES ASSUME NEW f \in TypedIn(e, scope, "file")
                       PROVE  /\ Describes(e.nodes[f], Content(e, f))
                              /\ \A m \in MapsOf(e, f) :
                                   ~e.blocks[m.block].free
                                   /\ Describes(e.blocks[m.block], e.blocks[m.block].data)
            BY <3>1, <4>1 DEF RepairedFilesVerify
          <5>1. Describes(e.nodes[f], Content(e, f))
            BY <4>2 DEF Settled, StaleRow
          <5>2. \A m \in MapsOf(e, f) : m.block \in MappedIn(e, scope)
            BY ScopeParts DEF MapsOf
          <5> QED
            BY <4>2, <5>1, <5>2 DEF Settled
        <4>6. Repaired(e, scope) = e
          BY <4>2, SettledStays
        <4> QED
          BY <3>1, <4>1, <4>4, <4>5, <4>6 DEF RepairSettles
      <3> QED
        BY <3>1, <3>2, <3>3
    <2> QED
      BY <1>1, <2>1, <2>2, StepKinds
  <1>2. CASE UNCHANGED vars
    BY <1>2 DEF vars, RepairSettles, JustRepaired, Ended, RepairedPassesFsck, RepairedFilesVerify
  <1> QED
    BY <1>1, <1>2

(* Whatever is damaged, written and repaired, and in whatever order, the rows
   remain such as the columns and their constraints take them. *)
THEOREM RowsStayStorable == Spec => []Stored
  <1>1. Stored /\ [Next]_vars => Stored'
    BY NextStored
  <1> QED
    BY <1>1, InitStored, PTL DEF Spec

(* One run of the command is enough (fsspec_repair.py: handle). *)
THEOREM OneRepairIsEnough == Spec => []RepairSettles
  <1>1. Stored /\ RepairSettles /\ [Next]_vars => Stored' /\ RepairSettles'
    BY NextStored, NextSettles
  <1> QED
    BY <1>1, InitStored, PTL DEF Spec

(* A repair step, seen from the state before it. *)
LEMMA RepairSteps ==
  ASSUME Stored, Next, last'.op = "repair"
  PROVE  /\ damage' = damage
         /\ db' = db \/ RowsRepaired(db, db', last'.scope)
         /\ last'.outcome \in {"attention", "invalid path"} =>
              PreviewOutcome(db, last'.scope, last'.recover, Stamps[1]) # "ok"
  <1>1. ~Unrepaired
    BY DEF Unrepaired, Nothing
  <1>2. PICK scope \in Scopes, recover \in BOOLEAN : Repair(scope, recover)
    BY <1>1, StepKinds
  <1> QED
    BY <1>2, RepairStep DEF RolledBack, Committed

(* Repair invents and loses no bytes (fsspec_repair.py: _repair_file_nodes). *)
THEOREM RepairKeepsBytes == Spec => RepairKeepsContent
  <1>1. ASSUME Stored, [Next]_vars
        PROVE  [last'.op = "repair" =>
                  \A f \in TypedIn(db, "all", "file") : Content(db', f) = Content(db, f)]_vars
    <2> SUFFICES ASSUME Next, last'.op = "repair", NEW f \in TypedIn(db, "all", "file")
                 PROVE  Content(db', f) = Content(db, f)
      BY <1>1
    <2>1. f \in NodeIds(db) /\ db.nodes[f].type = "file"
      BY DEF TypedIn, NodesIn
    <2>2. CASE db' = db
      BY <2>2
    <2>3. CASE RowsRepaired(db, db', last'.scope)
      BY <2>1, <2>3 DEF RowsRepaired
    <2> QED
      BY <1>1, <2>2, <2>3, RepairSteps
  <1> QED
    BY <1>1, RowsStayStorable, PTL DEF Spec, RepairKeepsContent

(* The version of a file grows exactly when a reader would notice the repair
   (fsspec_repair.py: _repair_file_nodes). *)
THEOREM RepairCountsVersions == Spec => RepairBumpsVersion
  <1>1. ASSUME Stored, [Next]_vars
        PROVE  [last'.op = "repair" =>
                  \A f \in TypedIn(db, "all", "file") :
                    LET Relied(d) == <<d.nodes[f].size, d.nodes[f].sum, MapsOf(d, f)>>
                    IN  db'.nodes[f].ver
                          = db.nodes[f].ver + IF Relied(db') = Relied(db) THEN 0 ELSE 1]_vars
    <2> SUFFICES ASSUME Next, last'.op = "repair", NEW f \in TypedIn(db, "all", "file")
                 PROVE  LET Relied(d) == <<d.nodes[f].size, d.nodes[f].sum, MapsOf(d, f)>>
                        IN  db'.nodes[f].ver
                              = db.nodes[f].ver + IF Relied(db') = Relied(db) THEN 0 ELSE 1
      BY <1>1
    <2>1. CASE db' = db
      <3>1. f \in NodeIds(db)
        BY DEF TypedIn, NodesIn
      <3>2. db.nodes[f].ver \in Nat
        BY <1>1, <3>1 DEF Stored, Storable, RowsStorable, NodeRows
      <3> QED
        BY <2>1, <3>2
    <2>2. CASE RowsRepaired(db, db', last'.scope)
      BY <1>1, <2>2, VersionCounts DEF Stored
    <2> QED
      BY <1>1, <2>1, <2>2, RepairSteps
  <1> QED
    BY <1>1, RowsStayStorable, PTL DEF Spec, RepairBumpsVersion

(* Neither an overwrite nor a repair frees a block that still belongs to a file
   (operations.py: _release_file_blocks; fsspec_repair.py: _repair_directories). *)
THEOREM BlocksOfFilesStayLive == Spec => LiveBlocksStayLive
  <1>1. ASSUME Stored, [Next]_vars
        PROVE  [damage' = damage =>
                  \A m \in db'.maps :
                    m.block \in DOMAIN db.blocks /\ ~db.blocks[m.block].free =>
                      ~db'.blocks[m.block].free]_vars
    <2> SUFFICES ASSUME Next, damage' = damage
                 PROVE  BlocksStayLive(db, db')
      BY <1>1 DEF BlocksStayLive
    <2>1. CASE Unrepaired
      BY <2>1 DEF Unrepaired
    <2>2. ASSUME NEW scope \in Scopes, NEW recover \in BOOLEAN, Repair(scope, recover)
          PROVE  BlocksStayLive(db, db')
      <3>1. RolledBack \/ Committed(scope, recover)
        BY <1>1, <2>2, RepairStep
      <3> QED
        BY <3>1 DEF RolledBack, Committed, RowsRepaired, BlocksStayLive
    <2> QED
      BY <1>1, <2>1, <2>2, StepKinds
  <1> QED
    BY <1>1, RowsStayStorable, PTL DEF Spec, LiveBlocksStayLive

(* A repair of one namespace changes no row of another (fsspec_repair.py: the
   querysets that handle filters by namespace). *)
THEOREM RepairLeavesOthers == Spec => RepairStaysInScope
  <1>1. ASSUME Stored, [Next]_vars
        PROVE  [last'.op = "repair" =>
                  \A n \in NodeIds(db) :
                    last'.scope \notin {"all", db.nodes[n].ns} =>
                      db'.nodes[n] = db.nodes[n] /\ MapsOf(db', n) = MapsOf(db, n)]_vars
    <2> SUFFICES ASSUME Next, last'.op = "repair", NEW n \in NodeIds(db),
                        last'.scope \notin {"all", db.nodes[n].ns}
                 PROVE  db'.nodes[n] = db.nodes[n] /\ MapsOf(db', n) = MapsOf(db, n)
      BY <1>1
    <2>1. n \in NodeIds(db) \ NodesIn(db, last'.scope)
      BY DEF NodesIn
    <2>2. CASE db' = db
      BY <2>2
    <2>3. CASE RowsRepaired(db, db', last'.scope)
      BY <2>1, <2>3 DEF RowsRepaired
    <2> QED
      BY <1>1, <2>2, <2>3, RepairSteps
  <1> QED
    BY <1>1, RowsStayStorable, PTL DEF Spec, RepairStaysInScope

(* The dry run warns of every repair that does not end well for another reason
   than the length of a path (fsspec_repair.py: handle with --dry-run). *)
THEOREM DryRunWarns == Spec => PreviewWarns
  <1>1. ASSUME Stored, [Next]_vars
        PROVE  [last'.op = "repair" /\ last'.outcome \in {"attention", "invalid path"} =>
                  PreviewOutcome(db, last'.scope, last'.recover, Stamps[1]) # "ok"]_vars
    BY <1>1, RepairSteps
  <1> QED
    BY <1>1, RowsStayStorable, PTL DEF Spec, PreviewWarns
=============================================================================
