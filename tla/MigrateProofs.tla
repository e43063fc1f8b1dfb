---------------------------- MODULE MigrateProofs ----------------------------
(***************************************************************************)
(* What holds of migrations, of any source into any target, whatever kills *)
(* and failing reads, and whatever others do: others keep what is theirs,  *)
(* what a run has moved to its place is whole, and a run that exits with 0 *)
(* has told the truth.  If nobody else is at work, a run exits with 0      *)
(* unless something was in its way from the start.  The lemmas on paths    *)
(* and trees are those of CallerProofs.                                    *)
(***************************************************************************)
EXTENDS Migrate, CallerProofs

-----------------------------------------------------------------------------
(* What the command's operations do to a tree *)

(* What a tree holds: the rows that SoundTree allows, with bytes, and with ids that
   have been handed out. *)
HeldTree ==
  /\ SoundTree /\ nextId \in Nat
  /\ \A p \in DOMAIN tree :
       /\ tree[p].id \in Nat /\ tree[p].id < nextId
       /\ tree[p].type = "file" => tree[p].data \in Seq(Bytes)

(* The rows that an operation has not added are as they were. *)
Keeps(P) == \A p \in P : p \in DOMAIN tree /\ p \in DOMAIN tree' /\ tree'[p] = tree[p]

LEMMA StoreSays ==
  ASSUME HeldTree, NEW p \in Seq(Names) \ {<<>>}, NEW data \in Seq(Bytes), Store(p, data)
  PROVE  /\ HeldTree'
         /\ DOMAIN tree' = DOMAIN tree \cup {p} /\ Keeps(DOMAIN tree \ {p})
         /\ tree'[p].type = "file" /\ tree'[p].data = data
         /\ p \in DOMAIN tree => tree'[p].id = tree[p].id
         /\ p \notin DOMAIN tree => tree'[p].id \in nextId..(nextId' - 1)
         /\ nextId' >= nextId
<1> DEFINE e == Replaced(p, data)
<1>1. /\ tree' = Set(tree, p, e) /\ Reachable(p) /\ ~IsDirectory(p)
      /\ nextId' = IF IsFile(p) THEN nextId ELSE nextId + 1
  BY DEF Store, CanWrite
<1>2. p \in DOMAIN tree => IsFile(p)
  BY <1>1 DEF IsDirectory, Present, TreeAt
<1>3. IsFile(p) => p \in DOMAIN tree
  BY DEF IsFile
<1>4. /\ e.type = "file" /\ e.data = data
      /\ e.id = IF IsFile(p) THEN tree[p].id ELSE nextId
  BY DEF Replaced, File
<1> HIDE DEF e
<1>5. /\ DOMAIN tree' = DOMAIN tree \cup {p} /\ tree'[p] = e
      /\ \A q \in DOMAIN tree \ {p} : tree'[q] = tree[q]
  BY <1>1 DEF Set
<1>6. SoundTree'
  BY OverwriteSound DEF Overwrite, HeldTree
<1>7. nextId \in Nat /\ nextId' \in Nat /\ nextId' >= nextId
  BY <1>1 DEF HeldTree
<1>8. ASSUME NEW q \in DOMAIN tree'
      PROVE  /\ tree'[q].id \in Nat /\ tree'[q].id < nextId'
             /\ tree'[q].type = "file" => tree'[q].data \in Seq(Bytes)
  <2>1. CASE q = p
    BY <1>1, <1>3, <1>4, <1>5, <1>7, <2>1 DEF HeldTree
  <2>2. CASE q # p
    BY <1>5, <1>7, <2>2 DEF HeldTree
  <2> QED BY <2>1, <2>2
<1>9. p \notin DOMAIN tree => tree'[p].id \in nextId..(nextId' - 1)
  BY <1>1, <1>3, <1>4, <1>5, <1>7
<1> QED
  BY <1>2, <1>4, <1>5, <1>6, <1>7, <1>8, <1>9 DEF HeldTree, Keeps

LEMMA DeleteSays ==
  ASSUME HeldTree, NEW p, NEW recursive, Delete(p, recursive)
  PROVE  /\ HeldTree' /\ nextId' = nextId
         /\ DOMAIN tree' = DOMAIN tree \ TreeAt(p) /\ Keeps(DOMAIN tree')
<1>1. /\ tree' = Without(tree, TreeAt(p)) /\ nextId' = nextId
  BY DEF Delete, Erase
<1>2. /\ DOMAIN tree' = DOMAIN tree \ TreeAt(p)
      /\ \A q \in DOMAIN tree' : q \in DOMAIN tree /\ tree'[q] = tree[q]
  BY <1>1 DEF Without
<1>3. SoundTree'
  BY DeleteSound DEF HeldTree
<1> QED
  BY <1>1, <1>2, <1>3 DEF HeldTree, Keeps

(* Making directories adds the levels that are not there, as directories. *)
LEMMA CreateDirectorySays ==
  ASSUME HeldTree, NEW p \in Seq(Names) \ {<<>>}, NEW base \in 0..(Len(p) - 1),
         CreateDirectory(p, base)
  PROVE  /\ HeldTree' /\ Keeps(DOMAIN tree) /\ nextId' >= nextId
         /\ p \in DOMAIN tree'
         /\ \A q \in DOMAIN tree' \ DOMAIN tree :
              /\ q = p \/ Below(q, p)
              /\ tree'[q].type = "directory" /\ tree'[q].id \in nextId..(nextId' - 1)
         /\ \A q \in Seq(Names) \ {<<>>} : Below(q, p) => Present(q) \/ q \in DOMAIN tree'
<1> DEFINE levels == (base + 1)..Len(p)
           made == {Upto(p, k) : k \in levels}
<1>1. /\ base > 0 => IsDirectory(Upto(p, base))
      /\ \A k \in levels : ~Present(Upto(p, k))
      /\ tree' = [q \in DOMAIN tree \cup made |->
                    IF q \in made THEN Directory(nextId + Len(q) - base - 1) ELSE tree[q]]
      /\ nextId' = nextId + Len(p) - base
  BY DEF CreateDirectory
<1>2. p \in Seq(Names) /\ Len(p) \in Nat \ {0} /\ base \in Nat /\ base < Len(p) /\ nextId \in Nat
  BY DEF HeldTree
<1>3. ASSUME NEW k \in levels
      PROVE  /\ k \in 0..Len(p) /\ k \in Nat
             /\ Upto(p, k) \in Seq(Names) \ {<<>>} /\ Len(Upto(p, k)) = k
             /\ Upto(p, k) = p \/ Below(Upto(p, k), p)
             /\ k = Len(p) => Upto(p, k) = p
  BY <1>2, UptoSays
<1>4. \A q \in DOMAIN tree : q \notin made
  BY <1>1 DEF Present, TreeAt
<1>5. /\ DOMAIN tree' = DOMAIN tree \cup made
      /\ \A q \in made : tree'[q] = Directory(nextId + Len(q) - base - 1)
      /\ \A q \in DOMAIN tree : tree'[q] = tree[q]
  BY <1>1, <1>4
<1>6. ASSUME NEW q \in made
      PROVE  /\ q = p \/ Below(q, p)
             /\ tree'[q].type = "directory" /\ tree'[q].id \in nextId..(nextId' - 1)
  <2>1. PICK k \in levels : q = Upto(p, k)
    OBVIOUS
  <2>2. Len(q) = k /\ (q = p \/ Below(q, p))
    BY <1>3, <2>1
  <2>3. tree'[q] = Directory(nextId + k - base - 1)
    BY <1>5, <2>2, Zenon
  <2>4. tree'[q].type = "directory" /\ tree'[q].id = nextId + k - base - 1
    BY <2>3 DEF Directory
  <2> QED
    BY <1>1, <1>2, <2>2, <2>4
<1>7. SoundTree'
  BY CreateDirectorySound DEF HeldTree
<1>8. nextId' \in Nat /\ nextId' >= nextId
  BY <1>1, <1>2
<1>9. ASSUME NEW q \in DOMAIN tree'
      PROVE  /\ tree'[q].id \in Nat /\ tree'[q].id < nextId'
             /\ tree'[q].type = "file" => tree'[q].data \in Seq(Bytes)
  <2>1. CASE q \in made
    BY <1>2, <1>6, <1>8, <2>1
  <2>2. CASE q \in DOMAIN tree
    BY <1>2, <1>5, <1>8, <2>2 DEF HeldTree
  <2> QED BY <1>5, <2>1, <2>2
<1>10. p \in made
  <2>1. Len(p) \in levels
    BY <1>2
  <2> QED BY <1>3, <2>1
<1>11. ASSUME NEW q \in Seq(Names) \ {<<>>}, Below(q, p)
       PROVE  Present(q) \/ q \in DOMAIN tree'
  <2>1. q = Upto(p, Len(q)) /\ Len(q) \in 1..Len(p)
    BY <1>2, <1>11, AboveSays
  <2>2. CASE Len(q) \in levels
    BY <1>5, <2>1, <2>2
  <2>3. CASE Len(q) \notin levels
    <3> DEFINE u == Upto(p, base)
    <3>1. base > 0 /\ Len(q) <= base /\ base \in 0..Len(p)
      BY <1>2, <2>1, <2>3
    <3>2. u \in Seq(Names) /\ Len(u) = base /\ Below(u, p)
      BY <1>2, <3>1, UptoSays
    <3>3. Present(u)
      BY <1>1, <3>1 DEF IsDirectory
    <3> HIDE DEF u
    <3>4. ~Below(u, q)
      BY <2>1, <3>1, <3>2, BelowSays
    <3>5. q = u \/ Below(q, u)
      BY <1>2, <1>11, <3>2, <3>4, BelowSays
    <3>6. PICK r \in DOMAIN tree : r = u \/ Below(u, r)
      BY <3>3 DEF Present, TreeAt
    <3>7. r \in Seq(Names)
      BY DEF HeldTree, SoundTree
    <3>8. r = q \/ Below(q, r)
      BY <3>2, <3>5, <3>6, <3>7, BelowSays
    <3> QED BY <3>8 DEF Present, TreeAt
  <2> QED BY <2>2, <2>3
<1> HIDE DEF made, levels
<1>12. Keeps(DOMAIN tree) /\ \A q \in DOMAIN tree' \ DOMAIN tree : q \in made
  BY <1>5 DEF Keeps
<1> QED
  BY <1>5, <1>6, <1>7, <1>8, <1>9, <1>10, <1>11, <1>12 DEF HeldTree

LEMMA MakedirsSays ==
  ASSUME HeldTree, NEW p \in Seq(Names), Makedirs(p)
  PROVE  /\ HeldTree' /\ Keeps(DOMAIN tree) /\ nextId' >= nextId
         /\ p = <<>> \/ Present(p) \/ p \in DOMAIN tree'
         /\ \A q \in DOMAIN tree' \ DOMAIN tree :
              /\ q = p \/ Below(q, p)
              /\ tree'[q].type = "directory" /\ tree'[q].id \in nextId..(nextId' - 1)
         /\ \A q \in Seq(Names) \ {<<>>} : Below(q, p) => Present(q) \/ q \in DOMAIN tree'
<1>1. CASE p = <<>> \/ Present(p)
  <2>1. tree' = tree /\ nextId' = nextId
    BY <1>1 DEF Makedirs, fsVars
  <2>2. ASSUME NEW q \in Seq(Names) \ {<<>>}, Below(q, p)
        PROVE  Present(q)
    <3>1. p # <<>>
      BY <2>2 DEF Below
    <3>2. PICK r \in DOMAIN tree : r = p \/ Below(p, r)
      BY <1>1, <3>1 DEF Present, TreeAt
    <3>3. r \in Seq(Names)
      BY DEF HeldTree, SoundTree
    <3>4. Below(q, r)
      BY <2>2, <3>2, <3>3, BelowSays
    <3> QED BY <3>4 DEF Present, TreeAt
  <2>3. HeldTree'
    BY <2>1 DEF HeldTree, SoundTree, IsFile
  <2> QED
    BY <1>1, <2>1, <2>2, <2>3 DEF HeldTree, Keeps
<1>2. CASE ~(p = <<>> \/ Present(p))
  <2>1. PICK base \in 0..(Len(p) - 1) : CreateDirectory(p, base)
    BY <1>2 DEF Makedirs
  <2> QED
    BY <1>2, <2>1, CreateDirectorySays
<1> QED
  BY <1>1, <1>2

(* The move of a file: it takes its row along, and a file that was there gives way. *)
LEMMA MoveFileSays ==
  ASSUME HeldTree, NEW src \in Seq(Names) \ {<<>>}, NEW dst \in Seq(Names) \ {<<>>},
         NEW overwrite, Move(src, dst, overwrite), IsFile(src)
  PROVE  /\ HeldTree' /\ nextId' = nextId /\ src # dst
         /\ DOMAIN tree' = (DOMAIN tree \ {src}) \cup {dst}
         /\ Keeps(DOMAIN tree \ {src, dst})
         /\ tree'[dst] = tree[src]
         /\ dst \in DOMAIN tree => overwrite /\ IsFile(dst)
<1> DEFINE moved == TreeAt(src) \ TreeAt(dst)
           kept == DOMAIN tree \ (TreeAt(src) \cup TreeAt(dst))
           new == {Rebase(src, dst, p) : p \in moved}
<1>1. /\ Reachable(dst) /\ src # dst
      /\ Present(dst) => overwrite /\ IsFile(dst)
      /\ tree' = [q \in kept \cup new |-> IF q \in kept THEN tree[q] ELSE tree[Rebase(dst, src, q)]]
      /\ nextId' = nextId
  BY DEF Move, CanMove
<1>2. /\ src \in DOMAIN tree /\ tree[src].type = "file" /\ \A q \in DOMAIN tree : ~Below(src, q)
  BY DEF IsFile, HeldTree, SoundTree
<1>3. TreeAt(src) = {src}
  BY <1>2 DEF TreeAt
<1>4. TreeAt(dst) \subseteq {dst}
  <2>1. CASE IsFile(dst)
    <3>1. \A q \in DOMAIN tree : ~Below(dst, q)
      BY <2>1 DEF IsFile, HeldTree, SoundTree
    <3> QED BY <3>1 DEF TreeAt
  <2>2. CASE ~IsFile(dst)
    BY <1>1, <2>2 DEF Present
  <2> QED BY <2>1, <2>2
<1>5. dst \in DOMAIN tree => TreeAt(dst) = {dst}
  BY <1>4 DEF TreeAt
<1>6. src \notin TreeAt(dst)
  BY <1>1, <1>4
<1>7. moved = {src} /\ kept = DOMAIN tree \ {src, dst}
  BY <1>3, <1>4, <1>5, <1>6
<1> HIDE DEF moved, kept
<1>8. Rebase(src, dst, src) = dst /\ Rebase(dst, src, dst) = src
  BY DEF Rebase
<1>9. new = {dst}
  BY <1>7, <1>8
<1> HIDE DEF new
<1>10. /\ DOMAIN tree' = kept \cup {dst} /\ dst \notin kept
       /\ tree'[dst] = tree[src]
       /\ \A q \in kept : tree'[q] = tree[q]
  BY <1>1, <1>7, <1>8, <1>9
<1>11. /\ DOMAIN tree' = (DOMAIN tree \ {src}) \cup {dst}
       /\ \A q \in DOMAIN tree \ {src, dst} : tree'[q] = tree[q]
  BY <1>1, <1>7, <1>10
<1>12. \A q \in DOMAIN tree : q # dst => ~Below(dst, q)
  BY <1>4 DEF TreeAt
<1>13. ASSUME NEW q \in DOMAIN tree, tree[q].type = "file"
       PROVE  ~Below(q, dst)
  BY <1>1, <1>13, AboveSays DEF Reachable, IsFile, HeldTree, SoundTree
<1>14. ASSUME NEW q \in DOMAIN tree', NEW r \in DOMAIN tree', tree'[q].type = "file"
       PROVE  ~Below(q, r)
  <2>1. ~Below(dst, dst)
    BY BelowSays
  <2>2. CASE q = dst
    BY <1>11, <1>12, <2>1, <2>2
  <2>3. CASE q # dst /\ r = dst
    BY <1>11, <1>13, <1>14, <2>3
  <2>4. CASE q # dst /\ r # dst
    BY <1>11, <1>14, <2>4 DEF HeldTree, SoundTree, IsFile
  <2> QED BY <2>2, <2>3, <2>4
<1>15. SoundTree'
  <2>1. DOMAIN tree' \subseteq Seq(Names) \ {<<>>}
    BY <1>11 DEF HeldTree, SoundTree
  <2>2. \A q \in DOMAIN tree' : tree'[q].type \in {"file", "directory"}
    BY <1>2, <1>10, <1>11 DEF HeldTree, SoundTree
  <2> QED BY <1>14, <2>1, <2>2 DEF SoundTree, IsFile
<1>16. ASSUME NEW q \in DOMAIN tree'
       PROVE  /\ tree'[q].id \in Nat /\ tree'[q].id < nextId'
              /\ tree'[q].type = "file" => tree'[q].data \in Seq(Bytes)
  <2>1. PICK r \in DOMAIN tree : tree'[q] = tree[r]
    BY <1>2, <1>10, <1>11
  <2> QED BY <1>1, <2>1 DEF HeldTree
<1>17. dst \in DOMAIN tree => overwrite /\ IsFile(dst)
  BY <1>1, <1>5 DEF Present
<1>18. Keeps(DOMAIN tree \ {src, dst})
  BY <1>11 DEF Keeps
<1>19. HeldTree'
  BY <1>1, <1>15, <1>16 DEF HeldTree
<1> QED
  BY <1>1, <1>10, <1>11, <1>17, <1>18, <1>19
-----------------------------------------------------------------------------
(* The entries of a run in their order *)

SortedOrder(order) == \A i, j \in DOMAIN order : i < j => ~Before(order[j], order[i])

(* Of some entries, one comes first. *)
LEMMA FirstEntry ==
  ASSUME NEW S, S # {}, \A e \in S : Len(e.source) \in Nat
  PROVE  \E e \in S : \A f \in S : ~Before(f, e)
<1> DEFINE Weight(e) == IF e.type = "file" THEN 2 * Len(e.source) + 1 ELSE 2 * Len(e.source)
           W == {Weight(e) : e \in S}
<1>1. ASSUME NEW e \in S
      PROVE  Weight(e) \in Nat
  <2> DEFINE n == Len(e.source)
  <2>1. n \in Nat
    OBVIOUS
  <2> HIDE DEF n
  <2>2. 2 * n \in Nat /\ 2 * n + 1 \in Nat
    BY <2>1
  <2> QED BY <2>2 DEF n
<1>2. ASSUME NEW e \in S, NEW f \in S, Before(f, e)
      PROVE  Weight(f) < Weight(e)
  <2> DEFINE n == Len(e.source)
             k == Len(f.source)
  <2>1. n \in Nat /\ k \in Nat
    OBVIOUS
  <2>2. \/ k < n
        \/ k = n /\ f.type = "directory" /\ e.type = "file"
    BY <1>2 DEF Before
  <2> HIDE DEF n, k
  <2>3. CASE k < n
    <3>1. 2 * k + 1 < 2 * n /\ 2 * k < 2 * n /\ 2 * n < 2 * n + 1 /\ 2 * k + 1 < 2 * n + 1
      BY <2>1, <2>3
    <3> QED BY <2>1, <3>1 DEF n, k
  <2>4. CASE k = n /\ f.type = "directory" /\ e.type = "file"
    <3>1. 2 * n < 2 * n + 1
      BY <2>1
    <3> QED BY <2>1, <2>4, <3>1 DEF n, k
  <2> QED BY <2>2, <2>3, <2>4
<1> HIDE DEF Weight
<1>3. W \in SUBSET Nat /\ W # {}
  BY <1>1
<1>4. PICK n \in W : \A m \in W : n <= m
  BY <1>3, LeastNumber
<1>5. PICK e \in S : n = Weight(e)
  BY <1>4
<1>6. ASSUME NEW f \in S, Before(f, e)
      PROVE  FALSE
  <2>1. Weight(f) \in W /\ Weight(f) < n /\ Weight(f) \in Nat /\ n \in Nat
    BY <1>1, <1>2, <1>5, <1>6
  <2>2. n <= Weight(f)
    BY <1>4, <2>1
  <2> QED BY <2>1, <2>2
<1> QED BY <1>6

LEMMA EntriesInOrder ==
  ASSUME NEW S, IsFiniteSet(S), \A e \in S : Len(e.source) \in Nat
  PROVE  \E order \in SetToSeqs(S) : SortedOrder(order)
<1> DEFINE Orderly(T) == \E order \in SetToSeqs(T) : SortedOrder(order)
           N == {n \in Nat : \A T \in SUBSET S : Cardinality(T) = n => Orderly(T)}
<1>1. \A T \in SUBSET S : IsFiniteSet(T) /\ Cardinality(T) \in Nat
  BY FS_Subset, FS_CardinalityType
<1>2. ASSUME NEW T \in SUBSET S, Cardinality(T) = 0
      PROVE  Orderly(T)
  <2>1. T = {}
    BY <1>1, <1>2, FS_EmptySet
  <2>2. 1..Cardinality(T) = {}
    BY <1>2
  <2> DEFINE none == [i \in 1..Cardinality(T) |-> i]
  <2>3. none \in SetToSeqs(T)
    <3>1. none \in [1..Cardinality(T) -> T]
      BY <2>2
    <3> QED BY <2>2, <3>1 DEF SetToSeqs
  <2>4. SortedOrder(none)
    <3>1. DOMAIN none = {}
      BY <2>2
    <3> QED BY <3>1 DEF SortedOrder
  <2> QED BY <2>3, <2>4
<1>3. ASSUME NEW n \in Nat, n \in N, NEW T \in SUBSET S, Cardinality(T) = n + 1
      PROVE  Orderly(T)
  <2>1. T # {}
    <3>1. n + 1 # 0
      OBVIOUS
    <3> QED BY <1>3, <3>1, FS_EmptySet
  <2>2. PICK e \in T : \A f \in T : ~Before(f, e)
    BY <2>1, FirstEntry
  <2> DEFINE U == T \ {e}
  <2>3. U \in SUBSET S /\ Cardinality(U) = n
    BY <1>1, <1>3, FS_RemoveElement
  <2>4. PICK rest \in SetToSeqs(U) : SortedOrder(rest)
    BY <1>3, <2>3
  <2>5. rest \in [1..n -> U] /\ \A i, j \in 1..n : i # j => rest[i] # rest[j]
    BY <2>3, <2>4 DEF SetToSeqs
  <2>6. \A i, j \in 1..n : i < j => ~Before(rest[j], rest[i])
    BY <2>4, <2>5 DEF SortedOrder
  <2> DEFINE order == [i \in 1..(n + 1) |-> IF i = 1 THEN e ELSE rest[i - 1]]
  <2>7. /\ DOMAIN order = 1..(n + 1) /\ order[1] = e
        /\ \A i \in 1..(n + 1) : i # 1 => i - 1 \in 1..n /\ order[i] = rest[i - 1]
    OBVIOUS
  <2> HIDE DEF order
  <2>8. order \in [1..(n + 1) -> T]
    <3>1. \A i \in 1..(n + 1) : order[i] \in T
      BY <2>5, <2>7
    <3>2. order = [i \in 1..(n + 1) |-> order[i]]
      BY DEF order
    <3> QED BY <3>1, <3>2
  <2>9. ASSUME NEW i \in 1..(n + 1), NEW j \in 1..(n + 1), i # j
        PROVE  order[i] # order[j]
    <3>1. \A k \in 1..n : rest[k] # e /\ rest[k] \in T
      BY <2>5
    <3>2. CASE i = 1 \/ j = 1
      BY <2>7, <2>9, <3>1, <3>2
    <3>3. CASE i # 1 /\ j # 1
      <4>1. i - 1 # j - 1
        BY <2>9
      <4> QED BY <2>5, <2>7, <3>3, <4>1
    <3> QED BY <3>2, <3>3
  <2>10. ASSUME NEW i \in 1..(n + 1), NEW j \in 1..(n + 1), i < j
         PROVE  ~Before(order[j], order[i])
    <3>1. CASE i = 1
      BY <2>2, <2>7, <2>8, <3>1
    <3>2. CASE i # 1
      <4>1. i - 1 < j - 1 /\ j # 1
        BY <2>10, <3>2
      <4> QED BY <2>6, <2>7, <3>2, <4>1
    <3> QED BY <3>1, <3>2
  <2>11. order \in SetToSeqs(T)
    BY <1>3, <2>8, <2>9 DEF SetToSeqs
  <2>12. SortedOrder(order)
    BY <2>7, <2>10 DEF SortedOrder
  <2> QED BY <2>11, <2>12
<1> HIDE DEF Orderly
<1>4. N = Nat
  <2> DEFINE rest == Nat \ N
  <2>1. SUFFICES ASSUME rest # {} PROVE FALSE
    OBVIOUS
  <2>2. rest \in SUBSET Nat
    OBVIOUS
  <2>3. PICK n \in rest : \A m \in rest : n <= m
    <3> HIDE DEF rest
    <3> QED BY <2>1, <2>2, LeastNumber
  <2>4. n # 0
    BY <1>2, <2>3
  <2>5. n - 1 \in Nat /\ n - 1 \notin rest /\ (n - 1) + 1 = n
    BY <2>3, <2>4
  <2>6. n - 1 \in N
    BY <2>5
  <2>7. n \in N
    BY <1>3, <2>3, <2>5, <2>6
  <2> QED BY <2>3, <2>7
<1>5. S \in SUBSET S /\ Cardinality(S) \in N
  BY <1>1, <1>4
<1> QED BY <1>5 DEF Orderly

(* What the command found, by the source and the target that it gave it. *)
Found == {[source |-> p, target |-> TargetOf(p), type |-> source[p].type] : p \in DOMAIN source}

LEMMA EntriesAre ==
  ASSUME IsFiniteSet(DOMAIN source), DOMAIN source \subseteq Seq(Names)
  PROVE  /\ Entries \in [1..Cardinality(Found) -> Found] /\ Cardinality(Found) \in Nat
         /\ \A i, j \in 1..Cardinality(Found) : Entries[i] = Entries[j] => i = j
<1>1. IsFiniteSet(Found)
  <2> DEFINE D == DOMAIN source
             g == [p \in D |-> [source |-> p, target |-> TargetOf(p), type |-> source[p].type]]
             F == Found
  <2>1. g \in Surjection(D, F)
    BY DEF Surjection, Found
  <2> HIDE DEF g, F, D
  <2>2. IsFiniteSet(D)
    BY DEF D
  <2>3. IsFiniteSet(F)
    BY <2>1, <2>2, FS_Surjection
  <2> QED BY <2>3 DEF F
<1>2. \A e \in Found : Len(e.source) \in Nat
  BY DEF Found
<1>3. \E order \in SetToSeqs(Found) : SortedOrder(order)
  BY <1>1, <1>2, EntriesInOrder
<1>4. Entries = CHOOSE order \in SetToSeqs(Found) : SortedOrder(order)
  BY DEF Entries, Found, SortedOrder
<1>5. Entries \in SetToSeqs(Found)
  BY <1>3, <1>4
<1> QED BY <1>1, <1>5, FS_CardinalityType DEF SetToSeqs
-----------------------------------------------------------------------------
(* The run and its entries *)

Statuses == Succeeded \cup Attention \cup {"none"}
FilePhases ==
  {"hash", "compare", "parent", "tempdir", "stream", "look", "move", "rmrun", "rmtemp", "verify"}
Phases == FilePhases \cup {"over", "entry", "mkdir", "record", "unsaved", "onward"}

(* The phases in which a run is at no entry, or may be beyond the last. *)
Turning == {"over", "entry", "onward"}

EntryRecord == [source : Seq(Names), target : Seq(Names), type : {"file", "directory"}]
KeyRecord == [source : Seq(Names), target : Seq(Names)]
LineRecord == [source : Seq(Names), target : Seq(Names), status : Statuses]

JobRecord ==
  [phase : Phases, run : Nat, opt : Options, todo : Seq(EntryRecord), at : Nat \ {0},
   completed : SUBSET KeyRecord, status : Statuses, existed : BOOLEAN, straight : BOOLEAN,
   data : Seq(Bytes), to : Seq(Names), attention : BOOLEAN, hit : BOOLEAN,
   exit : {"none", "ok", "attention", "failure", "killed"}]

(* Where a run may put what is at path p of the source. *)
PlacesOf(p) ==
  IF source[<<>>].type = "file" THEN {q \in {Root, Append(Root, SourceName)} : p = <<>>}
  ELSE {Root \o p}

(* An entry that was found in the source once: a file has nothing below it. *)
Placed(e) ==
  /\ e.target \in PlacesOf(e.source)
  /\ e.type = "file" => e.target # <<>> /\ \A q \in DOMAIN source : ~Below(e.source, q)
  /\ IF e.source \in DOMAIN source THEN source[e.source].type = e.type ELSE e.source \in edited

TodoPlaced == \A i \in DOMAIN job.todo : Placed(job.todo[i])

(* The lookup decides where the move goes. *)
MovePlaced ==
  job.phase = "move" =>
    job.to \in {Entry.target, Append(Entry.target, Entry.target[Len(Entry.target)])}

JobShape ==
  /\ runs \in Nat /\ manifest \subseteq LineRecord
  /\ runs = 0 => job = NotStarted
  /\ runs # 0 =>
       /\ job \in JobRecord /\ job.run \in DOMAIN RunIds
       /\ TodoPlaced
       /\ job.at <= Len(job.todo) + 1
       /\ job.phase \notin Turning => job.at <= Len(job.todo)
       /\ job.phase \in FilePhases => Entry.type = "file"
       /\ job.phase = "mkdir" => Entry.type = "directory"
       /\ MovePlaced

LEMMA StartedHasRecord ==
  ASSUME JobShape, job.phase # "over"
  PROVE  runs # 0 /\ job \in JobRecord /\ job.run \in DOMAIN RunIds
BY DEF JobShape, NotStarted

LEMMA EntrySays ==
  ASSUME JobShape, runs # 0, job.at <= Len(job.todo)
  PROVE  Entry \in EntryRecord /\ Placed(Entry) /\ job.at \in DOMAIN job.todo
<1>1. job.todo \in Seq(EntryRecord) /\ job.at \in Nat \ {0}
  BY DEF JobShape, JobRecord
<1>2. job.at \in DOMAIN job.todo
  BY <1>1
<1> QED BY <1>1, <1>2 DEF JobShape, TodoPlaced, Entry

LEMMA FileEntrySays ==
  ASSUME JobShape, job.phase \in FilePhases
  PROVE  /\ runs # 0 /\ Entry \in EntryRecord /\ Placed(Entry) /\ Entry.type = "file"
         /\ Entry.target \in Seq(Names) \ {<<>>} /\ job.at <= Len(job.todo)
<1>1. runs # 0 /\ job.at <= Len(job.todo) /\ Entry.type = "file"
  BY DEF JobShape, NotStarted, FilePhases, Turning
<1>2. Entry \in EntryRecord /\ Placed(Entry)
  BY <1>1, EntrySays
<1> QED BY <1>1, <1>2 DEF EntryRecord, Placed

(* The run goes on with the entry it is at. *)
LEMMA SameEntry ==
  ASSUME JobShape, runs # 0, job.at <= Len(job.todo),
         UNCHANGED <<runs, manifest, source, edited>>,
         job' \in JobRecord, job'.todo = job.todo, job'.at = job.at, job'.run = job.run,
         job'.phase \in FilePhases => Entry.type = "file",
         job'.phase = "mkdir" => Entry.type = "directory",
         job'.phase = "move" =>
            job'.to \in {Entry.target, Append(Entry.target, Entry.target[Len(Entry.target)])}
  PROVE  JobShape' /\ Entry' = Entry
<1>1. Entry' = Entry
  BY DEF Entry
<1>2. TodoPlaced'
  BY DEF JobShape, TodoPlaced, Placed, PlacesOf
<1>3. MovePlaced'
  BY <1>1 DEF MovePlaced
<1> QED BY <1>1, <1>2, <1>3 DEF JobShape, Turning

LEMMA GoOnSays ==
  ASSUME JobShape, runs # 0, job.at <= Len(job.todo),
         UNCHANGED <<runs, manifest, source, edited>>,
         NEW phase \in Phases \ {"move"}, GoOn(phase),
         phase \in FilePhases => Entry.type = "file", phase = "mkdir" => Entry.type = "directory"
  PROVE  JobShape' /\ Entry' = Entry /\ job'.phase = phase
<1>1. job \in JobRecord
  BY DEF JobShape
<1>2. /\ job' \in JobRecord /\ job'.phase = phase
      /\ job'.todo = job.todo /\ job'.at = job.at /\ job'.run = job.run
  BY <1>1 DEF GoOn, JobRecord
<1> QED BY <1>2, SameEntry

LEMMA SettleSays ==
  ASSUME JobShape, runs # 0, job.at <= Len(job.todo),
         UNCHANGED <<runs, manifest, source, edited>>,
         NEW status \in Statuses, Settle(status)
  PROVE  JobShape' /\ Entry' = Entry /\ job'.phase = "record" /\ job'.status = status
<1>1. job \in JobRecord
  BY DEF JobShape
<1>2. /\ job' \in JobRecord /\ job'.phase = "record" /\ job'.status = status
      /\ job'.todo = job.todo /\ job'.at = job.at /\ job'.run = job.run
  BY <1>1 DEF Settle, JobRecord, Phases
<1>3. "record" \notin FilePhases
  BY DEF FilePhases
<1> QED BY <1>2, <1>3, SameEntry
-----------------------------------------------------------------------------
LEMMA LookAtDirectoryShape ==
  ASSUME JobShape, LookAtDirectory, Others
  PROVE  JobShape' /\ Entry' = Entry /\ job'.phase \in {"record", "mkdir"}
<1>1. runs # 0 /\ job.at <= Len(job.todo) /\ Entry.type = "directory" /\ UNCHANGED <<runs, manifest>>
  BY StartedHasRecord DEF LookAtDirectory, AtEntry, At, Queries
<1>2. CASE \E status \in {"conflict", "dir_exists"} : Settle(status)
  BY <1>1, <1>2, SettleSays DEF Statuses, Succeeded, Attention, Others
<1>3. CASE GoOn("mkdir")
  BY <1>1, <1>3, GoOnSays DEF Phases, FilePhases, Others
<1> QED BY <1>2, <1>3 DEF LookAtDirectory

LEMMA MakeDirectoryShape ==
  ASSUME JobShape, MakeDirectory, Others
  PROVE  JobShape' /\ Entry' = Entry /\ job'.phase = "record"
<1>1. runs # 0 /\ job.at <= Len(job.todo) /\ UNCHANGED <<runs, manifest>>
  BY StartedHasRecord DEF MakeDirectory, At, JobShape, Changes, Turning
<1>2. PICK status \in {"created_dir", "error"} : Settle(status)
  BY DEF MakeDirectory
<1> QED BY <1>1, <1>2, SettleSays DEF Statuses, Succeeded, Attention, Others

LEMMA LookAtFileShape ==
  ASSUME JobShape, LookAtFile, Others
  PROVE  /\ JobShape' /\ Entry' = Entry /\ job'.phase \in {"record", "hash", "parent"}
         /\ job'.phase = "parent" => job'.data = <<>>
<1>1. /\ runs # 0 /\ job.at <= Len(job.todo) /\ Entry.type = "file"
      /\ UNCHANGED <<runs, manifest, source, edited>> /\ job \in JobRecord
  BY StartedHasRecord DEF LookAtFile, AtEntry, At, Queries, Others
<1>2. CASE \E status \in {"conflict", "skipped_exists"} : Settle(status)
  BY <1>1, <1>2, SettleSays DEF Statuses, Succeeded, Attention
<1>3. CASE GoOn("hash")
  BY <1>1, <1>3, GoOnSays DEF Phases, FilePhases
<1>4. CASE job' = [job EXCEPT !.phase = "parent", !.existed = IsFile(Entry.target),
                              !.data = <<>>, !.straight = ~job.opt.temp]
  <2>1. job.opt.temp \in BOOLEAN /\ IsFile(Entry.target) \in BOOLEAN /\ <<>> \in Seq(Bytes)
        /\ "parent" \in Phases
    BY <1>1, MigrateAssumption DEF JobRecord, IsFile, Phases, FilePhases
  <2>2. /\ job' \in JobRecord /\ job'.phase = "parent" /\ job'.data = <<>>
        /\ job'.todo = job.todo /\ job'.at = job.at /\ job'.run = job.run
    BY <1>1, <1>4, <2>1 DEF JobRecord
  <2> QED BY <1>1, <2>2, SameEntry
<1> QED BY <1>2, <1>3, <1>4 DEF LookAtFile

LEMMA HashSourceShape ==
  ASSUME JobShape, IsSource(source), HashSource, Others
  PROVE  JobShape' /\ Entry' = Entry /\ job'.phase \in {"record", "compare"}
<1>1. /\ runs # 0 /\ job.at <= Len(job.todo) /\ Entry.type = "file"
      /\ UNCHANGED <<runs, manifest, source, edited>> /\ job \in JobRecord
  BY StartedHasRecord DEF HashSource, At, Queries, Others, JobShape, FilePhases, Turning
<1>2. CASE Settle("error")
  BY <1>1, <1>2, SettleSays DEF Statuses, Succeeded, Attention
<1>3. CASE HasSource /\ job' = [job EXCEPT !.phase = "compare", !.data = source[Entry.source].data]
  <2>1. source[Entry.source].data \in Seq(Bytes) /\ "compare" \in Phases
    BY <1>3 DEF HasSource, IsSource, Phases, FilePhases
  <2>2. /\ job' \in JobRecord /\ job'.phase = "compare"
        /\ job'.todo = job.todo /\ job'.at = job.at /\ job'.run = job.run
    BY <1>1, <1>3, <2>1 DEF JobRecord
  <2> QED BY <1>1, <2>2, SameEntry
<1> QED BY <1>2, <1>3 DEF HashSource

LEMMA CompareShape ==
  ASSUME JobShape, CompareWithTarget, Others
  PROVE  JobShape' /\ Entry' = Entry /\ job'.phase = "record"
<1>1. runs # 0 /\ job.at <= Len(job.todo) /\ UNCHANGED <<runs, manifest>>
  BY StartedHasRecord DEF CompareWithTarget, At, JobShape, Queries, Turning
<1>2. PICK status \in {"conflict", "error", "skipped_same_checksum"} : Settle(status)
  BY DEF CompareWithTarget
<1> QED BY <1>1, <1>2, SettleSays DEF Statuses, Succeeded, Attention, Others

(* The steps that only go on with a file, or end it with an error. *)
FileStep ==
  \/ MakeParent \/ MakeTempDirectory \/ SourceGone \/ WriteRaises \/ EndOfStream \/ MoveTemp
  \/ RemoveRunDirectory \/ RemoveTempDirectory \/ VerifyTarget

LEMMA FileStepShape ==
  ASSUME JobShape, FileStep, Others
  PROVE  /\ JobShape' /\ Entry' = Entry
         /\ \/ job'.phase = "record"
            \/ /\ \E phase \in {"tempdir", "stream", "verify", "look", "rmrun", "rmtemp"} : GoOn(phase)
               /\ job' = [job EXCEPT !.phase = job'.phase]
<1>1. /\ runs # 0 /\ job.at <= Len(job.todo) /\ Entry.type = "file"
      /\ UNCHANGED <<runs, manifest, source, edited>> /\ job \in JobRecord
  BY StartedHasRecord
     DEF FileStep, MakeParent, MakeTempDirectory, SourceGone, WriteRaises, EndOfStream, MoveTemp,
         RemoveRunDirectory, RemoveTempDirectory, VerifyTarget, At, Queries, Changes,
         CloseDestination, CloseAfter, Others, JobShape, FilePhases, Turning
<1>2. \/ \E status \in {"error", "copied"} : Settle(status)
      \/ \E phase \in {"tempdir", "stream", "verify", "look", "rmrun", "rmtemp"} : GoOn(phase)
  BY DEF FileStep, MakeParent, MakeTempDirectory, SourceGone, WriteRaises, EndOfStream, MoveTemp,
         RemoveRunDirectory, RemoveTempDirectory, VerifyTarget
<1>3. CASE \E status \in {"error", "copied"} : Settle(status)
  BY <1>1, <1>3, SettleSays DEF Statuses, Succeeded, Attention
<1>4. CASE \E phase \in {"tempdir", "stream", "verify", "look", "rmrun", "rmtemp"} : GoOn(phase)
  <2>1. PICK phase \in {"tempdir", "stream", "verify", "look", "rmrun", "rmtemp"} : GoOn(phase)
    BY <1>4
  <2>2. JobShape' /\ Entry' = Entry /\ job'.phase = phase
    BY <1>1, <2>1, GoOnSays DEF Phases, FilePhases
  <2>3. job' = [job EXCEPT !.phase = job'.phase]
    BY <2>1, <2>2 DEF GoOn
  <2> QED BY <2>1, <2>2, <2>3
<1> QED BY <1>2, <1>3, <1>4

LEMMA StreamChunkShape ==
  ASSUME JobShape, IsSource(source), StreamChunk, Others
  PROVE  JobShape' /\ Entry' = Entry /\ job'.phase = "stream"
<1>1. /\ runs # 0 /\ job.at <= Len(job.todo) /\ Entry.type = "file" /\ job.phase = "stream"
      /\ UNCHANGED <<runs, manifest, source, edited>> /\ job \in JobRecord
  BY StartedHasRecord DEF StreamChunk, At, Queries, Others, JobShape, FilePhases, Turning
<1> DEFINE s == source[Entry.source].data
<1>2. /\ s \in Seq(Bytes) /\ Len(job.data) < Len(s)
      /\ job' = [job EXCEPT !.data = Append(@, s[Len(@) + 1])]
  BY DEF StreamChunk, HasSource, IsSource
<1> HIDE DEF s
<1>3. job.data \in Seq(Bytes)
  BY <1>1 DEF JobRecord
<1>4. s[Len(job.data) + 1] \in Bytes
  BY <1>2, <1>3
<1>5. Append(job.data, s[Len(job.data) + 1]) \in Seq(Bytes)
  BY <1>3, <1>4
<1>6. /\ job' \in JobRecord /\ job'.phase = "stream"
      /\ job'.todo = job.todo /\ job'.at = job.at /\ job'.run = job.run
  BY <1>1, <1>2, <1>5 DEF JobRecord
<1> QED BY <1>1, <1>6, SameEntry

LEMMA LookBeforeMoveShape ==
  ASSUME JobShape, LookBeforeMove, Others
  PROVE  JobShape' /\ Entry' = Entry /\ job'.phase = "move"
<1>1. /\ runs # 0 /\ job.at <= Len(job.todo) /\ Entry.type = "file"
      /\ UNCHANGED <<runs, manifest, source, edited>> /\ job \in JobRecord
      /\ Entry.target \in Seq(Names) \ {<<>>}
  BY StartedHasRecord, FileEntrySays DEF LookBeforeMove, At, Queries, Others, JobShape, FilePhases, Turning
<1> DEFINE into == Append(Entry.target, Entry.target[Len(Entry.target)])
<1>2. into \in Seq(Names)
  BY <1>1
<1>3. PICK to \in {Entry.target, into} : job' = [job EXCEPT !.phase = "move", !.to = to]
  BY DEF LookBeforeMove
<1>4. to \in Seq(Names)
  BY <1>1, <1>2, <1>3
<1>5. /\ job' \in JobRecord /\ job'.phase = "move" /\ job'.to = to
      /\ job'.todo = job.todo /\ job'.at = job.at /\ job'.run = job.run
  BY <1>1, <1>3, <1>4 DEF JobRecord, Phases, FilePhases
<1> QED BY <1>1, <1>3, <1>5, SameEntry

LEMMA MoveUnsupportedShape ==
  ASSUME JobShape, MoveUnsupported, Others
  PROVE  JobShape' /\ Entry' = Entry /\ job'.phase = "rmrun" /\ job'.data = <<>>
<1>1. /\ runs # 0 /\ job.at <= Len(job.todo) /\ Entry.type = "file"
      /\ UNCHANGED <<runs, manifest, source, edited>> /\ job \in JobRecord
  BY StartedHasRecord DEF MoveUnsupported, At, Changes, Others, JobShape, FilePhases, Turning
<1>2. job' = [job EXCEPT !.phase = "rmrun", !.straight = TRUE, !.data = <<>>] /\ <<>> \in Seq(Bytes)
  BY DEF MoveUnsupported
<1>3. /\ job' \in JobRecord /\ job'.phase = "rmrun" /\ job'.data = <<>>
      /\ job'.todo = job.todo /\ job'.at = job.at /\ job'.run = job.run
  BY <1>1, <1>2 DEF JobRecord, Phases, FilePhases
<1> QED BY <1>1, <1>3, SameEntry
-----------------------------------------------------------------------------
(* The run turns to another entry, or is over. *)
LEMMA TodoKept ==
  ASSUME JobShape, runs # 0, UNCHANGED <<source, edited>>, job'.todo = job.todo
  PROVE  TodoPlaced'
BY DEF JobShape, TodoPlaced, Placed, PlacesOf

LEMMA SkipCompletedShape ==
  ASSUME JobShape, SkipCompleted, Others
  PROVE  JobShape' /\ job'.phase = job.phase /\ job.phase \in {"entry", "onward"}
<1>1. /\ runs # 0 /\ job.at <= Len(job.todo) /\ job.phase \in {"entry", "onward"}
      /\ UNCHANGED <<runs, manifest, source, edited>> /\ job \in JobRecord
      /\ job' = [job EXCEPT !.at = @ + 1]
  BY StartedHasRecord DEF SkipCompleted, Between, Queries, Others
<1>2. /\ job' \in JobRecord /\ job'.phase = job.phase /\ job'.todo = job.todo
      /\ job'.at = job.at + 1 /\ job'.run = job.run /\ job.at \in Nat /\ Len(job.todo) \in Nat
  <2>1. job.at \in Nat \ {0} /\ job.at + 1 \in Nat \ {0} /\ job.todo \in Seq(EntryRecord)
    BY <1>1 DEF JobRecord
  <2>2. job' = [job EXCEPT !.at = @ + 1] /\ job \in JobRecord
    BY <1>1
  <2>3. job' \in JobRecord
    BY <2>1, <2>2 DEF JobRecord
  <2>4. /\ job'.phase = job.phase /\ job'.todo = job.todo
        /\ job'.at = job.at + 1 /\ job'.run = job.run
    BY <2>2 DEF JobRecord
  <2>5. Len(job.todo) \in Nat
    BY <2>1
  <2> QED BY <2>1, <2>3, <2>4, <2>5
<1>3. TodoPlaced'
  BY <1>1, <1>2, TodoKept
<1>4. MovePlaced'
  BY <1>1, <1>2 DEF MovePlaced
<1>5. job'.phase \in Turning /\ job'.phase \notin FilePhases \cup {"mkdir"}
  BY <1>1, <1>2 DEF Turning, FilePhases
<1> QED BY <1>1, <1>2, <1>3, <1>4, <1>5 DEF JobShape

LEMMA ExitShape ==
  ASSUME JobShape, runs # 0, UNCHANGED <<runs, source, edited>>, manifest' \subseteq LineRecord,
         NEW code \in {"ok", "attention", "failure", "killed"}, job' = Exit(code)
  PROVE  JobShape' /\ job'.phase = "over"
<1>1. job \in JobRecord
  BY DEF JobShape
<1>2. /\ job' \in JobRecord /\ job'.phase = "over" /\ job'.todo = job.todo
      /\ job'.at = job.at /\ job'.run = job.run
  BY <1>1 DEF JobRecord, Exit, Phases
<1>3. TodoPlaced'
  BY <1>2, TodoKept
<1>4. MovePlaced'
  BY <1>2 DEF MovePlaced
<1> QED BY <1>2, <1>3, <1>4 DEF JobShape, FilePhases, Turning

LEMMA RecordShape ==
  ASSUME JobShape, Record, Others
  PROVE  JobShape' /\ job'.phase \in Turning
<1>1. /\ runs # 0 /\ job.at <= Len(job.todo)
      /\ UNCHANGED <<runs, source, edited>> /\ job \in JobRecord
  BY StartedHasRecord DEF Record, At, Others, JobShape, Turning
<1>2. manifest' \subseteq LineRecord
  <2>1. Entry \in EntryRecord /\ job.status \in Statuses
    BY <1>1, EntrySays DEF JobRecord
  <2>2. [source |-> Entry.source, target |-> Entry.target, status |-> job.status] \in LineRecord
    BY <2>1 DEF EntryRecord, LineRecord
  <2> QED BY <2>2 DEF Record, JobShape
<1>3. CASE \E code \in {"attention", "failure"} : job' = Exit(code)
  <2>1. PICK code \in {"attention", "failure"} : job' = Exit(code)
    BY <1>3
  <2>2. JobShape' /\ job'.phase = "over"
    BY <1>1, <1>2, <2>1, ExitShape
  <2> QED BY <2>2 DEF Turning
<1>4. CASE \E phase \in {"entry", "onward"} :
             job' = [job EXCEPT !.phase = phase, !.at = @ + 1,
                                !.attention = @ \/ job.status \in Attention]
  <2> PICK phase \in {"entry", "onward"} :
             job' = [job EXCEPT !.phase = phase, !.at = @ + 1,
                                !.attention = @ \/ job.status \in Attention]
    BY <1>4
  <2>1. /\ job' \in JobRecord /\ job'.phase = phase /\ job'.todo = job.todo
        /\ job'.at = job.at + 1 /\ job'.run = job.run /\ job.at \in Nat /\ Len(job.todo) \in Nat
    <3>1. job.at \in Nat \ {0} /\ job.at + 1 \in Nat \ {0} /\ job.todo \in Seq(EntryRecord)
      BY <1>1 DEF JobRecord
    <3>2. PICK attention \in BOOLEAN :
            job' = [job EXCEPT !.phase = phase, !.at = @ + 1, !.attention = attention]
      <4> DEFINE attention == job.attention \/ job.status \in Attention
      <4>1. attention \in BOOLEAN
        OBVIOUS
      <4>2. job' = [job EXCEPT !.phase = phase, !.at = @ + 1, !.attention = attention]
        OBVIOUS
      <4> HIDE DEF attention
      <4> QED BY <4>1, <4>2
    <3>3. job' \in JobRecord
      BY <1>1, <3>1, <3>2 DEF JobRecord, Phases
    <3>4. /\ job'.phase = phase /\ job'.todo = job.todo
          /\ job'.at = job.at + 1 /\ job'.run = job.run
      BY <1>1, <3>2 DEF JobRecord
    <3> QED BY <3>1, <3>3, <3>4
  <2>2. TodoPlaced'
    BY <1>1, <2>1, TodoKept
  <2>3. MovePlaced'
    BY <2>1 DEF MovePlaced
  <2> QED BY <1>1, <1>2, <2>1, <2>2, <2>3 DEF JobShape, FilePhases, Turning
<1>5. \/ \E code \in {"attention", "failure"} : job' = Exit(code)
      \/ job' = [job EXCEPT !.phase = IF Unsaved THEN "onward" ELSE "entry", !.at = @ + 1,
                            !.attention = @ \/ job.status \in Attention]
  BY DEF Record
<1> QED BY <1>3, <1>4, <1>5 DEF Turning

LEMMA FinishShape ==
  ASSUME JobShape, Finish \/ Kill, Others
  PROVE  JobShape' /\ job'.phase = "over"
<1>1. runs # 0 /\ UNCHANGED <<runs, source, edited, manifest>> /\ manifest' \subseteq LineRecord
  BY StartedHasRecord DEF Finish, Between, Kill, At, Others, Queries, JobShape
<1>2. PICK code \in {"ok", "attention", "killed"} : job' = Exit(code)
  BY DEF Finish, Kill
<1> QED BY <1>1, <1>2, ExitShape

LEMMA ReadFailsShape ==
  ASSUME JobShape, ReadFails, Others
  PROVE  JobShape' /\ Entry' = Entry /\ job'.phase \in {"record", "unsaved"}
<1>1. /\ runs # 0 /\ job.at <= Len(job.todo) /\ Entry.type = "file"
      /\ UNCHANGED <<runs, manifest, source, edited>> /\ job \in JobRecord
  BY StartedHasRecord DEF ReadFails, At, CloseDestination, CloseAfter, Queries, Others, JobShape, FilePhases, Turning
<1>2. PICK phase \in {"record", "unsaved"} :
        job' = [job EXCEPT !.phase = phase, !.status = "error", !.hit = TRUE]
  BY DEF ReadFails, LoseWriter
<1>3. /\ job' \in JobRecord /\ job'.phase = phase
      /\ job'.todo = job.todo /\ job'.at = job.at /\ job'.run = job.run
  BY <1>1, <1>2 DEF JobRecord, Phases, Statuses, Attention
<1> QED BY <1>1, <1>3, SameEntry DEF FilePhases

(* The steps of a run whose writer was not left. *)
LEMMA CloseRaisesShape ==
  ASSUME JobShape, CloseRaises, Others
  PROVE  JobShape' /\ Entry' = Entry /\ job'.phase = "unsaved" /\ job'.status = "error"
<1>1. /\ runs # 0 /\ job.at <= Len(job.todo)
      /\ UNCHANGED <<runs, manifest, source, edited>> /\ job \in JobRecord
  BY StartedHasRecord DEF CloseRaises, At, Queries, Others, JobShape, Turning
<1>2. PICK hit \in BOOLEAN :
        job' = [job EXCEPT !.phase = "unsaved", !.status = "error", !.hit = hit]
  BY DEF CloseRaises, LoseWriter
<1>3. /\ job' \in JobRecord /\ job'.phase = "unsaved" /\ job'.status = "error"
      /\ job'.todo = job.todo /\ job'.at = job.at /\ job'.run = job.run
  BY <1>1, <1>2 DEF JobRecord, Phases, Statuses, Attention
<1> QED BY <1>1, <1>3, SameEntry DEF FilePhases

LEMMA ProcessUnsavedShape ==
  ASSUME JobShape, ProcessUnsaved, Others
  PROVE  JobShape' /\ Entry' = Entry /\ job'.phase = "unsaved" /\ job'.status # "none"
<1>1. /\ runs # 0 /\ job.at <= Len(job.todo)
      /\ UNCHANGED <<runs, manifest, source, edited>> /\ job \in JobRecord
  BY StartedHasRecord DEF ProcessUnsaved, At, Queries, Others
<1>2. PICK status \in Outcomes(Entry.type) :
        job' = [job EXCEPT !.phase = "unsaved", !.status = status]
  BY DEF ProcessUnsaved
<1>3. status \in Statuses /\ status # "none"
  BY DEF Outcomes, Statuses, Succeeded, Attention
<1>4. /\ job' \in JobRecord /\ job'.phase = "unsaved" /\ job'.status = status
      /\ job'.todo = job.todo /\ job'.at = job.at /\ job'.run = job.run
  BY <1>1, <1>2, <1>3 DEF JobRecord, Phases
<1> QED BY <1>1, <1>3, <1>4, SameEntry DEF FilePhases

-----------------------------------------------------------------------------
LEMMA FoundPlaced ==
  ASSUME IsSource(source), NEW e \in Found
  PROVE  e \in EntryRecord /\ Placed(e) /\ source[e.source].type = e.type /\ e.source \in DOMAIN source
<1>1. PICK p \in DOMAIN source :
        e = [source |-> p, target |-> TargetOf(p), type |-> source[p].type]
  BY DEF Found
<1>2. p \in Seq(Names) /\ <<>> \in DOMAIN source /\ Root \in Seq(Names) /\ SourceName \in Names
  BY MigrateAssumption DEF IsSource
<1>3. \A q \in DOMAIN source : source[q].type \in {"file", "directory"}
  BY DEF IsSource, SourceFile, SourceDirectory
<1>4. source[p].type = "file" => \A q \in DOMAIN source : ~Below(p, q)
  BY DEF IsSource
<1>5. CASE source[<<>>].type = "file"
  <2>1. p = <<>>
    <3>1. ~Below(<<>>, p)
      BY <1>2, <1>5 DEF IsSource
    <3> QED BY <1>2, <3>1, BelowSays, UptoSays DEF Below
  <2>2. SingleFileTarget \in {Root, Append(Root, SourceName)} \ {<<>>}
    BY <1>2 DEF SingleFileTarget
  <2>3. Append(Root, SourceName) \in Seq(Names)
    BY <1>2
  <2>4. TargetOf(p) = SingleFileTarget
    BY <1>5 DEF TargetOf
  <2> QED BY <1>1, <1>2, <1>3, <1>4, <1>5, <2>1, <2>2, <2>3, <2>4 DEF EntryRecord, Placed, PlacesOf
<1>6. CASE source[<<>>].type # "file"
  <2>1. TargetOf(p) = Root \o p /\ Root \o p \in Seq(Names)
    BY <1>2, <1>6 DEF TargetOf
  <2>2. source[p].type = "file" => p # <<>>
    BY <1>6
  <2>3. p # <<>> => Root \o p # <<>>
    BY <1>2
  <2> QED BY <1>1, <1>2, <1>3, <1>4, <1>6, <2>1, <2>2, <2>3 DEF EntryRecord, Placed, PlacesOf
<1> QED BY <1>5, <1>6

LEMMA LimitedSays ==
  ASSUME IsSource(source), NEW limit \in Nat
  PROVE  /\ Limited(Entries, limit) \in Seq(EntryRecord)
         /\ \A i \in DOMAIN Limited(Entries, limit) : Limited(Entries, limit)[i] \in Found
         /\ \A i \in DOMAIN Limited(Entries, limit) : i \in DOMAIN Entries
                                                     /\ Limited(Entries, limit)[i] = Entries[i]
<1> DEFINE n == Cardinality(Found)
           entries == Entries
<1>1. entries \in [1..n -> Found] /\ n \in Nat
  BY EntriesAre DEF IsSource
<1> HIDE DEF n, entries
<1>2. entries \in Seq(Found) /\ Len(entries) = n
  BY <1>1
<1>3. Found \subseteq EntryRecord
  BY FoundPlaced
<1>4. entries \in Seq(EntryRecord)
  BY <1>1, <1>3
<1>5. CASE Limited(Entries, limit) = entries
  BY <1>1, <1>2, <1>4, <1>5 DEF entries
<1>6. CASE limit # 0 /\ limit <= Len(entries) /\ Limited(Entries, limit) = SubSeq(entries, 1, limit)
  <2>1. SubSeq(entries, 1, limit) \in Seq(EntryRecord) /\ Len(SubSeq(entries, 1, limit)) = limit
    BY <1>2, <1>4, <1>6
  <2>2. \A i \in 1..limit : SubSeq(entries, 1, limit)[i] = entries[i] /\ i \in 1..n
    BY <1>2, <1>4, <1>6
  <2> QED BY <1>1, <1>2, <1>6, <2>1, <2>2 DEF entries
<1> QED BY <1>2, <1>5, <1>6 DEF Limited, entries, Upto

LEMMA RerunShape ==
  ASSUME JobShape, IsSource(source), Rerun
  PROVE  JobShape' /\ job'.phase = "entry"
<1>1. PICK opt \in Options, resume \in BOOLEAN, append \in BOOLEAN : Start(opt, resume, append, Entries)
  BY DEF Rerun
<1> DEFINE todo == Limited(Entries, opt.limit)
<1>2. opt.limit \in Nat
  BY MigrateAssumption
<1>3. /\ todo \in Seq(EntryRecord)
      /\ \A i \in DOMAIN todo : todo[i] \in Found
  BY <1>2, LimitedSays
<1>4. \A i \in DOMAIN todo : Placed(todo[i])
  BY <1>3, FoundPlaced
<1> HIDE DEF todo
<1>5. Completed \in SUBSET KeyRecord
  BY DEF Completed, Key, KeyRecord, JobShape, LineRecord
<1> DEFINE started ==
      [phase |-> "entry", run |-> runs + 1, opt |-> opt, todo |-> todo, at |-> 1,
       completed |-> IF resume THEN Completed ELSE {},
       status |-> "none", existed |-> FALSE, straight |-> FALSE,
       data |-> <<>>, to |-> <<>>, attention |-> FALSE, hit |-> FALSE, exit |-> "none"]
<1>6. job' = started /\ runs < Len(RunIds) /\ runs' = runs + 1 /\ manifest' \in {manifest, {}}
  BY <1>1 DEF Start, todo
<1>7. started \in JobRecord
  BY <1>3, <1>5 DEF JobShape, JobRecord, Phases, Statuses
<1>8. /\ job'.run = runs + 1 /\ job'.todo = todo /\ job'.at = 1 /\ job'.phase = "entry"
  BY <1>6
<1>9. runs \in Nat /\ RunIds \in Seq(Names)
  BY MigrateAssumption DEF JobShape
<1>10. job'.run \in DOMAIN RunIds
  BY <1>6, <1>8, <1>9
<1>11. TodoPlaced'
  <2>1. UNCHANGED <<source, edited>>
    BY DEF Rerun, Others
  <2> QED BY <1>4, <1>8, <2>1 DEF TodoPlaced, Placed, PlacesOf
<1>12. MovePlaced'
  BY <1>8 DEF MovePlaced
<1>13. 1 <= Len(todo) + 1
  BY <1>3
<1>14. manifest' \subseteq LineRecord
  BY <1>6 DEF JobShape
<1> HIDE DEF started
<1> QED BY <1>6, <1>7, <1>8, <1>9, <1>10, <1>11, <1>12, <1>13, <1>14 DEF JobShape, FilePhases, Turning

LEMMA ForeignShape ==
  ASSUME JobShape, IsSource(source), Foreign
  PROVE  /\ JobShape' /\ Entry' = Entry /\ IsSource(source)'
         /\ DOMAIN source' \subseteq DOMAIN source /\ edited \subseteq edited'
         /\ source'[<<>>].type = source[<<>>].type
         /\ \A p \in DOMAIN source : p \notin edited' => p \in DOMAIN source' /\ source'[p] = source[p]
<1>1. UNCHANGED <<job, runs, manifest>>
  BY DEF Foreign
<1>2. \/ UNCHANGED <<source, edited>>
      \/ \E p \in DOMAIN source :
           /\ source[p].type = "file" /\ edited' = edited \cup {p}
           /\ \/ \E data \in Seq(Bytes) : source' = [source EXCEPT ![p] = SourceFile(data)]
              \/ p # <<>> /\ source' = Without(source, {p})
  BY MigrateAssumption DEF Foreign, ForeignTarget, ForeignSource
<1>3. /\ IsSource(source)'
      /\ DOMAIN source' \subseteq DOMAIN source /\ edited \subseteq edited'
      /\ \A p \in DOMAIN source' : source'[p].type = source[p].type
      /\ \A p \in DOMAIN source : p \notin edited' => p \in DOMAIN source' /\ source'[p] = source[p]
      /\ <<>> \in DOMAIN source'
  <2>1. CASE UNCHANGED <<source, edited>>
    BY <2>1 DEF IsSource
  <2>2. CASE \E p \in DOMAIN source :
           /\ source[p].type = "file" /\ edited' = edited \cup {p}
           /\ \E data \in Seq(Bytes) : source' = [source EXCEPT ![p] = SourceFile(data)]
    <3>1. PICK p \in DOMAIN source, data \in Seq(Bytes) :
           /\ source[p].type = "file" /\ edited' = edited \cup {p}
           /\ source' = [source EXCEPT ![p] = SourceFile(data)]
      BY <2>2
    <3>2. /\ DOMAIN source' = DOMAIN source
          /\ source'[p] = SourceFile(data) /\ source'[p].type = "file" /\ source'[p].data = data
          /\ \A q \in DOMAIN source \ {p} : source'[q] = source[q]
      BY <3>1 DEF IsSource, SourceFile
    <3> QED BY <3>1, <3>2 DEF IsSource
  <2>3. CASE \E p \in DOMAIN source :
           /\ source[p].type = "file" /\ edited' = edited \cup {p}
           /\ p # <<>> /\ source' = Without(source, {p})
    <3>1. PICK p \in DOMAIN source :
           /\ source[p].type = "file" /\ edited' = edited \cup {p}
           /\ p # <<>> /\ source' = Without(source, {p})
      BY <2>3
    <3>2. /\ DOMAIN source' = DOMAIN source \ {p}
          /\ \A q \in DOMAIN source \ {p} : source'[q] = source[q]
      BY <3>1 DEF Without
    <3>3. IsFiniteSet(DOMAIN source')
      BY <3>2, FS_RemoveElement DEF IsSource
    <3> QED BY <3>1, <3>2, <3>3 DEF IsSource
  <2> QED BY <1>2, <2>1, <2>2, <2>3
<1>4. Entry' = Entry
  BY <1>1 DEF Entry
<1>5. TodoPlaced' \/ runs = 0
  <2>1. ASSUME NEW e, Placed(e), e \in EntryRecord
        PROVE  /\ e.target \in PlacesOf(e.source)'
               /\ e.type = "file" => e.target # <<>> /\ \A q \in DOMAIN source' : ~Below(e.source, q)
               /\ IF e.source \in DOMAIN source' THEN source'[e.source].type = e.type
                  ELSE e.source \in edited'
    BY <1>3, <2>1 DEF Placed, PlacesOf
  <2>2. runs # 0 => \A i \in DOMAIN job.todo : Placed(job.todo[i]) /\ job.todo[i] \in EntryRecord
    BY DEF JobShape, TodoPlaced, JobRecord
  <2> QED BY <1>1, <2>1, <2>2 DEF TodoPlaced, Placed, PlacesOf
<1>6. MovePlaced' <=> MovePlaced
  BY <1>1, <1>4 DEF MovePlaced
<1>7. JobShape'
  BY <1>1, <1>4, <1>5, <1>6 DEF JobShape
<1> QED BY <1>3, <1>4, <1>7
-----------------------------------------------------------------------------
(* The steps of a run: where they lead, and what they do to the target *)

LEMMA TempPathsSay ==
  ASSUME NEW e \in EntryRecord, e.target # <<>>, job.run \in DOMAIN RunIds
  PROVE  /\ TempDirectory(e) \in Seq(Names) \ {<<>>} /\ TempName \in Range(TempDirectory(e))
         /\ RunDirectory(e) \in Seq(Names) \ {<<>>} /\ TempName \in Range(RunDirectory(e))
         /\ TempPath(e) \in Seq(Names) \ {<<>>} /\ TempName \in Range(TempPath(e))
         /\ RunIds[job.run] \in Range(RunDirectory(e)) /\ RunIds[job.run] \in Range(TempPath(e))
         /\ Parent(e.target) \in Seq(Names)
<1> DEFINE parent == Parent(e.target)
           dir == TempDirectory(e)
           run == RunDirectory(e)
           id == RunIds[job.run]
           last == e.target[Len(e.target)]
<1>1. e.target \in Seq(Names) /\ Len(e.target) \in Nat \ {0}
  BY DEF EntryRecord
<1>2. Len(e.target) - 1 \in 0..Len(e.target)
  BY <1>1
<1>3. parent \in Seq(Names)
  BY <1>1, <1>2, UptoSays DEF Parent
<1>4. last \in Names /\ id \in Names /\ TempName \in Names
  BY <1>1, MigrateAssumption
<1> HIDE DEF parent, id, last
<1>5. dir = parent \o <<TempName>> /\ run = Append(dir, id) /\ TempPath(e) = Append(run, last)
  BY DEF TempDirectory, RunDirectory, TempPath, parent, id, last
<1> HIDE DEF dir, run
<1>6. /\ dir \in Seq(Names) /\ dir # <<>> /\ Len(dir) = Len(parent) + 1
      /\ dir[Len(dir)] = TempName /\ Len(dir) \in DOMAIN dir
  BY <1>3, <1>4, <1>5
<1>7. /\ run \in Seq(Names) /\ run # <<>> /\ Len(run) = Len(dir) + 1
      /\ run[Len(run)] = id /\ Len(run) \in DOMAIN run
      /\ \A i \in DOMAIN dir : i \in DOMAIN run /\ run[i] = dir[i]
  BY <1>4, <1>5, <1>6
<1>8. /\ TempPath(e) \in Seq(Names) /\ TempPath(e) # <<>>
      /\ \A i \in DOMAIN run : i \in DOMAIN TempPath(e) /\ TempPath(e)[i] = run[i]
  BY <1>4, <1>5, <1>7
<1>9. TempName \in Range(dir) /\ Range(dir) \subseteq Range(run) /\ id \in Range(run)
  BY <1>6, <1>7 DEF Range
<1>10. Range(run) \subseteq Range(TempPath(e))
  BY <1>8 DEF Range
<1> QED BY <1>3, <1>6, <1>7, <1>8, <1>9, <1>10 DEF dir, run, id, parent

LEMMA AboveRange ==
  ASSUME NEW p \in Seq(Names), NEW q \in Seq(Names), p = q \/ Below(p, q)
  PROVE  Range(p) \subseteq Range(q)
<1>1. CASE p = q
  BY <1>1
<1>2. CASE Below(p, q)
  <2>1. p = Upto(q, Len(p)) /\ Len(p) \in 0..Len(q)
    BY <1>2, AboveSays
  <2>2. \A i \in 1..Len(p) : p[i] = q[i]
    BY <2>1, UptoSays
  <2>3. \A i \in DOMAIN p : i \in DOMAIN q /\ p[i] = q[i]
    BY <2>1, <2>2
  <2> QED BY <2>3 DEF Range
<1> QED BY <1>1, <1>2

(* What the run has read so far, or the part that the writer got, is committed. *)
Stores == \E data \in Seq(Bytes) : Store(Destination, data)

(* What a step of a run, a failing read or a kill may do to the target. *)
TargetChange ==
  \/ UNCHANGED fsVars
  \/ \E p \in Seq(Names) : Makedirs(p)
  \/ /\ job.phase = "stream" /\ Stores
     /\ job.straight => Entry.target \in direct'
  \/ job.phase = "move" /\ Move(TempPath(Entry), job.to, MayReplace)
  \/ /\ job.phase \in {"look", "rmrun", "rmtemp"}
     /\ \E p \in {TempPath(Entry), RunDirectory(Entry), TempDirectory(Entry)} : Delete(p, FALSE)

LEMMA QueriesChangeNothing ==
  ASSUME Queries
  PROVE  UNCHANGED fsVars /\ UNCHANGED direct
BY DEF Queries

LEMMA StreamCloses ==
  ASSUME JobShape, SourceGone \/ WriteRaises \/ EndOfStream \/ ReadFails
  PROVE  /\ job.phase = "stream"
         /\ UNCHANGED fsVars \/ \E data \in Seq(Bytes) : CloseAfter(data)
<1>1. job.phase = "stream" /\ job.data \in Seq(Bytes)
  BY StartedHasRecord DEF SourceGone, WriteRaises, EndOfStream, ReadFails, At, JobRecord
<1>2. CASE WriteRaises
  <2>1. PICK n \in 0..MaxFileSize : CloseAfter(Upto(job.data, n))
    BY <1>2 DEF WriteRaises
  <2>2. n \in 0..Len(job.data)
    BY <1>1, <1>2, MigrateAssumption DEF WriteRaises, TooLarge
  <2>3. Upto(job.data, n) \in Seq(Bytes)
    BY <1>1, <2>2 DEF Upto
  <2> QED BY <1>1, <2>1, <2>3
<1>3. CASE SourceGone \/ EndOfStream \/ ReadFails
  BY <1>1, <1>3 DEF SourceGone, EndOfStream, ReadFails, CloseDestination, Queries
<1> QED BY <1>2, <1>3

LEMMA TargetChanges ==
  ASSUME JobShape, Step \/ ReadFails \/ Kill
  PROVE  TargetChange
<1>1. CASE \/ SkipCompleted \/ LookAtDirectory \/ LookAtFile \/ HashSource \/ CompareWithTarget
           \/ StreamChunk \/ LookBeforeMove \/ VerifyTarget \/ Finish \/ Kill \/ Record
           \/ CloseRaises \/ ProcessUnsaved
  <2>1. UNCHANGED fsVars
    BY <1>1
       DEF SkipCompleted, LookAtDirectory, LookAtFile, HashSource, CompareWithTarget, StreamChunk,
           LookBeforeMove, VerifyTarget, Finish, Kill, Record, CloseRaises,
           ProcessUnsaved, Queries
  <2> QED BY <2>1 DEF TargetChange
<1>2. CASE MakeDirectory
  <2>1. Entry.target \in Seq(Names)
    BY <1>2, EntrySays, StartedHasRecord DEF MakeDirectory, At, JobShape, EntryRecord, Turning
  <2> QED BY <1>2, <2>1 DEF MakeDirectory, TargetChange
<1>3. CASE MakeParent \/ MakeTempDirectory
  <2>1. Parent(Entry.target) \in Seq(Names) /\ RunDirectory(Entry) \in Seq(Names)
    BY <1>3, FileEntrySays, StartedHasRecord, TempPathsSay
       DEF MakeParent, MakeTempDirectory, At, FilePhases
  <2> QED BY <1>3, <2>1 DEF MakeParent, MakeTempDirectory, TargetChange
<1>4. CASE SourceGone \/ WriteRaises \/ EndOfStream \/ ReadFails
  <2>1. job.phase = "stream"
    BY <1>4, StreamCloses
  <2>2. UNCHANGED fsVars \/ \E data \in Seq(Bytes) : CloseAfter(data)
    BY <1>4, StreamCloses
  <2>3. CASE UNCHANGED fsVars
    BY <2>3 DEF TargetChange
  <2>4. CASE \E data \in Seq(Bytes) : CloseAfter(data)
    <3>1. PICK data \in Seq(Bytes) : CloseAfter(data)
      BY <2>4
    <3>2. UNCHANGED fsVars \/ Store(Destination, data)
      BY <3>1 DEF CloseAfter
    <3>3. job.straight => Entry.target \in direct'
      BY <3>1 DEF CloseAfter
    <3> QED BY <2>1, <3>2, <3>3 DEF TargetChange, Stores
  <2> QED BY <2>2, <2>3, <2>4
<1>5. CASE MoveTemp
  BY <1>5 DEF MoveTemp, At, TargetChange
<1>6. CASE MoveUnsupported \/ RemoveRunDirectory \/ RemoveTempDirectory
  BY <1>6 DEF MoveUnsupported, RemoveRunDirectory, RemoveTempDirectory, RmdirIfEmpty, At, TargetChange
<1> QED BY <1>1, <1>2, <1>3, <1>4, <1>5, <1>6 DEF Step

(* Where the temporary file is moved from. *)
LEMMA ReachesLook ==
  ASSUME JobShape, FileStep, job'.phase = "look"
  PROVE  EndOfStream /\ ~job.straight /\ Store(TempPath(Entry), job.data)
<1>1. job \in JobRecord
  BY StartedHasRecord
     DEF FileStep, MakeParent, MakeTempDirectory, SourceGone, WriteRaises, EndOfStream, MoveTemp,
         RemoveRunDirectory, RemoveTempDirectory, VerifyTarget, At
<1>2. \A phase, status : (GoOn(phase) => job'.phase = phase) /\ (Settle(status) => job'.phase = "record")
  BY <1>1 DEF GoOn, Settle, JobRecord
<1>3. /\ ~MakeParent /\ ~MakeTempDirectory /\ ~SourceGone /\ ~WriteRaises /\ ~MoveTemp
      /\ ~RemoveRunDirectory /\ ~RemoveTempDirectory /\ ~VerifyTarget
  BY <1>2 DEF MakeParent, MakeTempDirectory, SourceGone, WriteRaises, MoveTemp,
              RemoveRunDirectory, RemoveTempDirectory, VerifyTarget
<1>4. EndOfStream
  BY <1>3 DEF FileStep
<1>5. CanWrite(Destination) /\ ~job.straight
  BY <1>2, <1>4 DEF EndOfStream
<1> QED BY <1>4, <1>5 DEF EndOfStream, CloseDestination, CloseAfter, Destination

(* The phases of a run's next step. *)
LEMMA RunShape ==
  ASSUME JobShape, IsSource(source), Step \/ ReadFails \/ Kill, Others
  PROVE  /\ JobShape'
         /\ job'.phase \in FilePhases => Entry' = Entry /\ job'.run = job.run
         /\ job'.phase = "look" =>
              EndOfStream /\ ~job.straight /\ Store(TempPath(Entry), job.data)
         /\ job'.phase = "move" => LookBeforeMove
<1>1. CASE SkipCompleted
  BY <1>1, SkipCompletedShape DEF FilePhases
<1>2. CASE LookAtDirectory
  BY <1>2, LookAtDirectoryShape DEF FilePhases
<1>3. CASE MakeDirectory
  BY <1>3, MakeDirectoryShape DEF FilePhases
<1>4. CASE LookAtFile
  <2>1. job'.run = job.run
    BY <1>4, StartedHasRecord DEF LookAtFile, AtEntry, At, Settle, GoOn, JobRecord
  <2> QED BY <1>4, <2>1, LookAtFileShape DEF FilePhases
<1>5. CASE HashSource
  <2>1. job'.run = job.run
    BY <1>5, StartedHasRecord DEF HashSource, At, Settle, JobRecord
  <2> QED BY <1>5, <2>1, HashSourceShape DEF FilePhases
<1>6. CASE CompareWithTarget
  BY <1>6, CompareShape DEF FilePhases
<1>7. CASE FileStep
  <2>1. job \in JobRecord
    BY <1>7, StartedHasRecord
       DEF FileStep, MakeParent, MakeTempDirectory, SourceGone, WriteRaises, EndOfStream, MoveTemp,
           RemoveRunDirectory, RemoveTempDirectory, VerifyTarget, At
  <2>2. /\ JobShape' /\ Entry' = Entry
        /\ \/ job'.phase = "record"
           \/ /\ job'.run = job.run
              /\ job'.phase \in {"tempdir", "stream", "verify", "look", "rmrun", "rmtemp"}
    BY <1>7, <2>1, FileStepShape DEF GoOn, JobRecord
  <2> QED BY <1>7, <2>2, ReachesLook DEF FilePhases
<1>8. CASE StreamChunk
  <2>1. job'.run = job.run
    BY <1>8, StartedHasRecord DEF StreamChunk, At, JobRecord
  <2> QED BY <1>8, <2>1, StreamChunkShape DEF FilePhases
<1>9. CASE LookBeforeMove
  <2>1. job'.run = job.run
    BY <1>9, StartedHasRecord DEF LookBeforeMove, At, JobRecord
  <2> QED BY <1>9, <2>1, LookBeforeMoveShape DEF FilePhases
<1>10. CASE MoveUnsupported
  <2>1. job'.run = job.run
    BY <1>10, StartedHasRecord DEF MoveUnsupported, At, JobRecord
  <2> QED BY <1>10, <2>1, MoveUnsupportedShape DEF FilePhases
<1>11. CASE Record
  BY <1>11, RecordShape DEF FilePhases, Turning
<1>12. CASE Finish \/ Kill
  BY <1>12, FinishShape DEF FilePhases
<1>13. CASE ReadFails
  BY <1>13, ReadFailsShape DEF FilePhases
<1>14. CASE CloseRaises \/ ProcessUnsaved
  BY <1>14, CloseRaisesShape, ProcessUnsavedShape DEF FilePhases
<1> QED
  BY <1>1, <1>2, <1>3, <1>4, <1>5, <1>6, <1>7, <1>8, <1>9, <1>10, <1>11, <1>12, <1>13, <1>14
     DEF Step, FileStep
-----------------------------------------------------------------------------
(* What others do to the target. *)
LEMMA ForeignTargetSays ==
  ASSUME HeldTree, ForeignTarget
  PROVE  \E p \in ForeignPaths :
           /\ touched' = touched \cup {p} /\ HeldTree' /\ nextId' >= nextId
           /\ \A q \in DOMAIN tree' \ DOMAIN tree :
                /\ q = p \/ (Below(q, p) /\ tree'[q].type = "directory")
                /\ tree'[q].id \in nextId..(nextId' - 1)
           /\ \A q \in DOMAIN tree \cap DOMAIN tree' :
                tree'[q].id = tree[q].id /\ (q # p => tree'[q] = tree[q])
           /\ \A q \in DOMAIN tree \ DOMAIN tree' : q = p \/ Below(p, q)
<1>1. PICK p \in ForeignPaths :
        /\ touched' = touched \cup {p}
        /\ \/ \E data \in ForeignData : Overwrite(p, data)
           \/ Delete(p, TRUE)
           \/ \E base \in 0..(Len(p) - 1) : CreateDirectory(p, base)
  BY DEF ForeignTarget
<1>2. p \in Seq(Names) \ {<<>>} /\ ForeignData \subseteq Seq(Bytes) /\ nextId \in Nat
  BY MigrateAssumption DEF HeldTree
<1> DEFINE New == \A q \in DOMAIN tree' \ DOMAIN tree :
                    /\ q = p \/ (Below(q, p) /\ tree'[q].type = "directory")
                    /\ tree'[q].id \in nextId..(nextId' - 1)
           Old == \A q \in DOMAIN tree \cap DOMAIN tree' :
                    tree'[q].id = tree[q].id /\ (q # p => tree'[q] = tree[q])
           Gone == \A q \in DOMAIN tree \ DOMAIN tree' : q = p \/ Below(p, q)
<1>3. ASSUME \E data \in ForeignData : Overwrite(p, data)
      PROVE  HeldTree' /\ nextId' >= nextId /\ New /\ Old /\ Gone
  <2>1. PICK data \in Seq(Bytes) : Store(p, data)
    BY <1>2, <1>3 DEF Overwrite
  <2>2. /\ HeldTree' /\ nextId' >= nextId
        /\ DOMAIN tree' = DOMAIN tree \cup {p} /\ Keeps(DOMAIN tree \ {p})
        /\ p \in DOMAIN tree => tree'[p].id = tree[p].id
        /\ p \notin DOMAIN tree => tree'[p].id \in nextId..(nextId' - 1)
    BY <1>2, <2>1, StoreSays
  <2> QED BY <2>2 DEF Keeps
<1>4. ASSUME Delete(p, TRUE)
      PROVE  HeldTree' /\ nextId' >= nextId /\ New /\ Old /\ Gone
  <2>1. /\ HeldTree' /\ nextId' = nextId
        /\ DOMAIN tree' = DOMAIN tree \ TreeAt(p) /\ Keeps(DOMAIN tree')
    BY <1>4, DeleteSays
  <2> QED BY <1>2, <2>1 DEF Keeps, TreeAt
<1>5. ASSUME \E base \in 0..(Len(p) - 1) : CreateDirectory(p, base)
      PROVE  HeldTree' /\ nextId' >= nextId /\ New /\ Old /\ Gone
  <2>1. PICK base \in 0..(Len(p) - 1) : CreateDirectory(p, base)
    BY <1>5
  <2>2. /\ HeldTree' /\ Keeps(DOMAIN tree) /\ nextId' >= nextId
        /\ \A q \in DOMAIN tree' \ DOMAIN tree :
              /\ q = p \/ Below(q, p)
              /\ tree'[q].type = "directory" /\ tree'[q].id \in nextId..(nextId' - 1)
    BY <1>2, <2>1, CreateDirectorySays
  <2> QED BY <2>2 DEF Keeps
<1>6. HeldTree' /\ nextId' >= nextId /\ New /\ Old /\ Gone
  BY <1>1, <1>3, <1>4, <1>5
<1> QED BY <1>1, <1>6

-----------------------------------------------------------------------------
(* The invariant of every run *)

(* The temporary file is there as it was written, or it is gone. *)
TempIsFile ==
  job.phase \in {"look", "move"} => (Present(TempPath(Entry)) => IsFile(TempPath(Entry)))

MigrateInv ==
  /\ IsSource(source) /\ HeldTree /\ JobShape /\ TempIsFile
  /\ mine \subseteq Nat /\ \A i \in mine : i < nextId
  /\ foreign \in Nat

OthersKeepOut == \A p \in ForeignPaths : ~Temporary(p)

LEMMA MigrateInvInit ==
  ASSUME MigrateInit
  PROVE  MigrateInv
<1>1. tree \in Targets /\ nextId = Cardinality(DOMAIN tree) + 1 /\ IsTarget(tree)
  BY MigrateAssumption DEF MigrateInit
<1>2. Cardinality(DOMAIN tree) \in Nat
  BY <1>1, FS_CardinalityType DEF IsTarget
<1> DEFINE n == Cardinality(DOMAIN tree)
<1>3. ASSUME NEW p \in DOMAIN tree
      PROVE  /\ tree[p].id \in 1..n
             /\ tree[p].type \in {"file", "directory"}
             /\ tree[p].type = "file" =>
                  tree[p].data \in Seq(Bytes) /\ \A q \in DOMAIN tree : ~Below(p, q)
  BY <1>1 DEF IsTarget, File, Directory
<1> HIDE DEF n
<1>4. SoundTree
  BY <1>1, <1>3 DEF IsTarget, SoundTree, IsFile
<1>5. HeldTree
  BY <1>1, <1>2, <1>3, <1>4 DEF HeldTree, n
<1>6. IsSource(source)
  BY MigrateAssumption DEF MigrateInit
<1>7. JobShape
  BY DEF MigrateInit, JobShape
<1>8. job.phase = "over"
  BY DEF MigrateInit, NotStarted
<1> QED BY <1>5, <1>6, <1>7, <1>8 DEF MigrateInit, MigrateInv, TempIsFile

LEMMA NumbersUpTo ==
  ASSUME NEW a \in Nat, NEW b \in Nat
  PROVE  \A i \in a..(b - 1) : i \in Nat /\ i < b
OBVIOUS

(* A run's step keeps what it does not write, and what it adds is its own. *)
LEMMA TargetChangeSays ==
  ASSUME MigrateInv, TargetChange
  PROVE  /\ HeldTree' /\ nextId' >= nextId
         /\ \A p \in DOMAIN tree' \ DOMAIN tree :
              \/ tree'[p].id \in nextId..(nextId' - 1)
              \/ /\ job.phase = "move" /\ p = job.to /\ IsFile(TempPath(Entry))
                 /\ tree'[p] = tree[TempPath(Entry)]
<1> DEFINE New == \A p \in DOMAIN tree' \ DOMAIN tree :
                    \/ tree'[p].id \in nextId..(nextId' - 1)
                    \/ /\ job.phase = "move" /\ p = job.to /\ IsFile(TempPath(Entry))
                       /\ tree'[p] = tree[TempPath(Entry)]
<1>1. HeldTree /\ nextId \in Nat
  BY DEF MigrateInv, HeldTree
<1>2. CASE UNCHANGED fsVars
  BY <1>1, <1>2 DEF fsVars, HeldTree, SoundTree, IsFile
<1>3. CASE \E p \in Seq(Names) : Makedirs(p)
  BY <1>1, <1>3, MakedirsSays
<1>4. CASE job.phase = "stream" /\ Stores
  <2> PICK data \in Seq(Bytes) : Store(Destination, data)
    BY <1>4 DEF Stores
  <2>1. Destination \in Seq(Names) \ {<<>>}
    <3>1. job \in JobRecord /\ Entry \in EntryRecord /\ Entry.target \in Seq(Names) \ {<<>>}
          /\ job.run \in DOMAIN RunIds
      BY <1>4, FileEntrySays, StartedHasRecord DEF MigrateInv, FilePhases
    <3> QED BY <3>1, TempPathsSay DEF Destination, JobRecord
  <2> QED BY <1>1, <1>4, <2>1, StoreSays
<1>5. CASE job.phase = "move" /\ Move(TempPath(Entry), job.to, MayReplace)
  <2>1. /\ job \in JobRecord /\ Entry \in EntryRecord /\ Entry.target \in Seq(Names) \ {<<>>}
        /\ job.run \in DOMAIN RunIds /\ MovePlaced
    BY <1>5, FileEntrySays, StartedHasRecord DEF MigrateInv, FilePhases, JobShape
  <2>2. TempPath(Entry) \in Seq(Names) \ {<<>>} /\ job.to \in Seq(Names) \ {<<>>}
    BY <1>5, <2>1, TempPathsSay DEF MovePlaced, JobRecord
  <2>3. IsFile(TempPath(Entry))
    BY <1>5 DEF Move, CanMove, MigrateInv, TempIsFile
  <2>4. /\ HeldTree' /\ nextId' = nextId
        /\ DOMAIN tree' = (DOMAIN tree \ {TempPath(Entry)}) \cup {job.to}
        /\ tree'[job.to] = tree[TempPath(Entry)]
    BY <1>1, <1>5, <2>2, <2>3, MoveFileSays
  <2> QED BY <1>1, <1>5, <2>3, <2>4
<1>6. CASE \E p \in {TempPath(Entry), RunDirectory(Entry), TempDirectory(Entry)} : Delete(p, FALSE)
  <2>1. PICK p : Delete(p, FALSE)
    BY <1>6
  <2>2. HeldTree' /\ nextId' = nextId /\ DOMAIN tree' \subseteq DOMAIN tree
    BY <1>1, <2>1, DeleteSays
  <2> QED BY <1>1, <2>2
<1> QED BY <1>2, <1>3, <1>4, <1>5, <1>6 DEF TargetChange

LEMMA RunKeepsInv ==
  ASSUME MigrateInv, Step \/ ReadFails \/ Kill, Others, Creates
  PROVE  MigrateInv'
<1>1. TargetChange
  BY TargetChanges DEF MigrateInv
<1>2. HeldTree' /\ nextId' >= nextId /\ nextId \in Nat /\ nextId' \in Nat
  BY <1>1, TargetChangeSays DEF MigrateInv, HeldTree
<1>3. /\ JobShape' /\ IsSource(source)
      /\ job'.phase \in FilePhases => Entry' = Entry /\ job'.run = job.run
      /\ job'.phase = "look" => EndOfStream /\ ~job.straight /\ Store(TempPath(Entry), job.data)
      /\ job'.phase = "move" => LookBeforeMove
  BY RunShape DEF MigrateInv
<1>4. IsSource(source)'
  BY <1>3 DEF Others, IsSource
<1>5. job'.phase \in {"look", "move"} => TempPath(Entry)' = TempPath(Entry)
  BY <1>3 DEF TempPath, RunDirectory, TempDirectory, FilePhases
<1>6. ASSUME job'.phase = "look"
      PROVE  IsFile(TempPath(Entry))'
  <2>1. Store(TempPath(Entry), job.data) /\ TempPath(Entry)' = TempPath(Entry)
    BY <1>3, <1>5, <1>6
  <2>2. job.phase = "stream"
    BY <1>3, <1>6 DEF EndOfStream, At
  <2>3. /\ job \in JobRecord /\ Entry \in EntryRecord /\ Entry.target \in Seq(Names) \ {<<>>}
        /\ job.run \in DOMAIN RunIds
    BY <2>2, FileEntrySays, StartedHasRecord DEF MigrateInv, FilePhases
  <2>4. TempPath(Entry) \in Seq(Names) \ {<<>>} /\ job.data \in Seq(Bytes) /\ HeldTree
    BY <2>3, TempPathsSay DEF JobRecord, MigrateInv
  <2>5. TempPath(Entry) \in DOMAIN tree' /\ tree'[TempPath(Entry)].type = "file"
    BY <2>1, <2>4, StoreSays
  <2> QED BY <2>1, <2>5 DEF IsFile
<1>7. ASSUME job'.phase = "move"
      PROVE  tree' = tree /\ job.phase = "look"
  BY <1>3, <1>7 DEF LookBeforeMove, Queries, fsVars, At
<1>8. TempIsFile'
  BY <1>5, <1>6, <1>7 DEF TempIsFile, MigrateInv, IsFile, Present, TreeAt
<1>9. mine' \subseteq Nat /\ \A i \in mine' : i < nextId'
  <2>1. \A i \in mine : i \in Nat /\ i < nextId'
    BY <1>2 DEF MigrateInv
  <2>2. \A i \in nextId..(nextId' - 1) : i \in Nat /\ i < nextId'
    <3>1. nextId \in Nat /\ nextId' \in Nat
      BY <1>2
    <3> QED BY <3>1, NumbersUpTo
  <2> QED BY <2>1, <2>2 DEF Creates
<1> QED BY <1>2, <1>3, <1>4, <1>8, <1>9 DEF MigrateInv, Others

(* A temporary path is out of the reach of others. *)
LEMMA OthersLeaveTemps ==
  ASSUME HeldTree, OthersKeepOut, ForeignTarget, NEW q \in Seq(Names), Temporary(q)
  PROVE  /\ \A r \in DOMAIN tree' : r = q \/ Below(q, r) => r \in DOMAIN tree
         /\ q \in DOMAIN tree' => q \in DOMAIN tree /\ tree'[q] = tree[q]
<1>1. PICK p \in ForeignPaths :
        /\ HeldTree'
        /\ \A r \in DOMAIN tree' \ DOMAIN tree : r = p \/ Below(r, p)
        /\ \A r \in DOMAIN tree \cap DOMAIN tree' : r # p => tree'[r] = tree[r]
  BY ForeignTargetSays
<1>2. p \in Seq(Names) /\ ~Temporary(p)
  BY MigrateAssumption DEF OthersKeepOut
<1>3. \A r \in Seq(Names) : r = p \/ Below(r, p) => ~(r = q \/ Below(q, r))
  <2> SUFFICES ASSUME NEW r \in Seq(Names), r = p \/ Below(r, p), r = q \/ Below(q, r)
               PROVE  FALSE
    OBVIOUS
  <2>1. Range(r) \subseteq Range(p) /\ Range(q) \subseteq Range(r)
    BY <1>2, AboveRange
  <2> QED BY <1>2, <2>1 DEF Temporary
<1>4. DOMAIN tree' \subseteq Seq(Names)
  BY <1>1 DEF HeldTree, SoundTree
<1> QED BY <1>1, <1>2, <1>3, <1>4

LEMMA ForeignKeepsInv ==
  ASSUME MigrateInv, OthersKeepOut, Foreign
  PROVE  MigrateInv'
<1>1. JobShape' /\ Entry' = Entry /\ IsSource(source)'
  BY ForeignShape DEF MigrateInv
<1>2. UNCHANGED <<job, mine>> /\ foreign' = foreign + 1
  BY DEF Foreign
<1>3. nextId \in Nat /\ foreign \in Nat /\ HeldTree
  BY DEF MigrateInv, HeldTree
<1>4. ForeignTarget \/ UNCHANGED fsVars
  BY DEF Foreign, ForeignSource
<1>5. HeldTree' /\ nextId' >= nextId /\ nextId' \in Nat
  <2>1. CASE ForeignTarget
    BY <1>3, <2>1, ForeignTargetSays DEF HeldTree
  <2>2. CASE UNCHANGED fsVars
    BY <1>3, <2>2 DEF fsVars, HeldTree, SoundTree, IsFile
  <2> QED BY <1>4, <2>1, <2>2
<1>6. mine' \subseteq Nat /\ \A i \in mine' : i < nextId'
  BY <1>2, <1>3, <1>5 DEF MigrateInv
<1>7. TempPath(Entry)' = TempPath(Entry)
  BY <1>1, <1>2 DEF TempPath, RunDirectory, TempDirectory
<1>8. TempIsFile'
  <2>1. CASE UNCHANGED fsVars
    BY <1>2, <1>7, <2>1 DEF fsVars, TempIsFile, MigrateInv, IsFile, Present, TreeAt
  <2>2. CASE ForeignTarget /\ job.phase \in {"look", "move"}
    <3>1. /\ job \in JobRecord /\ Entry \in EntryRecord /\ Entry.target \in Seq(Names) \ {<<>>}
          /\ job.run \in DOMAIN RunIds
      BY <2>2, FileEntrySays, StartedHasRecord DEF MigrateInv, FilePhases
    <3>2. TempPath(Entry) \in Seq(Names) /\ Temporary(TempPath(Entry))
      BY <3>1, TempPathsSay DEF Temporary, Range
    <3> DEFINE q == TempPath(Entry)
    <3> HIDE DEF q
    <3>3. /\ \A r \in DOMAIN tree' : r = q \/ Below(q, r) => r \in DOMAIN tree
          /\ q \in DOMAIN tree' => q \in DOMAIN tree /\ tree'[q] = tree[q]
      BY <1>3, <2>2, <3>2, OthersLeaveTemps DEF q
    <3>4. \A r \in DOMAIN tree' : r = q \/ Below(q, r) => q \in DOMAIN tree' /\ tree'[q].type = "file"
      <4>1. Present(q) => IsFile(q)
        BY <2>2 DEF MigrateInv, TempIsFile, q
      <4>2. IsFile(q) => \A r \in DOMAIN tree : ~Below(q, r)
        BY <1>3 DEF HeldTree, SoundTree, IsFile
      <4>3. ASSUME NEW r \in DOMAIN tree', r = q \/ Below(q, r)
            PROVE  q \in DOMAIN tree' /\ tree'[q].type = "file"
        <5>1. r \in DOMAIN tree
          BY <3>3, <4>3
        <5>2. IsFile(q) /\ r = q
          BY <4>1, <4>2, <4>3, <5>1 DEF Present, TreeAt
        <5> QED BY <3>3, <4>3, <5>2 DEF IsFile
      <4> QED BY <4>3
    <3> QED BY <1>7, <3>4 DEF TempIsFile, q, Present, TreeAt, IsFile
  <2>3. CASE job.phase \notin {"look", "move"}
    BY <1>2, <2>3 DEF TempIsFile
  <2> QED BY <1>4, <2>1, <2>2, <2>3
<1> QED BY <1>1, <1>2, <1>3, <1>5, <1>6, <1>8 DEF MigrateInv

LEMMA MigrateKeepsInv ==
  ASSUME MigrateInv, OthersKeepOut, [MigrateNext]_migrateVars
  PROVE  MigrateInv'
<1>1. CASE RunStep
  BY <1>1, RunKeepsInv DEF RunStep
<1>2. CASE Rerun
  <2>1. JobShape' /\ job'.phase = "entry"
    BY <1>2, RerunShape DEF MigrateInv
  <2>2. UNCHANGED <<tree, nextId, source, mine, foreign>>
    BY <1>2 DEF Rerun, Start, Others, fsVars
  <2> QED
    BY <2>1, <2>2 DEF MigrateInv, TempIsFile, IsSource, HeldTree, SoundTree, IsFile
<1>3. CASE Fault
  BY <1>3, RunKeepsInv DEF Fault
<1>4. CASE Foreign
  BY <1>4, ForeignKeepsInv
<1>5. CASE UNCHANGED migrateVars
  BY <1>5 DEF migrateVars, fsVars, MigrateInv, IsSource, HeldTree, SoundTree, IsFile, JobShape,
              TodoPlaced, Placed, PlacesOf, MovePlaced, Entry, TempIsFile, TempPath,
              RunDirectory, TempDirectory, Present, TreeAt
<1> QED BY <1>1, <1>2, <1>3, <1>4, <1>5 DEF MigrateNext
-----------------------------------------------------------------------------
(* What is stored under the reserved name is the command's own. *)
TempsMine == \A p \in DOMAIN tree : TempName \in Range(p) => tree[p].id \in mine

LEMMA ReservedKeepsOut ==
  ASSUME TempNameIsReserved
  PROVE  OthersKeepOut
BY DEF TempNameIsReserved, OthersKeepOut, Temporary

(* Where a run writes, and what it must not touch. *)
LEMMA RunKeepsForeign ==
  ASSUME MigrateInv, TempsMine, TargetChange,
         NEW p \in DOMAIN tree, tree[p].id \notin mine
  PROVE  \/ p \in DOMAIN tree' /\ tree'[p] = tree[p]
         \/ p = Entry.target /\ job.straight
         \/ p = job.to /\ job.existed /\ job.opt.conflict = "overwrite"
<1>1. HeldTree /\ p \in Seq(Names) \ {<<>>} /\ TempName \notin Range(p)
  BY DEF MigrateInv, HeldTree, SoundTree, TempsMine
<1>2. CASE UNCHANGED fsVars
  BY <1>2 DEF fsVars
<1>3. CASE \E q \in Seq(Names) : Makedirs(q)
  BY <1>1, <1>3, MakedirsSays DEF Keeps
<1>4. ASSUME job.phase \in FilePhases
      PROVE  /\ job \in JobRecord /\ Entry \in EntryRecord /\ Entry.target \in Seq(Names) \ {<<>>}
             /\ job.run \in DOMAIN RunIds /\ MovePlaced
             /\ p \notin {TempPath(Entry), RunDirectory(Entry), TempDirectory(Entry)}
             /\ TempPath(Entry) \in Seq(Names) \ {<<>>}
  <2>1. /\ job \in JobRecord /\ Entry \in EntryRecord /\ Entry.target \in Seq(Names) \ {<<>>}
        /\ job.run \in DOMAIN RunIds /\ MovePlaced
    BY <1>4, FileEntrySays, StartedHasRecord DEF MigrateInv, FilePhases, JobShape
  <2> QED BY <1>1, <2>1, TempPathsSay
<1>5. CASE job.phase = "stream" /\ Stores
  <2> PICK data \in Seq(Bytes) : Store(Destination, data)
    BY <1>5 DEF Stores
  <2>1. /\ Destination \in Seq(Names) \ {<<>>}
        /\ p = Destination => p = Entry.target /\ job.straight
    BY <1>4, <1>5 DEF Destination, JobRecord, FilePhases
  <2>2. Keeps(DOMAIN tree \ {Destination})
    BY <1>1, <1>5, <2>1, StoreSays
  <2> QED BY <2>1, <2>2 DEF Keeps
<1>6. CASE job.phase = "move" /\ Move(TempPath(Entry), job.to, MayReplace)
  <2>1. TempPath(Entry) \in Seq(Names) \ {<<>>} /\ job.to \in Seq(Names) \ {<<>>} /\ p # TempPath(Entry)
    BY <1>4, <1>6 DEF MovePlaced, JobRecord, FilePhases
  <2>2. IsFile(TempPath(Entry))
    BY <1>6 DEF Move, CanMove, MigrateInv, TempIsFile
  <2>3. Keeps(DOMAIN tree \ {TempPath(Entry), job.to})
    BY <1>1, <1>6, <2>1, <2>2, MoveFileSays
  <2>4. job.to \in DOMAIN tree => MayReplace
    BY <1>6 DEF Move, CanMove, Present, TreeAt
  <2> QED BY <2>1, <2>3, <2>4 DEF Keeps, MayReplace
<1>7. CASE /\ job.phase \in {"look", "rmrun", "rmtemp"}
           /\ \E q \in {TempPath(Entry), RunDirectory(Entry), TempDirectory(Entry)} : Delete(q, FALSE)
  <2>1. PICK q \in {TempPath(Entry), RunDirectory(Entry), TempDirectory(Entry)} : Delete(q, FALSE)
    BY <1>7
  <2>2. p # q
    BY <1>4, <1>7 DEF FilePhases
  <2>3. TreeAt(q) = {q}
    BY <2>1 DEF Delete, Erase, CanErase
  <2>4. DOMAIN tree' = DOMAIN tree \ TreeAt(q) /\ Keeps(DOMAIN tree')
    BY <1>1, <2>1, DeleteSays
  <2> QED BY <2>2, <2>3, <2>4 DEF Keeps
<1> QED BY <1>2, <1>3, <1>5, <1>6, <1>7 DEF TargetChange

(* A row that stays keeps its id, but for the target of a move, which takes over
   that of the temporary file. *)
LEMMA RunKeepsIds ==
  ASSUME MigrateInv, TargetChange, NEW p \in DOMAIN tree \cap DOMAIN tree'
  PROVE  \/ tree'[p].id = tree[p].id
         \/ /\ job.phase = "move" /\ p = job.to /\ IsFile(TempPath(Entry))
            /\ tree'[p] = tree[TempPath(Entry)]
<1>1. HeldTree
  BY DEF MigrateInv
<1>2. CASE UNCHANGED fsVars
  BY <1>2 DEF fsVars
<1>3. CASE \E q \in Seq(Names) : Makedirs(q)
  BY <1>1, <1>3, MakedirsSays DEF Keeps
<1>4. ASSUME job.phase \in FilePhases
      PROVE  /\ job \in JobRecord /\ Entry.target \in Seq(Names) \ {<<>>}
             /\ MovePlaced /\ TempPath(Entry) \in Seq(Names) \ {<<>>}
  <2>1. /\ job \in JobRecord /\ Entry \in EntryRecord /\ Entry.target \in Seq(Names) \ {<<>>}
        /\ job.run \in DOMAIN RunIds /\ MovePlaced
    BY <1>4, FileEntrySays, StartedHasRecord DEF MigrateInv, FilePhases, JobShape
  <2> QED BY <1>1, <2>1, TempPathsSay
<1>5. CASE job.phase = "stream" /\ Stores
  <2> PICK data \in Seq(Bytes) : Store(Destination, data)
    BY <1>5 DEF Stores
  <2>1. Destination \in Seq(Names) \ {<<>>}
    BY <1>4, <1>5 DEF Destination, JobRecord, FilePhases
  <2>2. /\ Keeps(DOMAIN tree \ {Destination})
        /\ Destination \in DOMAIN tree => tree'[Destination].id = tree[Destination].id
    BY <1>1, <1>5, <2>1, StoreSays
  <2> QED BY <2>1, <2>2 DEF Keeps
<1>6. CASE job.phase = "move" /\ Move(TempPath(Entry), job.to, MayReplace)
  <2>1. TempPath(Entry) \in Seq(Names) \ {<<>>} /\ job.to \in Seq(Names) \ {<<>>}
    BY <1>4, <1>6 DEF MovePlaced, JobRecord, FilePhases
  <2>2. IsFile(TempPath(Entry))
    BY <1>6 DEF Move, CanMove, MigrateInv, TempIsFile
  <2>3. /\ Keeps(DOMAIN tree \ {TempPath(Entry), job.to}) /\ tree'[job.to] = tree[TempPath(Entry)]
        /\ TempPath(Entry) # job.to
        /\ DOMAIN tree' = (DOMAIN tree \ {TempPath(Entry)}) \cup {job.to}
    BY <1>1, <1>6, <2>1, <2>2, MoveFileSays
  <2> QED BY <1>6, <2>2, <2>3 DEF Keeps
<1>7. CASE \E q \in {TempPath(Entry), RunDirectory(Entry), TempDirectory(Entry)} : Delete(q, FALSE)
  <2>1. PICK q : Delete(q, FALSE)
    BY <1>7
  <2>2. Keeps(DOMAIN tree')
    BY <1>1, <2>1, DeleteSays
  <2> QED BY <2>2 DEF Keeps
<1> QED BY <1>2, <1>3, <1>5, <1>6, <1>7 DEF TargetChange

LEMMA RunKeepsTempsMine ==
  ASSUME MigrateInv, TempsMine, TargetChange, Creates
  PROVE  TempsMine'
<1>1. mine' = mine \cup nextId..(nextId' - 1)
  BY DEF Creates
<1>2. ASSUME NEW p \in DOMAIN tree', TempName \in Range(p)
      PROVE  tree'[p].id \in mine'
  <2>1. CASE /\ job.phase = "move" /\ p = job.to /\ IsFile(TempPath(Entry))
             /\ tree'[p] = tree[TempPath(Entry)]
    <3>1. TempName \in Range(TempPath(Entry))
      BY <2>1, FileEntrySays, StartedHasRecord, TempPathsSay DEF MigrateInv, FilePhases
    <3> QED BY <1>1, <2>1, <3>1 DEF IsFile, TempsMine
  <2>2. CASE p \in DOMAIN tree /\ tree'[p].id = tree[p].id
    BY <1>1, <1>2, <2>2 DEF TempsMine
  <2>3. CASE p \notin DOMAIN tree /\ tree'[p].id \in nextId..(nextId' - 1)
    BY <1>1, <2>3
  <2> QED BY <1>2, <2>1, <2>2, <2>3, TargetChangeSays, RunKeepsIds
<1> QED BY <1>2 DEF TempsMine

LEMMA MigrateKeepsTempsMine ==
  ASSUME MigrateInv, TempsMine, TempNameIsReserved, [MigrateNext]_migrateVars
  PROVE  TempsMine'
<1>1. CASE RunStep \/ Fault
  <2>1. TargetChange /\ Creates
    BY <1>1, TargetChanges DEF RunStep, Fault, MigrateInv
  <2> QED BY <2>1, RunKeepsTempsMine
<1>2. CASE Rerun
  BY <1>2 DEF Rerun, Start, fsVars, TempsMine
<1>3. CASE Foreign
  <2>1. mine' = mine
    BY <1>3 DEF Foreign
  <2>2. CASE ForeignTarget
    <3>1. PICK p \in ForeignPaths :
            /\ HeldTree'
            /\ \A q \in DOMAIN tree' \ DOMAIN tree : q = p \/ Below(q, p)
            /\ \A q \in DOMAIN tree \cap DOMAIN tree' : tree'[q].id = tree[q].id
      BY <2>2, ForeignTargetSays DEF MigrateInv
    <3>2. p \in Seq(Names) /\ TempName \notin Range(p)
      BY MigrateAssumption DEF TempNameIsReserved
    <3>3. ASSUME NEW q \in DOMAIN tree' \ DOMAIN tree
          PROVE  TempName \notin Range(q)
      <4>1. q \in Seq(Names) /\ (q = p \/ Below(q, p))
        BY <3>1 DEF HeldTree, SoundTree
      <4> QED BY <3>2, <4>1, AboveRange
    <3> QED BY <2>1, <3>1, <3>3 DEF TempsMine
  <2>3. CASE UNCHANGED fsVars
    BY <2>1, <2>3 DEF fsVars, TempsMine
  <2> QED BY <1>3, <2>2, <2>3 DEF Foreign, ForeignSource
<1>4. CASE UNCHANGED migrateVars
  BY <1>4 DEF migrateVars, fsVars, TempsMine
<1> QED BY <1>1, <1>2, <1>3, <1>4 DEF MigrateNext

LEMMA MigrateKeepsForeign ==
  ASSUME MigrateInv, TempsMine, MigrateNext
  PROVE  ForeignKept
<1>1. CASE RunStep \/ Fault
  <2>1. TargetChange
    BY <1>1, TargetChanges DEF RunStep, Fault, MigrateInv
  <2> QED BY <2>1, RunKeepsForeign DEF ForeignKept
<1>2. CASE Rerun
  BY <1>2 DEF Rerun, Start, fsVars, ForeignKept
<1>3. CASE Foreign
  <2>1. foreign' # foreign
    BY <1>3 DEF Foreign, MigrateInv
  <2> QED BY <2>1 DEF ForeignKept
<1> QED BY <1>1, <1>2, <1>3 DEF MigrateNext

(* Where nobody else uses the reserved name, no step of the command changes or removes
   what others have stored, but for a target written without a move and a file that
   --conflict overwrite was to replace, whatever others do between its steps
   (fsspec_migrate.py, _migrate_file and _cleanup_temp_dir). *)
THEOREM MigrationsSpareOthers ==
  ASSUME TempNameIsReserved
  PROVE  MigrateSpec => ForeignEntriesKept
<1>1. MigrateInit => MigrateInv /\ TempsMine
  <2>1. ASSUME MigrateInit
        PROVE  TempsMine
    BY <2>1 DEF MigrateInit, TempsMine, TempNameIsReserved
  <2> QED BY <2>1, MigrateInvInit
<1>2. MigrateInv /\ TempsMine /\ [MigrateNext]_migrateVars => MigrateInv' /\ TempsMine'
  BY MigrateKeepsInv, MigrateKeepsTempsMine, ReservedKeepsOut
<1>3. MigrateInv /\ TempsMine /\ [MigrateNext]_migrateVars => [ForeignKept]_migrateVars
  BY MigrateKeepsForeign
<1> QED BY <1>1, <1>2, <1>3, PTL DEF MigrateSpec, ForeignEntriesKept
-----------------------------------------------------------------------------
(* What a run has read of the source, and what it has put at the targets *)

SourceKept == \E s \in Sources : DOMAIN source \subseteq DOMAIN s

Unedited(p) == p \in DOMAIN source /\ source[p].type = "file" /\ p \notin edited

Prefix(read, data) == Len(read) <= Len(data) /\ \A i \in 1..Len(read) : read[i] = data[i]

(* What is read or written temporarily is what the source holds. *)
CopyInv ==
  /\ job.phase \in {"parent", "tempdir"} => job.data = <<>>
  /\ job.phase \in {"rmrun", "rmtemp"} /\ job.straight => job.data = <<>>
  /\ job.phase \in {"look", "move"} => ~job.straight
  /\ job.phase = "stream" /\ Entry.source \notin edited =>
       Prefix(job.data, source[Entry.source].data)
  /\ job.phase \in {"look", "move"} /\ Entry.source \notin edited /\ IsFile(TempPath(Entry)) =>
       tree[TempPath(Entry)].data = source[Entry.source].data

(* Every place where the command has moved a file, in any of its runs. *)
PlacesInv ==
  \A p \in DOMAIN source : Unedited(p) =>
    \A q \in PlacesOf(p) :
      IsFile(q) /\ tree[q].id \in mine /\ q \notin touched \cup direct =>
        tree[q].data = source[p].data

LEMMA PlacesPrivate ==
  ASSUME TempPathsArePrivate, SourceKept, IsSource(source),
         NEW p \in DOMAIN source, NEW q \in PlacesOf(p)
  PROVE  q \in Seq(Names) /\ ~Temporary(q)
<1>1. PICK s \in Sources : DOMAIN source \subseteq DOMAIN s
  BY DEF SourceKept
<1>2. /\ p \in DOMAIN s /\ <<>> \in DOMAIN s /\ p \in Seq(Names)
      /\ Root \in Seq(Names) /\ SourceName \in Names
  BY <1>1, MigrateAssumption DEF IsSource
<1>3. Root \o <<>> = Root /\ Root \o p \in Seq(Names) /\ Append(Root, SourceName) \in Seq(Names)
  BY <1>2
<1>4. ~Temporary(Root \o p) /\ ~Temporary(Root \o <<>>) /\ ~Temporary(Append(Root, SourceName))
  BY <1>1, <1>2 DEF TempPathsArePrivate
<1>5. q \in {Root, Append(Root, SourceName), Root \o p}
  BY DEF PlacesOf
<1> QED BY <1>2, <1>3, <1>4, <1>5

LEMMA LenOfConcat ==
  ASSUME NEW r \in Seq(Names), NEW p \in Seq(Names)
  PROVE  Len(r \o p) = Len(r) + Len(p) /\ Len(r) \in Nat /\ Len(p) \in Nat
OBVIOUS

LEMMA SameTail ==
  ASSUME NEW r \in Seq(Names), NEW p \in Seq(Names), NEW q \in Seq(Names), r \o p = r \o q
  PROVE  p = q
<1>1. Len(p) = Len(q)
  <2>1. Len(r \o p) = Len(r) + Len(p) /\ Len(r \o q) = Len(r) + Len(q)
    BY LenOfConcat
  <2>2. Len(r) + Len(p) = Len(r) + Len(q)
    BY <2>1
  <2> QED BY <2>2, LenOfConcat
<1>2. ASSUME NEW i \in 1..Len(p)
      PROVE  p[i] = q[i]
  <2>1. (r \o p)[Len(r) + i] = p[i] /\ (r \o q)[Len(r) + i] = q[i]
    BY <1>1
  <2> QED BY <2>1
<1> QED BY <1>1, <1>2

LEMMA AppendConcat ==
  ASSUME NEW r \in Seq(Names), NEW p \in Seq(Names), NEW x \in Names
  PROVE  Append(r \o p, x) = r \o Append(p, x)
<1>1. Append(r \o p, x) \in Seq(Names) /\ r \o Append(p, x) \in Seq(Names)
  OBVIOUS
<1>2. Len(Append(r \o p, x)) = Len(r) + Len(p) + 1 /\ Len(r \o Append(p, x)) = Len(r) + Len(p) + 1
  OBVIOUS
<1>3. ASSUME NEW i \in 1..(Len(r) + Len(p) + 1)
      PROVE  Append(r \o p, x)[i] = (r \o Append(p, x))[i]
  OBVIOUS
<1> DEFINE s == Append(r \o p, x)
           t == r \o Append(p, x)
<1>4. s \in Seq(Names) /\ t \in Seq(Names) /\ Len(s) = Len(t) /\ \A i \in 1..Len(s) : s[i] = t[i]
  BY <1>1, <1>2, <1>3
<1> HIDE DEF s, t
<1>5. s = t
  BY <1>4, SeqEqual
<1> QED BY <1>5 DEF s, t

(* Where two entries would be moved to the same place, they are the same. *)
LEMMA SamePlace ==
  ASSUME IsSource(source), NEW e \in EntryRecord, Placed(e), e.type = "file",
         NEW p \in DOMAIN source, NEW q \in PlacesOf(p),
         q = e.target \/ q = Append(e.target, e.target[Len(e.target)])
  PROVE  e.source = p
<1>1. /\ p \in Seq(Names) /\ e.source \in Seq(Names) /\ e.target \in Seq(Names) \ {<<>>}
      /\ Root \in Seq(Names) /\ e.target \in PlacesOf(e.source) /\ ~Below(e.source, p)
  BY MigrateAssumption DEF IsSource, Placed, EntryRecord
<1>2. CASE source[<<>>].type = "file"
  BY <1>1, <1>2 DEF PlacesOf
<1>3. CASE source[<<>>].type # "file"
  <2>1. q = Root \o p /\ e.target = Root \o e.source
    BY <1>1, <1>3 DEF PlacesOf
  <2>2. CASE q = e.target
    BY <1>1, <2>1, <2>2, SameTail
  <2>3. CASE q = Append(e.target, e.target[Len(e.target)])
    <3> DEFINE x == e.target[Len(e.target)]
               below == Append(e.source, x)
    <3>1. x \in Names
      BY <1>1
    <3> HIDE DEF x
    <3>2. below \in Seq(Names) /\ Append(Root \o e.source, x) = Root \o below
      <4>1. below \in Seq(Names)
        BY <1>1, <3>1
      <4>2. Append(Root \o e.source, x) = Root \o below
        BY <1>1, <3>1, AppendConcat
      <4> QED BY <4>1, <4>2
    <3>3. Below(e.source, below)
      BY <1>1, <3>1 DEF Below
    <3> HIDE DEF below
    <3>4. p = below
      BY <1>1, <2>1, <2>3, <3>2, SameTail DEF x
    <3> QED BY <1>1, <3>3, <3>4
  <2> QED BY <2>2, <2>3
<1> QED BY <1>2, <1>3
-----------------------------------------------------------------------------
(* The phases a file goes through. *)
FileStepPhases ==
  {<<"parent", "tempdir">>, <<"parent", "stream">>, <<"tempdir", "stream">>, <<"stream", "verify">>,
   <<"stream", "look">>, <<"move", "rmrun">>, <<"rmrun", "rmtemp">>, <<"rmtemp", "stream">>,
   <<"rmtemp", "verify">>}

LEMMA FileStepData ==
  ASSUME JobShape, FileStep
  PROVE  \/ job'.phase = "record"
         \/ /\ job'.data = job.data /\ job'.straight = job.straight
            /\ <<job.phase, job'.phase>> \in FileStepPhases
            /\ job.phase = "rmtemp" /\ job'.phase = "stream" => job.straight
<1>1. job \in JobRecord
  BY StartedHasRecord
     DEF FileStep, MakeParent, MakeTempDirectory, SourceGone, WriteRaises, EndOfStream, MoveTemp,
         RemoveRunDirectory, RemoveTempDirectory, VerifyTarget, At
<1>2. \A phase, status :
        /\ GoOn(phase) => job'.phase = phase /\ job'.data = job.data /\ job'.straight = job.straight
        /\ Settle(status) => job'.phase = "record"
  BY <1>1 DEF GoOn, Settle, JobRecord
<1>3. CASE MakeParent
  BY <1>2, <1>3 DEF MakeParent, At, FileStepPhases
<1>4. CASE MakeTempDirectory
  BY <1>2, <1>4 DEF MakeTempDirectory, At, FileStepPhases
<1>5. CASE SourceGone \/ WriteRaises
  BY <1>2, <1>5 DEF SourceGone, WriteRaises
<1>6. CASE EndOfStream
  BY <1>2, <1>6 DEF EndOfStream, At, FileStepPhases
<1>7. CASE MoveTemp
  BY <1>2, <1>7 DEF MoveTemp, At, FileStepPhases
<1>8. CASE RemoveRunDirectory
  BY <1>2, <1>8 DEF RemoveRunDirectory, At, FileStepPhases
<1>9. CASE RemoveTempDirectory
  BY <1>2, <1>9 DEF RemoveTempDirectory, At, FileStepPhases
<1>10. CASE VerifyTarget
  BY <1>2, <1>10 DEF VerifyTarget
<1> QED BY <1>3, <1>4, <1>5, <1>6, <1>7, <1>8, <1>9, <1>10 DEF FileStep
-----------------------------------------------------------------------------
LEMMA EntrySource ==
  ASSUME JobShape, IsSource(source), job.phase \in FilePhases, Entry.source \notin edited
  PROVE  Unedited(Entry.source) /\ source[Entry.source].data \in Seq(Bytes)
<1>1. Placed(Entry) /\ Entry.type = "file"
  BY FileEntrySays
<1>2. Unedited(Entry.source)
  BY <1>1 DEF Placed, Unedited
<1> QED BY <1>2 DEF Unedited, IsSource

LEMMA EmptyPrefix ==
  ASSUME NEW data \in Seq(Bytes)
  PROVE  Prefix(<<>>, data)
BY DEF Prefix

LEMMA WholePrefix ==
  ASSUME NEW read \in Seq(Bytes), NEW data \in Seq(Bytes), Prefix(read, data), Len(read) >= Len(data)
  PROVE  read = data
<1>1. Len(read) = Len(data) /\ \A i \in 1..Len(read) : read[i] = data[i]
  BY DEF Prefix
<1> QED BY <1>1, SeqEqual

LEMMA LongerPrefix ==
  ASSUME NEW read \in Seq(Bytes), NEW data \in Seq(Bytes), Prefix(read, data), Len(read) < Len(data)
  PROVE  Prefix(Append(read, data[Len(read) + 1]), data)
<1>1. data[Len(read) + 1] \in Bytes
  OBVIOUS
<1> DEFINE x == data[Len(read) + 1]
           more == Append(read, x)
<1>2. /\ Len(more) = Len(read) + 1 /\ more[Len(read) + 1] = x
      /\ \A i \in 1..Len(read) : more[i] = read[i]
  BY <1>1
<1> HIDE DEF more
<1>3. \A i \in 1..Len(more) : more[i] = data[i]
  BY <1>2 DEF Prefix
<1> QED BY <1>2, <1>3 DEF Prefix

(* The phases in which nothing has been read or written yet, or no more will be. *)
LEMMA CopyOver ==
  ASSUME job'.phase \notin {"parent", "tempdir", "rmrun", "rmtemp", "look", "move", "stream"}
  PROVE  CopyInv'
BY DEF CopyInv

LEMMA FileStepKeepsCopy ==
  ASSUME MigrateInv, CopyInv, FileStep, Others
  PROVE  CopyInv'
<1>1. job.phase \in FilePhases /\ job \in JobRecord /\ JobShape /\ IsSource(source) /\ HeldTree
  BY StartedHasRecord
     DEF FileStep, MakeParent, MakeTempDirectory, SourceGone, WriteRaises, EndOfStream, MoveTemp,
         RemoveRunDirectory, RemoveTempDirectory, VerifyTarget, At, FilePhases, MigrateInv
<1>2. UNCHANGED <<source, edited>> /\ (Step \/ ReadFails \/ Kill)
  BY DEF Others, Step, FileStep
<1>3. /\ job'.phase \in FilePhases => Entry' = Entry /\ job'.run = job.run
      /\ job'.phase = "look" => EndOfStream /\ ~job.straight /\ Store(TempPath(Entry), job.data)
      /\ job'.phase = "move" => LookBeforeMove
  BY <1>1, <1>2, RunShape
<1>4. CASE job'.phase = "record"
  BY <1>4, CopyOver
<1>5. CASE /\ job'.data = job.data /\ job'.straight = job.straight
           /\ <<job.phase, job'.phase>> \in FileStepPhases
           /\ job.phase = "rmtemp" /\ job'.phase = "stream" => job.straight
  <2>1. job'.phase \in {"parent", "tempdir"} => job'.data = <<>>
    BY <1>5 DEF CopyInv, FileStepPhases
  <2>2. job'.phase \in {"rmrun", "rmtemp"} /\ job'.straight => job'.data = <<>>
    BY <1>5 DEF CopyInv, FileStepPhases
  <2>3. job'.phase \in {"look", "move"} => ~job'.straight /\ job'.phase = "look"
    BY <1>3, <1>5 DEF FileStepPhases
  <2>4. ASSUME job'.phase = "stream", Entry'.source \notin edited'
        PROVE  Prefix(job'.data, source'[Entry'.source].data)
    <3>1. job'.data = <<>>
      BY <1>5, <2>4 DEF CopyInv, FileStepPhases
    <3>2. Entry' = Entry /\ source' = source /\ source[Entry.source].data \in Seq(Bytes)
      BY <1>1, <1>2, <1>3, <2>4, EntrySource DEF FilePhases
    <3> QED BY <3>1, <3>2, EmptyPrefix
  <2>5. ASSUME job'.phase = "look", Entry'.source \notin edited'
        PROVE  tree'[TempPath(Entry)'].data = source'[Entry'.source].data
    <3>1. /\ Entry' = Entry /\ job'.run = job.run /\ source' = source
          /\ EndOfStream /\ ~job.straight /\ Store(TempPath(Entry), job.data)
      BY <1>2, <1>3, <2>5 DEF FilePhases
    <3>2. TempPath(Entry)' = TempPath(Entry)
      BY <3>1 DEF TempPath, RunDirectory, TempDirectory
    <3>3. source[Entry.source].data \in Seq(Bytes) /\ job.data \in Seq(Bytes)
      BY <1>1, <1>2, <2>5, <3>1, EntrySource DEF JobRecord
    <3>4. job.data = source[Entry.source].data
      <4>1. Prefix(job.data, source[Entry.source].data)
        BY <1>2, <2>5, <3>1 DEF CopyInv, EndOfStream, At
      <4>2. Len(job.data) >= Len(source[Entry.source].data)
        BY <3>1 DEF EndOfStream
      <4> QED BY <3>3, <4>1, <4>2, WholePrefix
    <3>5. Entry \in EntryRecord /\ Entry.target \in Seq(Names) \ {<<>>} /\ job.run \in DOMAIN RunIds
      BY <1>1, FileEntrySays, StartedHasRecord DEF FilePhases
    <3>6. TempPath(Entry) \in Seq(Names) \ {<<>>}
      BY <3>5, TempPathsSay
    <3>7. tree'[TempPath(Entry)].data = job.data
      BY <1>1, <3>1, <3>3, <3>6, StoreSays
    <3> QED BY <3>1, <3>2, <3>4, <3>7
  <2> QED BY <2>1, <2>2, <2>3, <2>4, <2>5 DEF CopyInv
<1> QED BY <1>1, <1>4, <1>5, FileStepData

LEMMA RunKeepsCopy ==
  ASSUME MigrateInv, CopyInv, Step \/ ReadFails \/ Kill, Others
  PROVE  CopyInv'
<1>1. JobShape /\ IsSource(source)
  BY DEF MigrateInv
<1>2. UNCHANGED <<source, edited>>
  BY DEF Others
<1>3. CASE SkipCompleted
  BY <1>1, <1>3, SkipCompletedShape, CopyOver
<1>4. CASE LookAtDirectory
  BY <1>1, <1>4, LookAtDirectoryShape, CopyOver
<1>5. CASE MakeDirectory
  BY <1>1, <1>5, MakeDirectoryShape, CopyOver
<1>6. CASE LookAtFile
  <2>1. job'.phase \in {"record", "hash"} \/ (job'.phase = "parent" /\ job'.data = <<>>)
    BY <1>1, <1>6, LookAtFileShape
  <2> QED BY <2>1 DEF CopyInv
<1>7. CASE HashSource
  BY <1>1, <1>7, HashSourceShape, CopyOver
<1>8. CASE CompareWithTarget
  BY <1>1, <1>8, CompareShape, CopyOver
<1>9. CASE FileStep
  BY <1>9, FileStepKeepsCopy
<1>10. CASE StreamChunk
  <2>1. Entry' = Entry /\ job'.phase = "stream" /\ job.phase = "stream" /\ job \in JobRecord
    BY <1>1, <1>10, StreamChunkShape, StartedHasRecord DEF StreamChunk, At
  <2>2. /\ Len(job.data) < Len(source[Entry.source].data)
        /\ job'.data = Append(job.data, source[Entry.source].data[Len(job.data) + 1])
    BY <1>10, <2>1 DEF StreamChunk, JobRecord
  <2>3. ASSUME Entry.source \notin edited
        PROVE  Prefix(job'.data, source[Entry.source].data)
    <3>1. source[Entry.source].data \in Seq(Bytes) /\ job.data \in Seq(Bytes)
      BY <1>1, <2>1, <2>3, EntrySource DEF FilePhases, JobRecord
    <3>2. Prefix(job.data, source[Entry.source].data)
      BY <2>1, <2>3 DEF CopyInv
    <3> QED BY <2>2, <3>1, <3>2, LongerPrefix
  <2> QED BY <1>2, <2>1, <2>3 DEF CopyInv
<1>11. CASE LookBeforeMove
  <2>1. Entry' = Entry /\ job'.phase = "move" /\ job.phase = "look" /\ job \in JobRecord /\ tree' = tree
    BY <1>1, <1>11, LookBeforeMoveShape, StartedHasRecord DEF LookBeforeMove, At, Queries, fsVars
  <2>2. job'.straight = job.straight /\ job'.run = job.run
    BY <1>11, <2>1 DEF LookBeforeMove, JobRecord
  <2>3. TempPath(Entry)' = TempPath(Entry)
    BY <2>1, <2>2 DEF TempPath, RunDirectory, TempDirectory
  <2> QED BY <1>2, <2>1, <2>2, <2>3 DEF CopyInv, IsFile
<1>12. CASE MoveUnsupported
  <2>1. job'.phase = "rmrun" /\ job'.data = <<>>
    BY <1>1, <1>12, MoveUnsupportedShape
  <2> QED BY <2>1 DEF CopyInv
<1>13. CASE Record
  BY <1>1, <1>13, RecordShape, CopyOver DEF Turning
<1>14. CASE Finish \/ Kill
  BY <1>1, <1>14, FinishShape, CopyOver
<1>15. CASE ReadFails
  BY <1>1, <1>15, ReadFailsShape, CopyOver
<1>16. CASE CloseRaises \/ ProcessUnsaved
  BY <1>1, <1>16, CloseRaisesShape, ProcessUnsavedShape, CopyOver
<1> QED
  BY <1>3, <1>4, <1>5, <1>6, <1>7, <1>8, <1>9, <1>10, <1>11, <1>12, <1>13, <1>14, <1>15, <1>16
     DEF Step, FileStep
-----------------------------------------------------------------------------
LEMMA RunKeepsPlaces ==
  ASSUME TempPathsArePrivate, SourceKept, MigrateInv, CopyInv, PlacesInv, TargetChange, Creates,
         UNCHANGED <<source, touched, edited>>, direct \subseteq direct'
  PROVE  PlacesInv'
<1>1. HeldTree /\ HeldTree' /\ IsSource(source) /\ nextId \in Nat /\ nextId' >= nextId
  BY TargetChangeSays DEF MigrateInv, HeldTree
<1>2. ASSUME NEW p \in DOMAIN source, Unedited(p), NEW q \in PlacesOf(p),
             q \in DOMAIN tree', tree'[q].type = "file", tree'[q].id \in mine',
             q \notin touched \cup direct'
      PROVE  tree'[q].data = source[p].data
  <2>1. q \in Seq(Names) /\ ~Temporary(q)
    BY <1>1, <1>2, PlacesPrivate
  <2>2. CASE q \in DOMAIN tree /\ tree'[q] = tree[q]
    <3>1. tree[q].id \in mine
      BY <1>1, <1>2, <2>2 DEF Creates, HeldTree
    <3> QED BY <1>2, <2>2, <3>1 DEF PlacesInv, IsFile
  <2>3. CASE UNCHANGED fsVars
    BY <1>2, <2>2, <2>3 DEF fsVars
  <2>4. CASE \E r \in Seq(Names) : Makedirs(r)
    <3>1. PICK r \in Seq(Names) : Makedirs(r)
      BY <2>4
    <3>2. Keeps(DOMAIN tree) /\ \A s \in DOMAIN tree' \ DOMAIN tree : tree'[s].type = "directory"
      BY <1>1, <3>1, MakedirsSays
    <3> QED BY <1>2, <2>2, <3>2 DEF Keeps
  <2>5. ASSUME job.phase \in FilePhases
        PROVE  /\ job \in JobRecord /\ Entry \in EntryRecord /\ Entry.target \in Seq(Names) \ {<<>>}
               /\ job.run \in DOMAIN RunIds /\ MovePlaced /\ Placed(Entry) /\ Entry.type = "file"
               /\ TempPath(Entry) \in Seq(Names) \ {<<>>} /\ q # TempPath(Entry)
    <3>1. /\ job \in JobRecord /\ Entry \in EntryRecord /\ Entry.target \in Seq(Names) \ {<<>>}
          /\ job.run \in DOMAIN RunIds /\ MovePlaced /\ Placed(Entry) /\ Entry.type = "file"
      BY <2>5, FileEntrySays, StartedHasRecord DEF MigrateInv, FilePhases, JobShape
    <3>2. /\ TempPath(Entry) \in Seq(Names) \ {<<>>}
          /\ TempName \in Range(TempPath(Entry)) /\ RunIds[job.run] \in Range(TempPath(Entry))
      BY <3>1, TempPathsSay
    <3>3. Temporary(TempPath(Entry))
      BY <3>1, <3>2 DEF Temporary, Range
    <3> QED BY <2>1, <3>1, <3>2, <3>3
  <2>6. CASE /\ job.phase = "stream" /\ Stores
             /\ job.straight => Entry.target \in direct'
    <3> PICK data \in Seq(Bytes) : Store(Destination, data)
      BY <2>6 DEF Stores
    <3>1. /\ Destination \in Seq(Names) \ {<<>>} /\ q # Destination
      BY <1>2, <2>5, <2>6 DEF Destination, JobRecord, FilePhases
    <3>2. Keeps(DOMAIN tree \ {Destination}) /\ DOMAIN tree' = DOMAIN tree \cup {Destination}
      BY <1>1, <2>6, <3>1, StoreSays
    <3> QED BY <1>2, <2>2, <3>1, <3>2 DEF Keeps
  <2>7. CASE job.phase = "move" /\ Move(TempPath(Entry), job.to, MayReplace)
    <3>1. TempPath(Entry) \in Seq(Names) \ {<<>>} /\ job.to \in Seq(Names) \ {<<>>} /\ MovePlaced
      BY <2>5, <2>7 DEF MovePlaced, JobRecord, FilePhases
    <3>2. IsFile(TempPath(Entry))
      BY <2>7 DEF Move, CanMove, MigrateInv, TempIsFile
    <3>3. /\ Keeps(DOMAIN tree \ {TempPath(Entry), job.to})
          /\ DOMAIN tree' = (DOMAIN tree \ {TempPath(Entry)}) \cup {job.to}
          /\ tree'[job.to] = tree[TempPath(Entry)]
      BY <1>1, <2>7, <3>1, <3>2, MoveFileSays
    <3>4. CASE q = job.to
      <4>1. q = Entry.target \/ q = Append(Entry.target, Entry.target[Len(Entry.target)])
        BY <2>7, <3>1, <3>4 DEF MovePlaced
      <4>2. /\ Entry \in EntryRecord /\ Placed(Entry) /\ Entry.type = "file"
        BY <2>5, <2>7 DEF FilePhases
      <4>3. Entry.source = p
        BY <1>1, <1>2, <4>1, <4>2, SamePlace
      <4>4. tree[TempPath(Entry)].data = source[p].data
        BY <1>2, <2>7, <3>2, <4>3 DEF CopyInv, Unedited
      <4> QED BY <3>3, <3>4, <4>4
    <3>5. CASE q # job.to
      <4>1. q # TempPath(Entry)
        BY <2>5, <2>7 DEF FilePhases
      <4> QED BY <1>2, <2>2, <3>3, <3>5, <4>1 DEF Keeps
    <3> QED BY <3>4, <3>5
  <2>8. CASE \E r \in {TempPath(Entry), RunDirectory(Entry), TempDirectory(Entry)} : Delete(r, FALSE)
    <3>1. PICK r : Delete(r, FALSE)
      BY <2>8
    <3>2. Keeps(DOMAIN tree')
      BY <1>1, <3>1, DeleteSays
    <3> QED BY <1>2, <2>2, <3>2 DEF Keeps
  <2> QED BY <2>3, <2>4, <2>6, <2>7, <2>8 DEF TargetChange
<1> QED BY <1>2 DEF PlacesInv, Unedited, PlacesOf, IsFile

LEMMA DirectGrows ==
  ASSUME Step \/ ReadFails \/ Kill
  PROVE  direct \subseteq direct'
BY DEF Step, ReadFails, Kill, SkipCompleted, LookAtDirectory, MakeDirectory, LookAtFile, HashSource,
       CompareWithTarget, MakeParent, MakeTempDirectory, StreamChunk, SourceGone, WriteRaises, EndOfStream,
       LookBeforeMove, MoveTemp, MoveUnsupported, RemoveRunDirectory, RemoveTempDirectory,
       VerifyTarget, Record, Finish, CloseRaises, ProcessUnsaved, Queries, Changes, CloseDestination, CloseAfter

LEMMA PrivateKeepsOut ==
  ASSUME TempPathsArePrivate
  PROVE  OthersKeepOut
BY DEF TempPathsArePrivate, OthersKeepOut

LEMMA ForeignKeepsPlaces ==
  ASSUME MigrateInv, PlacesInv, Foreign
  PROVE  PlacesInv'
<1>1. /\ IsSource(source) /\ HeldTree /\ edited \subseteq edited'
      /\ DOMAIN source' \subseteq DOMAIN source /\ source'[<<>>].type = source[<<>>].type
      /\ \A p \in DOMAIN source : p \notin edited' => p \in DOMAIN source' /\ source'[p] = source[p]
  BY ForeignShape DEF MigrateInv
<1>2. mine' = mine /\ direct' = direct /\ touched \subseteq touched'
  BY DEF Foreign, ForeignTarget, ForeignSource
<1>3. ASSUME NEW p \in DOMAIN source', source'[p].type = "file", p \notin edited'
      PROVE  Unedited(p) /\ source'[p] = source[p] /\ PlacesOf(p)' = PlacesOf(p)
  BY <1>1, <1>3 DEF Unedited, PlacesOf
<1>4. ASSUME NEW q \in DOMAIN tree', tree'[q].type = "file", q \notin touched', tree'[q].id \in mine
      PROVE  q \in DOMAIN tree /\ tree'[q] = tree[q]
  <2>1. CASE UNCHANGED fsVars
    BY <2>1 DEF fsVars
  <2>2. CASE ForeignTarget
    <3>1. PICK p \in ForeignPaths :
            /\ touched' = touched \cup {p}
            /\ \A r \in DOMAIN tree' \ DOMAIN tree :
                 r = p \/ (Below(r, p) /\ tree'[r].type = "directory")
            /\ \A r \in DOMAIN tree \cap DOMAIN tree' : r # p => tree'[r] = tree[r]
      BY <1>1, <2>2, ForeignTargetSays
    <3> QED BY <1>4, <3>1
  <2> QED BY <2>1, <2>2 DEF Foreign, ForeignSource
<1>5. ASSUME NEW p \in DOMAIN source', source'[p].type = "file", p \notin edited',
             NEW q \in PlacesOf(p), q \in DOMAIN tree', tree'[q].type = "file", tree'[q].id \in mine,
             q \notin touched' \cup direct'
      PROVE  tree'[q].data = source'[p].data
  <2>1. Unedited(p) /\ source'[p] = source[p] /\ p \in DOMAIN source
    BY <1>3, <1>5 DEF Unedited
  <2>2. q \in DOMAIN tree /\ tree'[q] = tree[q]
    BY <1>4, <1>5
  <2> QED BY <1>2, <1>5, <2>1, <2>2 DEF PlacesInv, IsFile
<1> QED BY <1>1, <1>2, <1>3, <1>5 DEF PlacesInv, Unedited, PlacesOf, IsFile

LEMMA ForeignKeepsCopy ==
  ASSUME OthersKeepOut, MigrateInv, CopyInv, Foreign
  PROVE  CopyInv'
<1>1. /\ IsSource(source) /\ HeldTree /\ JobShape /\ edited \subseteq edited' /\ Entry' = Entry
      /\ \A p \in DOMAIN source : p \notin edited' => p \in DOMAIN source' /\ source'[p] = source[p]
  BY ForeignShape DEF MigrateInv
<1>2. job' = job
  BY DEF Foreign
<1>3. TempPath(Entry)' = TempPath(Entry)
  BY <1>1, <1>2 DEF TempPath, RunDirectory, TempDirectory
<1>4. ASSUME job.phase \in FilePhases, Entry.source \notin edited'
      PROVE  Entry.source \notin edited /\ source'[Entry.source] = source[Entry.source]
  BY <1>1, <1>4, EntrySource DEF Unedited
<1>5. ASSUME job.phase \in {"look", "move"}, TempPath(Entry) \in DOMAIN tree'
      PROVE  TempPath(Entry) \in DOMAIN tree /\ tree'[TempPath(Entry)] = tree[TempPath(Entry)]
  <2>1. /\ job \in JobRecord /\ Entry \in EntryRecord /\ Entry.target \in Seq(Names) \ {<<>>}
        /\ job.run \in DOMAIN RunIds
    BY <1>1, <1>5, FileEntrySays, StartedHasRecord DEF FilePhases
  <2>2. TempPath(Entry) \in Seq(Names) /\ Temporary(TempPath(Entry))
    BY <2>1, TempPathsSay DEF Temporary, Range
  <2>3. CASE UNCHANGED fsVars
    BY <1>5, <2>3 DEF fsVars
  <2>4. CASE ForeignTarget
    BY <1>1, <1>5, <2>2, <2>4, OthersLeaveTemps
  <2> QED BY <2>3, <2>4 DEF Foreign, ForeignSource
<1> QED BY <1>1, <1>2, <1>3, <1>4, <1>5 DEF CopyInv, IsFile, FilePhases

LEMMA MigrateKeepsPlaces ==
  ASSUME TempPathsArePrivate, SourceKept, MigrateInv, CopyInv, PlacesInv, [MigrateNext]_migrateVars
  PROVE  SourceKept' /\ CopyInv' /\ PlacesInv'
<1>1. CASE RunStep \/ Fault
  <2>1. /\ Step \/ ReadFails \/ Kill
        /\ Others /\ Creates /\ TargetChange /\ UNCHANGED <<source, touched, edited>>
    BY <1>1, TargetChanges DEF RunStep, Fault, MigrateInv, Others
  <2> QED BY <2>1, DirectGrows, RunKeepsCopy, RunKeepsPlaces DEF SourceKept
<1>2. CASE Rerun
  <2>1. UNCHANGED <<fsVars, source, touched, edited, mine, direct>> /\ job'.phase = "entry"
    BY <1>2, RerunShape DEF Rerun, Start, Others, MigrateInv
  <2> QED BY <2>1 DEF fsVars, SourceKept, CopyInv, PlacesInv, Unedited, PlacesOf, IsFile
<1>3. CASE Foreign
  <2>1. DOMAIN source' \subseteq DOMAIN source
    BY <1>3, ForeignShape DEF MigrateInv
  <2> QED BY <1>3, <2>1, ForeignKeepsCopy, ForeignKeepsPlaces, PrivateKeepsOut DEF SourceKept
<1>4. CASE UNCHANGED migrateVars
  BY <1>4 DEF migrateVars, fsVars, SourceKept, CopyInv, PlacesInv, Unedited, PlacesOf, IsFile, Entry,
              TempPath, RunDirectory, TempDirectory
<1> QED BY <1>1, <1>2, <1>3, <1>4 DEF MigrateNext

LEMMA PlacesMeanComplete ==
  ASSUME MigrateInv, PlacesInv
  PROVE  TargetNeverPartial
<1> SUFFICES ASSUME NEW e \in Selected, e.type = "file", Undisturbed(e), IsFile(e.target),
                    tree[e.target].id \in mine, e.target \notin direct
             PROVE  tree[e.target].data = source[e.source].data
  BY DEF TargetNeverPartial
<1>1. runs # 0 /\ e \in Range(job.todo)
  BY DEF Selected
<1>2. Placed(e)
  BY <1>1 DEF MigrateInv, JobShape, TodoPlaced, Range
<1>3. Unedited(e.source) /\ e.target \in PlacesOf(e.source) /\ e.target \notin touched
  BY <1>2 DEF Placed, Undisturbed, Unedited
<1> QED BY <1>3 DEF PlacesInv, Unedited

(* Where the directories of the runs are private, what the command has moved to a target
   is the whole file, whichever of its runs did so, whatever failed or was killed in
   between, and wherever the move took it (fsspec_migrate.py, _migrate_file and
   _copy_stream). *)
THEOREM MigratedFilesAreWhole ==
  ASSUME TempPathsArePrivate
  PROVE  MigrateSpec => []TargetNeverPartial
<1> DEFINE Inv == SourceKept /\ MigrateInv /\ CopyInv /\ PlacesInv
<1>1. MigrateInit => Inv
  <2>1. ASSUME MigrateInit
        PROVE  SourceKept /\ CopyInv /\ PlacesInv
    BY <2>1 DEF MigrateInit, NotStarted, SourceKept, CopyInv, PlacesInv
  <2> QED BY <2>1, MigrateInvInit
<1>2. Inv /\ [MigrateNext]_migrateVars => Inv'
  BY MigrateKeepsInv, MigrateKeepsPlaces, PrivateKeepsOut
<1>3. Inv => TargetNeverPartial
  BY PlacesMeanComplete
<1> QED BY <1>1, <1>2, <1>3, PTL DEF MigrateSpec
-----------------------------------------------------------------------------
(* Runs that exit with 0: the names of a run are its own *)

LEMMA ConcatRange ==
  ASSUME NEW r \in Seq(Names), NEW p \in Seq(Names)
  PROVE  r \o p \in Seq(Names) /\ Range(r \o p) \subseteq Range(r) \cup Range(p)
<1>1. \A i \in DOMAIN (r \o p) :
        (r \o p)[i] = IF i <= Len(r) THEN r[i] ELSE p[i - Len(r)]
  OBVIOUS
<1>2. \A i \in DOMAIN (r \o p) :
        i \in Nat /\ (i <= Len(r) => i \in DOMAIN r) /\ (~(i <= Len(r)) => i - Len(r) \in DOMAIN p)
  OBVIOUS
<1>3. r \o p \in Seq(Names)
  OBVIOUS
<1> QED BY <1>1, <1>2, <1>3 DEF Range

LEMMA AppendRange ==
  ASSUME NEW p \in Seq(Names), NEW x \in Names
  PROVE  Append(p, x) \in Seq(Names) /\ Range(Append(p, x)) = Range(p) \cup {x}
<1>1. Append(p, x) \in Seq(Names) /\ Len(Append(p, x)) = Len(p) + 1 /\ Append(p, x)[Len(p) + 1] = x
  OBVIOUS
<1>2. \A i \in DOMAIN p : i \in DOMAIN Append(p, x) /\ Append(p, x)[i] = p[i]
  OBVIOUS
<1>3. Len(p) + 1 \in DOMAIN Append(p, x)
  BY <1>1
<1>4. \A i \in DOMAIN Append(p, x) : i \in DOMAIN p \/ i = Len(p) + 1
  BY <1>1
<1> QED BY <1>1, <1>2, <1>3, <1>4 DEF Range

(* Above a path there is what is above its last segment. *)
LEMMA AboveAppend ==
  ASSUME NEW r \in Seq(Names), NEW q \in Seq(Names), NEW x \in Names, Below(r, Append(q, x))
  PROVE  r = q \/ Below(r, q)
<1>1. /\ Len(r) \in Nat /\ Len(q) \in Nat /\ Len(r) <= Len(q)
      /\ \A i \in 1..Len(q) : Append(q, x)[i] = q[i]
  BY DEF Below
<1>2. \A i \in 1..Len(r) : i \in 1..Len(q) /\ q[i] = r[i]
  BY <1>1 DEF Below
<1>3. CASE Len(r) = Len(q)
  BY <1>2, <1>3, SeqEqual
<1>4. CASE Len(r) < Len(q)
  BY <1>2, <1>4 DEF Below
<1> QED BY <1>1, <1>3, <1>4

LEMMA BelowAppend ==
  ASSUME NEW q \in Seq(Names), NEW x \in Names
  PROVE  Below(q, Append(q, x))
BY DEF Below

LEMMA PlainParts ==
  ASSUME NEW p \in Seq(Names), NEW q \in Seq(Names), p = q \/ Below(p, q), Plain(q)
  PROVE  Plain(p)
BY AboveRange DEF Plain

(* The source was one of those to begin with; files were removed from it since. *)
EverSource == \E s \in Sources : DOMAIN source \cup edited \subseteq DOMAIN s

LEMMA PlainPlaces ==
  ASSUME NamesAreNew, EverSource, NEW p \in DOMAIN source \cup edited, NEW q \in PlacesOf(p)
  PROVE  q \in Seq(Names) /\ Plain(q)
<1>1. /\ p \in Seq(Names) /\ Plain(p) /\ Root \in Seq(Names) /\ Plain(Root)
      /\ SourceName \in Names /\ SourceName # TempName /\ SourceName \notin Range(RunIds)
  BY MigrateAssumption DEF EverSource, NamesAreNew, IsSource
<1>2. Root \o p \in Seq(Names) /\ Plain(Root \o p)
  BY <1>1, ConcatRange DEF Plain
<1>3. Append(Root, SourceName) \in Seq(Names) /\ Plain(Append(Root, SourceName))
  BY <1>1, AppendRange DEF Plain
<1>4. q \in {Root, Append(Root, SourceName), Root \o p}
  BY DEF PlacesOf
<1> QED BY <1>1, <1>2, <1>3, <1>4

LEMMA PlainEntry ==
  ASSUME NamesAreNew, EverSource, NEW e \in EntryRecord, Placed(e)
  PROVE  Plain(e.target)
<1>1. e.source \in DOMAIN source \cup edited /\ e.target \in PlacesOf(e.source)
  BY DEF Placed
<1> QED BY <1>1, PlainPlaces

LEMMA NewNamesSay ==
  ASSUME NamesAreNew
  PROVE  TempPathsArePrivate /\ TempNameIsReserved
<1>1. Root \in Seq(Names) /\ Plain(Root) /\ SourceName \in Names /\ SourceName # TempName
  BY MigrateAssumption DEF NamesAreNew
<1>2. ASSUME NEW s \in Sources, NEW p \in DOMAIN s
      PROVE  ~Temporary(Root \o p)
  <2>1. p \in Seq(Names) /\ Plain(p)
    BY <1>2, MigrateAssumption DEF NamesAreNew, IsSource
  <2>2. Range(Root \o p) \subseteq Range(Root) \cup Range(p)
    BY <1>1, <2>1, ConcatRange
  <2> QED BY <1>1, <2>1, <2>2 DEF Plain, Temporary
<1>3. ~Temporary(Append(Root, SourceName))
  BY <1>1, AppendRange DEF Plain, Temporary
<1>4. TempPathsArePrivate
  BY <1>2, <1>3 DEF TempPathsArePrivate, NamesAreNew, Plain, Temporary
<1>5. TempNameIsReserved
  BY DEF TempNameIsReserved, NamesAreNew, Plain
<1> QED BY <1>4, <1>5

(* What is above the temporary file of an entry, and which of these paths carry the
   name of the run. *)
LEMMA TempPathsLay ==
  ASSUME NamesAreNew, NEW e \in EntryRecord, e.target # <<>>, Plain(e.target),
         job.run \in DOMAIN RunIds
  PROVE  /\ Below(Parent(e.target), e.target) /\ Parent(e.target) \in Seq(Names)
         /\ \A r \in Seq(Names) :
              /\ Below(r, e.target) => r = Parent(e.target) \/ Below(r, Parent(e.target))
              /\ r = TempDirectory(e) \/ Below(r, TempDirectory(e)) => Range(r) \cap Range(RunIds) = {}
              /\ Below(r, RunDirectory(e)) => r = TempDirectory(e) \/ Below(r, TempDirectory(e))
              /\ Below(r, TempPath(e)) => r = RunDirectory(e) \/ Below(r, RunDirectory(e))
              /\ r = TempPath(e) \/ Below(r, TempPath(e)) =>
                   /\ Range(r) \cap Range(RunIds) \subseteq {RunIds[job.run]}
                   /\ TempName \notin Range(r) => Below(r, e.target)
                   /\ r # e.target /\ ~Below(e.target, r)
         /\ \A i \in DOMAIN RunIds : RunIds[i] \in Range(TempPath(e)) => i = job.run
         /\ TempPath(e) # RunDirectory(e) /\ Below(RunDirectory(e), TempPath(e))
<1> DEFINE parent == Parent(e.target)
           dir == TempDirectory(e)
           run == RunDirectory(e)
           temp == TempPath(e)
           id == RunIds[job.run]
           last == e.target[Len(e.target)]
<1>1. /\ e.target \in Seq(Names) /\ Len(e.target) \in Nat \ {0}
      /\ last \in Names /\ id \in Names /\ TempName \in Names
  BY MigrateAssumption DEF EntryRecord
<1>2. /\ parent \in Seq(Names) /\ Len(parent) = Len(e.target) - 1 /\ Below(parent, e.target)
      /\ \A i \in 1..(Len(e.target) - 1) : parent[i] = e.target[i]
  BY <1>1, UptoSays DEF Parent
<1>3. last \in Range(e.target)
  BY <1>1 DEF Range
<1>4. e.target = Append(parent, last)
  <2>1. /\ Append(parent, last) \in Seq(Names) /\ Len(Append(parent, last)) = Len(e.target)
        /\ \A i \in 1..Len(e.target) : e.target[i] = Append(parent, last)[i]
    BY <1>1, <1>2
  <2> QED BY <1>1, <2>1, SeqEqual
<1>5. dir = Append(parent, TempName) /\ run = Append(dir, id) /\ temp = Append(run, last)
  <2>1. parent \o <<TempName>> = Append(parent, TempName)
    BY <1>1, <1>2
  <2> QED BY <2>1 DEF TempDirectory, RunDirectory, TempPath
<1> HIDE DEF parent, dir, run, temp, id, last
<1>6. /\ dir \in Seq(Names) /\ Range(dir) = Range(parent) \cup {TempName}
      /\ run \in Seq(Names) /\ Range(run) = Range(dir) \cup {id}
      /\ temp \in Seq(Names) /\ Range(temp) = Range(run) \cup {last}
  BY <1>1, <1>2, <1>5, AppendRange
<1>7. /\ Plain(parent) /\ last # TempName /\ last \notin Range(RunIds) /\ TempName \notin Range(RunIds)
      /\ id \in Range(RunIds)
  BY <1>1, <1>2, <1>3, PlainParts DEF Plain, NamesAreNew, id, Range
<1>8. ASSUME NEW r \in Seq(Names)
      PROVE  /\ Below(r, e.target) => r = parent \/ Below(r, parent)
             /\ Below(r, dir) => r = parent \/ Below(r, parent)
             /\ Below(r, run) => r = dir \/ Below(r, dir)
             /\ Below(r, temp) => r = run \/ Below(r, run)
  BY <1>1, <1>2, <1>4, <1>5, <1>6, AboveAppend
<1>9. ASSUME NEW r \in Seq(Names), r = dir \/ Below(r, dir)
      PROVE  Range(r) \cap Range(RunIds) = {}
  <2>1. Range(r) \subseteq Range(dir)
    BY <1>6, <1>9, AboveRange
  <2> QED BY <1>6, <1>7, <2>1 DEF Plain
<1>10. Range(temp) \cap Range(RunIds) \subseteq {id}
  BY <1>6, <1>7 DEF Plain
<1>11. ASSUME NEW r \in Seq(Names), r = temp \/ Below(r, temp), TempName \notin Range(r)
       PROVE  Below(r, e.target)
  <2>1. r # temp /\ r # run /\ r # dir
    BY <1>6, <1>11
  <2>2. r = parent \/ Below(r, parent)
    BY <1>8, <1>11, <2>1
  <2> QED BY <1>1, <1>2, <2>2, BelowSays
<1>12. ASSUME NEW r \in Seq(Names), r = temp \/ Below(r, temp)
       PROVE  r # e.target /\ ~Below(e.target, r)
  <2>1. r = temp \/ r = run \/ r = dir \/ r = parent \/ Below(r, parent)
    BY <1>8, <1>12
  <2>2. ASSUME r = e.target \/ Below(e.target, r)
        PROVE  FALSE
    <3>1. e.target = temp \/ Below(e.target, temp)
      BY <1>1, <1>6, <1>12, <2>2, BelowSays
    <3>2. TempName \notin Range(e.target)
      BY DEF Plain
    <3>3. Below(e.target, e.target)
      BY <1>1, <1>11, <3>1, <3>2
    <3> QED BY <1>1, <3>3, BelowSays
  <2> QED BY <2>2
<1>13. ASSUME NEW r \in Seq(Names), r = temp \/ Below(r, temp)
       PROVE  Range(r) \cap Range(RunIds) \subseteq {id}
  BY <1>6, <1>10, <1>13, AboveRange
<1>14. \A i \in DOMAIN RunIds : RunIds[i] \in Range(temp) => i = job.run
  BY <1>10 DEF NamesAreNew, Range, id
<1>15. temp # run /\ Below(run, temp)
  <2>1. Below(run, temp)
    BY <1>1, <1>5, <1>6, BelowAppend DEF last
  <2> QED BY <1>6, <2>1, BelowSays
<1> QED BY <1>2, <1>8, <1>9, <1>11, <1>12, <1>13, <1>14, <1>15 DEF parent, dir, run, temp, id
-----------------------------------------------------------------------------
(* What a run takes to be done, and what it has gone through.  What a run whose writer
   was not left has listed as done is no claim to rely on. *)
Marked == Completed \cup job.completed
Claims == Marked \ lost
Processed == {Key(job.todo[j]) : j \in 1..(job.at - 1)}

(* A run without attention has gone through entries that are done, and it is not at
   one that is. *)
PlanInv ==
  /\ job.run = runs
  /\ runs # 0 =>
       /\ \A i, j \in DOMAIN job.todo : Key(job.todo[i]) = Key(job.todo[j]) => i = j
       /\ Completed \subseteq job.completed \cup Processed
       /\ ~job.attention => Processed \subseteq Marked
       /\ job.phase \notin Turning => Key(Entry) \notin job.completed
       /\ job.phase \in {"record", "unsaved"} => job.status # "none"
       /\ job.phase = "unsaved" => job.attention \/ job.status = "error"
       /\ job.phase = "onward" => job.attention
       /\ job.phase = "tempdir" => ~job.straight
       /\ job.phase # "over" => job.exit = "none"
       /\ job.exit = "ok" => job.at > Len(job.todo) /\ ~job.attention

(* A step between two entries of the plan. *)
WithinEntry ==
  /\ UNCHANGED <<manifest, lost, runs>> /\ runs # 0 /\ job.phase # "over"
  /\ job'.todo = job.todo /\ job'.at = job.at /\ job'.run = job.run
  /\ job'.completed = job.completed /\ job'.attention = job.attention /\ job'.exit = job.exit
  /\ job'.phase \notin Turning
  /\ job.phase \in {"entry", "onward"} => Key(Entry) \notin job.completed
  /\ job'.phase \in {"record", "unsaved"} => job'.status # "none"
  /\ job'.phase = "unsaved" => job.attention \/ job'.status = "error"
  /\ job'.phase = "tempdir" => ~job'.straight

LEMMA GoesOnWithin ==
  ASSUME JobShape, job.phase # "over", UNCHANGED <<manifest, lost, runs>>,
         job.phase \in {"entry", "onward"} => Key(Entry) \notin job.completed,
         \/ \E status \in Succeeded \cup Attention : Settle(status)
         \/ \E phase \in Phases \ (Turning \cup {"record", "unsaved"}) :
              GoOn(phase) /\ (phase = "tempdir" => ~job.straight)
  PROVE  WithinEntry
<1>1. runs # 0 /\ job \in JobRecord
  BY StartedHasRecord
<1>2. CASE \E status \in Succeeded \cup Attention : Settle(status)
  <2>1. PICK status \in Succeeded \cup Attention : Settle(status)
    BY <1>2
  <2>2. status # "none"
    BY DEF Succeeded, Attention
  <2> QED BY <1>1, <2>1, <2>2 DEF Settle, WithinEntry, JobRecord, Turning
<1>3. CASE \E phase \in Phases \ (Turning \cup {"record", "unsaved"}) :
             GoOn(phase) /\ (phase = "tempdir" => ~job.straight)
  BY <1>1, <1>3 DEF GoOn, WithinEntry, JobRecord, Turning
<1> QED BY <1>2, <1>3

LEMMA WithinSays ==
  ASSUME JobShape,
         \/ LookAtDirectory \/ MakeDirectory \/ LookAtFile \/ HashSource \/ CompareWithTarget
         \/ FileStep \/ StreamChunk \/ LookBeforeMove \/ MoveUnsupported \/ ReadFails
         \/ CloseRaises \/ (PlanInv /\ ProcessUnsaved)
  PROVE  WithinEntry
<1>1. CASE LookAtDirectory
  <2>1. /\ job.phase = "entry" /\ UNCHANGED <<manifest, lost, runs>> /\ Key(Entry) \notin job.completed
        /\ Settle("conflict") \/ Settle("dir_exists") \/ GoOn("mkdir")
    BY <1>1 DEF LookAtDirectory, AtEntry, At, Queries
  <2> QED BY <2>1, GoesOnWithin DEF Succeeded, Attention, Phases, Turning
<1>2. CASE MakeDirectory
  <2>1. /\ job.phase = "mkdir" /\ UNCHANGED <<manifest, lost, runs>>
        /\ Settle("created_dir") \/ Settle("error")
    BY <1>2 DEF MakeDirectory, At, Changes
  <2> QED BY <2>1, GoesOnWithin DEF Succeeded, Attention, Phases, Turning
<1>3. CASE LookAtFile
  <2>1. job.phase = "entry" /\ UNCHANGED <<manifest, lost, runs>> /\ Key(Entry) \notin job.completed
    BY <1>3 DEF LookAtFile, AtEntry, At, Queries
  <2>2. CASE Settle("conflict") \/ Settle("skipped_exists") \/ GoOn("hash")
    BY <2>1, <2>2, GoesOnWithin DEF Succeeded, Attention, Phases, FilePhases, Turning
  <2>3. CASE job' = [job EXCEPT !.phase = "parent", !.existed = IsFile(Entry.target), !.data = <<>>,
                                !.straight = ~job.opt.temp]
    <3>1. runs # 0 /\ job \in JobRecord
      BY <2>1, StartedHasRecord
    <3>2. /\ job'.phase = "parent" /\ job'.todo = job.todo /\ job'.at = job.at /\ job'.run = job.run
          /\ job'.completed = job.completed /\ job'.attention = job.attention /\ job'.exit = job.exit
      BY <2>3, <3>1 DEF JobRecord
    <3> QED BY <2>1, <3>1, <3>2 DEF WithinEntry, Turning
  <2> QED BY <1>3, <2>2, <2>3 DEF LookAtFile
<1>4. CASE HashSource
  <2>1. job.phase = "hash" /\ UNCHANGED <<manifest, lost, runs>>
    BY <1>4 DEF HashSource, At, Queries
  <2>2. CASE Settle("error")
    BY <2>1, <2>2, GoesOnWithin DEF Succeeded, Attention
  <2>3. CASE job' = [job EXCEPT !.phase = "compare", !.data = source[Entry.source].data]
    <3>1. runs # 0 /\ job \in JobRecord
      BY <2>1, StartedHasRecord
    <3>2. /\ job'.phase = "compare" /\ job'.todo = job.todo /\ job'.at = job.at /\ job'.run = job.run
          /\ job'.completed = job.completed /\ job'.attention = job.attention /\ job'.exit = job.exit
      BY <2>3, <3>1 DEF JobRecord
    <3> QED BY <2>1, <3>1, <3>2 DEF WithinEntry, Turning
  <2> QED BY <1>4, <2>2, <2>3 DEF HashSource
<1>5. CASE CompareWithTarget
  <2>1. /\ job.phase = "compare" /\ UNCHANGED <<manifest, lost, runs>>
        /\ Settle("error") \/ Settle("skipped_same_checksum") \/ Settle("conflict")
    BY <1>5 DEF CompareWithTarget, At, Queries
  <2> QED BY <2>1, GoesOnWithin DEF Succeeded, Attention
<1>6. CASE FileStep
  <2>1. /\ job.phase \notin Turning /\ UNCHANGED <<manifest, lost, runs>>
        /\ \/ Settle("error") \/ Settle("copied")
           \/ GoOn("tempdir") /\ ~job.straight
           \/ GoOn("stream") \/ GoOn("verify") \/ GoOn("look") \/ GoOn("rmrun") \/ GoOn("rmtemp")
    <3>1. CASE MakeParent \/ MakeTempDirectory
      BY <3>1 DEF MakeParent, MakeTempDirectory, At, Changes, Turning
    <3>2. CASE SourceGone \/ WriteRaises \/ EndOfStream
      BY <3>2 DEF SourceGone, WriteRaises, EndOfStream, CloseDestination, CloseAfter, At, Queries, Turning
    <3>3. CASE MoveTemp \/ RemoveRunDirectory \/ RemoveTempDirectory
      BY <3>3 DEF MoveTemp, RemoveRunDirectory, RemoveTempDirectory, At, Changes, Turning
    <3>4. CASE VerifyTarget
      BY <3>4 DEF VerifyTarget, At, Queries, Turning
    <3> QED BY <1>6, <3>1, <3>2, <3>3, <3>4 DEF FileStep
  <2> QED BY <2>1, GoesOnWithin DEF Succeeded, Attention, Phases, FilePhases, Turning
<1>7. CASE StreamChunk
  <2>1. runs # 0 /\ job \in JobRecord /\ job.phase = "stream" /\ UNCHANGED <<manifest, lost, runs>>
    BY <1>7, StartedHasRecord DEF StreamChunk, At, Queries
  <2> QED BY <1>7, <2>1 DEF StreamChunk, WithinEntry, JobRecord, Turning
<1>8. CASE LookBeforeMove
  <2>1. runs # 0 /\ job \in JobRecord /\ job.phase = "look" /\ UNCHANGED <<manifest, lost, runs>>
    BY <1>8, StartedHasRecord DEF LookBeforeMove, At, Queries
  <2>2. /\ job'.phase = "move" /\ job'.todo = job.todo /\ job'.at = job.at /\ job'.run = job.run
        /\ job'.completed = job.completed /\ job'.attention = job.attention /\ job'.exit = job.exit
    BY <1>8, <2>1 DEF LookBeforeMove, JobRecord
  <2> QED BY <2>1, <2>2 DEF WithinEntry, Turning
<1>9. CASE MoveUnsupported
  <2>1. runs # 0 /\ job \in JobRecord /\ job.phase = "look" /\ UNCHANGED <<manifest, lost, runs>>
    BY <1>9, StartedHasRecord DEF MoveUnsupported, At, Changes
  <2> QED BY <1>9, <2>1 DEF MoveUnsupported, WithinEntry, JobRecord, Turning
<1>10. CASE ReadFails
  <2>1. runs # 0 /\ job \in JobRecord /\ job.phase = "stream" /\ UNCHANGED <<manifest, lost, runs>>
    BY <1>10, StartedHasRecord DEF ReadFails, At, CloseDestination, CloseAfter, Queries
  <2>2. PICK phase \in {"record", "unsaved"} :
          job' = [job EXCEPT !.phase = phase, !.status = "error", !.hit = TRUE]
    BY <1>10 DEF ReadFails, LoseWriter
  <2> QED BY <2>1, <2>2 DEF WithinEntry, JobRecord, Turning
<1>11. CASE CloseRaises
  <2>1. runs # 0 /\ job \in JobRecord /\ job.phase = "stream" /\ UNCHANGED <<manifest, lost, runs>>
    BY <1>11, StartedHasRecord DEF CloseRaises, At, Queries
  <2>2. PICK hit \in BOOLEAN :
          job' = [job EXCEPT !.phase = "unsaved", !.status = "error", !.hit = hit]
    BY <1>11 DEF CloseRaises, LoseWriter
  <2> QED BY <2>1, <2>2 DEF WithinEntry, JobRecord, Turning
<1>12. CASE PlanInv /\ ProcessUnsaved
  <2>1. /\ runs # 0 /\ job \in JobRecord /\ job.phase = "onward" /\ UNCHANGED <<manifest, lost, runs>>
        /\ Key(Entry) \notin job.completed
    BY <1>12, StartedHasRecord DEF ProcessUnsaved, At, Queries
  <2>2. job.attention
    BY <1>12, <2>1 DEF PlanInv
  <2>3. PICK status \in Outcomes(Entry.type) : job' = [job EXCEPT !.phase = "unsaved", !.status = status]
    BY <1>12 DEF ProcessUnsaved
  <2>4. status # "none"
    BY DEF Outcomes
  <2> QED BY <2>1, <2>2, <2>3, <2>4 DEF WithinEntry, JobRecord, Turning
<1> QED BY <1>1, <1>2, <1>3, <1>4, <1>5, <1>6, <1>7, <1>8, <1>9, <1>10, <1>11, <1>12
-----------------------------------------------------------------------------
LEMMA ProcessedSays ==
  ASSUME runs # 0, job \in JobRecord, job.at <= Len(job.todo) + 1
  PROVE  /\ job'.todo = job.todo /\ job'.at = job.at => Processed' = Processed
         /\ job'.todo = job.todo /\ job'.at = job.at + 1 => Processed' = Processed \cup {Key(Entry)}
<1>1. job.at \in Nat \ {0}
  BY DEF JobRecord
<1>2. 1..((job.at + 1) - 1) = (1..(job.at - 1)) \cup {job.at}
  BY <1>1
<1> QED BY <1>2 DEF Processed, Entry, Key

LEMMA PlannedNotClaimed ==
  ASSUME JobShape, PlanInv, job.phase \notin Turning
  PROVE  Key(Entry) \notin Marked
<1>1. /\ runs # 0 /\ job \in JobRecord /\ job.at <= Len(job.todo)
      /\ job.at \in DOMAIN job.todo
  BY StartedHasRecord, EntrySays DEF JobShape, Turning
<1>2. Key(Entry) \notin Processed
  <2>1. \A j \in 1..(job.at - 1) : j \in DOMAIN job.todo /\ j # job.at
    BY <1>1 DEF JobRecord
  <2> QED BY <1>1, <2>1 DEF Processed, PlanInv, Entry
<1> QED BY <1>1, <1>2 DEF PlanInv, Marked

LEMMA WithinKeepsPlan ==
  ASSUME JobShape, PlanInv, WithinEntry
  PROVE  PlanInv' /\ Entry' = Entry /\ Claims' = Claims
<1>1. job \in JobRecord /\ job.at <= Len(job.todo) + 1 /\ runs # 0
  BY StartedHasRecord DEF WithinEntry, JobShape
<1>2. /\ job'.todo = job.todo /\ job'.at = job.at /\ job'.run = job.run
      /\ job'.completed = job.completed /\ job'.attention = job.attention /\ job'.exit = job.exit
      /\ manifest' = manifest /\ lost' = lost /\ runs' = runs
  BY DEF WithinEntry
<1>3. Processed' = Processed
  BY <1>1, <1>2, ProcessedSays
<1>4. Completed' = Completed /\ Entry' = Entry
  BY <1>2 DEF Completed, Entry
<1>5. Marked' = Marked /\ Claims' = Claims
  BY <1>2, <1>4 DEF Marked, Claims
<1>6. Key(Entry) \notin job.completed /\ job.exit = "none"
  BY <1>1 DEF PlanInv, WithinEntry, Turning
<1>7. \A i, j \in DOMAIN job'.todo : Key(job'.todo[i]) = Key(job'.todo[j]) => i = j
  BY <1>1, <1>2 DEF PlanInv
<1> QED BY <1>1, <1>2, <1>3, <1>4, <1>5, <1>6, <1>7 DEF PlanInv, WithinEntry, Key, Turning

LEMMA SkipKeepsPlan ==
  ASSUME JobShape, PlanInv, SkipCompleted
  PROVE  PlanInv' /\ Claims' = Claims
<1>1. job \in JobRecord /\ job.at <= Len(job.todo) + 1 /\ runs # 0 /\ job.phase \in {"entry", "onward"}
  BY StartedHasRecord DEF SkipCompleted, Between, JobShape
<1>2. /\ job'.todo = job.todo /\ job'.at = job.at + 1 /\ job'.run = job.run
      /\ job'.completed = job.completed /\ job'.attention = job.attention /\ job'.exit = job.exit
      /\ manifest' = manifest /\ lost' = lost /\ runs' = runs /\ job'.phase = job.phase
  BY <1>1 DEF SkipCompleted, Queries, JobRecord
<1>3. Processed' = Processed \cup {Key(Entry)} /\ Key(Entry) \in job.completed
  BY <1>1, <1>2, ProcessedSays DEF SkipCompleted
<1>4. Completed' = Completed
  BY <1>2 DEF Completed
<1>5. Marked' = Marked /\ Claims' = Claims
  BY <1>2, <1>4 DEF Marked, Claims
<1>6. \A i, j \in DOMAIN job'.todo : Key(job'.todo[i]) = Key(job'.todo[j]) => i = j
  BY <1>1, <1>2 DEF PlanInv
<1>7. job.exit = "none"
  BY <1>1 DEF PlanInv
<1> QED BY <1>1, <1>2, <1>3, <1>4, <1>5, <1>6, <1>7 DEF PlanInv, Marked, Turning

LEMMA RecordKeepsPlan ==
  ASSUME JobShape, PlanInv, Record
  PROVE  /\ PlanInv'
         /\ Claims' = IF job.phase = "record" /\ job.status \in Succeeded THEN Claims \cup {Key(Entry)} ELSE Claims
<1>1. /\ job \in JobRecord /\ job.at <= Len(job.todo) + 1 /\ runs # 0 /\ job.phase \in {"record", "unsaved"}
      /\ job.status \in Succeeded \cup Attention
  <2>1. job \in JobRecord /\ job.at <= Len(job.todo) + 1 /\ runs # 0 /\ job.phase \in {"record", "unsaved"}
    BY StartedHasRecord DEF Record, At, JobShape
  <2>2. job.status # "none"
    BY <2>1 DEF PlanInv
  <2> QED BY <2>1, <2>2 DEF JobRecord, Statuses
<1> DEFINE line == [source |-> Entry.source, target |-> Entry.target, status |-> job.status]
<1>2. manifest' = manifest \cup {line} /\ runs' = runs
  BY DEF Record
<1>3. Key(line) = Key(Entry) /\ line.status = job.status
  BY DEF Key
<1> HIDE DEF line
<1>4. Completed' = IF job.status \in Succeeded THEN Completed \cup {Key(Entry)} ELSE Completed
  BY <1>2, <1>3 DEF Completed
<1> DEFINE Turned == IF job.phase = "unsaved" THEN "onward" ELSE "entry"
<1>5. \/ /\ job'.phase = "over" /\ job'.exit # "ok" /\ job'.at = job.at
         /\ job'.attention = job.attention /\ job.status \notin Succeeded
      \/ /\ job'.phase = Turned /\ job'.exit = job.exit /\ job'.at = job.at + 1
         /\ job'.attention = (job.attention \/ job.status \in Attention)
  BY <1>1 DEF Record, Unsaved, Exit, JobRecord, Succeeded
<1>6. job'.todo = job.todo /\ job'.run = job.run /\ job'.completed = job.completed
  BY <1>1 DEF Record, Exit, JobRecord
<1>7. /\ Marked' = IF job.status \in Succeeded THEN Marked \cup {Key(Entry)} ELSE Marked
      /\ Claims' = IF job.phase = "record" /\ job.status \in Succeeded
                   THEN Claims \cup {Key(Entry)} ELSE Claims
  <2>1. Marked' = IF job.status \in Succeeded THEN Marked \cup {Key(Entry)} ELSE Marked
    BY <1>4, <1>6 DEF Marked
  <2>2. Key(Entry) \notin Marked
    BY <1>1, PlannedNotClaimed DEF Turning
  <2>3. lost' = IF job.phase = "unsaved" /\ job.status \in Succeeded THEN lost \cup {Key(Entry)}
                ELSE lost \ {Key(Entry)}
    BY <1>1 DEF Record, Unsaved
  <2> QED BY <1>1, <2>1, <2>2, <2>3 DEF Claims
<1>8. job.exit = "none"
  BY <1>1 DEF PlanInv
<1>9. \A i, j \in DOMAIN job'.todo : Key(job'.todo[i]) = Key(job'.todo[j]) => i = j
  BY <1>1, <1>6 DEF PlanInv
<1>10. job.status \in Succeeded => job.status \notin Attention
  BY DEF Succeeded, Attention
<1>11. CASE /\ job'.phase = "over" /\ job'.exit # "ok" /\ job'.at = job.at
            /\ job'.attention = job.attention /\ job.status \notin Succeeded
  <2>1. Processed' = Processed
    BY <1>1, <1>6, <1>11, ProcessedSays
  <2>2. Completed' = Completed /\ Marked' = Marked
    BY <1>4, <1>7, <1>11
  <2>3. Completed' \subseteq job'.completed \cup Processed'
    BY <1>1, <1>6, <2>1, <2>2 DEF PlanInv
  <2>4. ~job'.attention => Processed' \subseteq Marked'
    BY <1>1, <1>11, <2>1, <2>2 DEF PlanInv
  <2>5. job'.run = runs'
    BY <1>2, <1>6 DEF PlanInv
  <2> QED BY <1>7, <1>9, <1>11, <2>3, <2>4, <2>5 DEF PlanInv, Turning
<1>12. CASE /\ job'.phase = Turned /\ job'.exit = job.exit /\ job'.at = job.at + 1
            /\ job'.attention = (job.attention \/ job.status \in Attention)
  <2>1. Processed' = Processed \cup {Key(Entry)}
    BY <1>1, <1>6, <1>12, ProcessedSays
  <2>2. Completed' \subseteq job'.completed \cup Processed'
    BY <1>1, <1>4, <1>6, <2>1 DEF PlanInv
  <2>3. ASSUME ~job'.attention
        PROVE  Processed' \subseteq Marked'
    <3>1. ~job.attention /\ job.status \in Succeeded
      BY <1>1, <1>12, <2>3
    <3>2. Processed \subseteq Marked
      BY <1>1, <3>1 DEF PlanInv
    <3> QED BY <1>7, <2>1, <3>1, <3>2
  <2>4. Turned = "onward" => job'.attention
    <3>1. Turned = "onward" => job.phase = "unsaved"
      OBVIOUS
    <3>2. "error" \in Attention
      BY DEF Attention
    <3> QED BY <1>1, <1>12, <3>1, <3>2 DEF PlanInv
  <2>5. Turned \in {"entry", "onward"}
    OBVIOUS
  <2> HIDE DEF Turned
  <2> QED BY <1>1, <1>2, <1>6, <1>7, <1>8, <1>9, <1>12, <2>2, <2>3, <2>4, <2>5 DEF PlanInv, Turning
<1> QED BY <1>5, <1>7, <1>11, <1>12

LEMMA EndKeepsPlan ==
  ASSUME JobShape, PlanInv, Finish \/ Kill
  PROVE  PlanInv' /\ Claims' = Claims
<1>1. job \in JobRecord /\ job.at <= Len(job.todo) + 1 /\ runs # 0 /\ job.phase # "over"
  BY StartedHasRecord DEF Finish, Between, Kill, At, JobShape
<1>2. /\ job'.todo = job.todo /\ job'.at = job.at /\ job'.run = job.run
      /\ job'.completed = job.completed /\ job'.attention = job.attention
      /\ manifest' = manifest /\ lost' = lost /\ runs' = runs /\ job'.phase = "over"
  BY <1>1 DEF Finish, Kill, Exit, Queries, JobRecord
<1>3. job'.exit = "ok" => job.at > Len(job.todo) /\ ~job.attention
  BY <1>1 DEF Finish, Kill, Exit, JobRecord
<1>4. Processed' = Processed
  BY <1>1, <1>2, ProcessedSays
<1>5. Completed' = Completed
  BY <1>2 DEF Completed
<1>6. Marked' = Marked /\ Claims' = Claims
  BY <1>2, <1>5 DEF Marked, Claims
<1>7. \A i, j \in DOMAIN job'.todo : Key(job'.todo[i]) = Key(job'.todo[j]) => i = j
  BY <1>1, <1>2 DEF PlanInv
<1> QED BY <1>1, <1>2, <1>3, <1>4, <1>5, <1>6, <1>7 DEF PlanInv, Turning

(* The entries of a run are entries of different source paths. *)
LEMMA LimitedDiffer ==
  ASSUME IsSource(source), NEW limit \in Nat
  PROVE  \A i, j \in DOMAIN Limited(Entries, limit) :
           Key(Limited(Entries, limit)[i]) = Key(Limited(Entries, limit)[j]) => i = j
<1> DEFINE list == Limited(Entries, limit)
<1>1. /\ Entries \in [1..Cardinality(Found) -> Found]
      /\ \A i, j \in 1..Cardinality(Found) : Entries[i] = Entries[j] => i = j
  BY EntriesAre DEF IsSource
<1>2. \A i \in DOMAIN list : i \in DOMAIN Entries /\ list[i] = Entries[i] /\ list[i] \in Found
  BY LimitedSays
<1>3. \A e, f \in Found : Key(e) = Key(f) => e = f
  <2>1. ASSUME NEW e \in Found, NEW f \in Found, Key(e) = Key(f)
        PROVE  e = f
    <3>1. e.source = f.source
      BY <2>1 DEF Key
    <3>2. \A g \in Found : g = [source |-> g.source, target |-> TargetOf(g.source),
                                type |-> source[g.source].type]
      BY DEF Found
    <3> QED BY <3>1, <3>2
  <2> QED BY <2>1
<1> HIDE DEF list
<1>4. ASSUME NEW i \in DOMAIN list, NEW j \in DOMAIN list, Key(list[i]) = Key(list[j])
      PROVE  i = j
  <2>1. Entries[i] = Entries[j] /\ i \in 1..Cardinality(Found) /\ j \in 1..Cardinality(Found)
    BY <1>1, <1>2, <1>3, <1>4
  <2> QED BY <1>1, <2>1
<1> QED BY <1>4 DEF list

LEMMA RerunKeepsPlan ==
  ASSUME JobShape, IsSource(source), PlanInv, Rerun
  PROVE  /\ PlanInv' /\ Claims' \subseteq Claims /\ job'.phase = "entry"
         /\ job'.run = runs + 1 /\ job'.run \in DOMAIN RunIds
<1>1. PICK opt \in Options, resume \in BOOLEAN, append \in BOOLEAN : Start(opt, resume, append, Entries)
  BY DEF Rerun
<1> DEFINE todo == Limited(Entries, opt.limit)
<1>2. /\ job'.phase = "entry" /\ job'.run = runs + 1 /\ job'.todo = todo /\ job'.at = 1
      /\ job'.completed = (IF resume THEN Completed ELSE {})
      /\ job'.attention = FALSE /\ job'.exit = "none"
      /\ runs' = runs + 1 /\ manifest' = (IF append THEN manifest ELSE {})
      /\ append => resume
      /\ runs < Len(RunIds)
  BY <1>1 DEF Start
<1>3. opt.limit \in Nat /\ RunIds \in Seq(Names) /\ runs \in Nat
  BY MigrateAssumption DEF JobShape
<1>4. \A i, j \in DOMAIN todo : Key(todo[i]) = Key(todo[j]) => i = j
  BY <1>3, LimitedDiffer
<1>5. \A i, j \in DOMAIN job'.todo : Key(job'.todo[i]) = Key(job'.todo[j]) => i = j
  BY <1>2, <1>4
<1> HIDE DEF todo
<1>6. Completed' \subseteq job'.completed /\ job'.completed \subseteq Completed
  BY <1>2 DEF Completed
<1>7. Claims' \subseteq Claims
  <2>1. lost' = lost \/ (manifest' = {} /\ job'.completed = {} /\ lost' = {})
    BY <1>1 DEF Start
  <2>2. CASE lost' = lost
    BY <1>6, <2>2 DEF Claims, Marked
  <2>3. CASE manifest' = {} /\ job'.completed = {}
    <3>1. Completed' = {}
      BY <2>3 DEF Completed
    <3> QED BY <2>3, <3>1 DEF Claims, Marked
  <2> QED BY <2>1, <2>2, <2>3
<1>8. Processed' = {}
  <2>1. 1..(1 - 1) = {}
    OBVIOUS
  <2> QED BY <1>2, <2>1 DEF Processed
<1>9. runs' # 0 /\ job'.run \in DOMAIN RunIds
  BY <1>2, <1>3
<1> QED BY <1>2, <1>5, <1>6, <1>7, <1>8, <1>9 DEF PlanInv, Turning
-----------------------------------------------------------------------------
(* What the steps of a run keep at paths that are not temporary. *)

LEMMA FilePhaseSays ==
  ASSUME NamesAreNew, EverSource, MigrateInv, job.phase \in FilePhases
  PROVE  /\ job \in JobRecord /\ runs # 0 /\ job.run \in DOMAIN RunIds /\ MovePlaced
         /\ Entry \in EntryRecord /\ Placed(Entry) /\ Entry.type = "file"
         /\ Entry.target \in Seq(Names) \ {<<>>} /\ Plain(Entry.target)
         /\ TempPath(Entry) \in Seq(Names) \ {<<>>} /\ TempName \in Range(TempPath(Entry))
         /\ RunDirectory(Entry) \in Seq(Names) /\ TempName \in Range(RunDirectory(Entry))
         /\ TempDirectory(Entry) \in Seq(Names) /\ TempName \in Range(TempDirectory(Entry))
         /\ job.phase = "move" => job.to \in Seq(Names) \ {<<>>} /\ Plain(job.to)
<1>1. /\ job \in JobRecord /\ runs # 0 /\ job.run \in DOMAIN RunIds /\ MovePlaced
      /\ Entry \in EntryRecord /\ Placed(Entry) /\ Entry.type = "file"
      /\ Entry.target \in Seq(Names) \ {<<>>}
  BY FileEntrySays, StartedHasRecord DEF MigrateInv, FilePhases, JobShape
<1>2. Plain(Entry.target)
  BY <1>1, PlainEntry
<1>3. ASSUME job.phase = "move"
      PROVE  job.to \in Seq(Names) \ {<<>>} /\ Plain(job.to)
  <2> DEFINE last == Entry.target[Len(Entry.target)]
  <2>1. last \in Names /\ last \in Range(Entry.target)
    BY <1>1 DEF Range
  <2> HIDE DEF last
  <2>2. /\ Append(Entry.target, last) \in Seq(Names) /\ Append(Entry.target, last) # <<>>
        /\ Range(Append(Entry.target, last)) = Range(Entry.target)
    <3>1. Append(Entry.target, last) # <<>>
      BY <1>1, <2>1
    <3>2. /\ Append(Entry.target, last) \in Seq(Names)
          /\ Range(Append(Entry.target, last)) = Range(Entry.target) \cup {last}
      BY <1>1, <2>1, AppendRange
    <3> QED BY <2>1, <3>1, <3>2
  <2>3. job.to \in {Entry.target, Append(Entry.target, last)}
    BY <1>1, <1>3 DEF MovePlaced, last
  <2> QED BY <1>1, <1>2, <2>2, <2>3 DEF Plain
<1> QED BY <1>1, <1>2, <1>3, TempPathsSay

(* The files that a step of a run may write. *)
Rewritten(q) ==
  \/ job.phase = "stream" /\ job.straight /\ q = Entry.target
  \/ /\ job.phase = "move" /\ q = job.to /\ IsFile(TempPath(Entry))
     /\ tree'[q] = tree[TempPath(Entry)]

LEMMA RowsKept ==
  ASSUME NamesAreNew, EverSource, MigrateInv, TargetChange,
         NEW q \in DOMAIN tree, TempName \notin Range(q)
  PROVE  /\ q \in DOMAIN tree' /\ tree'[q].type = tree[q].type
         /\ tree'[q] = tree[q] \/ Rewritten(q)
<1>1. HeldTree /\ q \in Seq(Names) \ {<<>>}
  BY DEF MigrateInv, HeldTree, SoundTree
<1>2. CASE UNCHANGED fsVars
  BY <1>2 DEF fsVars
<1>3. CASE \E p \in Seq(Names) : Makedirs(p)
  BY <1>1, <1>3, MakedirsSays DEF Keeps
<1>4. CASE job.phase = "stream" /\ Stores
  <2> PICK data \in Seq(Bytes) : Store(Destination, data)
    BY <1>4 DEF Stores
  <2>1. /\ Destination \in Seq(Names) \ {<<>>}
        /\ q = Destination => job.straight /\ q = Entry.target
    BY <1>4, FilePhaseSays DEF Destination, JobRecord, FilePhases
  <2>2. /\ DOMAIN tree' = DOMAIN tree \cup {Destination} /\ Keeps(DOMAIN tree \ {Destination})
        /\ tree'[Destination].type = "file"
    BY <1>1, <2>1, StoreSays
  <2>3. CASE q = Destination
    <3>1. tree[q].type = "file"
      BY <2>3 DEF Store, CanWrite, IsDirectory, Present, TreeAt, IsFile
    <3> QED BY <1>4, <2>1, <2>2, <2>3, <3>1 DEF Rewritten
  <2>4. CASE q # Destination
    BY <2>2, <2>4 DEF Keeps
  <2> QED BY <2>3, <2>4
<1>5. CASE job.phase = "move" /\ Move(TempPath(Entry), job.to, MayReplace)
  <2>1. /\ TempPath(Entry) \in Seq(Names) \ {<<>>} /\ job.to \in Seq(Names) \ {<<>>}
        /\ q # TempPath(Entry)
    BY <1>5, FilePhaseSays DEF FilePhases
  <2>2. IsFile(TempPath(Entry))
    BY <1>5 DEF Move, CanMove, MigrateInv, TempIsFile
  <2>3. /\ Keeps(DOMAIN tree \ {TempPath(Entry), job.to})
        /\ DOMAIN tree' = (DOMAIN tree \ {TempPath(Entry)}) \cup {job.to}
        /\ tree'[job.to] = tree[TempPath(Entry)]
        /\ job.to \in DOMAIN tree => IsFile(job.to)
    BY <1>1, <1>5, <2>1, <2>2, MoveFileSays
  <2>4. CASE q = job.to
    BY <1>5, <2>2, <2>3, <2>4 DEF Rewritten, IsFile
  <2>5. CASE q # job.to
    BY <2>1, <2>3, <2>5 DEF Keeps
  <2> QED BY <2>4, <2>5
<1>6. CASE /\ job.phase \in {"look", "rmrun", "rmtemp"}
           /\ \E p \in {TempPath(Entry), RunDirectory(Entry), TempDirectory(Entry)} : Delete(p, FALSE)
  <2>1. PICK p \in {TempPath(Entry), RunDirectory(Entry), TempDirectory(Entry)} : Delete(p, FALSE)
    BY <1>6
  <2>2. p \in Seq(Names) /\ TempName \in Range(p)
    BY <1>6, <2>1, FilePhaseSays DEF FilePhases
  <2>3. DOMAIN tree' = DOMAIN tree \ TreeAt(p) /\ Keeps(DOMAIN tree')
    BY <1>1, <2>1, DeleteSays
  <2>4. q \notin TreeAt(p)
    BY <1>1, <2>2, AboveRange DEF TreeAt
  <2> QED BY <2>3, <2>4 DEF Keeps
<1> QED BY <1>2, <1>3, <1>4, <1>5, <1>6 DEF TargetChange

LEMMA RowsAdded ==
  ASSUME NamesAreNew, EverSource, MigrateInv, TargetChange,
         NEW q \in DOMAIN tree', q \notin DOMAIN tree
  PROVE  \/ tree'[q].type = "directory"
         \/ job.phase = "stream" /\ q = Destination
         \/ job.phase = "move" /\ q = job.to
<1>1. HeldTree
  BY DEF MigrateInv
<1>2. CASE UNCHANGED fsVars
  BY <1>2 DEF fsVars
<1>3. CASE \E p \in Seq(Names) : Makedirs(p)
  BY <1>1, <1>3, MakedirsSays
<1>4. CASE job.phase = "stream" /\ Stores
  <2> PICK data \in Seq(Bytes) : Store(Destination, data)
    BY <1>4 DEF Stores
  <2>1. Destination \in Seq(Names) \ {<<>>}
    BY <1>4, FilePhaseSays DEF Destination, JobRecord, FilePhases
  <2> QED BY <1>1, <1>4, <2>1, StoreSays
<1>5. CASE job.phase = "move" /\ Move(TempPath(Entry), job.to, MayReplace)
  <2>1. TempPath(Entry) \in Seq(Names) \ {<<>>} /\ job.to \in Seq(Names) \ {<<>>}
    BY <1>5, FilePhaseSays DEF FilePhases
  <2>2. IsFile(TempPath(Entry))
    BY <1>5 DEF Move, CanMove, MigrateInv, TempIsFile
  <2>3. DOMAIN tree' = (DOMAIN tree \ {TempPath(Entry)}) \cup {job.to}
    BY <1>1, <1>5, <2>1, <2>2, MoveFileSays
  <2> QED BY <1>5, <2>3
<1>6. CASE \E p \in {TempPath(Entry), RunDirectory(Entry), TempDirectory(Entry)} : Delete(p, FALSE)
  BY <1>1, <1>6, DeleteSays
<1> QED BY <1>2, <1>3, <1>4, <1>5, <1>6 DEF TargetChange
-----------------------------------------------------------------------------
(* What has arrived stays, unless others touch it. *)
TouchedAbove(t) == \E p \in touched : p = t \/ Below(p, t)
TouchedBelow(t) == \E p \in touched : Below(t, p)
Calm(t) == ~TouchedAbove(t) /\ ~TouchedBelow(t)

FileThere(s, t) == ~Calm(t) \/ (IsFile(t) /\ tree[t].data = source[s].data)

DirectoryThere(t) ==
  \/ t = <<>> \/ TouchedAbove(t) \/ IsDirectory(t)
  \/ t \notin DOMAIN tree /\ TouchedBelow(t)

Arrived(k) ==
  k.source \notin edited =>
    IF source[k.source].type = "file" THEN FileThere(k.source, k.target) ELSE DirectoryThere(k.target)

KeyPlaced(k) ==
  k \in KeyRecord /\ k.source \in DOMAIN source \cup edited /\ k.target \in PlacesOf(k.source)

(* A directory without an entry is not there for the sake of temporary files. *)
ImplicitInv ==
  \A t \in Seq(Names) \ {<<>>} :
    Calm(t) /\ Present(t) /\ t \notin DOMAIN tree /\ TempName \notin Range(t) =>
      \E q \in DOMAIN tree : Below(t, q) /\ TempName \notin Range(q)

LEMMA KeysDiffer ==
  ASSUME IsSource(source), NEW e \in EntryRecord, Placed(e), e.type = "file",
         NEW k, KeyPlaced(k), k.source \in DOMAIN source,
         \/ k.target = e.target
         \/ k.target = Append(e.target, e.target[Len(e.target)])
  PROVE  /\ k.source = e.source /\ source[k.source].type = "file"
         /\ k.target = e.target => k = Key(e)
<1>1. k.source = e.source
  BY SamePlace DEF KeyPlaced
<1>2. source[k.source].type = "file"
  BY <1>1 DEF Placed
<1>3. k.target = e.target => k = Key(e)
  BY <1>1 DEF Key, KeyPlaced, KeyRecord
<1> QED BY <1>1, <1>2, <1>3

LEMMA PlacedKeyPlain ==
  ASSUME NamesAreNew, EverSource, NEW k, KeyPlaced(k)
  PROVE  k.target \in Seq(Names) /\ Plain(k.target) /\ TempName \notin Range(k.target)
BY PlainPlaces DEF KeyPlaced, Plain

LEMMA FileStays ==
  ASSUME NamesAreNew, EverSource, MigrateInv, CopyInv, TargetChange,
         UNCHANGED <<source, touched, edited>>,
         NEW k, KeyPlaced(k), k.source \notin edited, source[k.source].type = "file",
         job.phase = "stream" => k # Key(Entry),
         FileThere(k.source, k.target)
  PROVE  FileThere(k.source, k.target)'
<1> DEFINE t == k.target
<1>1. TempName \notin Range(t) /\ k.source \in DOMAIN source /\ IsSource(source)
  BY PlacedKeyPlain DEF KeyPlaced, MigrateInv
<1>2. CASE ~Calm(t)
  BY <1>2 DEF FileThere, Calm, TouchedAbove, TouchedBelow
<1>3. CASE IsFile(t) /\ tree[t].data = source[k.source].data
  <2>1. t \in DOMAIN tree' /\ tree'[t].type = tree[t].type /\ (tree'[t] = tree[t] \/ Rewritten(t))
    BY <1>1, <1>3, RowsKept DEF IsFile
  <2>2. CASE tree'[t] = tree[t]
    BY <1>3, <2>1, <2>2 DEF FileThere, IsFile
  <2>3. CASE job.phase = "stream" /\ job.straight /\ t = Entry.target
    <3>1. Entry \in EntryRecord /\ Placed(Entry) /\ Entry.type = "file"
      BY <2>3, FilePhaseSays DEF FilePhases
    <3> QED BY <1>1, <2>3, <3>1, KeysDiffer
  <2>4. CASE /\ job.phase = "move" /\ t = job.to /\ IsFile(TempPath(Entry))
             /\ tree'[t] = tree[TempPath(Entry)]
    <3>1. Entry \in EntryRecord /\ Placed(Entry) /\ Entry.type = "file" /\ MovePlaced
      BY <2>4, FilePhaseSays DEF FilePhases
    <3>2. k.source = Entry.source
      BY <1>1, <2>4, <3>1, KeysDiffer DEF MovePlaced
    <3>3. tree[TempPath(Entry)].data = source[k.source].data
      BY <2>4, <3>2 DEF CopyInv
    <3>4. tree'[t].type = "file"
      BY <1>3, <2>1 DEF IsFile
    <3> QED BY <2>1, <2>4, <3>3, <3>4 DEF FileThere, IsFile
  <2> QED BY <2>1, <2>2, <2>3, <2>4 DEF Rewritten
<1> QED BY <1>2, <1>3 DEF FileThere

LEMMA DirectoryStays ==
  ASSUME NamesAreNew, EverSource, MigrateInv, ImplicitInv, TargetChange,
         UNCHANGED <<source, touched, edited>>,
         NEW k, KeyPlaced(k), k.source \notin edited, source[k.source].type # "file",
         DirectoryThere(k.target)
  PROVE  DirectoryThere(k.target)'
<1> DEFINE t == k.target
<1>1. /\ t \in Seq(Names) /\ TempName \notin Range(t) /\ Plain(t)
      /\ k.source \in DOMAIN source /\ IsSource(source)
  BY PlacedKeyPlain DEF KeyPlaced, MigrateInv
<1>2. CASE t = <<>> \/ TouchedAbove(t)
  BY <1>2 DEF DirectoryThere, TouchedAbove
<1>3. CASE t # <<>> /\ t \in DOMAIN tree /\ IsDirectory(t)
  <2>1. t \in DOMAIN tree' /\ tree'[t].type = tree[t].type
    BY <1>1, <1>3, RowsKept
  <2> QED BY <1>3, <2>1 DEF DirectoryThere, IsDirectory, IsFile, Present, TreeAt
<1>4. CASE t # <<>> /\ t \notin DOMAIN tree /\ t \in DOMAIN tree'
  <2>1. ASSUME job.phase = "stream", t = Destination
        PROVE  FALSE
    <3>1. /\ Entry \in EntryRecord /\ Placed(Entry) /\ Entry.type = "file"
          /\ TempName \in Range(TempPath(Entry))
      BY <2>1, FilePhaseSays DEF FilePhases
    <3>2. t = Entry.target
      BY <1>1, <2>1, <3>1 DEF Destination
    <3> QED BY <1>1, <3>1, <3>2, KeysDiffer
  <2>2. ASSUME job.phase = "move", t = job.to
        PROVE  FALSE
    <3>1. Entry \in EntryRecord /\ Placed(Entry) /\ Entry.type = "file" /\ MovePlaced
      BY <2>2, FilePhaseSays DEF FilePhases
    <3> QED BY <1>1, <2>2, <3>1, KeysDiffer DEF MovePlaced
  <2>3. tree'[t].type = "directory"
    BY <1>4, <2>1, <2>2, RowsAdded
  <2> QED BY <1>4, <2>3 DEF DirectoryThere, IsDirectory, IsFile, Present, TreeAt
<1>5. CASE t # <<>> /\ t \notin DOMAIN tree /\ t \notin DOMAIN tree' /\ TouchedBelow(t)
  BY <1>5 DEF DirectoryThere, TouchedBelow
<1>6. CASE t # <<>> /\ t \notin DOMAIN tree /\ t \notin DOMAIN tree' /\ Calm(t) /\ IsDirectory(t)
  <2>1. PICK q \in DOMAIN tree : Below(t, q) /\ TempName \notin Range(q)
    BY <1>1, <1>6 DEF ImplicitInv, IsDirectory
  <2>2. q \in DOMAIN tree'
    BY <2>1, RowsKept
  <2> QED BY <1>6, <2>1, <2>2 DEF DirectoryThere, IsDirectory, IsFile, Present, TreeAt
<1> QED BY <1>2, <1>3, <1>4, <1>5, <1>6 DEF DirectoryThere, Calm, IsDirectory, IsFile

LEMMA ArrivedStays ==
  ASSUME NamesAreNew, EverSource, MigrateInv, CopyInv, ImplicitInv, TargetChange,
         UNCHANGED <<source, touched, edited>>,
         NEW k, KeyPlaced(k), job.phase = "stream" => k # Key(Entry), Arrived(k)
  PROVE  Arrived(k)' /\ KeyPlaced(k)'
<1>1. KeyPlaced(k)'
  BY DEF KeyPlaced, PlacesOf
<1>2. CASE k.source \notin edited /\ source[k.source].type = "file"
  BY <1>1, <1>2, FileStays DEF Arrived
<1>3. CASE k.source \notin edited /\ source[k.source].type # "file"
  BY <1>1, <1>3, DirectoryStays DEF Arrived
<1>4. CASE k.source \in edited
  BY <1>1, <1>4 DEF Arrived
<1> QED BY <1>1, <1>2, <1>3, <1>4
-----------------------------------------------------------------------------
(* What others do not touch they keep. *)

LEMMA CalmStays ==
  ASSUME MigrateInv, Foreign, NEW t \in Seq(Names), Calm(t)'
  PROVE  /\ Calm(t)
         /\ \A q \in Seq(Names) : q = t \/ Below(t, q) =>
              /\ q \in DOMAIN tree' <=> q \in DOMAIN tree
              /\ q \in DOMAIN tree => tree'[q] = tree[q]
<1>1. CASE UNCHANGED <<fsVars, touched>>
  BY <1>1 DEF fsVars, Calm, TouchedAbove, TouchedBelow
<1>2. CASE ForeignTarget
  <2>1. PICK p \in ForeignPaths :
          /\ touched' = touched \cup {p}
          /\ \A q \in DOMAIN tree' \ DOMAIN tree : q = p \/ Below(q, p)
          /\ \A q \in DOMAIN tree \cap DOMAIN tree' : q # p => tree'[q] = tree[q]
          /\ \A q \in DOMAIN tree \ DOMAIN tree' : q = p \/ Below(p, q)
    BY <1>2, ForeignTargetSays DEF MigrateInv
  <2>2. Calm(t) /\ p # t /\ ~Below(p, t) /\ ~Below(t, p) /\ p \in Seq(Names)
    BY <2>1, MigrateAssumption DEF Calm, TouchedAbove, TouchedBelow
  <2>3. ASSUME NEW q \in Seq(Names), q = t \/ Below(t, q)
        PROVE  q # p /\ ~Below(q, p) /\ ~Below(p, q)
    BY <2>2, <2>3, BelowSays
  <2> QED BY <2>1, <2>2, <2>3
<1> QED BY <1>1, <1>2 DEF Foreign, ForeignSource

LEMMA ForeignKeepsImplicit ==
  ASSUME MigrateInv, ImplicitInv, Foreign
  PROVE  ImplicitInv'
<1> SUFFICES ASSUME NEW t \in Seq(Names) \ {<<>>}, Calm(t)', Present(t)', t \notin DOMAIN tree',
                    TempName \notin Range(t)
             PROVE  \E q \in DOMAIN tree' : Below(t, q) /\ TempName \notin Range(q)
  BY DEF ImplicitInv
<1>1. HeldTree' /\ HeldTree
  <2>1. CASE ForeignTarget
    BY <2>1, ForeignTargetSays DEF MigrateInv
  <2>2. CASE UNCHANGED fsVars
    BY <2>2 DEF fsVars, MigrateInv, HeldTree, SoundTree, IsFile
  <2> QED BY <2>1, <2>2 DEF Foreign, ForeignSource, MigrateInv
<1>2. /\ DOMAIN tree \subseteq Seq(Names) /\ DOMAIN tree' \subseteq Seq(Names)
      /\ Calm(t)
      /\ \A q \in Seq(Names) : q = t \/ Below(t, q) => (q \in DOMAIN tree' <=> q \in DOMAIN tree)
  BY <1>1, CalmStays DEF HeldTree, SoundTree
<1>3. Present(t) /\ t \notin DOMAIN tree
  BY <1>2 DEF Present, TreeAt
<1>4. PICK q \in DOMAIN tree : Below(t, q) /\ TempName \notin Range(q)
  BY <1>2, <1>3 DEF ImplicitInv
<1> QED BY <1>2, <1>4

LEMMA ForeignKeepsSources ==
  ASSUME MigrateInv, EverSource, Foreign
  PROVE  EverSource'
<1>1. DOMAIN source' \subseteq DOMAIN source
  BY ForeignShape DEF MigrateInv
<1>2. edited' \subseteq edited \cup DOMAIN source
  BY DEF Foreign, ForeignTarget, ForeignSource
<1> QED BY <1>1, <1>2 DEF EverSource

LEMMA FileOutlastsOthers ==
  ASSUME MigrateInv, Foreign, NEW s, NEW t \in Seq(Names), source'[s] = source[s], FileThere(s, t)
  PROVE  FileThere(s, t)'
<1>1. CASE ~Calm(t)'
  BY <1>1 DEF FileThere
<1>2. CASE Calm(t)'
  <2>1. Calm(t) /\ (t \in DOMAIN tree => t \in DOMAIN tree' /\ tree'[t] = tree[t])
    BY <1>2, CalmStays
  <2> QED BY <2>1 DEF FileThere, IsFile
<1> QED BY <1>1, <1>2

LEMMA DirectoryOutlastsOthers ==
  ASSUME MigrateInv, Foreign, NEW t \in Seq(Names), DirectoryThere(t)
  PROVE  DirectoryThere(t)'
<1>1. touched \subseteq touched' /\ DOMAIN tree \subseteq Seq(Names) /\ SoundTree
  BY DEF Foreign, ForeignTarget, ForeignSource, MigrateInv, HeldTree, SoundTree
<1>2. CASE t = <<>> \/ TouchedAbove(t)'
  BY <1>2 DEF DirectoryThere
<1>3. CASE t # <<>> /\ Calm(t)'
  <2>1. /\ Calm(t)
        /\ \A q \in Seq(Names) : q = t \/ Below(t, q) =>
              /\ q \in DOMAIN tree' <=> q \in DOMAIN tree
              /\ q \in DOMAIN tree => tree'[q] = tree[q]
    BY <1>3, CalmStays
  <2>2. IsDirectory(t)
    BY <1>3, <2>1 DEF DirectoryThere, Calm
  <2>3. PICK q \in DOMAIN tree : q = t \/ Below(t, q)
    BY <2>2 DEF IsDirectory, Present, TreeAt
  <2>4. q \in DOMAIN tree'
    BY <1>1, <2>1, <2>3
  <2>5. ~(t \in DOMAIN tree' /\ tree'[t].type = "file")
    BY <2>1, <2>2 DEF IsDirectory, IsFile
  <2> QED BY <2>3, <2>4, <2>5 DEF DirectoryThere, IsDirectory, Present, TreeAt, IsFile
<1>4. CASE t # <<>> /\ ~TouchedAbove(t)' /\ TouchedBelow(t)' /\ t \notin DOMAIN tree'
  BY <1>4 DEF DirectoryThere
<1>5. CASE t # <<>> /\ ~TouchedAbove(t)' /\ TouchedBelow(t)' /\ t \in DOMAIN tree'
  <2>1. ~TouchedAbove(t)
    BY <1>1, <1>5 DEF TouchedAbove
  <2>2. tree'[t].type # "file"
    <3>1. CASE t \in DOMAIN tree
      <4>1. tree[t].type # "file"
        BY <1>5, <2>1, <3>1 DEF DirectoryThere, IsDirectory, IsFile
      <4>2. tree'[t] = tree[t]
        <5>1. CASE ForeignTarget
          <6>1. PICK p \in ForeignPaths :
                  /\ touched' = touched \cup {p}
                  /\ \A q \in DOMAIN tree \cap DOMAIN tree' : q # p => tree'[q] = tree[q]
            BY <5>1, ForeignTargetSays DEF MigrateInv
          <6> QED BY <1>5, <3>1, <6>1 DEF TouchedAbove
        <5>2. CASE UNCHANGED fsVars
          BY <5>2 DEF fsVars
        <5> QED BY <5>1, <5>2 DEF Foreign, ForeignSource
      <4> QED BY <4>1, <4>2
    <3>2. CASE t \notin DOMAIN tree
      <4>1. CASE ForeignTarget
        <5>1. PICK p \in ForeignPaths :
                /\ touched' = touched \cup {p}
                /\ \A q \in DOMAIN tree' \ DOMAIN tree :
                     q = p \/ (Below(q, p) /\ tree'[q].type = "directory")
          BY <4>1, ForeignTargetSays DEF MigrateInv
        <5> QED BY <1>5, <3>2, <5>1 DEF TouchedAbove
      <4>2. CASE UNCHANGED fsVars
        BY <1>5, <3>2, <4>2 DEF fsVars
      <4> QED BY <4>1, <4>2 DEF Foreign, ForeignSource
    <3> QED BY <3>1, <3>2
  <2> QED BY <1>5, <2>2 DEF DirectoryThere, IsDirectory, IsFile, Present, TreeAt
<1> QED BY <1>2, <1>3, <1>4, <1>5 DEF Calm

LEMMA ArrivedOutlastsOthers ==
  ASSUME MigrateInv, Foreign, NEW k, KeyPlaced(k), Arrived(k)
  PROVE  Arrived(k)' /\ KeyPlaced(k)'
<1>1. /\ IsSource(source) /\ edited \subseteq edited'
      /\ DOMAIN source' \subseteq DOMAIN source
      /\ source'[<<>>].type = source[<<>>].type
      /\ \A p \in DOMAIN source : p \notin edited' => p \in DOMAIN source' /\ source'[p] = source[p]
  BY ForeignShape DEF MigrateInv
<1>2. KeyPlaced(k)'
  BY <1>1 DEF KeyPlaced, PlacesOf
<1>3. k.target \in Seq(Names)
  BY DEF KeyPlaced, KeyRecord
<1>4. ASSUME k.source \notin edited'
      PROVE  IF source'[k.source].type = "file" THEN FileThere(k.source, k.target)'
             ELSE DirectoryThere(k.target)'
  <2>1. k.source \notin edited /\ source'[k.source] = source[k.source]
    BY <1>1, <1>4 DEF KeyPlaced
  <2>2. CASE source[k.source].type = "file"
    BY <1>3, <2>1, <2>2, FileOutlastsOthers DEF Arrived
  <2>3. CASE source[k.source].type # "file"
    BY <1>3, <2>1, <2>3, DirectoryOutlastsOthers DEF Arrived
  <2> QED BY <2>2, <2>3
<1> QED BY <1>2, <1>4 DEF Arrived
-----------------------------------------------------------------------------
(* What a run has seen at the target of an entry holds later, unless others touch it. *)
Unblocked == ~Calm(Entry.target) \/ ~IsDirectory(Entry.target)
LevelsThere ==
  \A t \in Seq(Names) \ {<<>>} : Below(t, Entry.target) => Present(t) \/ ~Calm(t)

LooksInv ==
  /\ job.phase = "mkdir" => TouchedAbove(Entry.target) \/ ~IsFile(Entry.target)
  /\ job.phase = "compare" /\ Entry.source \notin edited => job.data = source[Entry.source].data
  /\ job.phase \in {"hash", "compare"} => Unblocked
  /\ job.phase \in {"parent", "tempdir", "stream", "look"} /\ ~job.straight => Unblocked
  /\ job.phase = "move" /\ job.to # Entry.target => ~Calm(Entry.target)
  /\ job.phase \in {"tempdir", "stream"} /\ ~job.straight => LevelsThere

LEMMA LooksOver ==
  ASSUME \/ job'.phase \notin {"mkdir", "hash", "compare", "parent", "tempdir", "stream", "look", "move"}
         \/ job'.phase = "stream" /\ job'.straight
  PROVE  LooksInv'
BY DEF LooksInv

(* A new directory is in no one's way, but above where it is made. *)
LEMMA MakedirsUnblocks ==
  ASSUME HeldTree, NEW p \in Seq(Names), Makedirs(p), NEW t \in Seq(Names), t # p, ~Below(t, p),
         IsDirectory(t)'
  PROVE  IsDirectory(t)
<1>1. /\ Keeps(DOMAIN tree) /\ HeldTree'
      /\ \A q \in DOMAIN tree' \ DOMAIN tree : q = p \/ Below(q, p)
  BY MakedirsSays
<1>2. PICK q \in DOMAIN tree' : q = t \/ Below(t, q)
  BY DEF IsDirectory, Present, TreeAt
<1>3. q \in Seq(Names)
  BY <1>1 DEF HeldTree, SoundTree
<1>4. q \in DOMAIN tree
  <2>1. ASSUME q = p \/ Below(q, p)
        PROVE  FALSE
    BY <1>2, <1>3, <2>1, BelowSays
  <2> QED BY <1>1, <2>1
<1>5. ~IsFile(t)
  BY <1>1 DEF IsDirectory, IsFile, Keeps
<1> QED BY <1>2, <1>4, <1>5 DEF IsDirectory, Present, TreeAt

LEMMA PresentGrows ==
  ASSUME DOMAIN tree \subseteq DOMAIN tree', NEW t, Present(t)
  PROVE  Present(t)'
BY DEF Present, TreeAt

LEMMA RowPresent ==
  ASSUME NEW t, t \in DOMAIN tree'
  PROVE  Present(t)'
<1>1. t \in TreeAt(t)'
  BY DEF TreeAt
<1> QED BY <1>1 DEF Present

LEMMA MakeParentLooks ==
  ASSUME NamesAreNew, EverSource, MigrateInv, LooksInv, MakeParent, Others
  PROVE  LooksInv'
<1>1. /\ job.phase = "parent" /\ job \in JobRecord /\ Entry.target \in Seq(Names) \ {<<>>}
      /\ Entry \in EntryRecord /\ job.run \in DOMAIN RunIds /\ Plain(Entry.target)
  BY FilePhaseSays DEF MakeParent, At, FilePhases
<1>2. UNCHANGED <<touched, source, edited>>
  BY DEF Others
<1> DEFINE t == Entry.target
           parent == Parent(Entry.target)
<1>3. /\ parent \in Seq(Names) /\ Below(parent, t)
      /\ \A r \in Seq(Names) : Below(r, t) => r = parent \/ Below(r, parent)
  BY <1>1, TempPathsLay
<1> HIDE DEF parent
<1>4. CASE Settle("error")
  BY <1>1, <1>4, LooksOver DEF Settle, JobRecord
<1>5. CASE Makedirs(parent) /\ GoOn("stream") /\ job.straight
  BY <1>1, <1>5, LooksOver DEF GoOn, JobRecord
<1>6. CASE Makedirs(parent) /\ GoOn("tempdir") /\ ~job.straight
  <2>1. /\ job'.phase = "tempdir" /\ Entry' = Entry
        /\ Unblocked /\ HeldTree
    BY <1>1, <1>6 DEF GoOn, JobRecord, Entry, LooksInv, MigrateInv
  <2>2. /\ Keeps(DOMAIN tree)
        /\ parent = <<>> \/ Present(parent) \/ parent \in DOMAIN tree'
        /\ \A q \in Seq(Names) \ {<<>>} : Below(q, parent) => Present(q) \/ q \in DOMAIN tree'
    BY <1>3, <1>6, <2>1, MakedirsSays
  <2>3. parent # t /\ ~Below(t, parent)
    BY <1>1, <1>3, BelowSays
  <2>4. IsDirectory(t)' => IsDirectory(t)
    BY <1>1, <1>3, <1>6, <2>1, <2>3, MakedirsUnblocks
  <2>5. Unblocked'
    BY <1>2, <2>1, <2>4 DEF Unblocked, Calm, TouchedAbove, TouchedBelow
  <2>6. LevelsThere'
    <3>1. ASSUME NEW r \in Seq(Names) \ {<<>>}, Below(r, t)
          PROVE  Present(r)'
      <4>1. Present(r) \/ r \in DOMAIN tree'
        BY <1>3, <2>2, <3>1
      <4>2. Present(r) => Present(r)'
        BY <2>2, PresentGrows DEF Keeps
      <4>3. r \in DOMAIN tree' => Present(r)'
        BY RowPresent
      <4> QED BY <4>1, <4>2, <4>3
    <3> QED BY <2>1, <3>1 DEF LevelsThere
  <2> QED BY <2>1, <2>5, <2>6 DEF LooksInv
<1> QED BY <1>4, <1>5, <1>6 DEF MakeParent, parent

LEMMA MakeTempLooks ==
  ASSUME NamesAreNew, EverSource, MigrateInv, LooksInv, MakeTempDirectory, Others
  PROVE  LooksInv'
<1>1. /\ job.phase = "tempdir" /\ job \in JobRecord /\ Entry.target \in Seq(Names) \ {<<>>}
      /\ Entry \in EntryRecord /\ job.run \in DOMAIN RunIds /\ Plain(Entry.target)
      /\ RunDirectory(Entry) \in Seq(Names) /\ TempPath(Entry) \in Seq(Names)
  BY FilePhaseSays DEF MakeTempDirectory, At, FilePhases
<1>2. UNCHANGED <<touched, source, edited>>
  BY DEF Others
<1> DEFINE t == Entry.target
           run == RunDirectory(Entry)
<1>3. t # run /\ ~Below(t, run)
  <2>1. /\ Below(run, TempPath(Entry))
        /\ \A r \in Seq(Names) : r = TempPath(Entry) \/ Below(r, TempPath(Entry)) => r # t
    BY <1>1, TempPathsLay
  <2>2. Below(t, run) => Below(t, TempPath(Entry))
    BY <1>1, <2>1, BelowSays
  <2> QED BY <1>1, <2>1, <2>2
<1>4. CASE Settle("error")
  BY <1>1, <1>4, LooksOver DEF Settle, JobRecord
<1>5. CASE Makedirs(run) /\ GoOn("stream")
  <2>1. CASE job.straight
    BY <1>1, <1>5, <2>1, LooksOver DEF GoOn, JobRecord
  <2>2. CASE ~job.straight
    <3>1. /\ job'.phase = "stream" /\ Entry' = Entry
          /\ Unblocked /\ LevelsThere /\ HeldTree
      BY <1>1, <1>5, <2>2 DEF GoOn, JobRecord, Entry, LooksInv, MigrateInv
    <3>2. Keeps(DOMAIN tree)
      BY <1>1, <1>5, <3>1, MakedirsSays
    <3>3. IsDirectory(t)' => IsDirectory(t)
      BY <1>1, <1>3, <1>5, <3>1, MakedirsUnblocks
    <3>4. Unblocked'
      BY <1>2, <3>1, <3>3 DEF Unblocked, Calm, TouchedAbove, TouchedBelow
    <3>5. LevelsThere'
      <4>1. \A r : Present(r) => Present(r)'
        BY <3>2, PresentGrows DEF Keeps
      <4> QED BY <1>2, <3>1, <4>1 DEF LevelsThere, Calm, TouchedAbove, TouchedBelow
    <3> QED BY <3>1, <3>4, <3>5 DEF LooksInv
  <2> QED BY <2>1, <2>2
<1> QED BY <1>4, <1>5 DEF MakeTempDirectory

LEMMA EndOfStreamLooks ==
  ASSUME NamesAreNew, EverSource, MigrateInv, LooksInv, EndOfStream, Others
  PROVE  LooksInv'
<1>1. /\ job.phase = "stream" /\ job \in JobRecord /\ Entry.target \in Seq(Names) \ {<<>>}
      /\ Entry \in EntryRecord /\ job.run \in DOMAIN RunIds /\ Plain(Entry.target)
      /\ TempPath(Entry) \in Seq(Names) \ {<<>>}
  BY FilePhaseSays DEF EndOfStream, At, FilePhases
<1>2. UNCHANGED <<touched, source, edited>> /\ HeldTree
  BY DEF Others, MigrateInv
<1> DEFINE t == Entry.target
           temp == TempPath(Entry)
<1>3. t # temp /\ ~Below(t, temp)
  BY <1>1, TempPathsLay
<1> HIDE DEF temp
<1>4. CASE Settle("error") \/ GoOn("verify")
  BY <1>1, <1>4, LooksOver DEF Settle, GoOn, JobRecord
<1>5. CASE GoOn("look") /\ ~job.straight /\ Store(temp, job.data)
  <2>1. /\ job'.phase = "look" /\ Entry' = Entry /\ Unblocked /\ job.data \in Seq(Bytes)
    BY <1>1, <1>5 DEF GoOn, JobRecord, Entry, LooksInv
  <2>2. DOMAIN tree' = DOMAIN tree \cup {temp} /\ Keeps(DOMAIN tree \ {temp})
    BY <1>1, <1>2, <1>5, <2>1, StoreSays DEF temp
  <2>3. IsDirectory(t)' => IsDirectory(t)
    BY <1>3, <2>1, <2>2 DEF IsDirectory, Present, TreeAt, IsFile, Keeps
  <2>4. Unblocked'
    BY <1>2, <2>1, <2>3 DEF Unblocked, Calm, TouchedAbove, TouchedBelow
  <2> QED BY <2>1, <2>4 DEF LooksInv
<1> QED BY <1>4, <1>5 DEF EndOfStream, CloseDestination, CloseAfter, Destination, temp
-----------------------------------------------------------------------------
LEMMA RunKeepsLooks ==
  ASSUME NamesAreNew, EverSource, MigrateInv, CopyInv, LooksInv, Step \/ ReadFails \/ Kill, Others
  PROVE  LooksInv'
<1>1. JobShape /\ IsSource(source)
  BY DEF MigrateInv
<1>2. UNCHANGED <<source, touched, edited>>
  BY DEF Others
<1>3. CASE SkipCompleted
  BY <1>1, <1>3, SkipCompletedShape, LooksOver
<1>4. CASE LookAtDirectory
  <2>1. /\ Entry' = Entry /\ job'.phase \in {"record", "mkdir"} /\ tree' = tree
        /\ runs # 0 /\ job \in JobRecord
    BY <1>1, <1>4, LookAtDirectoryShape, StartedHasRecord DEF LookAtDirectory, AtEntry, At, Queries, fsVars
  <2>2. job'.phase = "mkdir" => ~IsFile(Entry.target)
    BY <1>4, <2>1 DEF LookAtDirectory, Settle, JobRecord
  <2> QED BY <2>1, <2>2 DEF LooksInv, IsFile
<1>5. CASE MakeDirectory
  BY <1>1, <1>5, MakeDirectoryShape, LooksOver
<1>6. CASE LookAtFile
  <2>1. /\ Entry' = Entry /\ job'.phase \in {"record", "hash", "parent"} /\ tree' = tree
        /\ runs # 0 /\ job \in JobRecord
    BY <1>1, <1>6, LookAtFileShape, StartedHasRecord DEF LookAtFile, AtEntry, At, Queries, fsVars
  <2>2. job'.phase \in {"hash", "parent"} => ~IsDirectory(Entry.target)
    BY <1>6, <2>1 DEF LookAtFile, Settle, GoOn, JobRecord, IsDirectory
  <2> QED BY <2>1, <2>2 DEF LooksInv, Unblocked, IsDirectory, IsFile, Present, TreeAt
<1>7. CASE HashSource
  <2>1. /\ Entry' = Entry /\ job'.phase \in {"record", "compare"} /\ runs # 0 /\ job \in JobRecord
        /\ job.phase = "hash" /\ tree' = tree
    BY <1>1, <1>7, HashSourceShape, StartedHasRecord DEF HashSource, At, Queries, fsVars
  <2>2. job'.phase = "compare" => job'.data = source[Entry.source].data
    BY <1>7, <2>1 DEF HashSource, Settle, JobRecord
  <2>3. Unblocked'
    BY <1>2, <2>1 DEF LooksInv, Unblocked, IsDirectory, IsFile, Present, TreeAt,
                      Calm, TouchedAbove, TouchedBelow
  <2> QED BY <1>2, <2>1, <2>2, <2>3 DEF LooksInv
<1>8. CASE CompareWithTarget
  BY <1>1, <1>8, CompareShape, LooksOver
<1>9. CASE MakeParent
  BY <1>9, MakeParentLooks
<1>10. CASE MakeTempDirectory
  BY <1>10, MakeTempLooks
<1>11. CASE EndOfStream
  BY <1>11, EndOfStreamLooks
<1>12. CASE SourceGone \/ WriteRaises \/ MoveTemp \/ RemoveRunDirectory \/ VerifyTarget
  <2>1. job \in JobRecord
    BY <1>1, <1>12, StartedHasRecord DEF SourceGone, WriteRaises, MoveTemp, RemoveRunDirectory, VerifyTarget, At
  <2>2. job'.phase \in {"record", "rmrun", "rmtemp"}
    BY <1>12, <2>1 DEF SourceGone, WriteRaises, MoveTemp, RemoveRunDirectory, VerifyTarget, Settle, GoOn, JobRecord
  <2> QED BY <2>2, LooksOver
<1>13. CASE RemoveTempDirectory
  <2>1. job \in JobRecord
    BY <1>1, <1>13, StartedHasRecord DEF RemoveTempDirectory, At
  <2>2. job'.phase = "verify" \/ (job'.phase = "stream" /\ job'.straight)
    BY <1>13, <2>1 DEF RemoveTempDirectory, GoOn, JobRecord
  <2> QED BY <2>2, LooksOver
<1>14. CASE StreamChunk
  <2>1. /\ Entry' = Entry /\ job'.phase = "stream" /\ job.phase = "stream" /\ job \in JobRecord
        /\ tree' = tree
    BY <1>1, <1>14, StreamChunkShape, StartedHasRecord DEF StreamChunk, At, Queries, fsVars
  <2>2. job'.straight = job.straight
    BY <1>14, <2>1 DEF StreamChunk, JobRecord
  <2> QED BY <1>2, <2>1, <2>2 DEF LooksInv, Unblocked, LevelsThere, IsDirectory, IsFile, Present,
                                 TreeAt, Calm, TouchedAbove, TouchedBelow
<1>15. CASE LookBeforeMove
  <2>1. /\ Entry' = Entry /\ job'.phase = "move" /\ job.phase = "look" /\ job \in JobRecord
        /\ tree' = tree
    BY <1>1, <1>15, LookBeforeMoveShape, StartedHasRecord DEF LookBeforeMove, At, Queries, fsVars
  <2>2. job'.to # Entry.target => IsDirectory(Entry.target)
    BY <1>15, <2>1 DEF LookBeforeMove, JobRecord
  <2>3. job'.to # Entry.target => ~Calm(Entry.target)
    BY <2>1, <2>2 DEF LooksInv, Unblocked, CopyInv
  <2> QED BY <1>2, <2>1, <2>3 DEF LooksInv, Calm, TouchedAbove, TouchedBelow
<1>16. CASE MoveUnsupported
  BY <1>1, <1>16, MoveUnsupportedShape, LooksOver
<1>17. CASE Record
  BY <1>1, <1>17, RecordShape, LooksOver DEF Turning
<1>18. CASE Finish \/ Kill
  BY <1>1, <1>18, FinishShape, LooksOver
<1>19. CASE ReadFails
  BY <1>1, <1>19, ReadFailsShape, LooksOver
<1>20. CASE CloseRaises \/ ProcessUnsaved
  BY <1>1, <1>20, CloseRaisesShape, ProcessUnsavedShape, LooksOver
<1> QED
  BY <1>3, <1>4, <1>5, <1>6, <1>7, <1>8, <1>9, <1>10, <1>11, <1>12, <1>13, <1>14, <1>15, <1>16,
     <1>17, <1>18, <1>19, <1>20
     DEF Step

LEMMA CalmLooksSame ==
  ASSUME MigrateInv, HeldTree', Foreign, NEW t \in Seq(Names), Calm(t)'
  PROVE  /\ Calm(t) /\ (IsDirectory(t)' <=> IsDirectory(t)) /\ (Present(t)' <=> Present(t))
<1>1. /\ Calm(t)
      /\ \A q \in Seq(Names) : q = t \/ Below(t, q) =>
           /\ q \in DOMAIN tree' <=> q \in DOMAIN tree
           /\ q \in DOMAIN tree => tree'[q] = tree[q]
  BY CalmStays
<1>2. DOMAIN tree \subseteq Seq(Names) /\ DOMAIN tree' \subseteq Seq(Names)
  BY DEF MigrateInv, HeldTree, SoundTree
<1>3. Present(t)' <=> Present(t)
  BY <1>1, <1>2 DEF Present, TreeAt
<1>4. IsFile(t)' <=> IsFile(t)
  BY <1>1 DEF IsFile
<1> QED BY <1>1, <1>3, <1>4 DEF IsDirectory

LEMMA ForeignKeepsLooks ==
  ASSUME OthersKeepOut, MigrateInv, LooksInv, Foreign
  PROVE  LooksInv'
<1>1. /\ JobShape /\ IsSource(source) /\ Entry' = Entry /\ edited \subseteq edited' /\ job' = job
      /\ \A p \in DOMAIN source : p \notin edited' => p \in DOMAIN source' /\ source'[p] = source[p]
  BY ForeignShape DEF MigrateInv, Foreign
<1>2. HeldTree'
  BY ForeignKeepsInv DEF MigrateInv
<1> DEFINE t == Entry.target
<1>3. ASSUME job.phase \in FilePhases \cup {"mkdir"}
      PROVE  t \in Seq(Names)
  <2>1. runs # 0 /\ job.at <= Len(job.todo)
    BY <1>1, <1>3, StartedHasRecord DEF JobShape, FilePhases, Turning
  <2> QED BY <1>1, <2>1, EntrySays DEF EntryRecord
<1>4. ASSUME job.phase = "mkdir", ~TouchedAbove(t)', IsFile(t)'
      PROVE  FALSE
  <2>1. ~TouchedAbove(t) /\ ~IsFile(t)
    <3>1. touched \subseteq touched'
      BY DEF Foreign, ForeignTarget, ForeignSource
    <3> QED BY <1>1, <1>4, <3>1 DEF LooksInv, TouchedAbove
  <2>2. CASE ForeignTarget
    <3>1. PICK p \in ForeignPaths :
            /\ touched' = touched \cup {p}
            /\ \A r \in DOMAIN tree' \ DOMAIN tree :
                 r = p \/ (Below(r, p) /\ tree'[r].type = "directory")
            /\ \A r \in DOMAIN tree \cap DOMAIN tree' : r # p => tree'[r] = tree[r]
      BY <2>2, ForeignTargetSays DEF MigrateInv
    <3>2. t # p
      BY <1>1, <1>4, <3>1 DEF TouchedAbove
    <3> QED BY <1>1, <1>4, <2>1, <3>1, <3>2 DEF IsFile
  <2>3. CASE UNCHANGED fsVars
    BY <1>1, <1>4, <2>1, <2>3 DEF fsVars, IsFile
  <2> QED BY <2>2, <2>3 DEF Foreign, ForeignSource
<1>5. ASSUME job.phase = "compare", Entry.source \notin edited'
      PROVE  job.data = source'[Entry.source].data
  <2>1. Entry.source \in DOMAIN source /\ Entry.source \notin edited
    BY <1>1, <1>5, EntrySource DEF FilePhases, Unedited
  <2> QED BY <1>1, <1>5, <2>1 DEF LooksInv
<1>6. ASSUME job.phase \in FilePhases, Unblocked
      PROVE  Unblocked'
  BY <1>1, <1>2, <1>3, <1>6, CalmLooksSame DEF Unblocked
<1>7. ASSUME job.phase = "move", ~Calm(t)
      PROVE  ~Calm(t)'
  BY <1>1, <1>2, <1>3, <1>7, CalmLooksSame DEF FilePhases
<1>8. ASSUME LevelsThere
      PROVE  LevelsThere'
  <2> SUFFICES ASSUME NEW r \in Seq(Names) \ {<<>>}, Below(r, t), Calm(r)'
               PROVE  Present(r)'
    BY <1>1 DEF LevelsThere
  <2>1. Calm(r) /\ (Present(r)' <=> Present(r))
    BY <1>2, CalmLooksSame
  <2> QED BY <1>8, <2>1 DEF LevelsThere
<1> QED BY <1>1, <1>4, <1>5, <1>6, <1>7, <1>8 DEF LooksInv, FilePhases
-----------------------------------------------------------------------------
LEMMA RunKeepsImplicit ==
  ASSUME NamesAreNew, EverSource, MigrateInv, LooksInv, ImplicitInv, TargetChange,
         UNCHANGED touched
  PROVE  ImplicitInv'
<1> SUFFICES ASSUME NEW t \in Seq(Names) \ {<<>>}, Calm(t)', Present(t)', t \notin DOMAIN tree',
                    TempName \notin Range(t)
             PROVE  \E q \in DOMAIN tree' : Below(t, q) /\ TempName \notin Range(q)
  BY DEF ImplicitInv
<1>1. Calm(t) /\ HeldTree /\ t \notin DOMAIN tree
  BY RowsKept DEF MigrateInv, Calm, TouchedAbove, TouchedBelow
<1>2. CASE Present(t)
  <2>1. PICK q \in DOMAIN tree : Below(t, q) /\ TempName \notin Range(q)
    BY <1>1, <1>2 DEF ImplicitInv
  <2> QED BY <2>1, RowsKept
<1>3. CASE ~Present(t)
  <2>1. PICK r \in DOMAIN tree' : Below(t, r) /\ r \notin DOMAIN tree
    BY <1>3 DEF Present, TreeAt
  <2>2. CASE UNCHANGED fsVars
    BY <2>1, <2>2 DEF fsVars
  <2>3. CASE \E p \in Seq(Names) : Makedirs(p)
    <3>1. PICK p \in Seq(Names) : Makedirs(p)
      BY <2>3
    <3>2. /\ r = p \/ Below(r, p)
          /\ \A q \in Seq(Names) \ {<<>>} : Below(q, p) => Present(q) \/ q \in DOMAIN tree'
          /\ HeldTree'
      BY <1>1, <2>1, <3>1, MakedirsSays
    <3>3. r \in Seq(Names)
      BY <2>1, <3>2 DEF HeldTree, SoundTree
    <3>4. Below(t, p)
      BY <2>1, <3>2, <3>3, BelowSays
    <3> QED BY <1>3, <3>2, <3>4
  <2>4. CASE job.phase = "stream" /\ Stores
    <3> PICK data \in Seq(Bytes) : Store(Destination, data)
      BY <2>4 DEF Stores
    <3>1. /\ Destination \in Seq(Names) \ {<<>>}
          /\ Entry \in EntryRecord /\ Entry.target # <<>> /\ Plain(Entry.target)
          /\ job.run \in DOMAIN RunIds
      BY <2>4, FilePhaseSays DEF Destination, JobRecord, FilePhases
    <3>2. r = Destination
      BY <1>1, <2>1, <2>4, <3>1, StoreSays
    <3>3. CASE job.straight
      BY <2>1, <3>1, <3>2, <3>3 DEF Destination, Plain
    <3>4. CASE ~job.straight
      <4>1. Below(t, Entry.target)
        BY <2>1, <3>1, <3>2, <3>4, TempPathsLay DEF Destination
      <4>2. LevelsThere
        BY <2>4, <3>4 DEF LooksInv
      <4> QED BY <1>1, <1>3, <4>1, <4>2 DEF LevelsThere
    <3> QED BY <3>3, <3>4
  <2>5. CASE job.phase = "move" /\ Move(TempPath(Entry), job.to, MayReplace)
    <3>1. /\ TempPath(Entry) \in Seq(Names) \ {<<>>} /\ job.to \in Seq(Names) \ {<<>>}
          /\ Plain(job.to)
      BY <2>5, FilePhaseSays DEF FilePhases
    <3>2. IsFile(TempPath(Entry))
      BY <2>5 DEF Move, CanMove, MigrateInv, TempIsFile
    <3>3. DOMAIN tree' = (DOMAIN tree \ {TempPath(Entry)}) \cup {job.to}
      BY <1>1, <2>5, <3>1, <3>2, MoveFileSays
    <3> QED BY <2>1, <3>1, <3>3 DEF Plain
  <2>6. CASE \E p \in {TempPath(Entry), RunDirectory(Entry), TempDirectory(Entry)} : Delete(p, FALSE)
    BY <1>1, <2>1, <2>6, DeleteSays
  <2> QED BY <2>2, <2>3, <2>4, <2>5, <2>6 DEF TargetChange
<1> QED BY <1>2, <1>3
-----------------------------------------------------------------------------
(* What the runs claim is there. *)

(* The entry at hand is at its target. *)
InPlace ==
  \/ job.phase = "record" /\ job.status \in Succeeded
  \/ job.phase = "verify"
  \/ job.phase \in {"rmrun", "rmtemp"} /\ ~job.straight

Pending == IF InPlace THEN {Key(Entry)} ELSE {}

ArrivalInv == \A k \in Claims \cup Pending : KeyPlaced(k) /\ Arrived(k)

LEMMA EntryArrives ==
  ASSUME JobShape, runs # 0, job.at <= Len(job.todo), UNCHANGED <<source, edited>>,
         NEW k, k = Key(Entry)
  PROVE  /\ KeyPlaced(k)' /\ k.target = Entry.target /\ k.source = Entry.source
         /\ Entry.type = "directory" /\ DirectoryThere(k.target)' => Arrived(k)'
         /\ (Entry.type = "file" /\ (k.source \notin edited => FileThere(k.source, k.target)'))
              => Arrived(k)'
<1>1. /\ Entry \in EntryRecord /\ Placed(Entry)
      /\ k.source = Entry.source /\ k.target = Entry.target /\ k \in KeyRecord
  BY EntrySays DEF Key, KeyRecord, EntryRecord
<1>2. KeyPlaced(k)'
  BY <1>1 DEF KeyPlaced, Placed, PlacesOf
<1>3. Entry.source \notin edited => source[Entry.source].type = Entry.type
  BY <1>1 DEF Placed
<1> QED BY <1>1, <1>2, <1>3 DEF Arrived

LEMMA LookedDirectoryArrives ==
  ASSUME JobShape, LookAtDirectory, Others, job'.status \in Succeeded, job'.phase = "record",
         NEW k, k = Key(Entry)
  PROVE  KeyPlaced(k)' /\ Arrived(k)'
<1>1. /\ runs # 0 /\ job \in JobRecord /\ job.at <= Len(job.todo) /\ Entry.type = "directory"
      /\ tree' = tree /\ UNCHANGED <<source, edited, touched>>
  BY StartedHasRecord DEF LookAtDirectory, AtEntry, At, Queries, fsVars, Others
<1>2. k.target = Entry.target
  BY <1>1, EntryArrives
<1>3. Entry.target = <<>> \/ IsDirectory(Entry.target)
  BY <1>1 DEF LookAtDirectory, Settle, GoOn, JobRecord, Succeeded
<1>4. DirectoryThere(k.target)'
  BY <1>1, <1>2, <1>3 DEF DirectoryThere, IsDirectory, IsFile, Present, TreeAt
<1> QED BY <1>1, <1>4, EntryArrives

LEMMA MadeDirectoryArrives ==
  ASSUME MigrateInv, LooksInv, MakeDirectory, Others, job'.status \in Succeeded,
         NEW k, k = Key(Entry)
  PROVE  KeyPlaced(k)' /\ Arrived(k)'
<1>1. /\ runs # 0 /\ job \in JobRecord /\ job.at <= Len(job.todo) /\ Entry.type = "directory"
      /\ JobShape /\ HeldTree /\ UNCHANGED <<source, edited, touched>> /\ job.phase = "mkdir"
  BY StartedHasRecord DEF MakeDirectory, At, Others, MigrateInv, JobShape, Turning
<1>2. k.target = Entry.target /\ Entry.target \in Seq(Names)
  BY <1>1, EntryArrives, EntrySays DEF EntryRecord
<1>3. Makedirs(Entry.target)
  BY <1>1 DEF MakeDirectory, Settle, JobRecord, Succeeded
<1> DEFINE t == k.target
<1>4. CASE t = <<>> \/ TouchedAbove(t)
  <2>1. DirectoryThere(t)'
    BY <1>1, <1>4 DEF DirectoryThere, TouchedAbove
  <2> QED BY <1>1, <2>1, EntryArrives
<1>5. CASE t # <<>> /\ Present(t) /\ ~IsFile(t)
  <2>1. tree' = tree
    BY <1>2, <1>3, <1>5 DEF Makedirs, fsVars
  <2>2. DirectoryThere(t)'
    BY <1>5, <2>1 DEF DirectoryThere, IsDirectory, IsFile, Present, TreeAt
  <2> QED BY <1>1, <2>2, EntryArrives
<1>6. CASE t # <<>> /\ ~Present(t)
  <2>1. t \in DOMAIN tree'
    BY <1>1, <1>2, <1>3, <1>6, MakedirsSays
  <2>2. t \notin DOMAIN tree
    BY <1>6 DEF Present, TreeAt
  <2>3. tree'[t].type = "directory"
    BY <1>1, <1>2, <1>3, <2>1, <2>2, MakedirsSays
  <2>4. Present(t)'
    BY <2>1, RowPresent
  <2>5. DirectoryThere(t)'
    BY <2>3, <2>4 DEF DirectoryThere, IsDirectory, IsFile
  <2> QED BY <1>1, <2>5, EntryArrives
<1>7. TouchedAbove(t) \/ ~IsFile(t)
  BY <1>1, <1>2 DEF LooksInv
<1> QED BY <1>4, <1>5, <1>6, <1>7

LEMMA ComparedArrives ==
  ASSUME JobShape, IsSource(source), LooksInv, CompareWithTarget, Others, job'.status \in Succeeded,
         NEW k, k = Key(Entry)
  PROVE  KeyPlaced(k)' /\ Arrived(k)'
<1>1. /\ runs # 0 /\ job \in JobRecord /\ job.at <= Len(job.todo) /\ Entry.type = "file"
      /\ tree' = tree /\ UNCHANGED <<source, edited, touched>> /\ job.phase = "compare"
  BY StartedHasRecord, FileEntrySays DEF CompareWithTarget, At, Queries, fsVars, Others, FilePhases
<1>2. k.target = Entry.target /\ k.source = Entry.source
  BY <1>1, EntryArrives
<1>3. \/ IsFile(Entry.target) /\ tree[Entry.target].data = job.data
      \/ ~Calm(Entry.target)
  <2>1. ReadsAs(Entry.target, job.data)
    BY <1>1 DEF CompareWithTarget, Settle, JobRecord, Succeeded
  <2>2. Unblocked
    BY <1>1 DEF LooksInv
  <2> QED BY <2>1, <2>2 DEF ReadsAs, Unblocked
<1>4. k.source \notin edited => job.data = source[k.source].data
  BY <1>1, <1>2 DEF LooksInv
<1>5. k.source \notin edited => FileThere(k.source, k.target)'
  BY <1>1, <1>2, <1>3, <1>4 DEF FileThere, IsFile, Calm, TouchedAbove, TouchedBelow
<1> QED BY <1>1, <1>5, EntryArrives

LEMMA StreamedArrives ==
  ASSUME MigrateInv, CopyInv, EndOfStream, Others, job'.phase = "verify",
         NEW k, k = Key(Entry)
  PROVE  KeyPlaced(k)' /\ Arrived(k)'
<1>1. /\ runs # 0 /\ job \in JobRecord /\ job.at <= Len(job.todo) /\ Entry.type = "file"
      /\ UNCHANGED <<source, edited, touched>> /\ job.phase = "stream"
      /\ JobShape /\ IsSource(source) /\ HeldTree /\ Entry.target \in Seq(Names) \ {<<>>}
      /\ job.data \in Seq(Bytes)
  BY StartedHasRecord, FileEntrySays DEF EndOfStream, At, Others, FilePhases, MigrateInv, JobRecord
<1>2. k.target = Entry.target /\ k.source = Entry.source
  BY <1>1, EntryArrives
<1>3. Store(Entry.target, job.data) /\ Len(job.data) >= Len(source[Entry.source].data)
  <2>1. ~CanWrite(Destination) => Settle("error")
    BY DEF EndOfStream
  <2>2. CanWrite(Destination) /\ ~job.straight => GoOn("look")
    BY DEF EndOfStream
  <2>3. CanWrite(Destination) /\ job.straight
    BY <1>1, <2>1, <2>2 DEF Settle, GoOn, JobRecord
  <2> QED BY <2>3 DEF EndOfStream, CloseDestination, CloseAfter, Destination
<1>4. tree'[k.target].type = "file" /\ tree'[k.target].data = job.data /\ k.target \in DOMAIN tree'
  BY <1>1, <1>2, <1>3, StoreSays
<1>5. ASSUME k.source \notin edited
      PROVE  job.data = source[k.source].data
  <2>1. source[Entry.source].data \in Seq(Bytes)
    BY <1>1, <1>2, <1>5, EntrySource DEF FilePhases
  <2>2. Prefix(job.data, source[Entry.source].data)
    BY <1>1, <1>2, <1>5 DEF CopyInv
  <2> QED BY <1>1, <1>2, <1>3, <2>1, <2>2, WholePrefix
<1>6. k.source \notin edited => FileThere(k.source, k.target)'
  BY <1>1, <1>4, <1>5 DEF FileThere, IsFile
<1> QED BY <1>1, <1>6, EntryArrives

LEMMA MovedArrives ==
  ASSUME NamesAreNew, EverSource, MigrateInv, CopyInv, LooksInv, MoveTemp, Others,
         job'.phase = "rmrun", NEW k, k = Key(Entry)
  PROVE  KeyPlaced(k)' /\ Arrived(k)'
<1>1. /\ runs # 0 /\ job \in JobRecord /\ Entry.type = "file" /\ job.phase = "move"
      /\ TempPath(Entry) \in Seq(Names) \ {<<>>} /\ job.to \in Seq(Names) \ {<<>>}
  BY FilePhaseSays DEF MoveTemp, At, FilePhases
<1>2. /\ UNCHANGED <<source, edited, touched>> /\ JobShape /\ HeldTree /\ job.at <= Len(job.todo)
  BY <1>1, FileEntrySays DEF Others, FilePhases, MigrateInv
<1>3. k.target = Entry.target /\ k.source = Entry.source
  BY <1>1, <1>2, EntryArrives
<1>4. Move(TempPath(Entry), job.to, MayReplace)
  <2>1. Move(TempPath(Entry), job.to, MayReplace) \/ Settle("error")
    BY DEF MoveTemp
  <2> QED BY <1>1, <2>1 DEF Settle, JobRecord
<1>5. IsFile(TempPath(Entry))
  BY <1>1, <1>4 DEF Move, CanMove, MigrateInv, TempIsFile
<1>6. tree'[job.to] = tree[TempPath(Entry)] /\ job.to \in DOMAIN tree'
  <2>1. /\ tree'[job.to] = tree[TempPath(Entry)]
        /\ DOMAIN tree' = (DOMAIN tree \ {TempPath(Entry)}) \cup {job.to}
    BY <1>1, <1>2, <1>4, <1>5, MoveFileSays
  <2> QED BY <2>1
<1>7. CASE job.to = Entry.target
  <2>1. k.source \notin edited => tree[TempPath(Entry)].data = source[k.source].data
    BY <1>1, <1>3, <1>5 DEF CopyInv
  <2>2. k.source \notin edited => FileThere(k.source, k.target)'
    BY <1>2, <1>3, <1>5, <1>6, <1>7, <2>1 DEF FileThere, IsFile
  <2> QED BY <1>1, <1>2, <2>2, EntryArrives
<1>8. CASE job.to # Entry.target
  <2>1. ~Calm(k.target)
    BY <1>1, <1>3, <1>8 DEF LooksInv
  <2>2. FileThere(k.source, k.target)'
    BY <1>2, <2>1 DEF FileThere, Calm, TouchedAbove, TouchedBelow
  <2> QED BY <1>1, <1>2, <2>2, EntryArrives
<1> QED BY <1>7, <1>8
-----------------------------------------------------------------------------
LEMMA NotInPlaceYet ==
  ASSUME \/ job'.phase \notin {"record", "verify", "rmrun", "rmtemp"}
         \/ job'.phase = "record" /\ job'.status \notin Succeeded
         \/ job'.phase = "rmrun" /\ job'.straight
  PROVE  ~InPlace'
BY DEF InPlace

LEMMA FailingSays ==
  ASSUME job \in JobRecord, NEW status \in Attention, Settle(status)
  PROVE  ~InPlace'
<1>1. job'.phase = "record" /\ job'.status \notin Succeeded
  BY DEF Settle, JobRecord, Attention, Succeeded
<1> QED BY <1>1, NotInPlaceYet

(* What makes the entry stand at its target, if it did not before. *)
Arriving ==
  \/ LookAtDirectory /\ job'.status \in Succeeded /\ job'.phase = "record"
  \/ MakeDirectory /\ job'.status \in Succeeded
  \/ CompareWithTarget /\ job'.status \in Succeeded
  \/ EndOfStream /\ job'.phase = "verify"
  \/ MoveTemp /\ job'.phase = "rmrun"

LEMMA ArrivingSays ==
  ASSUME JobShape, Step \/ ReadFails \/ Kill, Others, InPlace'
  PROVE  Arriving \/ InPlace
<1>1. SkipCompleted \/ Record \/ Finish \/ Kill => job'.phase \in Turning
  BY SkipCompletedShape, RecordShape, FinishShape DEF Turning
<1>2. ~(SkipCompleted \/ Record \/ Finish \/ Kill)
  BY <1>1, NotInPlaceYet DEF Turning
<1>3. job \in JobRecord
  BY <1>2, StartedHasRecord
     DEF Step, LookAtDirectory, MakeDirectory, LookAtFile, HashSource, CompareWithTarget,
         MakeParent, MakeTempDirectory, StreamChunk, SourceGone, WriteRaises, EndOfStream, LookBeforeMove,
         MoveTemp, MoveUnsupported, RemoveRunDirectory, RemoveTempDirectory, VerifyTarget,
         CloseRaises, ProcessUnsaved, ReadFails, AtEntry, At
<1>4. \A status \in Attention : ~Settle(status)
  BY <1>3, FailingSays
<1>5. CASE LookAtDirectory
  BY <1>3, <1>5, LookAtDirectoryShape DEF InPlace, Arriving
<1>6. CASE MakeDirectory
  BY <1>3, <1>6, MakeDirectoryShape DEF InPlace, Arriving
<1>7. CASE LookAtFile
  <2>1. job'.phase \in {"hash", "parent"}
    BY <1>3, <1>4, <1>7 DEF LookAtFile, GoOn, JobRecord, Attention
  <2> QED BY <2>1, NotInPlaceYet
<1>8. CASE HashSource
  <2>1. job'.phase = "compare"
    BY <1>3, <1>4, <1>8 DEF HashSource, JobRecord, Attention
  <2> QED BY <2>1, NotInPlaceYet
<1>9. CASE CompareWithTarget
  BY <1>3, <1>9, CompareShape DEF InPlace, Arriving
<1>10. CASE MakeParent \/ MakeTempDirectory
  <2>1. GoOn("stream") \/ GoOn("tempdir")
    BY <1>4, <1>10 DEF MakeParent, MakeTempDirectory, Attention
  <2>2. job'.phase \in {"stream", "tempdir"}
    BY <1>3, <2>1 DEF GoOn, JobRecord
  <2> QED BY <2>2, NotInPlaceYet
<1>11. CASE StreamChunk
  <2>1. job'.phase = "stream"
    BY <1>3, <1>11 DEF StreamChunk, At, JobRecord
  <2> QED BY <2>1, NotInPlaceYet
<1>12. CASE SourceGone \/ WriteRaises
  BY <1>4, <1>12 DEF SourceGone, WriteRaises, Attention
<1>13. CASE EndOfStream
  <2>1. GoOn("look") \/ GoOn("verify")
    BY <1>4, <1>13 DEF EndOfStream, Attention
  <2>2. job'.phase \in {"look", "verify"}
    BY <1>3, <2>1 DEF GoOn, JobRecord
  <2>3. job'.phase = "look" => ~InPlace'
    BY NotInPlaceYet
  <2> QED BY <1>13, <2>2, <2>3 DEF Arriving
<1>14. CASE LookBeforeMove
  <2>1. job'.phase = "move"
    BY <1>3, <1>14 DEF LookBeforeMove, JobRecord
  <2> QED BY <2>1, NotInPlaceYet
<1>15. CASE MoveTemp
  <2>1. GoOn("rmrun")
    BY <1>4, <1>15 DEF MoveTemp, Attention
  <2>2. job'.phase = "rmrun"
    BY <1>3, <2>1 DEF GoOn, JobRecord
  <2> QED BY <1>15, <2>2 DEF Arriving
<1>16. CASE MoveUnsupported
  <2>1. job'.phase = "rmrun" /\ job'.straight
    BY <1>3, <1>16 DEF MoveUnsupported, JobRecord
  <2> QED BY <2>1, NotInPlaceYet
<1>17. CASE RemoveRunDirectory
  <2>1. job'.phase = "rmtemp" /\ job'.straight = job.straight /\ job.phase = "rmrun"
    BY <1>3, <1>17 DEF RemoveRunDirectory, At, GoOn, JobRecord
  <2> QED BY <2>1 DEF InPlace
<1>18. CASE RemoveTempDirectory
  <2>1. /\ job'.phase \in {"stream", "verify"} /\ job.phase = "rmtemp"
        /\ job.straight => job'.phase = "stream"
    BY <1>3, <1>18 DEF RemoveTempDirectory, At, GoOn, JobRecord
  <2>2. job'.phase = "stream" => ~InPlace'
    BY NotInPlaceYet
  <2> QED BY <2>1, <2>2 DEF InPlace
<1>19. CASE VerifyTarget
  BY <1>19 DEF VerifyTarget, At, InPlace
<1>20. CASE ReadFails
  <2>1. job'.phase \in {"record", "unsaved"} /\ job'.status \notin Succeeded
    BY <1>3, <1>20 DEF ReadFails, LoseWriter, JobRecord, Succeeded
  <2> QED BY <2>1, NotInPlaceYet
<1>21. CASE CloseRaises \/ ProcessUnsaved
  <2>1. job'.phase = "unsaved"
    BY <1>3, <1>21 DEF CloseRaises, LoseWriter, ProcessUnsaved, JobRecord
  <2> QED BY <2>1, NotInPlaceYet
<1> QED
  BY <1>2, <1>5, <1>6, <1>7, <1>8, <1>9, <1>10, <1>11, <1>12, <1>13, <1>14, <1>15, <1>16, <1>17,
     <1>18, <1>19, <1>20, <1>21
     DEF Step

LEMMA StepClaims ==
  ASSUME JobShape, PlanInv, Step \/ ReadFails \/ Kill
  PROVE  PlanInv' /\ Claims' \subseteq Claims \cup Pending
<1>1. CASE \/ LookAtDirectory \/ MakeDirectory \/ LookAtFile \/ HashSource \/ CompareWithTarget
           \/ FileStep \/ StreamChunk \/ LookBeforeMove \/ MoveUnsupported \/ ReadFails
           \/ CloseRaises \/ ProcessUnsaved
  BY <1>1, WithinSays, WithinKeepsPlan
<1>2. CASE SkipCompleted \/ Finish \/ Kill
  BY <1>2, SkipKeepsPlan, EndKeepsPlan
<1>3. CASE Record
  BY <1>3, RecordKeepsPlan DEF Pending, InPlace
<1> QED BY <1>1, <1>2, <1>3 DEF Step, FileStep

LEMMA ArrivingEntry ==
  ASSUME NamesAreNew, EverSource, MigrateInv, CopyInv, LooksInv, Arriving, Others, NEW k,
         k = Key(Entry)
  PROVE  KeyPlaced(k)' /\ Arrived(k)'
<1>1. JobShape /\ IsSource(source)
  BY DEF MigrateInv
<1> QED
  BY <1>1, LookedDirectoryArrives, MadeDirectoryArrives, ComparedArrives, StreamedArrives, MovedArrives
     DEF Arriving

LEMMA RunKeepsArrival ==
  ASSUME NamesAreNew, EverSource, MigrateInv, CopyInv, PlanInv, LooksInv, ImplicitInv, ArrivalInv,
         Step \/ ReadFails \/ Kill, Others
  PROVE  ArrivalInv'
<1>1. /\ JobShape /\ IsSource(source) /\ UNCHANGED <<source, touched, edited>> /\ TargetChange
  BY TargetChanges DEF MigrateInv, Others
<1>2. ASSUME NEW k \in Claims \cup Pending
      PROVE  KeyPlaced(k)' /\ Arrived(k)'
  <2>1. job.phase = "stream" => k # Key(Entry)
    BY <1>1, <1>2, PlannedNotClaimed DEF Pending, InPlace, Claims, Turning
  <2> QED BY <1>1, <1>2, <2>1, ArrivedStays DEF ArrivalInv
<1>3. ASSUME InPlace'
      PROVE  KeyPlaced(Key(Entry))' /\ Arrived(Key(Entry))'
  <2>1. PICK k : k = Key(Entry)
    OBVIOUS
  <2>2. Arriving \/ InPlace
    BY <1>1, <1>3, ArrivingSays
  <2>3. WithinEntry
    <3>1. SkipCompleted \/ Record \/ Finish \/ Kill => job'.phase \in Turning
      BY <1>1, SkipCompletedShape, RecordShape, FinishShape DEF Turning
    <3>2. ~(SkipCompleted \/ Record \/ Finish \/ Kill)
      BY <1>3, <3>1, NotInPlaceYet DEF Turning
    <3> QED BY <1>1, <3>2, WithinSays DEF Step, FileStep
  <2>4. Key(Entry)' = k
    BY <1>1, <2>1, <2>3, WithinKeepsPlan DEF Key
  <2>5. KeyPlaced(k)' /\ Arrived(k)'
    BY <1>2, <2>1, <2>2, ArrivingEntry DEF Pending
  <2> QED BY <2>4, <2>5 DEF KeyPlaced, Arrived
<1>4. Claims' \subseteq Claims \cup Pending
  BY <1>1, StepClaims
<1> QED BY <1>2, <1>3, <1>4 DEF ArrivalInv, Pending
-----------------------------------------------------------------------------
LEMMA ForeignKeepsArrival ==
  ASSUME MigrateInv, ArrivalInv, Foreign
  PROVE  ArrivalInv'
<1>1. UNCHANGED <<job, manifest, lost>>
  BY DEF Foreign
<1>2. Claims' = Claims /\ Pending' = Pending
  BY <1>1 DEF Claims, Marked, Completed, Pending, InPlace, Entry
<1> QED BY <1>2, ArrivedOutlastsOthers DEF ArrivalInv

LEMMA RerunKeepsArrival ==
  ASSUME JobShape, IsSource(source), PlanInv, ArrivalInv, Rerun
  PROVE  ArrivalInv'
<1>1. Claims' \subseteq Claims /\ job'.phase = "entry"
  BY RerunKeepsPlan
<1>2. Pending' = {}
  BY <1>1 DEF Pending, InPlace
<1>3. UNCHANGED <<tree, source, touched, edited>>
  BY DEF Rerun, Start, Others, fsVars
<1>4. ASSUME NEW k \in Claims
      PROVE  KeyPlaced(k)' /\ Arrived(k)'
  BY <1>3, <1>4
     DEF ArrivalInv, KeyPlaced, PlacesOf, Arrived, FileThere, DirectoryThere, Calm, TouchedAbove,
         TouchedBelow, IsFile, IsDirectory, Present, TreeAt
<1> QED BY <1>1, <1>2, <1>4 DEF ArrivalInv
-----------------------------------------------------------------------------
(* The temporary paths of a run are gone when it ends well. *)

Trouble ==
  \/ job.attention
  \/ job.phase \in {"record", "unsaved"} /\ job.status \in Attention
  \/ job.exit \in {"attention", "failure", "killed"}

Leftover(p) ==
  \/ /\ job.phase \in {"look", "move", "rmrun"} \/ (job.phase = "stream" /\ ~job.straight)
     /\ p = RunDirectory(Entry)
  \/ job.phase \in {"look", "move"} /\ p = TempPath(Entry)

TempsInv ==
  /\ \A p \in DOMAIN tree : \A i \in DOMAIN RunIds : RunIds[i] \in Range(p) => i <= runs
  /\ runs # 0 /\ ~Trouble =>
       \A p \in DOMAIN tree : RunIds[job.run] \in Range(p) => Leftover(p)

LEMMA PlainUsesNoRun ==
  ASSUME NEW p, Plain(p), NEW i \in DOMAIN RunIds
  PROVE  RunIds[i] \notin Range(p)
<1>1. RunIds[i] \in Range(RunIds)
  BY DEF Range
<1> QED BY <1>1 DEF Plain

LEMMA MakesPlainRows ==
  ASSUME HeldTree, NEW p \in Seq(Names), Plain(p), Makedirs(p),
         NEW q \in DOMAIN tree' \ DOMAIN tree
  PROVE  Plain(q)
<1>1. q = p \/ Below(q, p)
  BY MakedirsSays
<1>2. q \in Seq(Names)
  BY MakedirsSays DEF HeldTree, SoundTree
<1> QED BY <1>1, <1>2, PlainParts

(* The temporary directory and file of the entry are the only new paths with the
   uuid4 of a run. *)
LEMMA NewTemps ==
  ASSUME NamesAreNew, EverSource, MigrateInv, Step \/ ReadFails \/ Kill,
         NEW p \in DOMAIN tree' \ DOMAIN tree, NEW i \in DOMAIN RunIds, RunIds[i] \in Range(p)
  PROVE  /\ i = job.run /\ runs # 0
         /\ \/ MakeTempDirectory /\ p = RunDirectory(Entry)
            \/ job.phase = "stream" /\ ~job.straight /\ p = TempPath(Entry)
<1>1. JobShape /\ HeldTree /\ ~Plain(p)
  BY PlainUsesNoRun DEF MigrateInv
<1>2. CASE \/ SkipCompleted \/ LookAtDirectory \/ LookAtFile \/ HashSource \/ CompareWithTarget
           \/ StreamChunk \/ LookBeforeMove \/ VerifyTarget \/ Finish \/ Kill \/ Record
           \/ CloseRaises \/ ProcessUnsaved
  <2>1. UNCHANGED fsVars
    BY <1>2
       DEF SkipCompleted, LookAtDirectory, LookAtFile, HashSource, CompareWithTarget, StreamChunk,
           LookBeforeMove, VerifyTarget, Finish, Kill, Record, CloseRaises, ProcessUnsaved,
           Queries
  <2> QED BY <2>1 DEF fsVars
<1>3. CASE MakeDirectory
  <2>1. Entry \in EntryRecord /\ Placed(Entry)
    BY <1>1, <1>3, EntrySays, StartedHasRecord DEF MakeDirectory, At, JobShape, Turning
  <2>2. Entry.target \in Seq(Names) /\ Plain(Entry.target)
    BY <2>1, PlainEntry DEF EntryRecord
  <2>3. Makedirs(Entry.target) \/ UNCHANGED fsVars
    BY <1>3 DEF MakeDirectory
  <2> QED BY <1>1, <2>2, <2>3, MakesPlainRows DEF fsVars
<1>4. CASE MakeParent
  <2>1. /\ Entry \in EntryRecord /\ Entry.target # <<>> /\ Plain(Entry.target)
        /\ job.run \in DOMAIN RunIds /\ Entry.target \in Seq(Names)
    BY <1>4, FilePhaseSays DEF MakeParent, At, FilePhases
  <2>2. Parent(Entry.target) \in Seq(Names) /\ Below(Parent(Entry.target), Entry.target)
    BY <2>1, TempPathsLay
  <2>3. Plain(Parent(Entry.target))
    BY <2>1, <2>2, PlainParts
  <2>4. Makedirs(Parent(Entry.target)) \/ UNCHANGED fsVars
    BY <1>4 DEF MakeParent
  <2> QED BY <1>1, <2>2, <2>3, <2>4, MakesPlainRows DEF fsVars
<1>5. CASE MakeTempDirectory
  <2>1. /\ Entry \in EntryRecord /\ Entry.target # <<>> /\ Plain(Entry.target) /\ runs # 0
        /\ job.run \in DOMAIN RunIds /\ RunDirectory(Entry) \in Seq(Names)
        /\ TempPath(Entry) \in Seq(Names)
    BY <1>5, FilePhaseSays DEF MakeTempDirectory, At, FilePhases
  <2>2. Makedirs(RunDirectory(Entry)) \/ UNCHANGED fsVars
    BY <1>5 DEF MakeTempDirectory
  <2>3. p \in Seq(Names) /\ (p = RunDirectory(Entry) \/ Below(p, RunDirectory(Entry)))
    BY <1>1, <2>1, <2>2, MakedirsSays DEF fsVars, HeldTree, SoundTree
  <2>4. RunIds[i] \in Range(RunIds)
    BY DEF Range
  <2>5. p = RunDirectory(Entry)
    BY <2>1, <2>3, <2>4, TempPathsLay
  <2>6. Range(p) \cap Range(RunIds) \subseteq {RunIds[job.run]}
    BY <2>1, <2>5, TempPathsLay
  <2>7. i = job.run
    BY <2>1, <2>4, <2>6 DEF NamesAreNew
  <2> QED BY <1>5, <2>1, <2>5, <2>7
<1>6. CASE SourceGone \/ WriteRaises \/ EndOfStream \/ ReadFails
  <2>1. job.phase = "stream"
    BY <1>1, <1>6, StreamCloses
  <2>2. PICK data \in Seq(Bytes) : Store(Destination, data)
    BY <1>1, <1>6, StreamCloses DEF CloseAfter, fsVars
  <2>3. /\ Destination \in Seq(Names) \ {<<>>} /\ runs # 0
        /\ Entry \in EntryRecord /\ Entry.target # <<>> /\ Plain(Entry.target)
        /\ job.run \in DOMAIN RunIds
    BY <2>1, FilePhaseSays DEF Destination, FilePhases
  <2>4. p = Destination
    BY <1>1, <2>2, <2>3, StoreSays
  <2>5. ~job.straight /\ p = TempPath(Entry)
    BY <1>1, <2>3, <2>4 DEF Destination
  <2>6. i = job.run
    BY <2>3, <2>5, TempPathsLay
  <2> QED BY <2>1, <2>3, <2>5, <2>6
<1>7. CASE MoveTemp
  <2>1. /\ job.phase = "move" /\ TempPath(Entry) \in Seq(Names) \ {<<>>}
        /\ job.to \in Seq(Names) \ {<<>>} /\ Plain(job.to)
    BY <1>7, FilePhaseSays DEF MoveTemp, At, FilePhases
  <2>2. Move(TempPath(Entry), job.to, MayReplace)
    BY <1>7 DEF MoveTemp, fsVars
  <2>3. IsFile(TempPath(Entry))
    BY <2>1, <2>2 DEF Move, CanMove, MigrateInv, TempIsFile
  <2>4. DOMAIN tree' = (DOMAIN tree \ {TempPath(Entry)}) \cup {job.to}
    BY <1>1, <2>1, <2>2, <2>3, MoveFileSays
  <2> QED BY <1>1, <2>1, <2>4
<1>8. CASE MoveUnsupported \/ RemoveRunDirectory \/ RemoveTempDirectory
  <2>1. UNCHANGED fsVars \/ \E q : Delete(q, FALSE)
    BY <1>8 DEF MoveUnsupported, RemoveRunDirectory, RemoveTempDirectory, RmdirIfEmpty
  <2> QED BY <1>1, <2>1, DeleteSays DEF fsVars
<1> QED BY <1>2, <1>3, <1>4, <1>5, <1>6, <1>7, <1>8 DEF Step
-----------------------------------------------------------------------------
LEMMA StepStarted ==
  ASSUME JobShape, Step \/ ReadFails \/ Kill
  PROVE  job.phase # "over" /\ runs # 0 /\ job \in JobRecord /\ job.run \in DOMAIN RunIds
<1>1. job.phase # "over"
  BY DEF Step, SkipCompleted, Between, LookAtDirectory, MakeDirectory, LookAtFile, HashSource, CompareWithTarget,
         MakeParent, MakeTempDirectory, StreamChunk, SourceGone, WriteRaises, EndOfStream, LookBeforeMove,
         MoveTemp, MoveUnsupported, RemoveRunDirectory, RemoveTempDirectory, VerifyTarget, Record,
         Finish, CloseRaises, ProcessUnsaved, ReadFails, Kill, AtEntry, At
<1> QED BY <1>1, StartedHasRecord

LEMMA RecordSays ==
  ASSUME job \in JobRecord, Record
  PROVE  /\ runs' = runs /\ job'.run = job.run
         /\ Trouble => Trouble'
<1>1. CASE \E code \in {"attention", "failure"} : job' = Exit(code)
  BY <1>1 DEF Record, Exit, JobRecord, Trouble
<1>2. CASE job' = [job EXCEPT !.phase = IF Unsaved THEN "onward" ELSE "entry", !.at = @ + 1,
                              !.attention = @ \/ job.status \in Attention]
  <2>1. /\ job'.run = job.run /\ job'.exit = job.exit
        /\ job'.attention = (job.attention \/ job.status \in Attention)
    BY <1>2 DEF JobRecord
  <2> QED BY <2>1 DEF Record, Trouble
<1> QED BY <1>1, <1>2 DEF Record

LEMMA RunGoesOn ==
  ASSUME JobShape, PlanInv, Step \/ ReadFails \/ Kill
  PROVE  /\ runs' = runs /\ job'.run = job.run
         /\ Trouble => Trouble'
<1>1. job.phase # "over" /\ runs # 0 /\ job \in JobRecord /\ job.exit = "none"
  BY StepStarted DEF PlanInv
<1>2. CASE \/ LookAtDirectory \/ MakeDirectory \/ LookAtFile \/ HashSource \/ CompareWithTarget
           \/ FileStep \/ StreamChunk \/ LookBeforeMove \/ MoveUnsupported \/ ReadFails
           \/ CloseRaises \/ ProcessUnsaved
  <2>1. WithinEntry
    BY <1>2, WithinSays
  <2>2. job.phase \notin {"record", "unsaved"}
    BY <1>2
       DEF LookAtDirectory, MakeDirectory, LookAtFile, HashSource, CompareWithTarget,
           FileStep, MakeParent, MakeTempDirectory, StreamChunk, SourceGone, WriteRaises, EndOfStream, LookBeforeMove,
           MoveTemp, MoveUnsupported, RemoveRunDirectory, RemoveTempDirectory, VerifyTarget,
           CloseRaises, ProcessUnsaved, ReadFails, AtEntry, At
  <2> QED BY <1>1, <2>1, <2>2 DEF WithinEntry, Trouble
<1>3. CASE Record
  BY <1>1, <1>3, RecordSays
<1>4. CASE SkipCompleted
  <2>1. /\ job'.run = job.run /\ job'.attention = job.attention /\ job'.exit = job.exit
        /\ runs' = runs /\ job.phase \in {"entry", "onward"}
    BY <1>1, <1>4 DEF SkipCompleted, Between, Queries, JobRecord
  <2> QED BY <2>1 DEF Trouble
<1>5. CASE Finish
  <2>1. PICK code \in {"ok", "attention"} : job' = Exit(code)
    BY <1>5 DEF Finish
  <2>2. /\ job'.run = job.run /\ job'.attention = job.attention
        /\ runs' = runs /\ job.phase \in {"entry", "onward"}
    BY <1>1, <1>5, <2>1 DEF Finish, Between, Queries, Exit, JobRecord
  <2> QED BY <1>1, <2>2 DEF Trouble
<1>6. CASE Kill
  BY <1>1, <1>6 DEF Kill, Queries, Exit, JobRecord, Trouble
<1> QED BY <1>2, <1>3, <1>4, <1>5, <1>6 DEF Step, FileStep

LEMMA FailingMeansTrouble ==
  ASSUME job \in JobRecord,
         SourceGone \/ WriteRaises \/ CloseRaises \/ ReadFails \/ Kill \/ Settle("error")
  PROVE  Trouble'
<1>1. CASE SourceGone \/ WriteRaises \/ CloseRaises \/ ReadFails \/ Settle("error")
  <2>1. job'.phase \in {"record", "unsaved"} /\ job'.status = "error"
    BY <1>1 DEF Settle, ReadFails, SourceGone, WriteRaises, CloseRaises, LoseWriter, JobRecord
  <2> QED BY <2>1 DEF Trouble, Attention
<1>2. CASE Kill
  BY <1>2 DEF Kill, Exit, JobRecord, Trouble
<1> QED BY <1>1, <1>2

LEMMA RunDirectoryGoes ==
  ASSUME HeldTree, NEW run \in Seq(Names), RmdirIfEmpty(run), \A p \in DOMAIN tree : ~Below(run, p)
  PROVE  DOMAIN tree' \subseteq DOMAIN tree \ {run}
<1>1. CASE run \in DOMAIN tree
  <2>1. TreeAt(run) = {run}
    BY <1>1 DEF TreeAt
  <2>2. Delete(run, FALSE)
    BY <2>1 DEF RmdirIfEmpty, CanErase, Present
  <2> QED BY <2>1, <2>2, DeleteSays
<1>2. CASE run \notin DOMAIN tree
  <2>1. CASE Delete(run, FALSE)
    BY <1>2, <2>1, DeleteSays
  <2>2. CASE UNCHANGED fsVars
    BY <1>2, <2>2 DEF fsVars
  <2> QED BY <2>1, <2>2 DEF RmdirIfEmpty
<1> QED BY <1>1, <1>2

LEMMA TempFileGoes ==
  ASSUME HeldTree, NEW temp, Delete(temp, FALSE) \/ (~Present(temp) /\ UNCHANGED fsVars)
  PROVE  DOMAIN tree' \subseteq DOMAIN tree \ {temp}
<1>1. temp \in DOMAIN tree => temp \in TreeAt(temp)
  BY DEF TreeAt
<1>2. CASE Delete(temp, FALSE)
  BY <1>1, <1>2, DeleteSays
<1>3. CASE ~Present(temp) /\ UNCHANGED fsVars
  BY <1>1, <1>3 DEF Present, fsVars
<1> QED BY <1>2, <1>3
-----------------------------------------------------------------------------
LEMMA RunPathsStay ==
  ASSUME Entry' = Entry, job'.run = job.run
  PROVE  RunDirectory(Entry)' = RunDirectory(Entry) /\ TempPath(Entry)' = TempPath(Entry)
BY DEF TempPath, RunDirectory, TempDirectory

LEMMA RunNumbersStay ==
  ASSUME NamesAreNew, EverSource, MigrateInv, PlanInv, TempsInv, Step \/ ReadFails \/ Kill
  PROVE  \A p \in DOMAIN tree' : \A i \in DOMAIN RunIds : RunIds[i] \in Range(p) => i <= runs'
<1> SUFFICES ASSUME NEW p \in DOMAIN tree', NEW i \in DOMAIN RunIds, RunIds[i] \in Range(p)
             PROVE  i <= runs'
  OBVIOUS
<1>1. runs' = runs /\ job.run = runs /\ runs \in Nat
  BY RunGoesOn DEF MigrateInv, JobShape, PlanInv
<1>2. CASE p \in DOMAIN tree
  BY <1>1, <1>2 DEF TempsInv
<1>3. CASE p \notin DOMAIN tree
  <2>1. i = job.run
    BY <1>3, NewTemps
  <2> QED BY <1>1, <2>1
<1> QED BY <1>2, <1>3

LEMMA RunKeepsTemps ==
  ASSUME NamesAreNew, EverSource, MigrateInv, PlanInv, TempsInv, Step \/ ReadFails \/ Kill, Others
  PROVE  TempsInv'
<1>1. /\ JobShape /\ HeldTree /\ job \in JobRecord /\ runs # 0 /\ job.run \in DOMAIN RunIds
      /\ runs' = runs /\ job'.run = job.run /\ (Trouble => Trouble')
  BY StepStarted, RunGoesOn DEF MigrateInv
<1> SUFFICES ASSUME ~Trouble', NEW p \in DOMAIN tree', RunIds[job.run] \in Range(p)
             PROVE  Leftover(p)'
  BY <1>1, RunNumbersStay DEF TempsInv
<1>2. p \in DOMAIN tree => Leftover(p)
  BY <1>1 DEF TempsInv
<1>3. p \notin DOMAIN tree =>
        \/ MakeTempDirectory /\ p = RunDirectory(Entry)
        \/ job.phase = "stream" /\ ~job.straight /\ p = TempPath(Entry)
  BY <1>1, NewTemps
<1>4. ~SourceGone /\ ~WriteRaises /\ ~CloseRaises /\ ~ReadFails /\ ~Kill /\ ~Settle("error")
  BY <1>1, FailingMeansTrouble
<1>5. CASE \/ SkipCompleted \/ LookAtDirectory \/ MakeDirectory \/ LookAtFile \/ HashSource
           \/ CompareWithTarget \/ MakeParent \/ RemoveTempDirectory \/ VerifyTarget \/ Record \/ Finish
           \/ ProcessUnsaved
  <2>1. job.phase \notin {"tempdir", "stream", "look", "move", "rmrun"}
    BY <1>5
       DEF SkipCompleted, LookAtDirectory, MakeDirectory, LookAtFile, HashSource, CompareWithTarget,
           MakeParent, RemoveTempDirectory, VerifyTarget, Record, Finish, ProcessUnsaved,
           Between, AtEntry, At
  <2> QED BY <1>2, <1>3, <2>1 DEF Leftover, MakeTempDirectory, At
<1>6. CASE MakeTempDirectory
  <2>1. Makedirs(RunDirectory(Entry)) /\ GoOn("stream") /\ job.phase = "tempdir" /\ ~job.straight
    BY <1>1, <1>4, <1>6 DEF MakeTempDirectory, At, PlanInv
  <2>2. job'.phase = "stream" /\ ~job'.straight /\ Entry' = Entry
    BY <1>1, <2>1 DEF GoOn, JobRecord, Entry
  <2>3. p = RunDirectory(Entry)
    BY <1>2, <1>3, <2>1 DEF Leftover
  <2> QED BY <1>1, <2>2, <2>3, RunPathsStay DEF Leftover
<1>7. CASE StreamChunk
  <2>1. /\ job.phase = "stream" /\ job'.phase = "stream" /\ job'.straight = job.straight
        /\ Entry' = Entry /\ tree' = tree
    BY <1>1, <1>7 DEF StreamChunk, At, Queries, fsVars, JobRecord, Entry
  <2> QED BY <1>1, <1>2, <2>1, RunPathsStay DEF Leftover
<1>8. CASE EndOfStream
  <2>1. CASE job.straight
    BY <1>2, <1>3, <1>8, <2>1 DEF EndOfStream, At, Leftover, MakeTempDirectory
  <2>2. CASE ~job.straight
    <3>1. GoOn("look") /\ job.phase = "stream"
      BY <1>4, <1>8, <2>2 DEF EndOfStream, At
    <3>2. job'.phase = "look" /\ Entry' = Entry
      BY <1>1, <3>1 DEF GoOn, JobRecord, Entry
    <3>3. p = RunDirectory(Entry) \/ p = TempPath(Entry)
      BY <1>2, <1>3, <3>1 DEF Leftover, MakeTempDirectory, At
    <3> QED BY <1>1, <3>2, <3>3, RunPathsStay DEF Leftover
  <2> QED BY <2>1, <2>2
<1>9. CASE LookBeforeMove
  <2>1. job.phase = "look" /\ job'.phase = "move" /\ Entry' = Entry /\ tree' = tree
    BY <1>1, <1>9 DEF LookBeforeMove, At, Queries, fsVars, JobRecord, Entry
  <2> QED BY <1>1, <1>2, <2>1, RunPathsStay DEF Leftover
<1>10. CASE MoveTemp
  <2>1. /\ job.phase = "move" /\ TempPath(Entry) \in Seq(Names) \ {<<>>}
        /\ job.to \in Seq(Names) \ {<<>>} /\ Plain(job.to)
    BY <1>10, FilePhaseSays DEF MoveTemp, At, FilePhases
  <2>2. Move(TempPath(Entry), job.to, MayReplace) /\ GoOn("rmrun")
    BY <1>4, <1>10 DEF MoveTemp
  <2>3. IsFile(TempPath(Entry))
    BY <2>1, <2>2 DEF Move, CanMove, MigrateInv, TempIsFile
  <2>4. DOMAIN tree' = (DOMAIN tree \ {TempPath(Entry)}) \cup {job.to}
    BY <1>1, <2>1, <2>2, <2>3, MoveFileSays
  <2>5. p \in DOMAIN tree /\ p # TempPath(Entry)
    BY <1>1, <2>1, <2>4, PlainUsesNoRun, <1>3 DEF MakeTempDirectory, At
  <2>6. p = RunDirectory(Entry)
    BY <1>2, <2>5 DEF Leftover
  <2>7. job'.phase = "rmrun" /\ Entry' = Entry
    BY <1>1, <2>2 DEF GoOn, JobRecord, Entry
  <2> QED BY <1>1, <2>6, <2>7, RunPathsStay DEF Leftover
<1>11. CASE MoveUnsupported
  <2>1. DOMAIN tree' \subseteq DOMAIN tree \ {TempPath(Entry)}
    BY <1>1, <1>11, TempFileGoes DEF MoveUnsupported
  <2>2. p = RunDirectory(Entry)
    BY <1>2, <2>1 DEF Leftover
  <2>3. job'.phase = "rmrun" /\ Entry' = Entry
    BY <1>1, <1>11 DEF MoveUnsupported, JobRecord, Entry
  <2> QED BY <1>1, <2>2, <2>3, RunPathsStay DEF Leftover
<1>12. CASE RemoveRunDirectory
  <2> DEFINE run == RunDirectory(Entry)
  <2>1. /\ job.phase = "rmrun" /\ run \in Seq(Names) /\ Entry \in EntryRecord
        /\ Entry.target # <<>> /\ Plain(Entry.target)
    BY <1>12, FilePhaseSays DEF RemoveRunDirectory, At, FilePhases
  <2>2. \A q \in DOMAIN tree : RunIds[job.run] \in Range(q) => q = run
    BY <1>1, <2>1 DEF TempsInv, Leftover
  <2>3. RunIds[job.run] \in Range(run)
    <3>1. TempDirectory(Entry) \in Seq(Names) /\ RunIds[job.run] \in Names
      BY <1>1, <1>12, FilePhaseSays, MigrateAssumption
         DEF RemoveRunDirectory, At, FilePhases
    <3> QED BY <3>1, AppendRange DEF RunDirectory
  <2>4. ASSUME NEW q \in DOMAIN tree, Below(run, q)
        PROVE  FALSE
    <3>1. q \in Seq(Names) /\ Range(run) \subseteq Range(q)
      BY <1>1, <2>1, <2>4, BelowSays, AboveRange DEF HeldTree, SoundTree
    <3>2. q = run
      BY <2>2, <2>3, <2>4, <3>1
    <3> QED BY <2>1, <2>4, <3>2, BelowSays
  <2>5. DOMAIN tree' \subseteq DOMAIN tree \ {run}
    <3>1. RmdirIfEmpty(run)
      BY <1>12 DEF RemoveRunDirectory
    <3> HIDE DEF run
    <3> QED BY <1>1, <2>1, <2>4, <3>1, RunDirectoryGoes
  <2> QED BY <2>2, <2>5
<1> QED
  BY <1>4, <1>5, <1>6, <1>7, <1>8, <1>9, <1>10, <1>11, <1>12 DEF Step

LEMMA ForeignKeepsTemps ==
  ASSUME NamesAreNew, MigrateInv, TempsInv, Foreign
  PROVE  TempsInv'
<1>1. UNCHANGED <<job, runs>> /\ HeldTree
  BY DEF Foreign, MigrateInv
<1>2. ASSUME NEW p \in DOMAIN tree', p \notin DOMAIN tree, NEW i \in DOMAIN RunIds
      PROVE  RunIds[i] \notin Range(p)
  <2>1. CASE ForeignTarget
    <3>1. PICK q \in ForeignPaths :
            /\ HeldTree'
            /\ \A r \in DOMAIN tree' \ DOMAIN tree : r = q \/ Below(r, q)
      BY <1>1, <2>1, ForeignTargetSays
    <3>2. q \in Seq(Names) /\ Plain(q) /\ p \in Seq(Names)
      BY <3>1, MigrateAssumption DEF NamesAreNew, HeldTree, SoundTree
    <3>3. Plain(p)
      BY <1>2, <3>1, <3>2, PlainParts
    <3> QED BY <3>3, PlainUsesNoRun
  <2>2. CASE ForeignSource
    BY <1>2, <2>2 DEF ForeignSource, fsVars
  <2> QED BY <2>1, <2>2 DEF Foreign
<1>3. \A p : Leftover(p)' <=> Leftover(p)
  BY <1>1 DEF Leftover, RunDirectory, TempPath, TempDirectory, Entry
<1>4. Trouble' <=> Trouble
  BY <1>1 DEF Trouble
<1>5. \A p \in DOMAIN tree' : \A i \in DOMAIN RunIds : RunIds[i] \in Range(p) => p \in DOMAIN tree
  BY <1>2
<1>6. ASSUME runs # 0
      PROVE  job.run \in DOMAIN RunIds
  BY <1>6 DEF MigrateInv, JobShape
<1> QED BY <1>1, <1>3, <1>4, <1>5, <1>6 DEF TempsInv

LEMMA RerunKeepsTemps ==
  ASSUME JobShape, IsSource(source), PlanInv, TempsInv, Rerun
  PROVE  TempsInv'
<1>1. /\ runs' = runs + 1 /\ runs \in Nat /\ job'.run = runs + 1 /\ job'.run \in DOMAIN RunIds
      /\ tree' = tree
  BY RerunKeepsPlan DEF Rerun, Start, fsVars, JobShape
<1>2. \A p \in DOMAIN tree : \A i \in DOMAIN RunIds : RunIds[i] \in Range(p) => i <= runs
  BY DEF TempsInv
<1>3. \A p \in DOMAIN tree : RunIds[job'.run] \notin Range(p)
  BY <1>1, <1>2
<1>4. \A p \in DOMAIN tree : \A i \in DOMAIN RunIds : RunIds[i] \in Range(p) => i <= runs + 1
  <2>1. \A i \in DOMAIN RunIds : i \in Nat
    BY MigrateAssumption
  <2>2. \A i \in Nat : i <= runs => i <= runs + 1
    BY <1>1
  <2> QED BY <1>2, <2>1, <2>2
<1> QED BY <1>1, <1>3, <1>4 DEF TempsInv
-----------------------------------------------------------------------------
(* The inductive invariant of the runs. *)
RunsInv ==
  /\ EverSource /\ MigrateInv /\ CopyInv /\ PlanInv
  /\ LooksInv /\ ImplicitInv /\ ArrivalInv /\ TempsInv

LEMMA RunsInvInit ==
  ASSUME NamesAreNew, MigrateInit
  PROVE  RunsInv
<1>1. /\ tree \in Targets /\ source \in Sources /\ job = NotStarted /\ runs = 0 /\ manifest = {}
      /\ lost = {} /\ touched = {} /\ edited = {}
  BY DEF MigrateInit
<1>2. EverSource
  BY <1>1 DEF EverSource
<1>3. CopyInv /\ LooksInv /\ PlanInv
  BY <1>1 DEF CopyInv, LooksInv, PlanInv, NotStarted
<1>4. \A p \in DOMAIN tree : Plain(p)
  BY <1>1 DEF NamesAreNew
<1>5. ImplicitInv
  BY <1>4 DEF ImplicitInv, Present, TreeAt, Plain
<1>6. Claims = {} /\ Pending = {}
  BY <1>1 DEF Claims, Marked, Completed, Pending, InPlace, NotStarted
<1>7. ArrivalInv
  BY <1>6 DEF ArrivalInv
<1>8. TempsInv
  BY <1>1, <1>4, PlainUsesNoRun DEF TempsInv
<1> QED BY <1>2, <1>3, <1>5, <1>7, <1>8, MigrateInvInit DEF RunsInv

LEMMA RunKeepsRunsInv ==
  ASSUME NamesAreNew, RunsInv, RunStep \/ Fault
  PROVE  RunsInv'
<1>1. /\ EverSource /\ MigrateInv /\ CopyInv /\ PlanInv
      /\ LooksInv /\ ImplicitInv /\ ArrivalInv /\ TempsInv
  BY DEF RunsInv
<1>2. /\ Step \/ ReadFails \/ Kill
      /\ Others /\ Creates /\ TargetChange /\ UNCHANGED <<source, touched, edited>>
  BY <1>1, TargetChanges DEF RunStep, Fault, MigrateInv, Others
<1>3. EverSource'
  BY <1>1, <1>2 DEF EverSource
<1>4. MigrateInv' /\ CopyInv' /\ LooksInv' /\ ImplicitInv'
  BY <1>1, <1>2, RunKeepsInv, RunKeepsCopy, RunKeepsLooks, RunKeepsImplicit
<1>5. PlanInv'
  BY <1>1, <1>2, StepClaims DEF MigrateInv
<1>6. ArrivalInv' /\ TempsInv'
  BY <1>1, <1>2, RunKeepsArrival, RunKeepsTemps
<1> QED BY <1>3, <1>4, <1>5, <1>6 DEF RunsInv

LEMMA RerunKeepsRunsInv ==
  ASSUME NamesAreNew, RunsInv, Rerun
  PROVE  RunsInv'
<1>1. /\ EverSource /\ MigrateInv /\ CopyInv /\ PlanInv /\ JobShape /\ IsSource(source)
      /\ LooksInv /\ ImplicitInv /\ ArrivalInv /\ TempsInv
  BY DEF RunsInv, MigrateInv
<1>2. UNCHANGED <<tree, source, touched, edited>> /\ job'.phase = "entry" /\ PlanInv'
  BY <1>1, RerunKeepsPlan DEF Rerun, Start, Others, fsVars
<1>3. EverSource' /\ CopyInv' /\ LooksInv'
  BY <1>1, <1>2 DEF EverSource, CopyInv, LooksInv
<1>4. ImplicitInv'
  BY <1>1, <1>2 DEF ImplicitInv, Calm, TouchedAbove, TouchedBelow, Present, TreeAt
<1>5. MigrateInv'
  BY <1>1, MigrateKeepsInv, NewNamesSay, PrivateKeepsOut DEF MigrateNext
<1>6. ArrivalInv' /\ TempsInv'
  BY <1>1, RerunKeepsArrival, RerunKeepsTemps
<1> QED BY <1>2, <1>3, <1>4, <1>5, <1>6 DEF RunsInv

LEMMA ForeignKeepsRunsInv ==
  ASSUME NamesAreNew, RunsInv, Foreign
  PROVE  RunsInv'
<1>1. /\ EverSource /\ MigrateInv /\ CopyInv /\ PlanInv
      /\ LooksInv /\ ImplicitInv /\ ArrivalInv /\ TempsInv /\ OthersKeepOut
  BY NewNamesSay, PrivateKeepsOut DEF RunsInv
<1>2. EverSource' /\ MigrateInv' /\ CopyInv' /\ LooksInv' /\ ImplicitInv' /\ ArrivalInv' /\ TempsInv'
  BY <1>1, ForeignKeepsSources, ForeignKeepsInv, ForeignKeepsCopy, ForeignKeepsLooks,
     ForeignKeepsImplicit, ForeignKeepsArrival, ForeignKeepsTemps
<1>3. UNCHANGED <<job, runs, manifest, lost>>
  BY DEF Foreign
<1>4. PlanInv'
  BY <1>1, <1>3 DEF PlanInv, Marked, Completed, Processed, Entry
<1> QED BY <1>2, <1>4 DEF RunsInv

LEMMA StutterKeepsRunsInv ==
  ASSUME NamesAreNew, RunsInv, UNCHANGED migrateVars
  PROVE  RunsInv'
<1>1. UNCHANGED <<tree, nextId, calls, source, job, runs, manifest, lost, foreign, mine, direct, touched, edited>>
  BY DEF migrateVars, fsVars
<1>2. EverSource' /\ CopyInv' /\ LooksInv'
  BY <1>1 DEF RunsInv, EverSource, CopyInv, LooksInv, Entry, TempPath, RunDirectory, TempDirectory,
              IsFile, IsDirectory, Present, TreeAt, TouchedAbove, TouchedBelow, Calm, Unblocked,
              LevelsThere
<1>3. MigrateInv'
  BY MigrateKeepsInv, NewNamesSay, PrivateKeepsOut DEF RunsInv
<1>4. PlanInv'
  BY <1>1 DEF RunsInv, PlanInv, Marked, Completed, Processed, Entry
<1>5. ImplicitInv'
  BY <1>1 DEF RunsInv, ImplicitInv, Calm, TouchedAbove, TouchedBelow, Present, TreeAt
<1>6. ArrivalInv'
  BY <1>1 DEF RunsInv, ArrivalInv, Claims, Marked, Completed, Pending, InPlace, Entry, KeyPlaced, PlacesOf,
              Arrived, FileThere, DirectoryThere, Calm, TouchedAbove, TouchedBelow, IsFile,
              IsDirectory, Present, TreeAt
<1>7. TempsInv'
  BY <1>1 DEF RunsInv, TempsInv, Trouble, Leftover, RunDirectory, TempPath, TempDirectory, Entry
<1> QED BY <1>2, <1>3, <1>4, <1>5, <1>6, <1>7 DEF RunsInv

LEMMA RunsInvMeansMigrated ==
  ASSUME RunsInv
  PROVE  ExitOkMeansMigrated
<1> SUFFICES ASSUME job.exit = "ok"
             PROVE  /\ \A e \in Selected : Undisturbed(e) /\ Key(e) \notin lost => Migrated(e)
                    /\ \A p \in DOMAIN tree : RunIds[job.run] \notin Range(p)
  BY DEF ExitOkMeansMigrated
<1>1. JobShape /\ PlanInv /\ ArrivalInv /\ TempsInv
  BY DEF RunsInv, MigrateInv
<1>2. runs # 0 /\ job \in JobRecord
  BY <1>1 DEF JobShape, NotStarted
<1>3. job.at > Len(job.todo) /\ ~job.attention /\ job.phase = "over" /\ Processed \subseteq Marked
  BY <1>1, <1>2 DEF PlanInv
<1>4. ASSUME NEW e \in Selected, Undisturbed(e), Key(e) \notin lost
      PROVE  Migrated(e)
  <2>1. PICK i \in DOMAIN job.todo : e = job.todo[i]
    BY <1>2, <1>4 DEF Selected, Range
  <2>2. i \in 1..(job.at - 1)
    BY <1>2, <1>3, <2>1 DEF JobRecord
  <2>3. Key(e) \in Claims
    BY <1>3, <1>4, <2>1, <2>2 DEF Processed, Claims
  <2>4. Placed(e) /\ e \in EntryRecord
    BY <1>1, <1>2, <2>1 DEF JobShape, TodoPlaced, JobRecord
  <2>5. e.source \in DOMAIN source /\ source[e.source].type = e.type /\ e.source \notin edited
    BY <1>4, <2>4 DEF Undisturbed, Placed
  <2>6. Arrived(Key(e)) /\ Key(e).source = e.source /\ Key(e).target = e.target
    BY <1>1, <2>3 DEF ArrivalInv, Key
  <2>7. ~TouchedAbove(e.target)
    BY <1>4 DEF Undisturbed, TouchedAbove
  <2>8. CASE e.type = "file"
    <3>1. Calm(e.target)
      BY <1>4, <2>7, <2>8 DEF Undisturbed, Calm, TouchedBelow
    <3>2. FileThere(e.source, e.target)
      BY <2>5, <2>6, <2>8 DEF Arrived
    <3> QED BY <2>8, <3>1, <3>2 DEF FileThere, Migrated
  <2>9. CASE e.type = "directory"
    <3>1. DirectoryThere(e.target)
      BY <2>5, <2>6, <2>9 DEF Arrived
    <3>2. e.target \notin DOMAIN tree => ~TouchedBelow(e.target)
      BY <1>4 DEF Undisturbed, TouchedBelow
    <3> QED BY <2>7, <2>9, <3>1, <3>2 DEF DirectoryThere, Migrated
  <2> QED BY <2>4, <2>8, <2>9 DEF EntryRecord
<1>5. ASSUME NEW p \in DOMAIN tree
      PROVE  RunIds[job.run] \notin Range(p)
  <2>1. ~Trouble
    BY <1>3 DEF Trouble
  <2> QED BY <1>1, <1>2, <1>3, <2>1 DEF TempsInv, Leftover
<1> QED BY <1>4, <1>5

(* Where the names of the temporary paths are new, a command that exits with 0 has told
   the truth: every entry it was asked for is at its target, byte for byte, and nothing of
   its temporary paths is left, whatever runs went before, under whatever options, and
   wherever they were killed.  The exception are the entries that the manifest has from a
   run whose writer was not left, because close() raised (fsspec_migrate.py, handle,
   _migrate_file, _migrate_directory and the manifest; buffer.py, close). *)
THEOREM ExitOkIsTheTruth ==
  ASSUME NamesAreNew
  PROVE  MigrateSpec => []ExitOkMeansMigrated
<1>1. MigrateInit => RunsInv
  BY RunsInvInit
<1>2. RunsInv /\ [MigrateNext]_migrateVars => RunsInv'
  BY RunKeepsRunsInv, RerunKeepsRunsInv, ForeignKeepsRunsInv, StutterKeepsRunsInv DEF MigrateNext
<1>3. RunsInv => ExitOkMeansMigrated
  BY RunsInvMeansMigrated
<1> QED BY <1>1, <1>2, <1>3, PTL DEF MigrateSpec
-----------------------------------------------------------------------------
(* Runs that nobody disturbs: what is in the way of a run stays in its way *)

Alone == touched = {} /\ edited = {}

(* Why a run may end with something to look at. *)
Reason == Clash \/ Oversized \/ (job.opt.conflict = "checksum" /\ (OthersAtTargets \/ direct # {}))

LEMMA FileRemains ==
  ASSUME NamesAreNew, EverSource, MigrateInv, TargetChange,
         NEW q, TempName \notin Range(q), IsFile(q)
  PROVE  IsFile(q)'
BY RowsKept DEF IsFile

LEMMA DirectoryRemains ==
  ASSUME NamesAreNew, EverSource, MigrateInv, ImplicitInv, TargetChange, Alone,
         NEW t \in Seq(Names) \ {<<>>}, TempName \notin Range(t), IsDirectory(t)
  PROVE  IsDirectory(t)'
<1>1. CASE t \in DOMAIN tree
  <2>1. t \in DOMAIN tree' /\ tree'[t].type = tree[t].type
    BY <1>1, RowsKept
  <2> QED BY <1>1, <2>1 DEF IsDirectory, IsFile, Present, TreeAt
<1>2. CASE t \notin DOMAIN tree
  <2>1. PICK q \in DOMAIN tree : Below(t, q) /\ TempName \notin Range(q)
    BY <1>2 DEF ImplicitInv, Alone, Calm, TouchedAbove, TouchedBelow, IsDirectory
  <2>2. q \in DOMAIN tree'
    BY <2>1, RowsKept
  <2>3. Present(t)'
    BY <2>1, <2>2 DEF Present, TreeAt
  <2>4. ASSUME IsFile(t)'
        PROVE  FALSE
    <3>1. t \in DOMAIN tree' \ DOMAIN tree /\ tree'[t].type = "file" /\ HeldTree
      BY <1>2, <2>4 DEF IsFile, MigrateInv
    <3>2. CASE UNCHANGED fsVars
      BY <3>1, <3>2 DEF fsVars
    <3>3. CASE \E p \in Seq(Names) : Makedirs(p)
      BY <3>1, <3>3, MakedirsSays
    <3>4. CASE job.phase = "stream" /\ Stores
      <4>1. Destination \in Seq(Names) \ {<<>>}
        BY <3>4, FilePhaseSays DEF Destination, FilePhases
      <4>2. PICK data \in Seq(Bytes) : Store(Destination, data)
        BY <3>4 DEF Stores
      <4>3. DOMAIN tree' = DOMAIN tree \cup {Destination}
        BY <3>1, <4>1, <4>2, StoreSays
      <4>4. t = Destination
        BY <3>1, <4>3
      <4> QED BY <4>2, <4>4 DEF Store, CanWrite
    <3>5. CASE job.phase = "move" /\ Move(TempPath(Entry), job.to, MayReplace)
      <4>1. TempPath(Entry) \in Seq(Names) \ {<<>>} /\ job.to \in Seq(Names) \ {<<>>}
        BY <3>5, FilePhaseSays DEF FilePhases
      <4>2. IsFile(TempPath(Entry))
        BY <3>5 DEF Move, CanMove, MigrateInv, TempIsFile
      <4>3. DOMAIN tree' = (DOMAIN tree \ {TempPath(Entry)}) \cup {job.to}
        BY <3>1, <3>5, <4>1, <4>2, MoveFileSays
      <4>4. t = job.to
        BY <3>1, <4>3
      <4> QED BY <3>5, <4>2, <4>4 DEF Move, CanMove, IsDirectory
    <3>6. CASE \E p : Delete(p, FALSE)
      BY <3>1, <3>6, DeleteSays
    <3> QED BY <3>2, <3>3, <3>4, <3>5, <3>6 DEF TargetChange
  <2> QED BY <2>3, <2>4 DEF IsDirectory
<1> QED BY <1>1, <1>2

(* The entries of a run, and what is above their targets. *)
LEMMA SelectedSays ==
  ASSUME NamesAreNew, EverSource, MigrateInv, runs # 0, NEW e \in Selected
  PROVE  /\ e \in EntryRecord /\ Placed(e) /\ Plain(e.target) /\ TempName \notin Range(e.target)
         /\ e.target \in Seq(Names)
<1>1. job \in JobRecord /\ TodoPlaced
  BY DEF MigrateInv, JobShape
<1>2. PICK i \in DOMAIN job.todo : e = job.todo[i]
  BY DEF Selected, Range
<1>3. e \in EntryRecord /\ Placed(e)
  BY <1>1, <1>2, ElementOfSeq DEF JobRecord, TodoPlaced
<1> QED BY <1>3, PlainEntry DEF Plain, EntryRecord

LEMMA AncestorSays ==
  ASSUME NEW p \in Seq(Names), NEW q \in Ancestors(p)
  PROVE  q \in Seq(Names) \ {<<>>} /\ Below(q, p)
<1>1. PICK k \in 1..(Len(p) - 1) : q = Upto(p, k)
  BY DEF Ancestors
<1>2. k \in 0..Len(p) /\ k # Len(p) /\ k # 0
  OBVIOUS
<1> QED BY <1>1, <1>2, UptoSays

(* What is in the way of an entry stays in its way. *)
LEMMA ClashStays ==
  ASSUME NamesAreNew, RunsInv, Alone, runs # 0, runs' = runs, job'.todo = job.todo, TargetChange,
         Clash
  PROVE  Clash'
<1>1. EverSource /\ MigrateInv /\ ImplicitInv
  BY DEF RunsInv
<1>2. PICK e \in Selected :
        \/ IF e.type = "file" THEN IsDirectory(e.target) ELSE IsFile(e.target)
        \/ ~Reachable(e.target)
  BY DEF Clash
<1>3. /\ Placed(e) /\ Plain(e.target) /\ TempName \notin Range(e.target) /\ e.target \in Seq(Names)
  BY <1>1, SelectedSays
<1>4. e \in Selected'
  BY <1>2 DEF Selected
<1>5. CASE e.type = "file" /\ IsDirectory(e.target)
  <2>1. IsDirectory(e.target)'
    BY <1>1, <1>3, <1>5, DirectoryRemains DEF Placed
  <2> QED BY <1>4, <1>5, <2>1 DEF Clash
<1>6. CASE e.type # "file" /\ IsFile(e.target)
  <2>1. IsFile(e.target)'
    BY <1>1, <1>3, <1>6, FileRemains
  <2> QED BY <1>4, <1>6, <2>1 DEF Clash
<1>7. CASE ~Reachable(e.target)
  <2>1. PICK q \in Ancestors(e.target) : IsFile(q)
    BY <1>7 DEF Reachable
  <2>2. TempName \notin Range(q)
    BY <1>3, <2>1, AncestorSays, PlainParts DEF Plain
  <2>3. IsFile(q)'
    BY <1>1, <2>1, <2>2, FileRemains
  <2> QED BY <1>4, <2>1, <2>3 DEF Clash, Reachable
<1> QED BY <1>2, <1>5, <1>6, <1>7

(* So does a file of somebody else that is not to be replaced. *)
LEMMA OthersStay ==
  ASSUME NamesAreNew, RunsInv, runs # 0, runs' = runs, job'.todo = job.todo, TargetChange, Creates,
         job.opt.conflict = "checksum", OthersAtTargets
  PROVE  OthersAtTargets' \/ direct' # {}
<1>1. EverSource /\ MigrateInv /\ HeldTree
  BY DEF RunsInv, MigrateInv
<1>2. PICK e \in Selected : IsFile(e.target) /\ tree[e.target].id \notin mine
  BY DEF OthersAtTargets
<1>3. e.target \in Seq(Names) /\ TempName \notin Range(e.target)
  BY <1>1, SelectedSays
<1>4. e \in Selected'
  BY <1>2 DEF Selected
<1> DEFINE t == e.target
<1>5. /\ t \in DOMAIN tree /\ t \in DOMAIN tree' /\ tree'[t].type = "file"
      /\ tree[t].id \in Nat /\ tree[t].id < nextId /\ nextId \in Nat
      /\ tree'[t] = tree[t] \/ Rewritten(t)
  BY <1>1, <1>2, <1>3, RowsKept DEF IsFile, HeldTree
<1>6. CASE tree'[t] = tree[t]
  <2>1. tree[t].id \notin nextId..(nextId' - 1)
    BY <1>5
  <2>2. tree'[t].id \notin mine'
    BY <1>2, <1>6, <2>1 DEF Creates
  <2> QED BY <1>4, <1>5, <2>2 DEF OthersAtTargets, IsFile
<1>7. CASE tree'[t] # tree[t] /\ job.phase = "stream" /\ job.straight
  <2>1. ~ UNCHANGED fsVars
    BY <1>7 DEF fsVars
  <2>2. ~ \E p \in Seq(Names) : Makedirs(p)
    BY <1>1, <1>5, <1>7, MakedirsSays DEF Keeps
  <2> QED BY <1>7, <2>1, <2>2 DEF TargetChange
<1>8. CASE tree'[t] # tree[t] /\ job.phase = "move" /\ t = job.to
  <2>1. ~ UNCHANGED fsVars
    BY <1>8 DEF fsVars
  <2>2. ~ \E p \in Seq(Names) : Makedirs(p)
    BY <1>1, <1>5, <1>8, MakedirsSays DEF Keeps
  <2>3. Move(TempPath(Entry), job.to, MayReplace)
    BY <1>8, <2>1, <2>2 DEF TargetChange
  <2>4. Present(job.to)
    BY <1>5, <1>8 DEF Present, TreeAt
  <2>5. MayReplace
    BY <2>3, <2>4 DEF Move, CanMove
  <2> QED BY <2>5 DEF MayReplace
<1> QED BY <1>5, <1>6, <1>7, <1>8 DEF Rewritten

LEMMA ReasonStays ==
  ASSUME NamesAreNew, RunsInv, Alone, runs # 0, runs' = runs, job'.todo = job.todo,
         job'.opt = job.opt, TargetChange, Creates, source' = source, direct \subseteq direct', Reason
  PROVE  Reason'
<1>1. CASE Clash
  BY <1>1, ClashStays DEF Reason
<1>2. CASE job.opt.conflict = "checksum" /\ direct # {}
  <2>1. direct' # {}
    BY <1>2
  <2> QED BY <1>2, <2>1 DEF Reason
<1>3. CASE job.opt.conflict = "checksum" /\ OthersAtTargets
  <2>1. OthersAtTargets' \/ direct' # {}
    BY <1>3, OthersStay
  <2> QED BY <1>3, <2>1 DEF Reason
<1>4. CASE Oversized
  <2>1. Selected' = Selected
    BY DEF Selected
  <2> QED BY <1>4, <2>1 DEF Oversized, Reason
<1> QED BY <1>1, <1>2, <1>3, <1>4 DEF Reason
-----------------------------------------------------------------------------
(* Nothing but a directory has a name of the temporary directories. *)
FilesEndPlain ==
  \A q \in DOMAIN tree :
    tree[q].type = "file" => q[Len(q)] # TempName /\ q[Len(q)] \notin Range(RunIds)

LEMMA PlainEnd ==
  ASSUME NEW q \in Seq(Names) \ {<<>>}, Plain(q)
  PROVE  q[Len(q)] # TempName /\ q[Len(q)] \notin Range(RunIds)
<1>1. Len(q) \in DOMAIN q
  OBVIOUS
<1>2. q[Len(q)] \in Range(q)
  BY <1>1 DEF Range
<1> QED BY <1>2 DEF Plain

LEMMA RunKeepsEnds ==
  ASSUME NamesAreNew, EverSource, MigrateInv, FilesEndPlain, TargetChange
  PROVE  FilesEndPlain'
<1> SUFFICES ASSUME NEW q \in DOMAIN tree', tree'[q].type = "file"
             PROVE  q[Len(q)] # TempName /\ q[Len(q)] \notin Range(RunIds)
  BY DEF FilesEndPlain
<1>1. HeldTree
  BY DEF MigrateInv
<1>2. CASE q \in DOMAIN tree /\ tree'[q] = tree[q]
  BY <1>2 DEF FilesEndPlain
<1>3. CASE UNCHANGED fsVars
  BY <1>2, <1>3 DEF fsVars
<1>4. CASE \E p \in Seq(Names) : Makedirs(p)
  BY <1>1, <1>2, <1>4, MakedirsSays DEF Keeps
<1>5. CASE job.phase = "stream" /\ Stores
  <2>1. /\ Destination \in Seq(Names) \ {<<>>} /\ Plain(Entry.target)
        /\ Entry.target \in Seq(Names) \ {<<>>} /\ RunDirectory(Entry) \in Seq(Names)
    BY <1>5, FilePhaseSays DEF Destination, FilePhases
  <2>2. DOMAIN tree' = DOMAIN tree \cup {Destination} /\ Keeps(DOMAIN tree \ {Destination})
    BY <1>1, <1>5, <2>1, StoreSays DEF Stores
  <2>3. CASE q = Entry.target
    BY <2>1, <2>3, PlainEnd
  <2>4. CASE q = TempPath(Entry)
    <3>1. Entry.target[Len(Entry.target)] \in Names
      BY <2>1
    <3>2. q[Len(q)] = Entry.target[Len(Entry.target)]
      BY <2>1, <2>4, <3>1 DEF TempPath
    <3> QED BY <2>1, <3>2, PlainEnd
  <2>5. q = Destination \/ (q \in DOMAIN tree /\ tree'[q] = tree[q])
    BY <2>2 DEF Keeps
  <2>6. q = Destination => q = Entry.target \/ q = TempPath(Entry)
    BY DEF Destination
  <2> QED BY <1>2, <2>3, <2>4, <2>5, <2>6
<1>6. CASE job.phase = "move" /\ Move(TempPath(Entry), job.to, MayReplace)
  <2>1. /\ TempPath(Entry) \in Seq(Names) \ {<<>>} /\ job.to \in Seq(Names) \ {<<>>} /\ Plain(job.to)
    BY <1>6, FilePhaseSays DEF FilePhases
  <2>2. IsFile(TempPath(Entry))
    BY <1>6 DEF Move, CanMove, MigrateInv, TempIsFile
  <2>3. PICK src \in Seq(Names) \ {<<>>}, dst \in Seq(Names) \ {<<>>},
            replace \in {MayReplace} :
          Move(src, dst, replace) /\ IsFile(src) /\ dst = job.to
    BY <1>6, <2>1, <2>2
  <2>4. DOMAIN tree' = (DOMAIN tree \ {src}) \cup {dst} /\ Keeps(DOMAIN tree \ {src, dst})
    BY <1>1, <2>3, MoveFileSays
  <2>5. q = dst \/ (q \in DOMAIN tree /\ tree'[q] = tree[q])
    BY <2>4 DEF Keeps
  <2> QED BY <1>2, <2>1, <2>3, <2>5, PlainEnd
<1>7. CASE \E p : Delete(p, FALSE)
  BY <1>1, <1>2, <1>7, DeleteSays DEF Keeps
<1> QED BY <1>3, <1>4, <1>5, <1>6, <1>7 DEF TargetChange

LEMMA ForeignKeepsEnds ==
  ASSUME NamesAreNew, MigrateInv, FilesEndPlain, Foreign
  PROVE  FilesEndPlain'
<1>1. CASE ForeignTarget
  <2>1. HeldTree
    BY DEF MigrateInv
  <2>2. PICK p \in ForeignPaths :
          /\ \A q \in DOMAIN tree' \ DOMAIN tree : q = p \/ tree'[q].type = "directory"
          /\ \A q \in DOMAIN tree \cap DOMAIN tree' : q # p => tree'[q] = tree[q]
    BY <1>1, <2>1, ForeignTargetSays
  <2>3. p[Len(p)] # TempName /\ p[Len(p)] \notin Range(RunIds)
    BY MigrateAssumption, PlainEnd DEF NamesAreNew
  <2> QED BY <2>2, <2>3 DEF FilesEndPlain
<1>2. CASE ForeignSource
  BY <1>2 DEF ForeignSource, fsVars, FilesEndPlain
<1> QED BY <1>1, <1>2 DEF Foreign

LEMMA EndsInit ==
  ASSUME NamesAreNew, MigrateInit
  PROVE  FilesEndPlain
<1>1. \A q \in DOMAIN tree : q \in Seq(Names) \ {<<>>} /\ Plain(q)
  BY MigrateAssumption DEF MigrateInit, IsTarget, NamesAreNew
<1> QED BY <1>1, PlainEnd DEF FilesEndPlain
-----------------------------------------------------------------------------
(* What a run relies on at the entry at hand, when nobody disturbs it. *)

InCopy == job.phase \in {"parent", "tempdir", "stream", "look", "move"} /\ ~job.straight

WholeRead ==
  \/ job.phase \in {"look", "move", "verify"}
  \/ job.phase \in {"rmrun", "rmtemp"} /\ ~job.straight

ReadyInv ==
  /\ job.phase \in {"hash", "compare"} => IsFile(Entry.target) /\ job.opt.conflict = "checksum"
  /\ InCopy /\ IsFile(Entry.target) => job.existed
  /\ InCopy /\ job.existed => job.opt.conflict = "overwrite"
  /\ job.phase \in {"look", "move"} => IsFile(TempPath(Entry))
  /\ WholeRead => job.data = source[Entry.source].data

LEMMA ReadyOver ==
  ASSUME \/ job'.phase \notin {"hash", "compare", "parent", "tempdir", "stream", "look", "move",
                               "verify", "rmrun", "rmtemp"}
         \/ job'.phase \in {"stream", "rmrun", "rmtemp"} /\ job'.straight
  PROVE  ReadyInv'
BY DEF ReadyInv, InCopy, WholeRead

(* The run goes on with a file. *)
LEMMA GoOnKeeps ==
  ASSUME job \in JobRecord, NEW phase, GoOn(phase)
  PROVE  /\ job'.phase = phase /\ job'.opt = job.opt /\ job'.todo = job.todo /\ job'.at = job.at
         /\ job'.run = job.run /\ job'.existed = job.existed /\ job'.straight = job.straight
         /\ job'.data = job.data /\ Entry' = Entry
<1>1. /\ job'.phase = phase /\ job'.opt = job.opt /\ job'.todo = job.todo /\ job'.at = job.at
      /\ job'.run = job.run /\ job'.existed = job.existed /\ job'.straight = job.straight
      /\ job'.data = job.data
  BY DEF GoOn, JobRecord
<1> QED BY <1>1 DEF Entry

LEMMA LookAtFileReady ==
  ASSUME JobShape, LookAtFile, Others
  PROVE  ReadyInv'
<1>1. /\ Entry' = Entry /\ job'.phase \in {"record", "hash", "parent"} /\ tree' = tree
      /\ runs # 0 /\ job \in JobRecord
  BY LookAtFileShape, StartedHasRecord DEF LookAtFile, AtEntry, At, Queries, fsVars
<1>2. job.opt.conflict \in Conflicts
  BY <1>1, MigrateAssumption DEF JobRecord
<1>3. job'.opt = job.opt
  BY <1>1 DEF LookAtFile, Settle, GoOn, JobRecord
<1>4. CASE job'.phase = "hash"
  <2>1. IsFile(Entry.target) /\ job.opt.conflict = "checksum"
    BY <1>1, <1>4 DEF LookAtFile, Settle, GoOn, JobRecord
  <2> QED BY <1>1, <1>3, <1>4, <2>1 DEF ReadyInv, InCopy, WholeRead, IsFile
<1>5. CASE job'.phase = "parent"
  <2>1. /\ job'.existed = IsFile(Entry.target)
        /\ IsFile(Entry.target) => job.opt.conflict = "overwrite"
    BY <1>1, <1>2, <1>5 DEF LookAtFile, Settle, GoOn, JobRecord, Conflicts
  <2> QED BY <1>1, <1>3, <1>5, <2>1 DEF ReadyInv, InCopy, WholeRead, IsFile
<1>6. CASE job'.phase = "record"
  BY <1>6, ReadyOver
<1> QED BY <1>1, <1>4, <1>5, <1>6

(* Making a directory makes no file. *)
LEMMA MakedirsFiles ==
  ASSUME HeldTree, NEW p \in Seq(Names), Makedirs(p), NEW q, IsFile(q)'
  PROVE  IsFile(q)
<1>1. Keeps(DOMAIN tree) /\ \A r \in DOMAIN tree' \ DOMAIN tree : tree'[r].type = "directory"
  BY MakedirsSays
<1> QED BY <1>1 DEF Keeps, IsFile

LEMMA MakesReady ==
  ASSUME NamesAreNew, EverSource, MigrateInv, ReadyInv, MakeParent \/ MakeTempDirectory, Others,
         job'.phase \in {"tempdir", "stream"}
  PROVE  ReadyInv'
<1>1. /\ job \in JobRecord /\ HeldTree /\ job.phase \in {"parent", "tempdir"}
      /\ Parent(Entry.target) \in Seq(Names) /\ RunDirectory(Entry) \in Seq(Names)
  <2>1. /\ job \in JobRecord /\ Entry \in EntryRecord /\ Entry.target # <<>>
        /\ job.run \in DOMAIN RunIds /\ job.phase \in {"parent", "tempdir"}
    BY FilePhaseSays DEF MakeParent, MakeTempDirectory, At, FilePhases
  <2> QED BY <2>1, TempPathsSay DEF MigrateInv
<1>2. PICK p \in Seq(Names), phase \in {"tempdir", "stream"} : Makedirs(p) /\ GoOn(phase)
  <2>1. \A status : Settle(status) => job'.phase = "record"
    BY <1>1 DEF Settle, JobRecord
  <2> QED BY <1>1, <2>1 DEF MakeParent, MakeTempDirectory
<1>3. /\ Entry' = Entry /\ job'.straight = job.straight /\ job'.existed = job.existed
      /\ job'.opt = job.opt
  BY <1>1, <1>2, GoOnKeeps
<1>4. IsFile(Entry.target)' => IsFile(Entry.target)
  <2>1. PICK t : t = Entry.target
    OBVIOUS
  <2>2. IsFile(t)' => IsFile(t)
    BY <1>1, <1>2, MakedirsFiles
  <2> QED BY <1>3, <2>1, <2>2
<1>5. InCopy' => InCopy
  BY <1>1, <1>3 DEF InCopy
<1> QED BY <1>3, <1>4, <1>5 DEF ReadyInv, WholeRead
-----------------------------------------------------------------------------
LEMMA EndOfStreamReady ==
  ASSUME NamesAreNew, EverSource, MigrateInv, CopyInv, ReadyInv, Alone, EndOfStream, Others
  PROVE  ReadyInv'
<1>1. /\ job.phase = "stream" /\ job \in JobRecord /\ Entry \in EntryRecord
      /\ Entry.target \in Seq(Names) \ {<<>>} /\ TempPath(Entry) \in Seq(Names) \ {<<>>}
      /\ job.run \in DOMAIN RunIds /\ Plain(Entry.target)
  BY FilePhaseSays DEF EndOfStream, At, FilePhases
<1>2. HeldTree /\ JobShape /\ IsSource(source) /\ source' = source /\ Entry.source \notin edited
  BY DEF MigrateInv, Others, Alone
<1>3. job.data = source[Entry.source].data
  <2>1. source[Entry.source].data \in Seq(Bytes) /\ job.data \in Seq(Bytes)
    BY <1>1, <1>2, EntrySource DEF FilePhases, JobRecord
  <2>2. /\ Prefix(job.data, source[Entry.source].data)
        /\ Len(job.data) >= Len(source[Entry.source].data)
    BY <1>1, <1>2 DEF CopyInv, EndOfStream
  <2> QED BY <2>1, <2>2, WholePrefix
<1>4. CASE Settle("error")
  BY <1>1, <1>4, ReadyOver DEF Settle, JobRecord
<1>5. CASE GoOn("verify")
  <2>1. job'.phase = "verify" /\ Entry' = Entry /\ job'.data = job.data
    BY <1>1, <1>5, GoOnKeeps
  <2> QED BY <1>2, <1>3, <2>1 DEF ReadyInv, InCopy
<1>6. CASE GoOn("look") /\ ~job.straight /\ Store(TempPath(Entry), job.data)
  <2>1. /\ job'.phase = "look" /\ Entry' = Entry /\ job'.data = job.data /\ job'.run = job.run
        /\ job'.straight = job.straight /\ job'.existed = job.existed /\ job'.opt = job.opt
    BY <1>1, <1>6, GoOnKeeps
  <2>2. TempPath(Entry)' = TempPath(Entry)
    BY <2>1, RunPathsStay
  <2> PICK t : t = Entry.target
    OBVIOUS
  <2>3. PICK temp \in Seq(Names) \ {<<>>}, data \in Seq(Bytes) :
          temp = TempPath(Entry) /\ Store(temp, data)
    <3>1. job.data \in Seq(Bytes)
      BY <1>1 DEF JobRecord
    <3> QED BY <1>1, <1>6, <3>1
  <2>4. t # temp
    <3>1. TempPath(Entry) # Entry.target
      BY <1>1, TempPathsLay
    <3> QED BY <2>3, <3>1
  <2>5. /\ DOMAIN tree' = DOMAIN tree \cup {temp} /\ Keeps(DOMAIN tree \ {temp})
        /\ tree'[temp].type = "file"
    BY <1>2, <2>3, StoreSays
  <2>6. IsFile(temp)' /\ (IsFile(t)' => IsFile(t))
    BY <2>4, <2>5 DEF IsFile, Keeps
  <2>7. InCopy /\ (InCopy' => job'.straight = job.straight)
    BY <1>1, <1>6, <2>1 DEF InCopy
  <2> QED BY <1>2, <1>3, <2>1, <2>2, <2>3, <2>6, <2>7 DEF ReadyInv, WholeRead
<1> QED BY <1>4, <1>5, <1>6 DEF EndOfStream, CloseDestination, CloseAfter, Destination

LEMMA RunKeepsReady ==
  ASSUME NamesAreNew, EverSource, MigrateInv, CopyInv, ReadyInv, Alone,
         Step \/ ReadFails \/ Kill, Others
  PROVE  ReadyInv'
<1>1. JobShape /\ IsSource(source) /\ source' = source
  BY DEF MigrateInv, Others
<1>2. runs # 0 /\ job \in JobRecord
  BY <1>1, StepStarted
<1>3. CASE SkipCompleted \/ Record
  BY <1>1, <1>3, SkipCompletedShape, RecordShape, ReadyOver DEF Turning
<1>4. CASE LookAtDirectory \/ MakeDirectory \/ CompareWithTarget
  BY <1>1, <1>4, LookAtDirectoryShape, MakeDirectoryShape, CompareShape, ReadyOver
<1>5. CASE Finish \/ Kill \/ ReadFails \/ CloseRaises \/ ProcessUnsaved
  BY <1>1, <1>5, FinishShape, ReadFailsShape, CloseRaisesShape, ProcessUnsavedShape, ReadyOver
<1>6. CASE LookAtFile
  BY <1>1, <1>6, LookAtFileReady
<1>7. CASE HashSource
  <2>1. /\ Entry' = Entry /\ job'.phase \in {"record", "compare"} /\ tree' = tree
        /\ job.phase = "hash"
    BY <1>1, <1>7, HashSourceShape DEF HashSource, At, Queries, fsVars
  <2>2. job'.phase = "compare" => job'.opt = job.opt
    BY <1>2, <1>7 DEF HashSource, Settle, JobRecord
  <2> QED BY <2>1, <2>2 DEF ReadyInv, InCopy, WholeRead, IsFile
<1>8. CASE MakeParent \/ MakeTempDirectory
  <2>1. job'.phase \in {"record", "tempdir", "stream"}
    BY <1>2, <1>8 DEF MakeParent, MakeTempDirectory, Settle, GoOn, JobRecord
  <2> QED BY <1>8, <2>1, MakesReady, ReadyOver
<1>9. CASE StreamChunk
  <2>1. /\ Entry' = Entry /\ job'.phase = "stream" /\ job.phase = "stream" /\ tree' = tree
    BY <1>1, <1>9, StreamChunkShape DEF StreamChunk, At, Queries, fsVars
  <2>2. /\ job'.straight = job.straight /\ job'.existed = job.existed /\ job'.opt = job.opt
    BY <1>2, <1>9 DEF StreamChunk, JobRecord
  <2> QED BY <2>1, <2>2 DEF ReadyInv, InCopy, WholeRead, IsFile
<1>10. CASE SourceGone \/ WriteRaises \/ VerifyTarget
  <2>1. job'.phase = "record"
    BY <1>2, <1>10 DEF SourceGone, WriteRaises, VerifyTarget, Settle, JobRecord
  <2> QED BY <2>1, ReadyOver
<1>11. CASE EndOfStream
  BY <1>11, EndOfStreamReady
<1>12. CASE LookBeforeMove
  <2>1. /\ Entry' = Entry /\ job'.phase = "move" /\ job.phase = "look" /\ tree' = tree
    BY <1>1, <1>12, LookBeforeMoveShape DEF LookBeforeMove, At, Queries, fsVars
  <2>2. /\ job'.straight = job.straight /\ job'.existed = job.existed /\ job'.opt = job.opt
        /\ job'.run = job.run /\ job'.data = job.data
    BY <1>2, <1>12 DEF LookBeforeMove, JobRecord
  <2>3. TempPath(Entry)' = TempPath(Entry)
    BY <2>1, <2>2, RunPathsStay
  <2> QED BY <1>1, <2>1, <2>2, <2>3 DEF ReadyInv, InCopy, WholeRead, IsFile
<1>13. CASE MoveTemp
  <2>1. CASE Settle("error")
    BY <1>2, <2>1, ReadyOver DEF Settle, JobRecord
  <2>2. CASE GoOn("rmrun")
    <3>1. job'.phase = "rmrun" /\ Entry' = Entry /\ job'.data = job.data /\ job.phase = "move"
      BY <1>2, <1>13, <2>2, GoOnKeeps DEF MoveTemp, At
    <3> QED BY <1>1, <3>1 DEF ReadyInv, InCopy, WholeRead
  <2> QED BY <1>13, <2>1, <2>2 DEF MoveTemp
<1>14. CASE MoveUnsupported
  <2>1. job'.phase = "rmrun" /\ job'.straight
    BY <1>2, <1>14 DEF MoveUnsupported, JobRecord
  <2> QED BY <2>1, ReadyOver
<1>15. CASE RemoveRunDirectory \/ RemoveTempDirectory
  <2>1. PICK phase : GoOn(phase) /\ (phase = "stream" => job.straight)
                     /\ phase \in {"rmtemp", "stream", "verify"}
                     /\ job.phase \in {"rmrun", "rmtemp"} /\ (phase = "verify" => ~job.straight)
    BY <1>15 DEF RemoveRunDirectory, RemoveTempDirectory, At
  <2>2. /\ job'.phase = phase /\ Entry' = Entry /\ job'.data = job.data
        /\ job'.straight = job.straight
    BY <1>2, <2>1, GoOnKeeps
  <2>3. CASE job.straight
    BY <2>1, <2>2, <2>3, ReadyOver
  <2>4. CASE ~job.straight
    BY <1>1, <2>1, <2>2, <2>4 DEF ReadyInv, InCopy, WholeRead
  <2> QED BY <2>3, <2>4
<1> QED
  BY <1>3, <1>4, <1>5, <1>6, <1>7, <1>8, <1>9, <1>10, <1>11, <1>12, <1>13, <1>14, <1>15 DEF Step
-----------------------------------------------------------------------------
(* An entry that fails has something in its way. *)

LEMMA EntrySelected ==
  ASSUME JobShape, runs # 0, job.at <= Len(job.todo)
  PROVE  Entry \in Selected
<1>1. job.at \in DOMAIN job.todo
  BY EntrySays
<1> QED BY <1>1 DEF Selected, Range, Entry

LEMMA EntryClashes ==
  ASSUME JobShape, runs # 0, job.at <= Len(job.todo),
         \/ Entry.type = "file" /\ IsDirectory(Entry.target)
         \/ Entry.type # "file" /\ IsFile(Entry.target)
         \/ ~Reachable(Entry.target)
  PROVE  Reason
BY EntrySelected DEF Reason, Clash

(* What is above the temporary paths of an entry. *)
LEMMA AboveTemps ==
  ASSUME NamesAreNew, NEW e \in EntryRecord, e.target # <<>>, Plain(e.target),
         job.run \in DOMAIN RunIds, NEW q \in Seq(Names) \ {<<>>}, Below(q, TempPath(e))
  PROVE  q \in {TempDirectory(e), RunDirectory(e)} \cup Ancestors(e.target)
<1>1. e.target \in Seq(Names) /\ TempName \in Names
  BY MigrateAssumption DEF EntryRecord
<1>2. /\ Parent(e.target) \in Seq(Names) /\ Below(Parent(e.target), e.target)
      /\ q \in {TempDirectory(e), RunDirectory(e)} \/ Below(q, TempDirectory(e))
      /\ TempName \notin Range(q) => Below(q, e.target)
  BY TempPathsLay
<1>3. CASE q \in {TempDirectory(e), RunDirectory(e)}
  BY <1>3
<1>4. CASE Below(q, TempDirectory(e))
  <2>1. TempDirectory(e) = Append(Parent(e.target), TempName)
    BY <1>1, <1>2 DEF TempDirectory
  <2>2. q = Parent(e.target) \/ Below(q, Parent(e.target))
    BY <1>1, <1>2, <1>4, <2>1, AboveAppend
  <2>3. Range(q) \subseteq Range(Parent(e.target))
    BY <1>2, <2>2, AboveRange
  <2>4. TempName \notin Range(Parent(e.target))
    BY <1>1, <1>2, PlainParts DEF Plain
  <2>5. Below(q, e.target)
    BY <1>2, <2>3, <2>4
  <2> QED BY <1>1, <2>5, AboveSays
<1> QED BY <1>2, <1>3, <1>4

LEMMA TempsNoFiles ==
  ASSUME FilesEndPlain, NEW e \in EntryRecord, e.target # <<>>, job.run \in DOMAIN RunIds
  PROVE  ~IsFile(TempDirectory(e)) /\ ~IsFile(RunDirectory(e))
<1>1. Parent(e.target) \in Seq(Names) /\ TempDirectory(e) \in Seq(Names) /\ TempName \in Names
  BY TempPathsSay, MigrateAssumption
<1>2. RunIds[job.run] \in Names /\ RunIds[job.run] \in Range(RunIds)
  BY MigrateAssumption, ElementOfSeq DEF Range
<1> DEFINE outer == TempDirectory(e)
           inner == RunDirectory(e)
<1>3. outer[Len(outer)] = TempName
  BY <1>1 DEF TempDirectory
<1>4. inner[Len(inner)] = RunIds[job.run]
  BY <1>1, <1>2 DEF RunDirectory
<1> QED BY <1>2, <1>3, <1>4 DEF FilesEndPlain, IsFile

LEMMA TempsReachable ==
  ASSUME NamesAreNew, FilesEndPlain, NEW e \in EntryRecord, e.target # <<>>, Plain(e.target),
         job.run \in DOMAIN RunIds, Reachable(e.target)
  PROVE  Reachable(TempPath(e)) /\ Reachable(RunDirectory(e))
<1>1. /\ TempPath(e) \in Seq(Names) /\ RunDirectory(e) \in Seq(Names)
      /\ Below(RunDirectory(e), TempPath(e))
  BY TempPathsSay, TempPathsLay
<1>2. ASSUME NEW q, q \in Ancestors(TempPath(e)) \/ q \in Ancestors(RunDirectory(e))
      PROVE  ~IsFile(q)
  <2>1. /\ q \in Seq(Names) \ {<<>>}
        /\ Below(q, TempPath(e)) \/ Below(q, RunDirectory(e))
    BY <1>1, <1>2, AncestorSays
  <2>2. Below(q, TempPath(e))
    BY <1>1, <2>1, BelowSays
  <2>3. q \in {TempDirectory(e), RunDirectory(e)} \cup Ancestors(e.target)
    BY <2>1, <2>2, AboveTemps
  <2> QED BY <2>3, TempsNoFiles DEF Reachable
<1> QED BY <1>2 DEF Reachable

LEMMA ParentReachable ==
  ASSUME NEW t \in Seq(Names) \ {<<>>}, Reachable(t)
  PROVE  Reachable(Parent(t))
<1>1. Parent(t) \in Seq(Names) /\ Below(Parent(t), t)
  <2>1. Len(t) - 1 \in 0..Len(t) /\ Len(t) - 1 # Len(t)
    OBVIOUS
  <2> QED BY <2>1, UptoSays DEF Parent
<1>2. ASSUME NEW q \in Ancestors(Parent(t))
      PROVE  q \in Ancestors(t)
  <2>1. q \in Seq(Names) \ {<<>>} /\ Below(q, Parent(t))
    BY <1>1, AncestorSays
  <2>2. Below(q, t)
    BY <1>1, <2>1, BelowSays
  <2> QED BY <2>1, <2>2, AboveSays
<1> QED BY <1>2 DEF Reachable
-----------------------------------------------------------------------------
(* What the steps of a run find. *)
RetryInv == RunsInv /\ PlacesInv /\ FilesEndPlain /\ ReadyInv

RetryPolicy == job.opt.conflict \in {"overwrite", "checksum"}

Fails == job'.phase \in {"record", "unsaved"} /\ job'.status \in Attention

LEMMA RetrySays ==
  ASSUME NamesAreNew, RetryInv, job.phase \in FilePhases
  PROVE  /\ EverSource /\ MigrateInv /\ CopyInv /\ LooksInv /\ ArrivalInv /\ TempsInv
         /\ JobShape /\ HeldTree /\ IsSource(source)
         /\ runs # 0 /\ job.at <= Len(job.todo) /\ job \in JobRecord /\ job.run \in DOMAIN RunIds
         /\ Entry \in EntryRecord /\ Placed(Entry) /\ Entry.type = "file"
         /\ Entry.target \in Seq(Names) \ {<<>>} /\ Plain(Entry.target)
<1>1. EverSource /\ MigrateInv /\ JobShape
  BY DEF RetryInv, RunsInv, MigrateInv
<1> QED BY <1>1, FilePhaseSays, FileEntrySays DEF RetryInv, RunsInv, MigrateInv

LEMMA SourceStays ==
  ASSUME NamesAreNew, RetryInv, Alone, job.phase \in FilePhases
  PROVE  HasSource /\ Unedited(Entry.source)
<1>1. JobShape /\ IsSource(source) /\ Entry.source \notin edited
  BY RetrySays DEF Alone
<1>2. Unedited(Entry.source)
  BY <1>1, EntrySource
<1> QED BY <1>2 DEF HasSource, Unedited

LEMMA DirectoryFails ==
  ASSUME JobShape, LookAtDirectory \/ MakeDirectory, Others, Fails
  PROVE  Reason
<1>1. runs # 0 /\ job \in JobRecord /\ job.at <= Len(job.todo) /\ Entry.type = "directory"
  BY StartedHasRecord DEF LookAtDirectory, MakeDirectory, AtEntry, At, JobShape, Turning
<1>2. CASE LookAtDirectory
  <2>1. IsFile(Entry.target)
    BY <1>1, <1>2 DEF LookAtDirectory, Settle, GoOn, Fails, Attention, JobRecord
  <2> QED BY <1>1, <2>1, EntryClashes
<1>3. CASE MakeDirectory
  <2>1. ~CanMakedirs(Entry.target)
    BY <1>1, <1>3 DEF MakeDirectory, Settle, GoOn, Fails, Attention, JobRecord
  <2> QED BY <1>1, <2>1, EntryClashes DEF CanMakedirs
<1> QED BY <1>2, <1>3

LEMMA LookAtFileFails ==
  ASSUME JobShape, RetryPolicy, LookAtFile, Fails
  PROVE  Reason
<1>1. runs # 0 /\ job \in JobRecord /\ job.at <= Len(job.todo) /\ Entry.type = "file"
  BY StartedHasRecord DEF LookAtFile, AtEntry, At, JobShape
<1>2. IsDirectory(Entry.target)
  BY <1>1 DEF LookAtFile, Settle, GoOn, Fails, Attention, JobRecord, RetryPolicy
<1> QED BY <1>1, <1>2, EntryClashes

LEMMA CompareFails ==
  ASSUME NamesAreNew, RetryInv, Alone, CompareWithTarget, Fails
  PROVE  Reason
<1>1. /\ job.phase = "compare" /\ job \in JobRecord /\ JobShape /\ LooksInv /\ runs # 0
      /\ job.at <= Len(job.todo) /\ Placed(Entry)
  BY RetrySays DEF CompareWithTarget, At, FilePhases
<1>2. IsFile(Entry.target) /\ job.opt.conflict = "checksum"
  BY <1>1 DEF RetryInv, ReadyInv
<1>3. job.data = source[Entry.source].data
  BY <1>1 DEF LooksInv, Alone
<1>4. tree[Entry.target].data # source[Entry.source].data
  <2>1. Present(Entry.target)
    BY <1>2 DEF IsFile, Present, TreeAt
  <2>2. ReadsAs(Entry.target, job.data) => ~Fails
    BY <1>1, <2>1 DEF CompareWithTarget, Settle, Fails, Attention, JobRecord
  <2> QED BY <1>2, <1>3, <2>2 DEF ReadsAs
<1>5. Unedited(Entry.source)
  BY <1>1, SourceStays DEF FilePhases
<1>6. tree[Entry.target].id \notin mine \/ Entry.target \in direct
  BY <1>1, <1>2, <1>4, <1>5 DEF RetryInv, PlacesInv, Placed, Alone, Unedited
<1> QED BY <1>1, <1>2, <1>6, EntrySelected DEF Reason, OthersAtTargets

LEMMA MakesFail ==
  ASSUME NamesAreNew, RetryInv, MakeParent \/ MakeTempDirectory, Fails
  PROVE  Reason
<1>1. /\ job.phase \in {"parent", "tempdir"} /\ job \in JobRecord /\ JobShape /\ runs # 0
      /\ job.at <= Len(job.todo) /\ Entry \in EntryRecord /\ job.run \in DOMAIN RunIds
      /\ Entry.target \in Seq(Names) \ {<<>>} /\ Plain(Entry.target) /\ FilesEndPlain
  BY RetrySays DEF MakeParent, MakeTempDirectory, At, FilePhases, RetryInv
<1>2. ~Reachable(Parent(Entry.target)) \/ ~Reachable(RunDirectory(Entry))
  <2>1. \A phase : GoOn(phase) => job'.phase = phase
    BY <1>1 DEF GoOn, JobRecord
  <2> QED BY <2>1 DEF MakeParent, MakeTempDirectory, CanMakedirs, Fails
<1>3. ~Reachable(Entry.target)
  <2>1. CASE ~Reachable(Parent(Entry.target))
    BY <1>1, <2>1, ParentReachable
  <2>2. CASE ~Reachable(RunDirectory(Entry))
    BY <1>1, <2>2, TempsReachable
  <2> QED BY <1>2, <2>1, <2>2
<1> QED BY <1>1, <1>3, EntryClashes

LEMMA EndOfStreamFails ==
  ASSUME NamesAreNew, RetryInv, ~Trouble, EndOfStream, Fails
  PROVE  Reason
<1>1. /\ job.phase = "stream" /\ job \in JobRecord /\ JobShape /\ runs # 0
      /\ job.at <= Len(job.todo) /\ Entry \in EntryRecord /\ job.run \in DOMAIN RunIds
      /\ Entry.target \in Seq(Names) \ {<<>>} /\ Plain(Entry.target) /\ FilesEndPlain
      /\ Entry.type = "file" /\ TempsInv /\ HeldTree
  BY RetrySays DEF EndOfStream, At, FilePhases, RetryInv
<1>2. ~CanWrite(Destination)
  <2>1. \A phase : GoOn(phase) => job'.phase = phase
    BY <1>1 DEF GoOn, JobRecord
  <2> QED BY <2>1 DEF EndOfStream, Fails
<1>3. CASE job.straight
  BY <1>1, <1>2, <1>3, EntryClashes DEF Destination, CanWrite
<1>4. CASE ~job.straight
  <2>1. ~Reachable(TempPath(Entry)) \/ IsDirectory(TempPath(Entry))
    BY <1>2, <1>4 DEF Destination, CanWrite
  <2>2. CASE ~Reachable(TempPath(Entry))
    <3>1. ~Reachable(Entry.target)
      BY <1>1, <2>2, TempsReachable
    <3> QED BY <1>1, <3>1, EntryClashes
  <2>3. CASE IsDirectory(TempPath(Entry))
    <3>1. PICK q \in DOMAIN tree : q = TempPath(Entry) \/ Below(TempPath(Entry), q)
      BY <2>3 DEF IsDirectory, Present, TreeAt
    <3>2. /\ TempPath(Entry) \in Seq(Names) /\ RunDirectory(Entry) \in Seq(Names)
          /\ q \in Seq(Names) /\ RunIds[job.run] \in Range(TempPath(Entry))
      BY <1>1, TempPathsSay DEF HeldTree, SoundTree
    <3>3. RunIds[job.run] \in Range(q)
      BY <3>1, <3>2, AboveRange
    <3>4. q = RunDirectory(Entry)
      BY <1>1, <3>3 DEF TempsInv, Leftover
    <3>5. Below(RunDirectory(Entry), TempPath(Entry))
      BY <1>1, TempPathsLay
    <3>6. FALSE
      BY <3>1, <3>2, <3>4, <3>5, BelowSays
    <3> QED BY <3>6
  <2> QED BY <2>1, <2>2, <2>3
<1> QED BY <1>3, <1>4
-----------------------------------------------------------------------------
LEMMA MoveFails ==
  ASSUME NamesAreNew, RetryInv, Alone, MoveTemp, Fails
  PROVE  Reason
<1>1. /\ job.phase = "move" /\ job \in JobRecord /\ JobShape /\ runs # 0 /\ LooksInv /\ CopyInv
      /\ job.at <= Len(job.todo) /\ Entry \in EntryRecord /\ job.run \in DOMAIN RunIds
      /\ Entry.target \in Seq(Names) \ {<<>>} /\ Plain(Entry.target)
      /\ Entry.type = "file"
  BY RetrySays DEF MoveTemp, At, FilePhases
<1>2. ~CanMove(TempPath(Entry), job.to, MayReplace)
  <2>1. \A phase : GoOn(phase) => job'.phase = phase
    BY <1>1 DEF GoOn, JobRecord
  <2> QED BY <2>1 DEF MoveTemp, Fails
<1>3. job.to = Entry.target
  BY <1>1 DEF LooksInv, Alone, Calm, TouchedAbove, TouchedBelow
<1>4. TempPath(Entry) # Entry.target /\ ~Below(TempPath(Entry), Entry.target)
  <2>1. TempPath(Entry) \in Seq(Names) /\ TempName \in Range(TempPath(Entry))
    BY <1>1, TempPathsSay
  <2> QED BY <1>1, <2>1, AboveRange DEF Plain
<1>5. IsFile(TempPath(Entry)) /\ (IsFile(Entry.target) => MayReplace)
  BY <1>1 DEF RetryInv, ReadyInv, InCopy, CopyInv, MayReplace
<1>6. Present(TempPath(Entry))
  BY <1>5 DEF IsFile, Present, TreeAt
<1>7. ~Reachable(Entry.target) \/ IsDirectory(Entry.target)
  BY <1>2, <1>3, <1>4, <1>5, <1>6 DEF CanMove, IsDirectory
<1> QED BY <1>1, <1>7, EntryClashes

LEMMA VerifySucceeds ==
  ASSUME NamesAreNew, RetryInv, Alone, VerifyTarget
  PROVE  ~Fails
<1>1. job.phase = "verify" /\ job \in JobRecord /\ ArrivalInv
  BY RetrySays DEF VerifyTarget, At, FilePhases
<1>2. Unedited(Entry.source)
  BY <1>1, SourceStays DEF FilePhases
<1>3. Arrived(Key(Entry))
  BY <1>1 DEF ArrivalInv, Pending, InPlace
<1>4. FileThere(Entry.source, Entry.target)
  BY <1>2, <1>3 DEF Arrived, Unedited, Key
<1>5. IsFile(Entry.target) /\ tree[Entry.target].data = source[Entry.source].data
  BY <1>4 DEF FileThere, Alone, Calm, TouchedAbove, TouchedBelow
<1>6. job.data = source[Entry.source].data
  BY <1>1 DEF RetryInv, ReadyInv, WholeRead
<1>7. Verified(Entry.target, job.data)
  BY <1>5, <1>6 DEF Verified, ReadsAs
<1> QED BY <1>1, <1>7 DEF VerifyTarget, Settle, JobRecord, Fails, Attention

(* A source that the target refuses is larger than a file may be. *)
LEMMA RaisesForAReason ==
  ASSUME NamesAreNew, RetryInv, Alone, WriteRaises \/ CloseRaises
  PROVE  Reason
<1>1. /\ job.phase = "stream" /\ job \in JobRecord /\ JobShape /\ runs # 0 /\ CopyInv
      /\ job.at <= Len(job.todo) /\ Entry.type = "file" /\ IsSource(source)
  BY RetrySays DEF WriteRaises, CloseRaises, At, FilePhases
<1>2. Unedited(Entry.source)
  BY <1>1, SourceStays DEF FilePhases
<1>3. Prefix(job.data, source[Entry.source].data)
  BY <1>1, <1>2 DEF CopyInv, Unedited
<1>4. /\ Len(job.data) > MaxFileSize /\ MaxFileSize \in Nat /\ job.data \in Seq(Bytes)
      /\ source[Entry.source].data \in Seq(Bytes)
  BY <1>1, <1>2, MigrateAssumption DEF WriteRaises, CloseRaises, TooLarge, JobRecord, IsSource, Unedited
<1>5. Len(source[Entry.source].data) > MaxFileSize
  BY <1>3, <1>4 DEF Prefix
<1> QED BY <1>1, <1>2, <1>5, EntrySelected DEF Oversized, Reason, Unedited

LEMMA FailsForAReason ==
  ASSUME NamesAreNew, RetryInv, Alone, RetryPolicy, ~Trouble, Step, Others, Fails
  PROVE  Reason
<1>1. JobShape /\ PlanInv /\ runs # 0 /\ job \in JobRecord
  BY StepStarted DEF RetryInv, RunsInv, MigrateInv
<1>2. \A phase : GoOn(phase) => job'.phase = phase
  BY <1>1 DEF GoOn, JobRecord
<1>3. CASE LookAtDirectory \/ MakeDirectory
  BY <1>1, <1>3, DirectoryFails
<1>4. CASE LookAtFile
  BY <1>1, <1>4, LookAtFileFails
<1>5. CASE HashSource
  <2>1. HasSource
    BY <1>5, SourceStays DEF HashSource, At, FilePhases
  <2> QED BY <1>1, <1>5, <2>1 DEF HashSource, Fails, JobRecord
<1>6. CASE CompareWithTarget
  BY <1>6, CompareFails
<1>7. CASE MakeParent \/ MakeTempDirectory
  BY <1>7, MakesFail
<1>8. CASE SourceGone
  BY <1>8, SourceStays DEF SourceGone, At, FilePhases
<1>9. CASE EndOfStream
  BY <1>9, EndOfStreamFails
<1>10. CASE MoveTemp
  BY <1>10, MoveFails
<1>11. CASE VerifyTarget
  BY <1>11, VerifySucceeds
<1>12. CASE SkipCompleted \/ Record
  BY <1>1, <1>12, SkipCompletedShape, RecordShape DEF Fails, Turning
<1>13. CASE Finish
  BY <1>1, <1>13, FinishShape DEF Fails
<1>14. CASE StreamChunk \/ LookBeforeMove \/ MoveUnsupported
  BY <1>1, <1>14 DEF StreamChunk, At, LookBeforeMove, MoveUnsupported, Fails, JobRecord
<1>15. CASE RemoveRunDirectory \/ RemoveTempDirectory
  BY <1>2, <1>15 DEF RemoveRunDirectory, RemoveTempDirectory, Fails
<1>16. CASE WriteRaises \/ CloseRaises
  BY <1>16, RaisesForAReason
<1>17. CASE ProcessUnsaved
  BY <1>1, <1>17 DEF ProcessUnsaved, At, PlanInv, Trouble
<1> QED
  BY <1>3, <1>4, <1>5, <1>6, <1>7, <1>8, <1>9, <1>10, <1>11, <1>12, <1>13, <1>14, <1>15,
     <1>16, <1>17
     DEF Step
-----------------------------------------------------------------------------
(* A run that ends with something to look at has a reason. *)
BadEnd ==
  \/ job.attention
  \/ job.phase \in {"record", "unsaved"} /\ job.status \in Attention
  \/ job.exit \in {"attention", "failure"}

ReasonsInv == Alone /\ runs # 0 /\ ~job.hit /\ RetryPolicy /\ BadEnd => Reason

(* The options and entries of a run are those it was started with. *)
LEMMA RunKeepsOptions ==
  ASSUME JobShape, Step \/ ReadFails \/ Kill
  PROVE  /\ runs' = runs /\ job'.todo = job.todo /\ job'.opt = job.opt
         /\ job.hit => job'.hit
<1>1. job \in JobRecord
  BY StepStarted
<1>2. \A phase, status, code :
        GoOn(phase) \/ Settle(status) \/ job' = Exit(code) =>
          job'.todo = job.todo /\ job'.opt = job.opt /\ job'.hit = job.hit
  BY <1>1 DEF GoOn, Settle, Exit, JobRecord
<1>3. CASE SkipCompleted \/ LookAtFile \/ StreamChunk \/ LookBeforeMove \/ MoveUnsupported \/ Record
  BY <1>1, <1>2, <1>3
     DEF SkipCompleted, LookAtFile, StreamChunk, LookBeforeMove, MoveUnsupported, Record, Queries,
         Changes, JobRecord
<1>4. CASE LookAtDirectory \/ MakeDirectory \/ CompareWithTarget \/ VerifyTarget \/ Finish \/ Kill
  BY <1>2, <1>4
     DEF LookAtDirectory, MakeDirectory, CompareWithTarget, VerifyTarget, Finish, Kill, Queries,
         Changes
<1>5. CASE MakeParent \/ MakeTempDirectory \/ MoveTemp \/ RemoveRunDirectory \/ RemoveTempDirectory
  BY <1>2, <1>5
     DEF MakeParent, MakeTempDirectory, MoveTemp, RemoveRunDirectory, RemoveTempDirectory, Changes
<1>6. CASE SourceGone \/ WriteRaises \/ EndOfStream
  BY <1>2, <1>6 DEF SourceGone, WriteRaises, EndOfStream, CloseDestination, CloseAfter, Queries
<1>7. CASE HashSource \/ ReadFails
  BY <1>1, <1>2, <1>7 DEF HashSource, ReadFails, LoseWriter, CloseDestination, CloseAfter, Queries, JobRecord
<1>8. CASE CloseRaises \/ ProcessUnsaved
  BY <1>1, <1>8 DEF CloseRaises, LoseWriter, ProcessUnsaved, Queries, JobRecord
<1> QED BY <1>3, <1>4, <1>5, <1>6, <1>7, <1>8 DEF Step

LEMMA BadEndsSay ==
  ASSUME JobShape, PlanInv, RetryPolicy, Step \/ ReadFails \/ Kill, BadEnd'
  PROVE  BadEnd \/ Fails
<1>1. job.phase # "over" /\ runs # 0 /\ job \in JobRecord /\ job.exit = "none"
  BY StepStarted DEF PlanInv
<1>2. CASE \/ LookAtDirectory \/ MakeDirectory \/ LookAtFile \/ HashSource \/ CompareWithTarget
           \/ FileStep \/ StreamChunk \/ LookBeforeMove \/ MoveUnsupported \/ ReadFails
           \/ CloseRaises \/ ProcessUnsaved
  <2>1. WithinEntry
    BY <1>2, WithinSays
  <2> QED BY <2>1 DEF WithinEntry, BadEnd, Fails
<1>3. CASE Record
  <2>1. CASE job' = Exit("attention") /\ job.status = "conflict"
    BY <1>3, <2>1 DEF Record, At, BadEnd, Attention
  <2>2. CASE job' = Exit("failure") /\ job.status = "error"
    BY <1>3, <2>2 DEF Record, At, BadEnd, Attention
  <2>3. CASE job' = [job EXCEPT !.phase = IF Unsaved THEN "onward" ELSE "entry", !.at = @ + 1,
                                !.attention = @ \/ job.status \in Attention]
    <3>1. /\ job'.phase \in {"entry", "onward"} /\ job'.exit = "none"
          /\ job'.attention = (job.attention \/ job.status \in Attention)
      BY <1>1, <2>3 DEF JobRecord
    <3> QED BY <1>3, <3>1 DEF Record, At, BadEnd
  <2> QED BY <1>3, <2>1, <2>2, <2>3 DEF Record
<1>4. CASE SkipCompleted
  <2>1. job'.attention = job.attention /\ job'.exit = "none" /\ job'.phase \in {"entry", "onward"}
    BY <1>1, <1>4 DEF SkipCompleted, Between, JobRecord
  <2> QED BY <2>1 DEF BadEnd
<1>5. CASE Finish
  <2>1. job'.attention = job.attention /\ job'.phase = "over" /\ (job'.exit = "ok" \/ job.attention)
    BY <1>1, <1>5 DEF Finish, Exit, JobRecord
  <2> QED BY <2>1 DEF BadEnd
<1>6. CASE Kill
  <2>1. job'.attention = job.attention /\ job'.phase = "over" /\ job'.exit = "killed"
    BY <1>1, <1>6 DEF Kill, Exit, JobRecord
  <2> QED BY <2>1 DEF BadEnd
<1> QED BY <1>2, <1>3, <1>4, <1>5, <1>6 DEF Step, FileStep

LEMMA RunKeepsReasons ==
  ASSUME NamesAreNew, RunsInv, PlacesInv, FilesEndPlain, Alone => ReadyInv, ReasonsInv,
         Step \/ ReadFails \/ Kill, Others, Creates
  PROVE  ReasonsInv'
<1> SUFFICES ASSUME Alone', ~job'.hit, RetryPolicy', BadEnd'
             PROVE  Reason'
  BY DEF ReasonsInv
<1>1. /\ JobShape /\ PlanInv /\ runs # 0 /\ job \in JobRecord /\ job.phase # "over"
      /\ job.exit = "none"
  BY StepStarted DEF RunsInv, MigrateInv, PlanInv
<1>2. /\ runs' = runs /\ job'.todo = job.todo /\ job'.opt = job.opt /\ ~job.hit
      /\ RetryPolicy /\ Alone
  BY <1>1, RunKeepsOptions DEF RetryPolicy, Alone, Others
<1>3. RetryInv
  BY <1>2 DEF RetryInv
<1>4. Reason
  <2>1. CASE BadEnd
    BY <1>1, <1>2, <2>1 DEF ReasonsInv
  <2>2. CASE ~BadEnd /\ Fails
    <3>1. ~Trouble
      BY <1>1, <2>2 DEF Trouble, BadEnd
    <3>2. CASE Step
      BY <1>2, <1>3, <2>2, <3>1, <3>2, FailsForAReason
    <3>3. CASE ReadFails
      BY <1>1, <3>3 DEF ReadFails, LoseWriter, JobRecord
    <3>4. CASE Kill
      BY <1>1, <2>2, <3>4 DEF Kill, Exit, JobRecord, Fails
    <3> QED BY <3>2, <3>3, <3>4
  <2> QED BY <1>1, <1>2, <2>1, <2>2, BadEndsSay
<1>5. TargetChange /\ direct \subseteq direct'
  BY <1>1, TargetChanges, DirectGrows
<1> QED BY <1>1, <1>2, <1>4, <1>5, ReasonStays DEF Others
-----------------------------------------------------------------------------
(* The inductive invariant of the runs that nobody disturbs. *)
ReadyWhenAlone == Alone => ReadyInv

RetriesInv ==
  /\ RunsInv /\ SourceKept /\ PlacesInv
  /\ FilesEndPlain /\ ReadyWhenAlone /\ ReasonsInv

LEMMA RetriesInvInit ==
  ASSUME NamesAreNew, MigrateInit
  PROVE  RetriesInv
<1>1. SourceKept /\ PlacesInv /\ ReadyWhenAlone /\ ReasonsInv
  BY DEF MigrateInit, NotStarted, SourceKept, PlacesInv, ReadyWhenAlone, ReadyInv, InCopy, WholeRead,
         ReasonsInv
<1> QED BY <1>1, RunsInvInit, EndsInit DEF RetriesInv

LEMMA RunKeepsRetries ==
  ASSUME NamesAreNew, RetriesInv, RunStep \/ Fault
  PROVE  FilesEndPlain' /\ ReadyWhenAlone' /\ ReasonsInv'
<1>1. /\ RunsInv /\ PlacesInv /\ FilesEndPlain /\ (Alone => ReadyInv) /\ ReasonsInv
      /\ EverSource /\ MigrateInv /\ CopyInv /\ JobShape
  BY DEF RetriesInv, RunsInv, MigrateInv, ReadyWhenAlone
<1>2. (Step \/ ReadFails \/ Kill) /\ Others /\ Creates
  BY DEF RunStep, Fault
<1>3. FilesEndPlain'
  BY <1>1, <1>2, TargetChanges, RunKeepsEnds
<1>4. ReadyWhenAlone'
  <2>1. Alone' => Alone
    BY <1>2 DEF Alone, Others
  <2>2. Alone => ReadyInv'
    BY <1>1, <1>2, RunKeepsReady
  <2> QED BY <2>1, <2>2 DEF ReadyWhenAlone
<1>5. ReasonsInv'
  BY <1>1, <1>2, RunKeepsReasons
<1> QED BY <1>3, <1>4, <1>5

LEMMA RerunKeepsRetries ==
  ASSUME NamesAreNew, RetriesInv, Rerun
  PROVE  FilesEndPlain' /\ ReadyWhenAlone' /\ ReasonsInv'
<1>1. /\ job'.phase = "entry" /\ ~job'.attention /\ job'.exit = "none" /\ tree' = tree
  BY DEF Rerun, Start, fsVars
<1>2. FilesEndPlain'
  BY <1>1 DEF RetriesInv, FilesEndPlain
<1>3. ReadyWhenAlone'
  BY <1>1, ReadyOver DEF ReadyWhenAlone
<1> QED BY <1>1, <1>2, <1>3 DEF ReasonsInv, BadEnd

LEMMA ForeignKeepsRetries ==
  ASSUME NamesAreNew, RetriesInv, Foreign
  PROVE  FilesEndPlain' /\ ReadyWhenAlone' /\ ReasonsInv'
<1>1. FilesEndPlain'
  BY ForeignKeepsEnds DEF RetriesInv, RunsInv
<1>2. ~Alone'
  BY DEF Foreign, ForeignTarget, ForeignSource, Alone
<1> QED BY <1>1, <1>2 DEF ReadyWhenAlone, ReasonsInv

LEMMA StutterKeepsRetries ==
  ASSUME NamesAreNew, RetriesInv, UNCHANGED migrateVars
  PROVE  FilesEndPlain' /\ ReadyWhenAlone' /\ ReasonsInv'
<1>1. UNCHANGED <<tree, nextId, source, job, runs, mine, direct, touched, edited, fsVars>>
  BY DEF migrateVars, fsVars
<1>2. FilesEndPlain'
  BY <1>1 DEF RetriesInv, FilesEndPlain
<1>3. ReadyWhenAlone'
  BY <1>1 DEF RetriesInv, ReadyWhenAlone, Alone, ReadyInv, InCopy, WholeRead, IsFile, Entry, TempPath,
              RunDirectory, TempDirectory
<1>4. ReasonsInv'
  <2> SUFFICES ASSUME Alone', runs' # 0, ~job'.hit, RetryPolicy', BadEnd'
               PROVE  Reason'
    BY DEF ReasonsInv
  <2>1. /\ Alone /\ runs # 0 /\ ~job.hit /\ RetryPolicy /\ BadEnd /\ RunsInv /\ nextId \in Nat
    BY <1>1 DEF Alone, RetryPolicy, BadEnd, RetriesInv, RunsInv, MigrateInv, HeldTree
  <2>2. Reason
    BY <2>1 DEF RetriesInv, ReasonsInv
  <2>3. Creates
    <3>1. nextId..(nextId - 1) = {}
      BY <2>1
    <3> QED BY <1>1, <3>1 DEF Creates
  <2>4. TargetChange /\ direct \subseteq direct'
    BY <1>1 DEF TargetChange
  <2> QED BY <1>1, <2>1, <2>2, <2>3, <2>4, ReasonStays
<1> QED BY <1>2, <1>3, <1>4

LEMMA ReasonsMeanSuccess ==
  ASSUME RetriesInv
  PROVE  RetriesSucceed
<1> SUFFICES ASSUME job.exit \in {"attention", "failure"}, ~job.hit, ~Disturbed, ~Clash, ~Oversized
             PROVE  /\ job.opt.conflict # "overwrite"
                    /\ job.opt.conflict = "checksum" => OthersAtTargets \/ direct # {}
  BY DEF RetriesSucceed
<1>1. runs # 0
  BY DEF RetriesInv, RunsInv, MigrateInv, JobShape, NotStarted
<1>2. Alone /\ BadEnd
  BY DEF Disturbed, Alone, BadEnd
<1>3. RetryPolicy => Reason
  BY <1>1, <1>2 DEF RetriesInv, ReasonsInv
<1> QED BY <1>3 DEF RetryPolicy, Reason

(* Where the names of the temporary paths are new and nobody else is at work, a run that no
   failing read hits exits with 0 whatever killed and failed runs have left behind: always
   under --conflict overwrite, and under checksum if every file came to its target by a
   move and none of somebody else is there.  What keeps it from that is an entry of the
   other type at a target, a file above one, or a source that is larger than a file of the
   target may be. *)
THEOREM CleanRunsSucceed ==
  ASSUME NamesAreNew
  PROVE  MigrateSpec => []RetriesSucceed
<1>1. MigrateInit => RetriesInv
  BY RetriesInvInit
<1>2. RetriesInv /\ [MigrateNext]_migrateVars => RetriesInv'
  <2> SUFFICES ASSUME RetriesInv, [MigrateNext]_migrateVars
               PROVE  RetriesInv'
    OBVIOUS
  <2>1. RunsInv'
    BY RunKeepsRunsInv, RerunKeepsRunsInv, ForeignKeepsRunsInv, StutterKeepsRunsInv
       DEF MigrateNext, RetriesInv
  <2>2. SourceKept' /\ PlacesInv'
    BY MigrateKeepsPlaces, NewNamesSay DEF RetriesInv, RunsInv
  <2>3. FilesEndPlain' /\ ReadyWhenAlone' /\ ReasonsInv'
    BY RunKeepsRetries, RerunKeepsRetries, ForeignKeepsRetries, StutterKeepsRetries DEF MigrateNext
  <2> QED BY <2>1, <2>2, <2>3 DEF RetriesInv
<1>3. RetriesInv => RetriesSucceed
  BY ReasonsMeanSuccess
<1> QED BY <1>1, <1>2, <1>3, PTL DEF MigrateSpec
=============================================================================
