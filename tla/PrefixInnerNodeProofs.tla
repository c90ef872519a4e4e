----------------------- MODULE PrefixInnerNodeProofs ------------------------
(***************************************************************************)
(* A node with a prefix is a node of LayoutLemmas with a head on it: every *)
(* step does to the arrays what they do there, and carries the head along. *)
(***************************************************************************)
EXTENDS PrefixInnerNode, LayoutLemmas

\* The node without its head.
Core(n) == Node(n.type, n.count, n.keys, n.index, n.slots)

\* The head lies inside the key, with a chunk left to branch by.
HeadFits(n) ==
    /\ [depth |-> n.depth, plen |-> n.plen, prefix |-> n.prefix] \in HeadShape
    /\ Branch(n) \in Chunks

Whole(n) == n = Headed(Core(n), n)

LEMMA CoreFields ==
    ASSUME NEW n
    PROVE  /\ Core(n).type = n.type /\ Core(n).count = n.count /\ Core(n).keys = n.keys
           /\ Core(n).index = n.index /\ Core(n).slots = n.slots
BY DEF Core, Node

\* The head plays no part in what the arrays say.
LEMMA CoreReads ==
    ASSUME NEW n
    PROVE  /\ \A b : LowerBound(n, b) = LowerBound(Core(n), b)
           /\ \A b : UpperBound(n, b) = UpperBound(Core(n), b)
           /\ \A b : Find(n, b) = Find(Core(n), b)
           /\ Taken(n) = Taken(Core(n)) /\ Represents(n) = Represents(Core(n))
           /\ InUse(n) = InUse(Core(n)) /\ \A b : ChildAt(n, b) = ChildAt(Core(n), b)
           /\ FreePlaces(n) = FreePlaces(Core(n))
<1>1. \A b : LowerBound(n, b) = LowerBound(Core(n), b)
  BY CoreFields DEF LowerBound
<1>2. \A b : UpperBound(n, b) = UpperBound(Core(n), b)
  BY CoreFields DEF UpperBound
<1>3. \A b : FindSorted(n, b) = FindSorted(Core(n), b)
  BY <1>1, CoreFields DEF FindSorted
<1>4. \A b : FindIndexed(n, b) = FindIndexed(Core(n), b)
  BY CoreFields DEF FindIndexed
<1>5. \A b : Find(n, b) = Find(Core(n), b)
  BY <1>3, <1>4, CoreFields DEF Find, Sorted, Indexed
<1>6. Taken(n) = Taken(Core(n)) /\ Represents(n) = Represents(Core(n))
  <2>1. Taken(n) = Taken(Core(n))
    BY <1>5 DEF Taken
  <2> QED
    BY <1>5, <2>1 DEF Represents
<1>7. InUse(n) = InUse(Core(n)) /\ \A b : ChildAt(n, b) = ChildAt(Core(n), b)
  BY CoreFields DEF InUse, ChildAt
<1>8. FreePlaces(n) = FreePlaces(Core(n))
  BY CoreFields DEF FreePlaces
<1> QED
  BY <1>1, <1>2, <1>5, <1>6, <1>7, <1>8

\* A change of the arrays under a head is that change of the node without it.
LEMMA HeadedRewritten ==
    ASSUME NEW n, Whole(n), NEW keys, NEW slots, NEW k
    PROVE  Rewritten(n, keys, slots, k) = Headed(Node(n.type, k, keys, n.index, slots), n)
<1>1. n = Headed(Node(n.type, n.count, n.keys, n.index, n.slots), n)
  BY DEF Whole, Core
<1>2. PICK h, t, c, keys0, index, slots0 :
         /\ h = n /\ t = n.type /\ c = n.count /\ keys0 = n.keys /\ index = n.index
         /\ slots0 = n.slots
  OBVIOUS
<1>3. n = Headed(Node(t, c, keys0, index, slots0), h)
  BY <1>1, <1>2
<1>4. Rewritten(n, keys, slots, k)
        = [[[n EXCEPT !.keys = keys] EXCEPT !.slots = slots] EXCEPT !.count = k]
  BY <1>3 DEF Headed, Rewritten
<1>5. [n EXCEPT !.keys = keys] = Headed(Node(t, c, keys, index, slots0), h)
  BY <1>3 DEF Headed, Node
<1>6. [Headed(Node(t, c, keys, index, slots0), h) EXCEPT !.slots = slots]
        = Headed(Node(t, c, keys, index, slots), h)
  BY DEF Headed, Node
<1>7. [Headed(Node(t, c, keys, index, slots), h) EXCEPT !.count = k]
        = Headed(Node(t, k, keys, index, slots), h)
  BY DEF Headed, Node
<1> QED
  BY <1>2, <1>4, <1>5, <1>6, <1>7

LEMMA HeadedReindexed ==
    ASSUME NEW n, Whole(n), NEW index, NEW slots, NEW k
    PROVE  Reindexed(n, index, slots, k) = Headed(Node(n.type, k, n.keys, index, slots), n)
<1>1. n = Headed(Node(n.type, n.count, n.keys, n.index, n.slots), n)
  BY DEF Whole, Core
<1>2. PICK h, t, c, keys, index0, slots0 :
         /\ h = n /\ t = n.type /\ c = n.count /\ keys = n.keys /\ index0 = n.index
         /\ slots0 = n.slots
  OBVIOUS
<1>3. n = Headed(Node(t, c, keys, index0, slots0), h)
  BY <1>1, <1>2
<1>4. Reindexed(n, index, slots, k)
        = [[[n EXCEPT !.index = index] EXCEPT !.slots = slots] EXCEPT !.count = k]
  BY <1>3 DEF Headed, Reindexed
<1>5. [n EXCEPT !.index = index] = Headed(Node(t, c, keys, index, slots0), h)
  BY <1>3 DEF Headed, Node
<1>6. [Headed(Node(t, c, keys, index, slots0), h) EXCEPT !.slots = slots]
        = Headed(Node(t, c, keys, index, slots), h)
  BY DEF Headed, Node
<1>7. [Headed(Node(t, c, keys, index, slots), h) EXCEPT !.count = k]
        = Headed(Node(t, k, keys, index, slots), h)
  BY DEF Headed, Node
<1> QED
  BY <1>2, <1>4, <1>5, <1>6, <1>7

Reslotted(n, slots) == [n EXCEPT !.slots = slots]

Recounted(n, slots, k) == [n EXCEPT !.slots = slots, !.count = k]

LEMMA HeadedReslotted ==
    ASSUME NEW n, Whole(n), NEW slots, NEW k
    PROVE  /\ Reslotted(n, slots) = Headed(Node(n.type, n.count, n.keys, n.index, slots), n)
           /\ Recounted(n, slots, k) = Headed(Node(n.type, k, n.keys, n.index, slots), n)
<1>1. n = Headed(Node(n.type, n.count, n.keys, n.index, n.slots), n)
  BY DEF Whole, Core
<1>2. PICK h, t, c, keys, index, slots0 :
         /\ h = n /\ t = n.type /\ c = n.count /\ keys = n.keys /\ index = n.index
         /\ slots0 = n.slots
  OBVIOUS
<1>3. n = Headed(Node(t, c, keys, index, slots0), h)
  BY <1>1, <1>2
<1>4. Reslotted(n, slots) = Headed(Node(t, c, keys, index, slots), h)
  BY <1>3 DEF Headed, Node, Reslotted
<1>5. Recounted(n, slots, k) = [[n EXCEPT !.slots = slots] EXCEPT !.count = k]
  BY <1>3 DEF Headed, Recounted
<1>6. [Headed(Node(t, c, keys, index, slots), h) EXCEPT !.count = k]
        = Headed(Node(t, k, keys, index, slots), h)
  BY DEF Headed, Node
<1> QED
  BY <1>2, <1>4, <1>5, <1>6 DEF Reslotted

LEMMA CoreReslotted ==
    ASSUME NEW n, NEW slots, NEW k
    PROVE  /\ Reslotted(Core(n), slots) = Node(n.type, n.count, n.keys, n.index, slots)
           /\ Recounted(Core(n), slots, k) = Node(n.type, k, n.keys, n.index, slots)
<1>1. PICK t, c, keys, index, slots0 :
         /\ t = n.type /\ c = n.count /\ keys = n.keys /\ index = n.index
         /\ slots0 = n.slots
  OBVIOUS
<1>2. Core(n) = Node(t, c, keys, index, slots0)
  BY <1>1 DEF Core
<1>3. Reslotted(Core(n), slots) = Node(t, c, keys, index, slots)
  BY <1>2 DEF Node, Reslotted
<1>4. Recounted(Core(n), slots, k) = [[Core(n) EXCEPT !.slots = slots] EXCEPT !.count = k]
  BY <1>2 DEF Node, Recounted
<1>5. [Node(t, c, keys, index, slots) EXCEPT !.count = k] = Node(t, k, keys, index, slots)
  BY DEF Node
<1> QED
  BY <1>1, <1>3, <1>4, <1>5 DEF Reslotted

-----------------------------------------------------------------------------
(* insert(), erase() and update_child_ptr() under a head.                  *)

LEMMA HeadedInsert ==
    ASSUME NEW n, Whole(n), NEW b, NEW c
    PROVE  /\ SortedNode(Core(n)) => InsertSorted(n, b, c) = Headed(Insert(Core(n), b, c), n)
           /\ IndexedNode(Core(n)) => InsertIndexed(n, b, c) = Headed(Insert(Core(n), b, c), n)
           /\ DirectNode(Core(n)) => InsertDirect(n, b, c) = Headed(Insert(Core(n), b, c), n)
<1>1. ASSUME SortedNode(Core(n))
      PROVE  InsertSorted(n, b, c) = Headed(Insert(Core(n), b, c), n)
  <2>1. PICK keys, slots, k :
           /\ keys = MakeRoom(n.keys, LowerBound(n, b), n.count, b)
           /\ slots = MakeRoom(n.slots, LowerBound(n, b), n.count, c)
           /\ k = n.count + 1
    OBVIOUS
  <2>2. InsertSorted(n, b, c) = Rewritten(n, keys, slots, k)
    BY <2>1 DEF InsertSorted, Rewritten
  <2>3. Insert(Core(n), b, c) = Node(n.type, k, keys, Unused, slots)
    BY <1>1, <2>1, InsertSortedIs, CoreReads, CoreFields
  <2>4. n.index = Unused
    BY <1>1, SortedFields, CoreFields DEF SortedNode
  <2> QED
    BY <2>2, <2>3, <2>4, HeadedRewritten
<1>2. ASSUME IndexedNode(Core(n))
      PROVE  InsertIndexed(n, b, c) = Headed(Insert(Core(n), b, c), n)
  <2>1. PICK index, slots, k :
           /\ index = [n.index EXCEPT ![b] = Min(FreePlaces(n))]
           /\ slots = [n.slots EXCEPT ![Min(FreePlaces(n))] = c]
           /\ k = n.count + 1
    OBVIOUS
  <2>2. InsertIndexed(n, b, c) = Reindexed(n, index, slots, k)
    BY <2>1 DEF InsertIndexed, Reindexed
  <2>3. Insert(Core(n), b, c) = Node("node_48", k, Unused, index, slots)
    <3>1. Insert(Core(n), b, c)
            = Node("node_48", Core(n).count + 1, Unused,
                   [Core(n).index EXCEPT ![b] = Min(FreePlaces(Core(n)))],
                   [Core(n).slots EXCEPT ![Min(FreePlaces(Core(n)))] = c])
      BY <1>2, InsertIndexedIs
    <3>2. FreePlaces(Core(n)) = FreePlaces(n)
      BY CoreReads
    <3> QED
      BY <2>1, <3>1, <3>2, CoreFields
  <2>4. n.keys = Unused /\ n.type = "node_48"
    <3>1. Core(n) = Node("node_48", Core(n).count, Unused, Core(n).index, Core(n).slots)
      BY <1>2, IndexedFacts
    <3>2. Core(n).keys = Unused /\ Core(n).type = "node_48"
      BY <3>1 DEF Node
    <3> QED
      BY <3>2, CoreFields
  <2> QED
    BY <2>2, <2>3, <2>4, HeadedReindexed
<1>3. ASSUME DirectNode(Core(n))
      PROVE  InsertDirect(n, b, c) = Headed(Insert(Core(n), b, c), n)
  <2>1. PICK slots, k : slots = [n.slots EXCEPT ![b] = c] /\ k = n.count + 1
    OBVIOUS
  <2>2. InsertDirect(n, b, c) = Recounted(n, slots, k)
    BY <2>1 DEF InsertDirect, Recounted
  <2>3. Insert(Core(n), b, c) = Recounted(Core(n), slots, k)
    <3>1. Insert(Core(n), b, c) = InsertDirect(Core(n), b, c)
      BY <1>3 DEF Insert, DirectNode, Sorted, Indexed
    <3> QED
      BY <2>1, <3>1, CoreFields DEF InsertDirect, Recounted
  <2> QED
    BY <2>2, <2>3, HeadedReslotted, CoreReslotted
<1> QED
  BY <1>1, <1>2, <1>3

LEMMA HeadedErase ==
    ASSUME NEW n, Whole(n), NEW b \in Byte, Find(Core(n), b) # Nil
    PROVE  /\ SortedNode(Core(n)) => EraseSorted(n, b) = Headed(Erase(Core(n), b), n)
           /\ IndexedNode(Core(n)) => EraseIndexed(n, b) = Headed(Erase(Core(n), b), n)
           /\ DirectNode(Core(n)) => EraseDirect(n, b) = Headed(Erase(Core(n), b), n)
<1>1. ASSUME SortedNode(Core(n))
      PROVE  EraseSorted(n, b) = Headed(Erase(Core(n), b), n)
  <2>1. PICK keys, slots, k :
           /\ keys = CloseUp(n.keys, LowerBound(n, b), n.count)
           /\ slots = CloseUp(n.slots, LowerBound(n, b), n.count)
           /\ k = n.count - 1
    OBVIOUS
  <2>2. LowerBound(n, b) < n.count
    BY <1>1, PlaceOfByte, CoreReads, CoreFields
  <2>3. EraseSorted(n, b) = Rewritten(n, keys, slots, k)
    BY <2>1, <2>2 DEF EraseSorted, Rewritten
  <2>4. Erase(Core(n), b) = Node(n.type, k, keys, Unused, slots)
    BY <1>1, <2>1, <2>2, EraseSortedIs, CoreReads, CoreFields
  <2>5. n.index = Unused
    BY <1>1, SortedFields, CoreFields DEF SortedNode
  <2> QED
    BY <2>3, <2>4, <2>5, HeadedRewritten
<1>2. ASSUME IndexedNode(Core(n))
      PROVE  EraseIndexed(n, b) = Headed(Erase(Core(n), b), n)
  <2>1. PICK index, slots, k :
           /\ index = [n.index EXCEPT ![b] = EmptyMarker]
           /\ slots = [n.slots EXCEPT ![n.index[b]] = Nil]
           /\ k = n.count - 1
    OBVIOUS
  <2>2. EraseIndexed(n, b) = Reindexed(n, index, slots, k)
    <3>1. PICK h, t, cnt, keys, index0, slots0 :
             /\ h = n /\ t = n.type /\ cnt = n.count /\ keys = n.keys /\ index0 = n.index
             /\ slots0 = n.slots
      OBVIOUS
    <3>2. n = Headed(Node(t, cnt, keys, index0, slots0), h)
      BY <3>1 DEF Whole, Core
    <3> QED
      BY <2>1, <3>2 DEF EraseIndexed, Reindexed, Headed, Node
  <2>3. Erase(Core(n), b) = Node("node_48", k, Unused, index, slots)
    <3>1. Erase(Core(n), b)
            = Node("node_48", Core(n).count - 1, Unused,
                   [Core(n).index EXCEPT ![b] = EmptyMarker],
                   [Core(n).slots EXCEPT ![Core(n).index[b]] = Nil])
      BY <1>2, EraseIndexedIs
    <3> QED
      BY <2>1, <3>1, CoreFields
  <2>4. n.keys = Unused /\ n.type = "node_48"
    <3>1. Core(n) = Node("node_48", Core(n).count, Unused, Core(n).index, Core(n).slots)
      BY <1>2, IndexedFacts
    <3>2. Core(n).keys = Unused /\ Core(n).type = "node_48"
      BY <3>1 DEF Node
    <3> QED
      BY <3>2, CoreFields
  <2> QED
    BY <2>2, <2>3, <2>4, HeadedReindexed
<1>3. ASSUME DirectNode(Core(n))
      PROVE  EraseDirect(n, b) = Headed(Erase(Core(n), b), n)
  <2>1. PICK slots, k : slots = [n.slots EXCEPT ![b] = Nil] /\ k = n.count - 1
    OBVIOUS
  <2>2. EraseDirect(n, b) = Recounted(n, slots, k)
    BY <2>1 DEF EraseDirect, Recounted
  <2>3. Erase(Core(n), b) = Recounted(Core(n), slots, k)
    <3>1. Erase(Core(n), b) = EraseDirect(Core(n), b)
      BY <1>3 DEF Erase, DirectNode, Sorted, Indexed
    <3> QED
      BY <2>1, <3>1, CoreFields DEF EraseDirect, Recounted
  <2> QED
    BY <2>2, <2>3, HeadedReslotted, CoreReslotted
<1> QED
  BY <1>1, <1>2, <1>3

LEMMA HeadedUpdate ==
    ASSUME NEW n, Whole(n), NEW b \in Byte, NEW c, Find(Core(n), b) # Nil
    PROVE  /\ SortedNode(Core(n)) => UpdateSorted(n, b, c) = Headed(Update(Core(n), b, c), n)
           /\ IndexedNode(Core(n)) => UpdateIndexed(n, b, c) = Headed(Update(Core(n), b, c), n)
           /\ DirectNode(Core(n)) => UpdateDirect(n, b, c) = Headed(Update(Core(n), b, c), n)
<1>1. ASSUME NEW slots PROVE Reslotted(n, slots) = Headed(Reslotted(Core(n), slots), n)
  BY HeadedReslotted, CoreReslotted
<1>2. ASSUME SortedNode(Core(n))
      PROVE  UpdateSorted(n, b, c) = Headed(Update(Core(n), b, c), n)
  <2>1. PICK slots : slots = [n.slots EXCEPT ![LowerBound(n, b)] = c]
    OBVIOUS
  <2>2. LowerBound(n, b) < n.count /\ n.keys[LowerBound(n, b)] = b
    BY <1>2, PlaceOfByte, CoreReads, CoreFields
  <2>3. UpdateSorted(n, b, c) = Reslotted(n, slots)
    BY <2>1, <2>2 DEF UpdateSorted, Reslotted
  <2>4. Update(Core(n), b, c) = UpdateSorted(Core(n), b, c)
    BY <1>2 DEF Update, SortedNode, Sorted, Indexed
  <2>5. UpdateSorted(Core(n), b, c) = Reslotted(Core(n), slots)
    BY <2>1, <2>2, CoreReads, CoreFields DEF UpdateSorted, Reslotted
  <2> QED
    BY <1>1, <2>3, <2>4, <2>5
<1>3. ASSUME IndexedNode(Core(n))
      PROVE  UpdateIndexed(n, b, c) = Headed(Update(Core(n), b, c), n)
  <2>1. PICK slots : slots = [n.slots EXCEPT ![n.index[b]] = c]
    OBVIOUS
  <2>2. n.index[b] # EmptyMarker
    BY <1>3, FindInIndexed, CoreFields
  <2>3. UpdateIndexed(n, b, c) = Reslotted(n, slots)
    BY <2>1, <2>2 DEF UpdateIndexed, Reslotted
  <2>4. Update(Core(n), b, c) = UpdateIndexed(Core(n), b, c)
    BY <1>3 DEF Update, IndexedNode, Sorted, Indexed
  <2>5. UpdateIndexed(Core(n), b, c) = Reslotted(Core(n), slots)
    BY <2>1, <2>2, CoreFields DEF UpdateIndexed, Reslotted
  <2> QED
    BY <1>1, <2>3, <2>4, <2>5
<1>4. ASSUME DirectNode(Core(n))
      PROVE  UpdateDirect(n, b, c) = Headed(Update(Core(n), b, c), n)
  <2>1. PICK slots : slots = [n.slots EXCEPT ![b] = c]
    OBVIOUS
  <2>2. n.slots[b] # Nil
    BY <1>4, DirectFacts, CoreFields
  <2>3. UpdateDirect(n, b, c) = Reslotted(n, slots)
    BY <2>1, <2>2 DEF UpdateDirect, Reslotted
  <2>4. Update(Core(n), b, c) = UpdateDirect(Core(n), b, c)
    BY <1>4 DEF Update, DirectNode, Sorted, Indexed
  <2>5. UpdateDirect(Core(n), b, c) = Reslotted(Core(n), slots)
    BY <2>1, <2>2, CoreFields DEF UpdateDirect, Reslotted
  <2> QED
    BY <1>1, <2>3, <2>4, <2>5
<1> QED
  BY <1>2, <1>3, <1>4

-----------------------------------------------------------------------------
(* The constructors under a head.                                          *)

LEMMA HeadedGrow ==
    ASSUME NEW n
    PROVE  /\ n.type = "node_4" => Node16Of4(n) = Headed(GrownNode(Core(n)), n)
           /\ n.type = "node_16" => Node48Of16(n) = Headed(GrownNode(Core(n)), n)
           /\ IndexedNode(Core(n)) => Node256Of48(n) = Headed(GrownNode(Core(n)), n)
<1>1. ASSUME n.type = "node_4"
      PROVE  Node16Of4(n) = Headed(GrownNode(Core(n)), n)
  BY <1>1, CoreFields DEF GrownNode, Grow4, Node16Of4
<1>2. ASSUME n.type = "node_16"
      PROVE  Node48Of16(n) = Headed(GrownNode(Core(n)), n)
  <2> DEFINE At(b) == {p \in 0..(Cap16 - 1) : n.keys[p] = b}
  <2>1. \A b : (\E p \in 0..(Cap16 - 1) : n.keys[p] = b) <=> At(b) # {}
    OBVIOUS
  <2>2. [b \in Byte |-> IF \E p \in 0..(Cap16 - 1) : n.keys[p] = b THEN Max(At(b)) ELSE EmptyMarker]
          = [b \in Byte |-> IF At(b) = {} THEN EmptyMarker ELSE Max(At(b))]
    BY <2>1
  <2>3. GrownNode(Core(n)) =
          Node("node_48", Cap16, Unused,
               [b \in Byte |-> IF At(b) = {} THEN EmptyMarker ELSE Max(At(b))],
               [p \in Places("node_48") |-> IF p < Cap16 THEN n.slots[p] ELSE Nil])
    BY <1>2, CoreFields DEF GrownNode, Grow16
  <2> QED
    BY <2>2, <2>3 DEF Node48Of16
<1>3. ASSUME IndexedNode(Core(n))
      PROVE  Node256Of48(n) = Headed(GrownNode(Core(n)), n)
  <2>1. n.type = "node_48" /\ Indexed(n.type)
    BY <1>3, IndexedFacts, CoreFields DEF Indexed
  <2>2. ASSUME NEW b \in Byte
        PROVE  (IF b \in InUse(n) THEN ChildAt(n, b) ELSE Nil) = FindIndexed(Core(n), b)
    BY <2>1, CoreFields DEF InUse, ChildAt, FindIndexed
  <2>3. Children256Of48(n) = [b \in Byte |-> FindIndexed(Core(n), b)]
    BY <2>2 DEF Children256Of48
  <2>4. GrownNode(Core(n)) = Grow48(Core(n))
    BY <2>1, CoreFields DEF GrownNode
  <2> QED
    BY <2>3, <2>4 DEF Grow48, Node256Of48
<1> QED
  BY <1>1, <1>2, <1>3

\* The rank of a used byte is its position in a row of all of them.
LEMMA RanksAreExact ==
    ASSUME NEW n, NEW K, K = Cardinality(InUse(n))
    PROVE  /\ K \in Nat /\ InUse(n) \in SUBSET Byte
           /\ \A b \in InUse(n) : Rank(n, b) \in 0..(K - 1)
           /\ \A b, c \in InUse(n) : b < c => Rank(n, b) < Rank(n, c)
           /\ \A p \in 0..(K - 1) : Ranked(n, p) \in InUse(n) /\ Rank(n, Ranked(n, p)) = p
           /\ \A b \in InUse(n) : Ranked(n, Rank(n, b)) = b
           /\ \A p, q \in 0..(K - 1) : p < q => Ranked(n, p) < Ranked(n, q)
<1> DEFINE T == InUse(n)
           Less(b) == {c \in T : c < b}
<1>1. T \in SUBSET Byte /\ T \in SUBSET Nat
  BY BytesAreNumbers DEF InUse
<1>2. IsFiniteSet(T) /\ K \in Nat
  BY <1>1, BytesAreFinite
<1>3. ASSUME NEW b \in T
      PROVE  /\ Less(b) \in SUBSET T /\ IsFiniteSet(Less(b))
             /\ Cardinality(Less(b)) \in Nat /\ Rank(n, b) = Cardinality(Less(b))
  <2>1. Less(b) \in SUBSET T /\ Less(b) \in SUBSET Byte
    BY <1>1
  <2> QED
    BY <2>1, BytesAreFinite DEF Rank
<1>4. ASSUME NEW b \in T  PROVE Rank(n, b) \in 0..(K - 1)
  <2>1. Less(b) # T
    BY <1>1
  <2>2. Cardinality(Less(b)) =< Cardinality(T) /\ Cardinality(Less(b)) # Cardinality(T)
    BY <1>2, <1>3, <2>1, FS_Subset
  <2> QED
    BY <1>2, <1>3, <2>2
<1>5. ASSUME NEW b \in T, NEW c \in T, b < c  PROVE Rank(n, b) < Rank(n, c)
  <2>1. Less(b) \in SUBSET Less(c) /\ Less(b) # Less(c)
    BY <1>1, <1>5
  <2>2. Cardinality(Less(b)) =< Cardinality(Less(c))
        /\ Cardinality(Less(b)) # Cardinality(Less(c))
    BY <1>3, <2>1, FS_Subset
  <2> QED
    BY <1>3, <2>2
<1>6. ASSUME NEW p \in 0..(K - 1)
      PROVE  \E b \in T : Rank(n, b) = p
  <2> DEFINE f == [b \in T |-> Rank(n, b)]
             R == 0..(K - 1)
  <2>1. \A b, c \in T : f[b] = f[c] => b = c
    BY <1>1, <1>2, <1>4, <1>5
  <2>2. f \in [T -> R]
    BY <1>4
  <2>3. f \in Injection(T, R)
    BY <2>1, <2>2 DEF Injection, IsInjective
  <2>4. IsFiniteSet(R) /\ Cardinality(R) = K
    BY <1>2, FS_Interval
  <2> HIDE DEF f, R
  <2>5. f \in Surjection(T, R)
    BY <2>3, <2>4, FS_Injection
  <2>6. \A q \in R : \E b \in T : f[b] = q
    BY <2>5 DEF Surjection
  <2> QED
    BY <2>6 DEF f, R
<1>7. ASSUME NEW p \in 0..(K - 1)
      PROVE  Ranked(n, p) \in T /\ Rank(n, Ranked(n, p)) = p
  <2>1. \E b \in T : Rank(n, b) = p
    BY <1>6
  <2>2. Ranked(n, p) = CHOOSE b \in T : Rank(n, b) = p
    BY DEF Ranked, Rank
  <2> QED
    BY <2>1, <2>2
<1>8. ASSUME NEW b \in T, NEW c \in T, Rank(n, b) = Rank(n, c)  PROVE b = c
  BY <1>1, <1>2, <1>4, <1>5, <1>8
<1>9. ASSUME NEW b \in T  PROVE Ranked(n, Rank(n, b)) = b
  BY <1>4, <1>7, <1>8
<1>10. ASSUME NEW p \in 0..(K - 1), NEW q \in 0..(K - 1), p < q
       PROVE  Ranked(n, p) < Ranked(n, q)
  <2>1. PICK b \in T, c \in T : /\ b = Ranked(n, p) /\ c = Ranked(n, q)
                               /\ Rank(n, b) = p /\ Rank(n, c) = q
    BY <1>7
  <2>2. b \in Nat /\ c \in Nat /\ p \in Int /\ q \in Int
    BY <1>1
  <2>3. ~ (c < b) /\ b # c
    BY <1>5, <1>10, <2>1, <2>2
  <2> QED
    BY <2>1, <2>2, <2>3
<1> QED
  BY <1>1, <1>2, <1>4, <1>5, <1>7, <1>9, <1>10

\* m is a node without a head that has the children of n.
Alike(m, n) ==
    /\ Sound(m) /\ m.count = n.count
    /\ \A x \in Byte : Find(m, x) = Find(Core(n), x)

\* _Node_4(_Node_16 *).
LEMMA HeadedShrink16 ==
    ASSUME NEW n, SortedNode(Core(n)), n.type = "node_16", n.count = Cap4
    PROVE  \E m : Node4Of16(n) = Headed(m, n) /\ Alike(m, n) /\ m.type = "node_4"
<1>1. Node4Of16(n) = Headed(Shrink16(Core(n)), n)
  BY CoreFields DEF Node4Of16, Shrink16
<1>2. PICK m : m = Shrink16(Core(n))
  OBVIOUS
<1>3. /\ SortedNode(m) /\ m.type = "node_4" /\ m.count = n.count
      /\ \A x \in Byte : Find(m, x) = Find(Core(n), x)
  BY <1>2, Shrink16Is, CoreFields
<1>4. Alike(m, n)
  BY <1>3, SoundKinds DEF Alike
<1> QED
  BY <1>1, <1>2, <1>3, <1>4

\* _Node_16(_Node_48 *): the keys are the used bytes in their order.
LEMMA HeadedShrink48 ==
    ASSUME NEW n, IndexedNode(Core(n)), Counted(Core(n)), n.count = Cap16
    PROVE  \E m : Node16Of48(n) = Headed(m, n) /\ Alike(m, n) /\ m.type = "node_16"
<1> DEFINE K == Cap16
<1>1. /\ InUse(n) = Taken(Core(n))
      /\ \A b \in InUse(n) : ChildAt(n, b) = Find(Core(n), b)
  BY InUseIsTaken, CoreReads
<1>2. Cap16 = Cardinality(InUse(n))
  BY <1>1, CoreFields DEF Counted
<1>3. PICK keys, slots, m :
        /\ keys = [p \in Places("node_16") |-> IF p \in 0..(Cap16 - 1) THEN Ranked(n, p) ELSE 0]
        /\ slots = [p \in Places("node_16") |->
                      IF p \in 0..(Cap16 - 1) THEN ChildAt(n, Ranked(n, p)) ELSE Nil]
        /\ m = Node("node_16", Cap16, keys, Unused, slots)
  OBVIOUS
<1>4. Node16Of48(n) = Headed(m, n)
  BY <1>2, <1>3 DEF Node16Of48
<1>5. Places("node_16") = 0..(Cap16 - 1) /\ Cap16 \in Nat /\ Cap16 =< MaxSize("node_16")
  BY Capacities
<1>6. \A p \in 0..(Cap16 - 1) :
         /\ Ranked(n, p) \in InUse(n) /\ keys[p] = Ranked(n, p)
         /\ slots[p] = Find(Core(n), keys[p])
  BY <1>1, <1>2, <1>3, <1>5, RanksAreExact
<1>7. \A b \in InUse(n) : b \in Byte /\ Find(Core(n), b) # Nil /\ Find(Core(n), b) \in Slot
  BY <1>1, FindInIndexed DEF Taken
<1>8. keys \in [Places("node_16") -> Byte]
  BY <1>3, <1>5, <1>6, <1>7
<1>9. slots \in [Places("node_16") -> Slot]
  BY <1>3, <1>5, <1>6, <1>7
<1>10. \A p, q \in 0..(Cap16 - 1) : p < q => keys[p] < keys[q]
  BY <1>2, <1>6, RanksAreExact
<1>11. \A p \in 0..(Cap16 - 1) : slots[p] # Nil
  BY <1>6, <1>7
<1>12. SortedNode(m)
  BY <1>3, <1>5, <1>8, <1>9, <1>10, <1>11, SortedIsSound
<1>13. m.type = "node_16" /\ m.count = Cap16 /\ m.keys = keys /\ m.slots = slots
  BY <1>3 DEF Node
<1>14. ASSUME NEW x \in Byte  PROVE Find(m, x) = Find(Core(n), x)
  <2>1. CASE x \in InUse(n)
    <3>1. PICK p \in 0..(Cap16 - 1) : p = Rank(n, x)
      BY <1>2, <2>1, RanksAreExact
    <3>2. keys[p] = x
      BY <1>2, <1>6, <2>1, <3>1, RanksAreExact
    <3>3. slots[p] = Find(Core(n), x)
      BY <1>6, <3>2
    <3> QED
      BY <1>12, <1>13, <3>2, <3>3, FindInSorted
  <2>2. CASE x \notin InUse(n)
    <3>1. \A p \in 0..(m.count - 1) : m.keys[p] # x
      BY <1>6, <1>13, <2>2
    <3>2. Find(Core(n), x) = Nil
      BY <1>1, <2>2 DEF Taken
    <3> QED
      BY <1>12, <3>1, <3>2, FindInSorted
  <2> QED
    BY <2>1, <2>2
<1>15. Alike(m, n)
  BY <1>12, <1>13, <1>14, SoundKinds DEF Alike
<1> QED
  BY <1>4, <1>13, <1>15

\* _Node_48(_Node_256 *): the children move to the first slots, in order.
LEMMA HeadedShrink256 ==
    ASSUME NEW n, DirectNode(Core(n)), Counted(Core(n)), n.count = Cap48
    PROVE  \E m : Node48Of256(n) = Headed(m, n) /\ Alike(m, n) /\ m.type = "node_48"
<1>1. /\ InUse(n) = Taken(Core(n))
      /\ \A b \in InUse(n) : ChildAt(n, b) = Find(Core(n), b)
  BY InUseIsTaken, CoreReads
<1>2. Cap48 = Cardinality(InUse(n))
  BY <1>1, CoreFields DEF Counted
<1>3. \A b \in Byte : n.slots[b] = Find(Core(n), b) /\ Find(Core(n), b) \in Slot
  BY DirectFacts, CoreFields
<1>4. PICK index, slots, m :
        /\ index = [b \in Byte |-> IF b \in InUse(n) THEN Rank(n, b) ELSE EmptyMarker]
        /\ slots = [p \in Places("node_48") |-> IF p < Cap48 THEN n.slots[Ranked(n, p)] ELSE Nil]
        /\ m = Node("node_48", Cap48, Unused, index, slots)
  OBVIOUS
<1>5. Node48Of256(n) = Headed(m, n)
  BY <1>2, <1>4 DEF Node48Of256
<1>6. /\ Places("node_48") = 0..(Cap48 - 1) /\ Cap48 \in Nat
      /\ EmptyMarker \notin Places("node_48")
  BY Capacities, MarkerIsNoPlace
<1>7. \A p \in Places("node_48") : Ranked(n, p) \in InUse(n) /\ Rank(n, Ranked(n, p)) = p
  BY <1>2, <1>6, RanksAreExact
<1>8. \A b \in InUse(n) : /\ b \in Byte /\ Find(Core(n), b) # Nil
                         /\ Rank(n, b) \in Places("node_48") /\ Ranked(n, Rank(n, b)) = b
  BY <1>1, <1>2, <1>6, RanksAreExact DEF Taken
<1>9. index \in [Byte -> Places("node_48") \cup {EmptyMarker}]
  BY <1>4, <1>8
<1>10. \A p \in Places("node_48") :
          slots[p] = Find(Core(n), Ranked(n, p)) /\ slots[p] # Nil /\ slots[p] \in Slot
  <2>1. \A p \in Places("node_48") : p < Cap48
    BY <1>6
  <2> QED
    BY <1>3, <1>4, <1>7, <1>8, <2>1
<1>11. slots \in [Places("node_48") -> Slot]
  BY <1>4, <1>10
<1>12. \A b, c \in Byte : index[b] = index[c] /\ index[b] # EmptyMarker => b = c
  <2>1. SUFFICES ASSUME NEW b \in Byte, NEW c \in Byte, index[b] = index[c], index[b] # EmptyMarker
                 PROVE  b = c
    OBVIOUS
  <2>2. b \in InUse(n) /\ c \in InUse(n)
    BY <1>4, <2>1
  <2>3. Rank(n, b) = Rank(n, c)
    BY <1>4, <2>1, <2>2
  <2> QED
    BY <1>8, <2>2, <2>3
<1>13. \A p \in Places("node_48") : slots[p] # Nil <=> \E b \in Byte : index[b] = p
  <2>1. SUFFICES ASSUME NEW p \in Places("node_48")  PROVE \E b \in Byte : index[b] = p
    BY <1>10
  <2>2. Ranked(n, p) \in InUse(n) /\ Ranked(n, p) \in Byte /\ Rank(n, Ranked(n, p)) = p
    BY <1>7, <1>8
  <2> QED
    BY <1>4, <2>2
<1>14. IndexedNode(m)
  BY <1>4, <1>6, <1>9, <1>11, <1>12, <1>13, IndexedIsSound
<1>15. m.type = "node_48" /\ m.count = Cap48 /\ m.index = index /\ m.slots = slots
  BY <1>4 DEF Node
<1>16. ASSUME NEW x \in Byte  PROVE Find(m, x) = Find(Core(n), x)
  <2>1. CASE x \in InUse(n)
    <3>1. index[x] = Rank(n, x) /\ index[x] \in Places("node_48") /\ index[x] # EmptyMarker
      BY <1>4, <1>6, <1>8, <2>1
    <3>2. slots[index[x]] = Find(Core(n), x)
      BY <1>8, <1>10, <2>1, <3>1
    <3> QED
      BY <1>14, <1>15, <3>1, <3>2, FindInIndexed
  <2>2. CASE x \notin InUse(n)
    <3>1. index[x] = EmptyMarker
      BY <1>4, <2>2
    <3>2. Find(Core(n), x) = Nil
      BY <1>1, <2>2 DEF Taken
    <3> QED
      BY <1>14, <1>15, <3>1, <3>2, FindInIndexed
  <2> QED
    BY <2>1, <2>2
<1>17. Alike(m, n)
  BY <1>14, <1>15, <1>16, SoundKinds DEF Alike
<1> QED
  BY <1>5, <1>15, <1>17

\* The copy of a sorted node leaves behind what lies past the count.
LEMMA HeadedCopySorted ==
    ASSUME NEW n, Whole(n), SortedNode(Core(n))
    PROVE  /\ n.type = "node_4" =>
                \E m : Copy4(n) = Headed(m, n) /\ Alike(m, n) /\ m.type = n.type
           /\ n.type = "node_16" =>
                \E m : Copy16(n) = Headed(m, n) /\ Alike(m, n) /\ m.type = n.type
<1>1. PICK t, k, keys, slots, m :
        /\ t = n.type /\ k = n.count /\ keys = n.keys
        /\ slots = [p \in Places(n.type) |-> IF p < n.count THEN n.slots[p] ELSE Nil]
        /\ m = Node(t, k, keys, Unused, slots)
  OBVIOUS
<1>2. /\ n.index = Unused /\ t \in {"node_4", "node_16"} /\ k = Core(n).count
      /\ keys \in [Places(t) -> Byte] /\ n.slots \in [Places(t) -> Slot]
      /\ Places(t) = 0..(MaxSize(t) - 1) /\ k =< MaxSize(t) /\ k \in Nat /\ MaxSize(t) \in Nat
  BY <1>1, SortedFacts, SortedFields, CoreFields DEF SortedNode
<1>3. slots \in [Places(t) -> Slot]
  BY <1>1, <1>2, ZeroIsByte
<1>4. \A p \in 0..(k - 1) : keys[p] = Core(n).keys[p] /\ slots[p] = Core(n).slots[p]
  BY <1>1, <1>2, CoreFields
<1>5. /\ SortedNode(m) /\ m.type = t /\ m.count = Core(n).count
      /\ \A x \in Byte : Find(m, x) = Find(Core(n), x)
  <2>1. PICK c : c = Core(n)
    OBVIOUS
  <2>2. /\ SortedNode(c) /\ k = c.count /\ m = Node(t, k, keys, Unused, slots)
        /\ \A p \in 0..(k - 1) : keys[p] = c.keys[p] /\ slots[p] = c.slots[p]
    BY <1>1, <1>2, <1>4, <2>1
  <2>3. /\ t \in {"node_4", "node_16"} /\ k =< MaxSize(t)
        /\ keys \in [Places(t) -> Byte] /\ slots \in [Places(t) -> Slot]
    BY <1>2, <1>3
  <2>4. /\ SortedNode(m) /\ m.type = t /\ m.count = c.count
        /\ \A x \in Byte : Find(m, x) = Find(c, x)
    BY <2>2, <2>3, SortedAlike
  <2> QED
    BY <2>1, <2>4
<1>6. Alike(m, n) /\ m.type = n.type
  BY <1>1, <1>2, <1>5, SoundKinds DEF Alike
<1>7. Reslotted(n, slots) = Headed(m, n)
  BY <1>1, <1>2, HeadedReslotted
<1>8. n.type = "node_4" => Copy4(n) = Reslotted(n, slots)
  BY <1>1 DEF Copy4, Reslotted
<1>9. n.type = "node_16" => Copy16(n) = Reslotted(n, slots)
  BY <1>1 DEF Copy16, Reslotted
<1> QED
  BY <1>6, <1>7, <1>8, <1>9

\* With every child in the slot of its byte the copy of a _Node_48 is right.
LEMMA HeadedCopy48 ==
    ASSUME NEW n, IndexedNode(Core(n)), IndexIsByte(n)
    PROVE  Copy48(n) = Headed(Core(n), Bare(n.depth))
<1>1. /\ n.type = "node_48" /\ Indexed(n.type) /\ n.keys = Unused
      /\ n.slots \in [Places("node_48") -> Slot]
      /\ \A b \in Byte : n.index[b] # EmptyMarker => n.index[b] \in Places("node_48")
      /\ \A p \in Places("node_48") : n.slots[p] # Nil <=> \E b \in Byte : n.index[b] = p
  <2>1. Core(n) = Node("node_48", Core(n).count, Unused, Core(n).index, Core(n).slots)
    BY IndexedFacts
  <2>2. Core(n).keys = Unused
    BY <2>1 DEF Node
  <2> QED
    BY <2>2, IndexedFacts, FindInIndexed, CoreFields DEF Indexed
<1>2. InUse(n) = {b \in Byte : n.index[b] # EmptyMarker}
  BY <1>1 DEF InUse
<1>3. \A b \in InUse(n) : n.index[b] = b
  BY <1>2 DEF IndexIsByte
<1>4. DOMAIN CopiedFrom(n) = {n.index[b] : b \in InUse(n)}
  BY DEF CopiedFrom
<1>5. DOMAIN CopiedFrom(n) = InUse(n)
  BY <1>3, <1>4
<1>6. ASSUME NEW p \in InUse(n)  PROVE CopiedFrom(n)[p] = n.slots[p]
  <2>1. (CHOOSE b \in InUse(n) : n.index[b] = p) = p
    BY <1>3
  <2> QED
    BY <1>5, <2>1 DEF CopiedFrom
<1>7. ASSUME NEW p \in Places("node_48"), p \notin InUse(n)  PROVE n.slots[p] = Nil
  <2>1. ASSUME NEW b \in Byte  PROVE n.index[b] # p
    BY <1>2, <1>3, <1>7, <2>1, MarkerIsNoPlace
  <2> QED
    BY <1>1, <2>1
<1>8. [p \in Places("node_48") |->
         IF p \in DOMAIN CopiedFrom(n) THEN CopiedFrom(n)[p] ELSE Nil] = n.slots
  BY <1>1, <1>5, <1>6, <1>7
<1> QED
  BY <1>1, <1>8 DEF Copy48, Core

-----------------------------------------------------------------------------
(* The inductive invariant.                                                *)

\* A node is in order under its head and in the bounds of its layout, or it
\* waits for just the step that puts it there.
IInv ==
    /\ Whole(node) /\ HeadFits(node)
    /\ Sound(Core(node)) /\ Counted(Core(node)) /\ node.count >= 1
    /\ next \in {"any", "insert", "shrink", "gone"}
    /\ next = "any" => node.count \in MinSize(node.type)..MaxSize(node.type)
    /\ next = "insert" => node.count = MinSize(node.type) - 1
    /\ next = "shrink" => node.type # "node_4" /\ node.count = MinSize(node.type) - 1

\* n2 is m under the head of n.
Carries(n2, m, n) == \E h : n2 = Headed(m, h) /\ HeadFits(h) /\ Head(h) = Head(n)

LEMMA Carried ==
    ASSUME NEW m, Sound(m), NEW n, NEW n2, Carries(n2, m, n)
    PROVE  /\ Core(n2) = m /\ Whole(n2) /\ HeadFits(n2)
           /\ n2.type = m.type /\ n2.count = m.count /\ Head(n2) = Head(n)
<1>1. PICK h : n2 = Headed(m, h) /\ HeadFits(h) /\ Head(h) = Head(n)
  BY DEF Carries
<1>2. m = Node(m.type, m.count, m.keys, m.index, m.slots)
  BY SoundFacts, ShapeFields
<1>3. /\ n2.type = m.type /\ n2.count = m.count /\ n2.keys = m.keys /\ n2.index = m.index
      /\ n2.slots = m.slots
      /\ n2.depth = h.depth /\ n2.plen = h.plen /\ n2.prefix = h.prefix
  BY <1>1 DEF Headed
<1>4. Core(n2) = m
  BY <1>2, <1>3 DEF Core
<1>5. Headed(m, n2) = Headed(m, h)
  BY <1>3 DEF Headed
<1>6. Whole(n2)
  BY <1>1, <1>4, <1>5 DEF Whole
<1>7. HeadFits(n2)
  BY <1>1, <1>3 DEF HeadFits, Branch
<1>8. Head(n2) = Head(h)
  BY <1>3 DEF Head
<1> QED
  BY <1>1, <1>3, <1>4, <1>6, <1>7, <1>8

LEMMA NodeIs ==
    ASSUME IInv
    PROVE  /\ Whole(node) /\ HeadFits(node) /\ Sound(Core(node)) /\ Counted(Core(node))
           /\ node.type \in InnerTypes /\ node.count \in Nat /\ node.count >= 1
           /\ node.count =< MaxSize(node.type)
           /\ \A m : node' = Headed(m, node) => Carries(node', m, node)
<1>1. /\ Whole(node) /\ HeadFits(node) /\ Sound(Core(node)) /\ Counted(Core(node))
      /\ node.count >= 1
  BY DEF IInv
<1>2. node.type \in InnerTypes /\ node.count \in Nat /\ node.count =< MaxSize(node.type)
  BY <1>1, SoundFacts, CoreFields
<1>3. \A m : node' = Headed(m, node) => Carries(node', m, node)
  BY <1>1 DEF Carries
<1> QED
  BY <1>1, <1>2, <1>3

\* The sound nodes without a head by the layout of the node.
LEMMA NodeKinds ==
    ASSUME IInv
    PROVE  /\ Sorted(node.type) => SortedNode(Core(node))
           /\ Indexed(node.type) => IndexedNode(Core(node))
           /\ Direct(node.type) => DirectNode(Core(node))
<1>1. Sound(Core(node)) /\ Core(node).type = node.type
  BY NodeIs, CoreFields
<1> QED
  BY <1>1, SoundKinds

\* An insertion into a node with a slot left.
LEMMA InsertDoes ==
    ASSUME IInv, NEW b \in Byte, NEW c \in Kids,
           InsertIntoSorted(b, c) \/ InsertIntoIndexed(b, c) \/ InsertIntoDirect(b, c)
    PROVE  /\ next \in {"any", "insert"} /\ next' = "any"
           /\ Find(Core(node), b) = Nil /\ node.count < MaxSize(node.type)
           /\ Carries(node', Insert(Core(node), b, c), node)
<1>1. Open(b) /\ next' = "any"
  BY DEF InsertIntoSorted, InsertIntoIndexed, InsertIntoDirect
<1>2. next \in {"any", "insert"} /\ Find(Core(node), b) = Nil
  BY <1>1, CoreReads DEF Open
<1>3. node' = Headed(Insert(Core(node), b, c), node)
  <2>1. CASE InsertIntoSorted(b, c)
    <3>1. Sorted(node.type) /\ node' = InsertSorted(node, b, c)
      BY <2>1 DEF InsertIntoSorted
    <3> QED
      BY <3>1, NodeIs, NodeKinds, HeadedInsert
  <2>2. CASE InsertIntoIndexed(b, c)
    <3>1. Indexed(node.type) /\ node' = InsertIndexed(node, b, c)
      BY <2>2 DEF InsertIntoIndexed
    <3> QED
      BY <3>1, NodeIs, NodeKinds, HeadedInsert
  <2>3. CASE InsertIntoDirect(b, c)
    <3>1. Direct(node.type) /\ node' = InsertDirect(node, b, c)
      BY <2>3 DEF InsertIntoDirect
    <3> QED
      BY <3>1, NodeIs, NodeKinds, HeadedInsert
  <2> QED
    BY <2>1, <2>2, <2>3
<1>4. node.count < MaxSize(node.type)
  <2>1. CASE InsertIntoSorted(b, c)
    BY <2>1 DEF InsertIntoSorted
  <2>2. CASE InsertIntoIndexed(b, c)
    BY <2>2, Capacities DEF InsertIntoIndexed, Indexed
  <2>3. CASE InsertIntoDirect(b, c)
    <3>1. node.type = "node_256" /\ node.count = Cardinality(Taken(Core(node)))
      BY <2>3, NodeIs, CoreFields DEF InsertIntoDirect, Direct, Counted
    <3>2. Taken(Core(node)) \in SUBSET Byte /\ Taken(Core(node)) # Byte
      BY <1>2 DEF Taken
    <3>3. IsFiniteSet(Byte) /\ Cardinality(Byte) = Cap256
      BY BytesAreNumbers, Capacities, FS_Interval
    <3>4. /\ Cardinality(Taken(Core(node))) =< Cardinality(Byte)
          /\ Cardinality(Taken(Core(node))) # Cardinality(Byte)
      BY <3>2, <3>3, FS_Subset
    <3> QED
      BY <3>1, <3>3, <3>4, NodeIs, Capacities
  <2> QED
    BY <2>1, <2>2, <2>3
<1> QED
  BY <1>1, <1>2, <1>3, <1>4, NodeIs

LEMMA EraseDoes ==
    ASSUME IInv, NEW b \in Byte,
           EraseFromSorted(b) \/ EraseFromIndexed(b) \/ EraseFromDirect(b)
    PROVE  /\ next = "any" /\ next' = AfterErase(node)
           /\ Find(Core(node), b) # Nil
           /\ Carries(node', Erase(Core(node), b), node)
<1>1. next = "any" /\ next' = AfterErase(node) /\ Find(Core(node), b) # Nil
  BY CoreReads DEF EraseFromSorted, EraseFromIndexed, EraseFromDirect
<1>2. node' = Headed(Erase(Core(node), b), node)
  <2>1. CASE EraseFromSorted(b)
    <3>1. Sorted(node.type) /\ node' = EraseSorted(node, b)
      BY <2>1 DEF EraseFromSorted
    <3> QED
      BY <1>1, <3>1, NodeIs, NodeKinds, HeadedErase
  <2>2. CASE EraseFromIndexed(b)
    <3>1. Indexed(node.type) /\ node' = EraseIndexed(node, b)
      BY <2>2 DEF EraseFromIndexed
    <3> QED
      BY <1>1, <3>1, NodeIs, NodeKinds, HeadedErase
  <2>3. CASE EraseFromDirect(b)
    <3>1. Direct(node.type) /\ node' = EraseDirect(node, b)
      BY <2>3 DEF EraseFromDirect
    <3> QED
      BY <1>1, <3>1, NodeIs, NodeKinds, HeadedErase
  <2> QED
    BY <2>1, <2>2, <2>3
<1> QED
  BY <1>1, <1>2, NodeIs

LEMMA UpdateDoes ==
    ASSUME IInv, NEW b \in Byte, NEW c \in Kids,
           UpdateInSorted(b, c) \/ UpdateInIndexed(b, c) \/ UpdateInDirect(b, c)
    PROVE  /\ next = "any" /\ next' = next
           /\ Find(Core(node), b) # Nil
           /\ Carries(node', Update(Core(node), b, c), node)
<1>1. next = "any" /\ next' = next /\ Find(Core(node), b) # Nil
  BY CoreReads DEF UpdateInSorted, UpdateInIndexed, UpdateInDirect
<1>2. node' = Headed(Update(Core(node), b, c), node)
  <2>1. CASE UpdateInSorted(b, c)
    <3>1. Sorted(node.type) /\ node' = UpdateSorted(node, b, c)
      BY <2>1 DEF UpdateInSorted
    <3> QED
      BY <1>1, <3>1, NodeIs, NodeKinds, HeadedUpdate
  <2>2. CASE UpdateInIndexed(b, c)
    <3>1. Indexed(node.type) /\ node' = UpdateIndexed(node, b, c)
      BY <2>2 DEF UpdateInIndexed
    <3> QED
      BY <1>1, <3>1, NodeIs, NodeKinds, HeadedUpdate
  <2>3. CASE UpdateInDirect(b, c)
    <3>1. Direct(node.type) /\ node' = UpdateDirect(node, b, c)
      BY <2>3 DEF UpdateInDirect
    <3> QED
      BY <1>1, <3>1, NodeIs, NodeKinds, HeadedUpdate
  <2> QED
    BY <2>1, <2>2, <2>3
<1> QED
  BY <1>1, <1>2, NodeIs

LEMMA GrowDoes ==
    ASSUME IInv, Grow
    PROVE  /\ next' = "insert"
           /\ \E m : /\ Carries(node', m, node) /\ Alike(m, node)
                     /\ m.count = MinSize(m.type) - 1
<1>1. /\ next' = "insert" /\ node.count = MaxSize(node.type) /\ node.type # "node_256"
      /\ node' = CASE node.type = "node_4"  -> Node16Of4(node)
                   [] node.type = "node_16" -> Node48Of16(node)
                   [] OTHER                 -> Node256Of48(node)
  BY DEF Grow, Growable
<1>2. node.type \in {"node_4", "node_16", "node_48"}
  BY <1>1, NodeIs DEF InnerTypes
<1>3. node' = Headed(GrownNode(Core(node)), node)
  <2>1. CASE node.type = "node_4"
    BY <1>1, <2>1, HeadedGrow
  <2>2. CASE node.type = "node_16"
    BY <1>1, <2>2, HeadedGrow
  <2>3. CASE node.type = "node_48"
    <3>1. IndexedNode(Core(node))
      BY <2>3, NodeKinds DEF Indexed
    <3> QED
      BY <1>1, <2>3, <3>1, HeadedGrow
  <2> QED
    BY <1>2, <2>1, <2>2, <2>3
<1>4. PICK m : m = GrownNode(Core(node))
  OBVIOUS
<1>5. /\ Sound(m) /\ m.type = Grown(node.type) /\ m.count = node.count
      /\ \A x \in Byte : Find(m, x) = Find(Core(node), x)
  BY <1>1, <1>4, NodeIs, GrowKeeps, CoreFields
<1>6. m.count = MinSize(m.type) - 1
  BY <1>1, <1>5, NodeIs, Sizes
<1> QED
  BY <1>1, <1>3, <1>4, <1>5, <1>6, NodeIs DEF Alike

LEMMA ShrinkDoes ==
    ASSUME IInv, Shrink
    PROVE  /\ next' = "any"
           /\ \E m : /\ Carries(node', m, node) /\ Alike(m, node)
                     /\ m.count = MaxSize(m.type) /\ m.type \in InnerTypes
<1>1. /\ next = "shrink" /\ next' = "any"
      /\ node' = CASE node.type = "node_16" -> Node4Of16(node)
                   [] node.type = "node_48" -> Node16Of48(node)
                   [] OTHER                 -> Node48Of256(node)
  BY DEF Shrink
<1>2. node.type # "node_4" /\ node.count = MinSize(node.type) - 1
  BY <1>1 DEF IInv
<1>3. node.type \in {"node_16", "node_48", "node_256"}
  BY <1>2, NodeIs DEF InnerTypes
<1>4. node.count = MaxSize(Shrunk(node.type)) /\ Shrunk(node.type) \in InnerTypes
  BY <1>2, <1>3, NodeIs, Sizes
<1>5. \E m : node' = Headed(m, node) /\ Alike(m, node) /\ m.type = Shrunk(node.type)
  <2>1. CASE node.type = "node_16"
    <3>1. SortedNode(Core(node)) /\ node.count = Cap4 /\ Shrunk(node.type) = "node_4"
      BY <1>4, <2>1, NodeKinds, Capacities DEF Sorted, Shrunk
    <3> QED
      BY <1>1, <2>1, <3>1, HeadedShrink16
  <2>2. CASE node.type = "node_48"
    <3>1. IndexedNode(Core(node)) /\ node.count = Cap16 /\ Shrunk(node.type) = "node_16"
      BY <1>4, <2>2, NodeKinds, Capacities DEF Indexed, Shrunk
    <3> QED
      BY <1>1, <2>2, <3>1, NodeIs, HeadedShrink48
  <2>3. CASE node.type = "node_256"
    <3>1. DirectNode(Core(node)) /\ node.count = Cap48 /\ Shrunk(node.type) = "node_48"
      BY <1>4, <2>3, NodeKinds, Capacities DEF Direct, Shrunk
    <3> QED
      BY <1>1, <2>3, <3>1, NodeIs, HeadedShrink256
  <2> QED
    BY <1>3, <2>1, <2>2, <2>3
<1>6. PICK m : node' = Headed(m, node) /\ Alike(m, node) /\ m.type = Shrunk(node.type)
  BY <1>5
<1>7. m.count = MaxSize(m.type) /\ m.type \in InnerTypes
  BY <1>4, <1>6 DEF Alike
<1> QED
  BY <1>1, <1>6, <1>7, NodeIs

LEMMA CopyDoes ==
    ASSUME CopyAnyNode48 = FALSE, IInv, CopyNode
    PROVE  /\ next = "any" /\ next' = "any"
           /\ \E m : Carries(node', m, node) /\ Alike(m, node) /\ m.type = node.type
<1>1. /\ next = "any" /\ next' = "any"
      /\ Indexed(node.type) => IndexIsByte(node) /\ node.plen = 0
      /\ node' = CASE node.type = "node_4"  -> Copy4(node)
                   [] node.type = "node_16" -> Copy16(node)
                   [] node.type = "node_48" -> Copy48(node)
                   [] OTHER                 -> Copy256(node)
  BY DEF CopyNode
<1>2. node.type \in {"node_4", "node_16", "node_48", "node_256"}
  BY NodeIs DEF InnerTypes
<1>3. Alike(Core(node), node) /\ Core(node).type = node.type
  BY NodeIs, CoreFields DEF Alike
<1>4. \E m : Carries(node', m, node) /\ Alike(m, node) /\ m.type = node.type
  <2>1. CASE node.type = "node_4"
    <3>1. SortedNode(Core(node)) /\ Whole(node)
      BY <2>1, NodeKinds, NodeIs DEF Sorted
    <3>2. PICK m : Copy4(node) = Headed(m, node) /\ Alike(m, node) /\ m.type = node.type
      BY <2>1, <3>1, HeadedCopySorted
    <3> QED
      BY <1>1, <2>1, <3>2, NodeIs
  <2>2. CASE node.type = "node_16"
    <3>1. SortedNode(Core(node)) /\ Whole(node)
      BY <2>2, NodeKinds, NodeIs DEF Sorted
    <3>2. PICK m : Copy16(node) = Headed(m, node) /\ Alike(m, node) /\ m.type = node.type
      BY <2>2, <3>1, HeadedCopySorted
    <3> QED
      BY <1>1, <2>2, <3>2, NodeIs
  <2>3. CASE node.type = "node_48"
    <3>1. IndexedNode(Core(node)) /\ IndexIsByte(node) /\ node.plen = 0
      BY <1>1, <2>3, NodeKinds DEF Indexed
    <3>2. node' = Headed(Core(node), Bare(node.depth))
      BY <1>1, <2>3, <3>1, HeadedCopy48
    <3>3. /\ Bare(node.depth).depth = node.depth /\ Bare(node.depth).plen = 0
          /\ Bare(node.depth).prefix = NoPrefix
      BY DEF Bare
    <3>4. node.depth \in Chunks /\ 0 \in Chunks /\ node.depth + 0 \in Chunks
      <4>1. HeadFits(node) /\ KeyLen \in Nat \ {0}
        BY NodeIs, KeyAssumption
      <4>2. node.depth \in Chunks
        BY <4>1 DEF HeadFits, HeadShape
      <4> QED
        BY <4>1, <4>2 DEF Chunks
    <3>5. NoPrefix \in [PrefixSlots -> Byte]
      BY ZeroIsByte DEF NoPrefix
    <3>6. HeadFits(Bare(node.depth))
      BY <3>3, <3>4, <3>5 DEF HeadFits, HeadShape, Branch
    <3>7. 0..(Min({0, MaxPrefix}) - 1) = {}
      <4>1. MaxPrefix \in Nat /\ {0, MaxPrefix} \in SUBSET Nat
        BY KeyAssumption
      <4>2. Min({0, MaxPrefix}) = 0
        BY <4>1, LeastIs
      <4> QED
        BY <4>2
    <3>8. Head(Bare(node.depth)) = Head(node)
      BY <3>1, <3>3, <3>7 DEF Head
    <3> QED
      BY <1>3, <3>2, <3>6, <3>8 DEF Carries
  <2>4. CASE node.type = "node_256"
    <3>1. node' = Headed(Core(node), node)
      BY <1>1, <2>4, NodeIs DEF Copy256, Whole
    <3> QED
      BY <1>3, <3>1, NodeIs
  <2> QED
    BY <1>2, <2>1, <2>2, <2>3, <2>4
<1> QED
  BY <1>1, <1>4

LEMMA InitIsWhole ==
    ASSUME Init
    PROVE  IInv /\ Children!Init
<1>1. PICK b \in Byte, c \in Kids, h \in Heads : node = Headed(NewNode4(b, c), h)
  BY DEF Init
<1>2. PICK m : m = NewNode4(b, c)
  OBVIOUS
<1>3. /\ Sound(m) /\ m.type = "node_4" /\ m.count = 1
      /\ \A x \in Byte : Find(m, x) = IF x = b THEN c ELSE Nil
  BY <1>2, NewNodeIs, SoundKinds
<1>4. HeadFits(h)
  <2>1. h \in HeadShape /\ h.depth + h.plen \in Chunks
    BY HeadsAssumption
  <2>2. h = [depth |-> h.depth, plen |-> h.plen, prefix |-> h.prefix]
    BY <2>1 DEF HeadShape
  <2> QED
    BY <2>1, <2>2 DEF HeadFits, Branch
<1>5. Carries(node, m, h)
  BY <1>1, <1>2, <1>4 DEF Carries
<1>6. Core(node) = m /\ Whole(node) /\ HeadFits(node) /\ node.type = "node_4" /\ node.count = 1
  BY <1>3, <1>5, Carried
<1>7. Taken(m) = {b}
  BY <1>3, NilAssumption DEF Taken
<1>8. Counted(m)
  BY <1>3, <1>7, FS_Singleton DEF Counted
<1>9. next = "insert" /\ MinSize("node_4") = 2
  BY DEF Init, MinSize
<1>10. IInv
  BY <1>3, <1>6, <1>8, <1>9 DEF IInv
<1>11. Represents(m) = [x \in {b} |-> c]
  BY <1>3, <1>7 DEF Represents
<1>12. Represents(node) = [x \in {b} |-> c]
  BY <1>6, <1>11, CoreReads
<1> QED
  BY <1>10, <1>12 DEF Children!Init

\* A step that leaves a sound node under the head keeps the invariant if the
\* count is the one the next step expects.
LEMMA CarriedKeeps ==
    ASSUME IInv, NEW m, Sound(m), Counted(m), Carries(node', m, node), m.count >= 1,
           next' \in {"any", "insert", "shrink", "gone"},
           next' = "any" => m.count \in MinSize(m.type)..MaxSize(m.type),
           next' = "insert" => m.count = MinSize(m.type) - 1,
           next' = "shrink" => m.type # "node_4" /\ m.count = MinSize(m.type) - 1
    PROVE  IInv'
<1>1. /\ Core(node') = m /\ Whole(node') /\ HeadFits(node')
      /\ node'.type = m.type /\ node'.count = m.count
  BY Carried
<1>2. Sound(Core(node')) /\ Counted(Core(node')) /\ node'.count >= 1
  BY <1>1
<1>3. /\ next' = "any" => node'.count \in MinSize(node'.type)..MaxSize(node'.type)
      /\ next' = "insert" => node'.count = MinSize(node'.type) - 1
      /\ next' = "shrink" => node'.type # "node_4" /\ node'.count = MinSize(node'.type) - 1
  BY <1>1
<1> QED
  BY <1>1, <1>2, <1>3 DEF IInv

LEMMA AlikeIsCounted ==
    ASSUME IInv, NEW m, Alike(m, node)
    PROVE  /\ Sound(m) /\ Counted(m) /\ m.count = node.count
           /\ Represents(m) = Represents(node)
<1>1. /\ Sound(m) /\ m.count = node.count
      /\ \A x \in Byte : Find(m, x) = Find(Core(node), x)
  BY DEF Alike
<1>2. Taken(m) = Taken(Core(node)) /\ Represents(m) = Represents(Core(node))
  BY <1>1, SameTaken
<1>3. node.count = Cardinality(Taken(Core(node)))
  BY NodeIs, CoreFields DEF Counted
<1> QED
  BY <1>1, <1>2, <1>3, CoreReads DEF Counted

\* What a step of the tree does to the node.
LEMMA InsertStep ==
    ASSUME IInv, NEW b \in Byte, NEW c \in Kids,
           InsertIntoSorted(b, c) \/ InsertIntoIndexed(b, c) \/ InsertIntoDirect(b, c)
    PROVE  IInv' /\ Kept /\ Children!Put(b, c)
<1>1. PICK m : m = Insert(Core(node), b, c)
  OBVIOUS
<1>2. /\ next \in {"any", "insert"} /\ next' = "any"
      /\ Find(Core(node), b) = Nil /\ node.count < MaxSize(node.type)
      /\ Carries(node', m, node)
  BY <1>1, InsertDoes
<1>3. /\ Sound(m) /\ Counted(m) /\ m.type = node.type /\ m.count = node.count + 1
      /\ \A x \in Byte : Find(m, x) = IF x = b THEN c ELSE Find(Core(node), x)
  BY <1>1, <1>2, NodeIs, InsertKeeps, CoreFields
<1>4. /\ MinSize(node.type) \in Nat /\ MaxSize(node.type) \in Nat /\ node.count \in Nat
      /\ node.count >= MinSize(node.type) - 1
  <2>1. MinSize(node.type) \in Nat /\ MaxSize(node.type) \in Nat /\ node.count \in Nat
    BY NodeIs, Sizes
  <2>2. CASE next = "any"
    BY <2>1, <2>2 DEF IInv
  <2>3. CASE next = "insert"
    BY <2>1, <2>3 DEF IInv
  <2> QED
    BY <1>2, <2>1, <2>2, <2>3
<1>5. m.count \in MinSize(m.type)..MaxSize(m.type) /\ m.count >= 1
  BY <1>2, <1>3, <1>4
<1>6. IInv'
  BY <1>2, <1>3, <1>5, CarriedKeeps
<1>7. Core(node') = m /\ Head(node') = Head(node)
  BY <1>2, <1>3, Carried
<1>8. \A x \in Byte : Find(node', x) = IF x = b THEN c ELSE Find(node, x)
  BY <1>3, <1>7, CoreReads
<1>9. Find(node, b) = Nil
  BY <1>2, CoreReads
<1>10. Taken(node') = Taken(node) \cup {b} /\ b \notin Taken(node) /\ Taken(node) \in SUBSET Byte
  BY <1>8, <1>9, NilAssumption DEF Taken
<1>11. DOMAIN Represents(node) = Taken(node)
       /\ \A x \in Taken(node) : Represents(node)[x] = Find(node, x)
  BY DEF Represents
<1>12. Represents(node') = [x \in Taken(node) \cup {b} |-> Find(node', x)]
  BY <1>10 DEF Represents
<1>13. Represents(node')
        = [x \in DOMAIN Represents(node) \cup {b} |-> IF x = b THEN c ELSE Represents(node)[x]]
  BY <1>8, <1>10, <1>11, <1>12
<1>14. Children!Put(b, c)
  BY <1>10, <1>11, <1>13 DEF Children!Put
<1> QED
  BY <1>6, <1>7, <1>14 DEF Kept

LEMMA UpdateStep ==
    ASSUME IInv, NEW b \in Byte, NEW c \in Kids,
           UpdateInSorted(b, c) \/ UpdateInIndexed(b, c) \/ UpdateInDirect(b, c)
    PROVE  IInv' /\ Kept /\ Children!Redirect(b, c)
<1>1. PICK m : m = Update(Core(node), b, c)
  OBVIOUS
<1>2. /\ next = "any" /\ next' = "any"
      /\ Find(Core(node), b) # Nil /\ Carries(node', m, node)
  BY <1>1, UpdateDoes
<1>3. /\ Sound(m) /\ Counted(m) /\ m.type = node.type /\ m.count = node.count
      /\ \A x \in Byte : Find(m, x) = IF x = b THEN c ELSE Find(Core(node), x)
  BY <1>1, <1>2, NodeIs, UpdateKeeps, CoreFields
<1>4. m.count \in MinSize(m.type)..MaxSize(m.type) /\ m.count >= 1
  BY <1>2, <1>3 DEF IInv
<1>5. IInv'
  BY <1>2, <1>3, <1>4, CarriedKeeps
<1>6. Core(node') = m /\ Head(node') = Head(node)
  BY <1>2, <1>3, Carried
<1>7. \A x \in Byte : Find(node', x) = IF x = b THEN c ELSE Find(node, x)
  BY <1>3, <1>6, CoreReads
<1>8. Find(node, b) # Nil
  BY <1>2, CoreReads
<1>9. Taken(node') = Taken(node) /\ b \in Taken(node) /\ Taken(node) \in SUBSET Byte
  BY <1>7, <1>8, NilAssumption DEF Taken
<1>10. Represents(node) = [x \in Taken(node) |-> Find(node, x)]
  BY DEF Represents
<1>11. Represents(node') = [x \in Taken(node) |-> Find(node', x)]
  BY <1>9 DEF Represents
<1>12. Represents(node') = [Represents(node) EXCEPT ![b] = c]
  BY <1>7, <1>9, <1>10, <1>11
<1>13. DOMAIN Represents(node) = Taken(node)
  BY <1>10
<1>14. Children!Redirect(b, c)
  BY <1>9, <1>12, <1>13 DEF Children!Redirect
<1> QED
  BY <1>5, <1>6, <1>14 DEF Kept

LEMMA EraseStep ==
    ASSUME IInv, NEW b \in Byte,
           EraseFromSorted(b) \/ EraseFromIndexed(b) \/ EraseFromDirect(b)
    PROVE  IInv' /\ Kept /\ Children!Remove(b)
<1>1. PICK m : m = Erase(Core(node), b)
  OBVIOUS
<1>2. /\ next = "any" /\ next' = AfterErase(node)
      /\ Find(Core(node), b) # Nil /\ Carries(node', m, node)
  BY <1>1, EraseDoes
<1>3. /\ Sound(m) /\ Counted(m) /\ m.type = node.type /\ m.count = node.count - 1
      /\ \A x \in Byte : Find(m, x) = IF x = b THEN Nil ELSE Find(Core(node), x)
  BY <1>1, <1>2, NodeIs, EraseKeeps, CoreFields
<1>4. /\ MinSize(node.type) \in Nat /\ MaxSize(node.type) \in Nat /\ 2 =< MinSize(node.type)
      /\ node.count \in MinSize(node.type)..MaxSize(node.type)
  BY <1>2, NodeIs, Sizes DEF IInv
<1>5. m.count >= 1
  BY <1>3, <1>4
<1>6. ASSUME node.count - 1 >= MinSize(node.type)  PROVE IInv'
  <2>1. next' = "any" /\ m.count \in MinSize(m.type)..MaxSize(m.type)
    BY <1>2, <1>3, <1>4, <1>6 DEF AfterErase
  <2>2. next' \in {"any", "insert", "shrink", "gone"} /\ next' # "insert" /\ next' # "shrink"
    BY <2>1
  <2>4. /\ next' = "any" => m.count \in MinSize(m.type)..MaxSize(m.type)
        /\ next' = "insert" => m.count = MinSize(m.type) - 1
        /\ next' = "shrink" => m.type # "node_4" /\ m.count = MinSize(m.type) - 1
        /\ next' \in {"any", "insert", "shrink", "gone"}
    BY <2>1, <2>2
  <2>5. Sound(m) /\ Counted(m) /\ Carries(node', m, node) /\ m.count >= 1
    BY <1>2, <1>3, <1>5
  <2> QED
    BY <2>4, <2>5, CarriedKeeps
<1>7. ASSUME node.count - 1 < MinSize(node.type)  PROVE IInv'
  <2>1. m.count = MinSize(m.type) - 1
    BY <1>3, <1>4, <1>7
  <2>2. next' = IF node.type = "node_4" THEN "gone" ELSE "shrink"
    BY <1>2, <1>4, <1>7 DEF AfterErase
  <2>3. /\ next' \in {"any", "insert", "shrink", "gone"} /\ next' # "insert" /\ next' # "any"
        /\ next' = "shrink" => m.type # "node_4"
    BY <1>3, <2>2
  <2>4. /\ next' = "any" => m.count \in MinSize(m.type)..MaxSize(m.type)
        /\ next' = "insert" => m.count = MinSize(m.type) - 1
        /\ next' = "shrink" => m.type # "node_4" /\ m.count = MinSize(m.type) - 1
        /\ next' \in {"any", "insert", "shrink", "gone"}
    BY <2>1, <2>3
  <2>5. Sound(m) /\ Counted(m) /\ Carries(node', m, node) /\ m.count >= 1
    BY <1>2, <1>3, <1>5
  <2> QED
    BY <2>4, <2>5, CarriedKeeps
<1>8. IInv'
  BY <1>4, <1>6, <1>7
<1>9. Core(node') = m /\ Head(node') = Head(node)
  BY <1>2, <1>3, Carried
<1>10. \A x \in Byte : Find(node', x) = IF x = b THEN Nil ELSE Find(node, x)
  BY <1>3, <1>9, CoreReads
<1>11. Find(node, b) # Nil
  BY <1>2, CoreReads
<1>12. Taken(node') = Taken(node) \ {b} /\ b \in Taken(node) /\ Taken(node) \in SUBSET Byte
  BY <1>10, <1>11 DEF Taken
<1>13. DOMAIN Represents(node) = Taken(node)
       /\ \A x \in Taken(node) : Represents(node)[x] = Find(node, x)
  BY DEF Represents
<1>14. Represents(node') = [x \in Taken(node) \ {b} |-> Find(node', x)]
  BY <1>12 DEF Represents
<1>15. Represents(node') = [x \in DOMAIN Represents(node) \ {b} |-> Represents(node)[x]]
  BY <1>10, <1>12, <1>13, <1>14
<1>16. Children!Remove(b)
  BY <1>12, <1>13, <1>15 DEF Children!Remove
<1> QED
  BY <1>8, <1>9, <1>16 DEF Kept

LEMMA RebuildStep ==
    ASSUME CopyAnyNode48 = FALSE, IInv, Grow \/ Shrink \/ CopyNode
    PROVE  IInv' /\ Kept /\ Represents(node') = Represents(node)
<1>1. \E m : /\ Carries(node', m, node) /\ Alike(m, node)
            /\ \/ next' = "any" /\ m.count \in MinSize(m.type)..MaxSize(m.type)
               \/ next' = "insert" /\ m.count = MinSize(m.type) - 1
  <2>1. CASE Grow
    BY <2>1, GrowDoes
  <2>2. CASE Shrink
    <3>1. PICK m : /\ Carries(node', m, node) /\ Alike(m, node)
                   /\ m.count = MaxSize(m.type) /\ m.type \in InnerTypes
      BY <2>2, ShrinkDoes
    <3>2. m.count \in MinSize(m.type)..MaxSize(m.type)
      BY <3>1, Sizes
    <3> QED
      BY <2>2, <3>1, <3>2, ShrinkDoes
  <2>3. CASE CopyNode
    <3>1. PICK m : Carries(node', m, node) /\ Alike(m, node) /\ m.type = node.type
      BY <2>3, CopyDoes
    <3>2. next = "any" /\ next' = "any"
      BY <2>3, CopyDoes
    <3>3. m.count = node.count
      BY <3>1 DEF Alike
    <3>4. m.count \in MinSize(m.type)..MaxSize(m.type)
      BY <3>1, <3>2, <3>3 DEF IInv
    <3> QED
      BY <3>1, <3>2, <3>4
  <2> QED
    BY <2>1, <2>2, <2>3
<1>2. PICK m : /\ Carries(node', m, node) /\ Alike(m, node)
               /\ \/ next' = "any" /\ m.count \in MinSize(m.type)..MaxSize(m.type)
                  \/ next' = "insert" /\ m.count = MinSize(m.type) - 1
  BY <1>1
<1>3. /\ Sound(m) /\ Counted(m) /\ m.count = node.count /\ m.count >= 1
      /\ Represents(m) = Represents(node)
  BY <1>2, AlikeIsCounted, NodeIs
<1>4. IInv'
  BY <1>2, <1>3, CarriedKeeps
<1>5. Core(node') = m /\ Head(node') = Head(node)
  BY <1>2, <1>3, Carried
<1>6. Represents(node') = Represents(node)
  BY <1>3, <1>5, CoreReads
<1> QED
  BY <1>4, <1>5, <1>6 DEF Kept

LEMMA StepKeeps ==
    ASSUME CopyAnyNode48 = FALSE, IInv, [Next]_vars
    PROVE  IInv' /\ [Kept]_vars
<1>1. CASE \E b \in Byte, c \in Kids :
             InsertIntoSorted(b, c) \/ InsertIntoIndexed(b, c) \/ InsertIntoDirect(b, c)
  BY <1>1, InsertStep
<1>2. CASE \E b \in Byte, c \in Kids :
             UpdateInSorted(b, c) \/ UpdateInIndexed(b, c) \/ UpdateInDirect(b, c)
  BY <1>2, UpdateStep
<1>3. CASE \E b \in Byte :
             EraseFromSorted(b) \/ EraseFromIndexed(b) \/ EraseFromDirect(b)
  BY <1>3, EraseStep
<1>4. CASE Grow \/ Shrink \/ CopyNode
  BY <1>4, RebuildStep
<1>5. CASE UNCHANGED vars
  BY <1>5 DEF vars, IInv
<1> QED
  BY <1>1, <1>2, <1>3, <1>4, <1>5 DEF Next

\* The arrays of a node are in order, its head fits, and its count is the one
\* its next step was written for.
THEOREM PrefixedLayoutHolds ==
    ASSUME CopyAnyNode48 = FALSE
    PROVE  Spec => []IInv
<1>1. Init => IInv
  BY InitIsWhole
<1>2. IInv /\ [Next]_vars => IInv'
  BY StepKeeps
<1> QED
  BY <1>1, <1>2, PTL DEF Spec

LEMMA IInvTypes ==
    ASSUME IInv
    PROVE  TypeOK /\ CountExact
<1>1. Core(node) \in NodeShape(node.type) /\ node.type \in InnerTypes
  BY NodeIs, SoundFacts, CoreFields
<1>2. [depth |-> node.depth, plen |-> node.plen, prefix |-> node.prefix] \in HeadShape
      /\ Branch(node) \in Chunks
  BY NodeIs DEF HeadFits
<1>3. TypeOK
  BY <1>1, <1>2 DEF TypeOK, Core, IInv
<1>4. node.count = Cardinality(Taken(node))
  BY NodeIs, CoreFields, CoreReads DEF Counted
<1>5. CountExact
  BY <1>4 DEF CountExact, IInv
<1> QED
  BY <1>3, <1>5

\* The node keeps the arrays of its layout, and a head inside the key.
THEOREM TypeHolds ==
    ASSUME CopyAnyNode48 = FALSE
    PROVE  Spec => []TypeOK
<1>1. IInv => TypeOK
  BY IInvTypes
<1> QED
  BY <1>1, PrefixedLayoutHolds, PTL

\* The count that no constructor counts is the number of children, and between
\* calls within the bounds of the layout.
THEOREM CountStaysExact ==
    ASSUME CopyAnyNode48 = FALSE
    PROVE  Spec => []CountExact
<1>1. IInv => CountExact
  BY IInvTypes
<1> QED
  BY <1>1, PrefixedLayoutHolds, PTL

\* No method and no constructor loses the depth, the length of the prefix or a
\* byte that is kept of it.
THEOREM HeadIsCarried ==
    ASSUME CopyAnyNode48 = FALSE
    PROVE  Spec => HeadStays
<1>1. IInv /\ [Next]_vars => [Kept]_vars
  BY StepKeeps
<1> QED
  BY <1>1, PrefixedLayoutHolds, PTL DEF Spec, HeadStays

\* An operation does to the children what the same operation does to a map,
\* and a change of layout or a copy does nothing to them.
THEOREM ImplementsMapOfChildren ==
    ASSUME CopyAnyNode48 = FALSE
    PROVE  Spec => ImplementsChildMap
<1>1. Init => Children!Init
  BY InitIsWhole
<1>2. IInv /\ [Next]_vars => [StepsLikeChildMap]_vars
  <2>1. SUFFICES ASSUME IInv  PROVE StepsLikeChildMap
    OBVIOUS
  <2>2. ASSUME NEW b \in Byte, NEW c \in Kids,
               InsertIntoSorted(b, c) \/ InsertIntoIndexed(b, c) \/ InsertIntoDirect(b, c)
        PROVE  Children!Put(b, c)
    BY <2>1, <2>2, InsertStep
  <2>3. ASSUME NEW b \in Byte, NEW c \in Kids,
               UpdateInSorted(b, c) \/ UpdateInIndexed(b, c) \/ UpdateInDirect(b, c)
        PROVE  Children!Redirect(b, c)
    BY <2>1, <2>3, UpdateStep
  <2>4. ASSUME NEW b \in Byte,
               EraseFromSorted(b) \/ EraseFromIndexed(b) \/ EraseFromDirect(b)
        PROVE  Children!Remove(b)
    BY <2>1, <2>4, EraseStep
  <2>5. ASSUME Grow \/ Shrink \/ CopyNode  PROVE UNCHANGED Represents(node)
    BY <2>1, <2>5, RebuildStep
  <2> QED
    BY <2>2, <2>3, <2>4, <2>5 DEF StepsLikeChildMap
<1> QED
  BY <1>1, <1>2, PrefixedLayoutHolds, PTL DEF Spec, ImplementsChildMap

-----------------------------------------------------------------------------
(* minimum(), maximum(), successor() and predecessor() under a head.       *)

LEMMA SortedAnswers ==
    ASSUME NEW n, SortedNode(Core(n))
    PROVE  /\ MinimumSorted(n) = First(Core(n)) /\ MaximumSorted(n) = Last(Core(n))
           /\ \A k : SuccessorSorted(n, k) = After(Core(n), k[Branch(n)])
           /\ \A k : k[Branch(n)] \in Byte
                        => PredecessorSorted(n, k) = Before(Core(n), k[Branch(n)])
<1>1. Sorted(Core(n).type)
  BY DEF SortedNode
<1>2. MinimumSorted(n) = First(Core(n)) /\ MaximumSorted(n) = Last(Core(n))
  BY <1>1, CoreFields DEF MinimumSorted, MaximumSorted, First, Last
<1>3. ASSUME NEW k  PROVE SuccessorSorted(n, k) = After(Core(n), k[Branch(n)])
  BY <1>1, CoreFields, CoreReads DEF SuccessorSorted, After
<1>4. ASSUME NEW k, k[Branch(n)] \in Byte
      PROVE  PredecessorSorted(n, k) = Before(Core(n), k[Branch(n)])
  <2>1. PICK x : x = k[Branch(n)]
    OBVIOUS
  <2>2. PICK c \in Nat : c = n.count
    BY SortedFacts, CoreFields
  <2>3. PICK S : S = {p \in 0..(c - 1) : n.keys[p] < x}
    OBVIOUS
  <2>4. PICK Q : Q = {q \in -1..(c - 1) : q = -1 \/ n.keys[q] < x}
    OBVIOUS
  <2>5. PredecessorSorted(n, k) = IF S = {} THEN Nil ELSE n.slots[Max(S)]
    BY <2>1, <2>2, <2>3 DEF PredecessorSorted
  <2>6. Before(Core(n), x) = IF Max(Q) >= 0 THEN n.slots[Max(Q)] ELSE Nil
    BY <1>1, <2>2, <2>4, CoreFields DEF Before
  <2>7. Q = S \cup {-1} /\ S \in SUBSET (0..c) /\ Q \in SUBSET Int
    BY <2>2, <2>3, <2>4
  <2>8. CASE S = {}
    <3>1. Q = {-1}
      BY <2>7, <2>8
    <3>2. Max(Q) = -1
      BY <3>1, GreatestIs
    <3> QED
      BY <2>1, <2>5, <2>6, <2>8, <3>2
  <2>9. CASE S # {}
    <3>1. Max(S) \in S /\ \A y \in S : y =< Max(S)
      BY <2>2, <2>7, <2>9, MaxOfBytes
    <3>2. PICK m \in 0..c : m = Max(S)
      BY <2>7, <3>1
    <3>3. m \in Q /\ \A y \in Q : y =< m
      BY <2>7, <3>1, <3>2
    <3>4. Max(Q) = m
      BY <2>7, <3>3, GreatestIs
    <3> QED
      BY <2>1, <2>5, <2>6, <2>9, <3>2, <3>4
  <2> QED
    BY <2>8, <2>9
<1> QED
  BY <1>2, <1>3, <1>4

\* The bytes the loops of a wide node run over, beyond the one they start at.
LEMMA BytesBeyond ==
    ASSUME NEW n, NEW x \in Byte
    PROVE  /\ {c \in InUse(n) : c > x} = {c \in (x + 1)..MaxByte : c \in InUse(n)}
           /\ {c \in InUse(n) : c < x} = {c \in 0..(x - 1) : c \in InUse(n)}
<1>1. x \in Nat /\ x =< MaxByte /\ MaxByte \in Nat /\ Byte = 0..MaxByte
  BY BytesAreNumbers, Capacities
<1>2. \A c \in InUse(n) : c \in Byte
  BY DEF InUse
<1>3. \A c : c \in Byte /\ c > x <=> c \in (x + 1)..MaxByte
  BY <1>1
<1>4. \A c : c \in Byte /\ c < x <=> c \in 0..(x - 1)
  BY <1>1
<1> QED
  BY <1>2, <1>3, <1>4

LEMMA WideAnswers ==
    ASSUME NEW n, ~ Sorted(n.type), NEW k, NEW x \in Byte, x = k[Branch(n)]
    PROVE  /\ Indexed(n.type) =>
                /\ MinimumIndexed(n) = First(Core(n)) /\ MaximumIndexed(n) = Last(Core(n))
                /\ SuccessorIndexed(n, k) = After(Core(n), x)
                /\ PredecessorIndexed(n, k) = Before(Core(n), x)
           /\ ~ Indexed(n.type) =>
                /\ MinimumDirect(n) = First(Core(n)) /\ MaximumDirect(n) = Last(Core(n))
                /\ SuccessorDirect(n, k) = After(Core(n), x)
                /\ PredecessorDirect(n, k) = Before(Core(n), x)
<1>1. /\ ~ Sorted(Core(n).type) /\ InUse(Core(n)) = InUse(n)
      /\ \A b : ChildAt(Core(n), b) = ChildAt(n, b)
  BY CoreFields, CoreReads
<1>2. PICK A, B : /\ A = {c \in InUse(n) : c > x} /\ B = {c \in InUse(n) : c < x}
  OBVIOUS
<1>3. /\ A = {c \in (x + 1)..MaxByte : c \in InUse(n)}
      /\ B = {c \in 0..(x - 1) : c \in InUse(n)}
  BY <1>2, BytesBeyond
<1>4. \A c \in (x + 1)..MaxByte : c \in Byte
  BY BytesAreNumbers, Capacities
<1>5. \A c \in 0..(x - 1) : c \in Byte
  BY BytesAreNumbers, Capacities
<1>6. /\ First(Core(n)) = ChildAt(n, Min(InUse(n)))
      /\ Last(Core(n)) = ChildAt(n, Max(InUse(n)))
      /\ After(Core(n), x) = IF A = {} THEN Nil ELSE ChildAt(n, Min(A))
      /\ Before(Core(n), x) = IF B = {} THEN Nil ELSE ChildAt(n, Max(B))
  BY <1>1, <1>2 DEF First, Last, After, Before
<1>7. ASSUME Indexed(n.type)
      PROVE  /\ MinimumIndexed(n) = First(Core(n)) /\ MaximumIndexed(n) = Last(Core(n))
             /\ SuccessorIndexed(n, k) = After(Core(n), x)
             /\ PredecessorIndexed(n, k) = Before(Core(n), x)
  <2>1. /\ \A c \in Byte : c \in InUse(n) <=> n.index[c] # EmptyMarker
        /\ \A c : ChildAt(n, c) = n.slots[n.index[c]]
    BY <1>7 DEF InUse, ChildAt
  <2>2. /\ {c \in (x + 1)..MaxByte : n.index[c] # EmptyMarker} = A
        /\ {c \in 0..(x - 1) : n.index[c] # EmptyMarker} = B
    BY <1>3, <1>4, <1>5, <2>1
  <2>3. SuccessorIndexed(n, k) = IF A = {} THEN Nil ELSE n.slots[n.index[Min(A)]]
    BY <2>2 DEF SuccessorIndexed
  <2>4. PredecessorIndexed(n, k) = IF B = {} THEN Nil ELSE n.slots[n.index[Max(B)]]
    BY <2>2 DEF PredecessorIndexed
  <2> QED
    BY <1>6, <2>1, <2>3, <2>4 DEF MinimumIndexed, MaximumIndexed
<1>8. ASSUME ~ Indexed(n.type)
      PROVE  /\ MinimumDirect(n) = First(Core(n)) /\ MaximumDirect(n) = Last(Core(n))
             /\ SuccessorDirect(n, k) = After(Core(n), x)
             /\ PredecessorDirect(n, k) = Before(Core(n), x)
  <2>1. /\ \A c \in Byte : c \in InUse(n) <=> n.slots[c] # Nil
        /\ \A c : ChildAt(n, c) = n.slots[c]
    BY <1>8 DEF InUse, ChildAt
  <2>2. /\ {c \in (x + 1)..MaxByte : n.slots[c] # Nil} = A
        /\ {c \in 0..(x - 1) : n.slots[c] # Nil} = B
    BY <1>3, <1>4, <1>5, <2>1
  <2>3. SuccessorDirect(n, k) = IF A = {} THEN Nil ELSE n.slots[Min(A)]
    BY <2>2 DEF SuccessorDirect
  <2>4. PredecessorDirect(n, k) = IF B = {} THEN Nil ELSE n.slots[Max(B)]
    BY <2>2 DEF PredecessorDirect
  <2> QED
    BY <1>6, <2>1, <2>3, <2>4 DEF MinimumDirect, MaximumDirect
<1> QED
  BY <1>7, <1>8

\* What an answer under a head is compared with, in terms of the bare node.
LEMMA AnswersAre ==
    ASSUME NEW n, ScansRight(Core(n)), NEW x \in Byte
    PROVE  LET T == Taken(n)
               more == {c \in T : c > x}
               less == {c \in T : c < x}
           IN  /\ First(Core(n)) = Find(n, Min(T)) /\ Last(Core(n)) = Find(n, Max(T))
               /\ After(Core(n), x) = IF more = {} THEN Nil ELSE Find(n, Min(more))
               /\ Before(Core(n), x) = IF less = {} THEN Nil ELSE Find(n, Max(less))
<1>1. Taken(Core(n)) = Taken(n) /\ \A b : Find(Core(n), b) = Find(n, b)
  BY CoreReads
<1> QED
  BY <1>1 DEF ScansRight, Answer, Above, Below

LEMMA IInvScans ==
    ASSUME IInv
    PROVE  ScansFollowKeys
<1>1. Sound(Core(node)) /\ Counted(Core(node)) /\ node.count >= 1
  BY DEF IInv
<1>2. Taken(Core(node)) # {}
  BY <1>1, FS_EmptySet, CoreFields DEF Counted
<1>3. ScansRight(Core(node))
  BY <1>1, <1>2, SoundScans
<1>4. \A k \in Keys : k[node.depth + node.plen] \in Byte /\ Branch(node) = node.depth + node.plen
  BY NodeIs, KeyAssumption DEF HeadFits, Branch
<1>5. PICK some \in Byte : TRUE
  BY ZeroIsByte
<1>6. /\ First(Core(node)) = Find(node, Min(Taken(node)))
      /\ Last(Core(node)) = Find(node, Max(Taken(node)))
  BY <1>3, <1>5, AnswersAre
<1>7. CASE Sorted(node.type)
  <2>1. SortedNode(Core(node))
    BY <1>7, NodeKinds
  <2>2. MinimumSorted(node) = First(Core(node)) /\ MaximumSorted(node) = Last(Core(node))
    BY <2>1, SortedAnswers
  <2>3. ASSUME NEW k \in Keys
        PROVE  /\ SuccessorSorted(node, k) = After(Core(node), k[node.depth + node.plen])
               /\ PredecessorSorted(node, k) = Before(Core(node), k[node.depth + node.plen])
    BY <1>4, <2>1, SortedAnswers
  <2>4. Answers(node, MinimumSorted(node), MaximumSorted(node),
                LAMBDA k : SuccessorSorted(node, k), LAMBDA k : PredecessorSorted(node, k))
    BY <1>3, <1>4, <1>6, <2>2, <2>3, AnswersAre DEF Answers
  <2>5. ~ Indexed(node.type)
    BY <1>7 DEF Sorted, Indexed
  <2> QED
    BY <1>7, <2>4, <2>5 DEF ScansFollowKeys
<1>8. CASE ~ Sorted(node.type) /\ Indexed(node.type)
  <2>1. ASSUME NEW k \in Keys
        PROVE  /\ SuccessorIndexed(node, k) = After(Core(node), k[node.depth + node.plen])
               /\ PredecessorIndexed(node, k) = Before(Core(node), k[node.depth + node.plen])
    BY <1>4, <1>8, WideAnswers
  <2>2. MinimumIndexed(node) = First(Core(node)) /\ MaximumIndexed(node) = Last(Core(node))
    BY <1>8, CoreReads, CoreFields DEF MinimumIndexed, MaximumIndexed, First, Last, ChildAt
  <2>3. Answers(node, MinimumIndexed(node), MaximumIndexed(node),
                LAMBDA k : SuccessorIndexed(node, k), LAMBDA k : PredecessorIndexed(node, k))
    BY <1>3, <1>4, <1>6, <2>1, <2>2, AnswersAre DEF Answers
  <2> QED
    BY <1>8, <2>3 DEF ScansFollowKeys
<1>9. CASE ~ Sorted(node.type) /\ ~ Indexed(node.type)
  <2>1. ASSUME NEW k \in Keys
        PROVE  /\ SuccessorDirect(node, k) = After(Core(node), k[node.depth + node.plen])
               /\ PredecessorDirect(node, k) = Before(Core(node), k[node.depth + node.plen])
    BY <1>4, <1>9, WideAnswers
  <2>2. MinimumDirect(node) = First(Core(node)) /\ MaximumDirect(node) = Last(Core(node))
    BY <1>9, CoreReads, CoreFields DEF MinimumDirect, MaximumDirect, First, Last, ChildAt
  <2>3. Answers(node, MinimumDirect(node), MaximumDirect(node),
                LAMBDA k : SuccessorDirect(node, k), LAMBDA k : PredecessorDirect(node, k))
    BY <1>3, <1>4, <1>6, <2>1, <2>2, AnswersAre DEF Answers
  <2> QED
    BY <1>9, <2>3 DEF ScansFollowKeys
<1> QED
  BY <1>7, <1>8, <1>9

\* For every key, the scans of each layout go on with the child next to the
\* chunk that follows the prefix, and turn to the parent if there is none.
THEOREM ScansStayOrdered ==
    ASSUME CopyAnyNode48 = FALSE
    PROVE  Spec => []ScansFollowKeys
<1>1. IInv => ScansFollowKeys
  BY IInvScans
<1> QED
  BY <1>1, PrefixedLayoutHolds, PTL
=============================================================================
