---------------------------- MODULE LayoutLemmas ----------------------------
(***************************************************************************)
(* What the methods and the constructors of NodeLayouts do to the children *)
(* a node represents and to its arrays, for every choice of capacities,    *)
(* the 4, 16, 48 and 256 of the code among them.  Both kinds of inner      *)
(* nodes, with and without a prefix, are made of these operators.          *)
(***************************************************************************)
EXTENDS NodeLayouts, TLAPS, WellFoundedInduction, FiniteSetTheorems

-----------------------------------------------------------------------------
(* Sets of numbers.                                                        *)

\* A set of byte values that is not empty has a smallest and a largest one:
\* the search loops of minimum() and maximum() stop.
LEMMA MinOfBytes ==
    ASSUME NEW S \in SUBSET Nat, S # {}
    PROVE  /\ Min(S) \in S
           /\ \A x \in S : Min(S) =< x
<1> DEFINE Smaller == {p \in Nat \X Nat : p[1] < p[2]}
<1>1. IsWellFoundedOn(Smaller, Nat)
  BY NatLessThanWellFounded DEF OpToRel
<1>2. PICK m \in S : \A x \in S : ~ (<<x, m>> \in Smaller)
  BY <1>1, WFMin
<1>3. ASSUME NEW x \in S, x < m  PROVE FALSE
  <2>1. <<x, m>> \in Nat \X Nat /\ <<x, m>>[1] < <<x, m>>[2]
    BY <1>3
  <2> QED
    BY <1>2, <2>1
<1>4. \A x \in S : m =< x
  BY <1>3
<1> QED
  BY <1>4 DEF Min

LEMMA MaxOfBytes ==
    ASSUME NEW n \in Nat, NEW S \in SUBSET (0..n), S # {}
    PROVE  /\ Max(S) \in S
           /\ \A x \in S : x =< Max(S)
<1> DEFINE Mirror == {m \in Nat : n - m \in S}
<1>1. Mirror \in SUBSET Nat /\ Mirror # {}
  <2>1. PICK x \in S : TRUE
    OBVIOUS
  <2>2. x \in 0..n /\ n - x \in Nat /\ n - (n - x) = x
    OBVIOUS
  <2> QED
    BY <2>1, <2>2
<1>2. PICK m \in Mirror : \A x \in Mirror : m =< x
  BY <1>1, MinOfBytes
<1>3. \A x \in S : x =< n - m /\ n - m \in S
  <2> SUFFICES ASSUME NEW x \in S  PROVE x =< n - m
    BY <1>2
  <2>1. x \in 0..n /\ n - x \in Mirror
    <3>1. x \in 0..n /\ n - x \in Nat /\ n - (n - x) = x
      OBVIOUS
    <3> QED
      BY <3>1
  <2>2. m \in Nat /\ m =< n - x
    BY <1>2, <2>1
  <2> HIDE DEF Mirror
  <2> QED
    BY <2>1, <2>2
<1> QED
  BY <1>3 DEF Max

-----------------------------------------------------------------------------
(* Nodes whose arrays are in order.                                        *)

\* A node whose arrays are in order.
Sound(n) ==
    /\ n.type \in InnerTypes
    /\ n \in NodeShape(n.type)
    /\ Sorted(n.type) => Ascending(n)
    /\ Indexed(n.type) => ExactIndex(n)

LEMMA Capacities ==
    /\ MaxByte \in Nat /\ Cap4 \in Nat /\ Cap16 \in Nat /\ Cap48 \in Nat /\ Cap256 \in Nat
    /\ 2 =< Cap4 /\ Cap4 < Cap16 /\ Cap16 < Cap48 /\ Cap48 < Cap256
    /\ Cap256 = MaxByte + 1
    /\ MaxSize("node_4") = Cap4 /\ MaxSize("node_16") = Cap16
    /\ MaxSize("node_48") = Cap48 /\ MaxSize("node_256") = Cap256
    /\ Places("node_4") = 0..(Cap4 - 1) /\ Places("node_16") = 0..(Cap16 - 1)
    /\ Places("node_48") = 0..(Cap48 - 1) /\ Places("node_256") = Byte
BY SizesAssumption DEF MaxSize, Cap256, Places, Byte

-----------------------------------------------------------------------------
(* Sorted arrays.                                                          *)

SortedNode(n) ==
    /\ Sorted(n.type)
    /\ n \in NodeShape(n.type)
    /\ Ascending(n)

LEMMA SortedFields ==
    ASSUME NEW n, Sorted(n.type), n \in NodeShape(n.type)
    PROVE  /\ n.count \in 0..MaxSize(n.type)
           /\ MaxSize(n.type) \in Nat
           /\ Places(n.type) = 0..(MaxSize(n.type) - 1)
           /\ n.keys \in [Places(n.type) -> Byte]
           /\ n.slots \in [Places(n.type) -> Slot]
           /\ n.index = Unused
           /\ n = Node(n.type, n.count, n.keys, n.index, n.slots)
<1>1. n.type \in {"node_4", "node_16"} /\ ~ Indexed(n.type)
  BY DEF Sorted, Indexed
<1> QED
  BY <1>1, Capacities DEF NodeShape, Places, Node

\* The shape of a sorted node, the other way round.
LEMMA SortedShape ==
    ASSUME NEW t \in {"node_4", "node_16"}, NEW m \in 0..MaxSize(t),
           NEW keys \in [Places(t) -> Byte], NEW slots \in [Places(t) -> Slot]
    PROVE  /\ Node(t, m, keys, Unused, slots) \in NodeShape(t)
           /\ Sorted(t) /\ ~ Indexed(t)
BY DEF NodeShape, Node, Sorted, Indexed

LEMMA ShapeFields ==
    ASSUME NEW t, NEW m \in NodeShape(t)
    PROVE  /\ m = Node(m.type, m.count, m.keys, m.index, m.slots)
           /\ m.type = t /\ m.count \in 0..MaxSize(t)
BY DEF NodeShape, Node

LEMMA BytesAreNumbers == Byte \subseteq Nat /\ Byte = 0..MaxByte
BY SizesAssumption DEF Byte

\* The scans stop at the first key that is not below, or that is above.
LEMMA Bounds ==
    ASSUME NEW n, SortedNode(n), NEW b \in Byte
    PROVE  /\ LowerBound(n, b) \in 0..n.count
           /\ \A p \in 0..(n.count - 1) : p < LowerBound(n, b) <=> n.keys[p] < b
           /\ UpperBound(n, b) \in 0..n.count
           /\ \A p \in 0..(n.count - 1) : p < UpperBound(n, b) <=> n.keys[p] =< b
<1>1. /\ n.count \in Nat
      /\ \A p \in 0..(n.count - 1) : n.keys[p] \in Nat
      /\ \A p, q \in 0..(n.count - 1) : p < q => n.keys[p] < n.keys[q]
  BY SortedFields, BytesAreNumbers DEF SortedNode, Ascending
<1>2. b \in Nat
  BY BytesAreNumbers
<1> DEFINE L == {p \in 0..n.count : p = n.count \/ n.keys[p] >= b}
           U == {p \in 0..n.count : p = n.count \/ n.keys[p] > b}
<1>3. L \in SUBSET Nat /\ n.count \in L /\ U \in SUBSET Nat /\ n.count \in U
  BY <1>1
<1>4. Min(L) \in L /\ \A p \in L : Min(L) =< p
  BY <1>3, MinOfBytes
<1>5. Min(U) \in U /\ \A p \in U : Min(U) =< p
  BY <1>3, MinOfBytes
<1>6. LowerBound(n, b) = Min(L) /\ UpperBound(n, b) = Min(U)
  BY DEF LowerBound, UpperBound
<1>7. ASSUME NEW p \in 0..(n.count - 1)
      PROVE  (p < Min(L) <=> n.keys[p] < b) /\ (p < Min(U) <=> n.keys[p] =< b)
  <2>1. p \in 0..n.count /\ p # n.count /\ p \in Nat /\ n.keys[p] \in Nat
    BY <1>1
  <2>2. (p \in L <=> n.keys[p] >= b) /\ (p \in U <=> n.keys[p] > b)
    BY <2>1
  <2>3. Min(L) \in 0..n.count /\ (Min(L) = n.count \/ n.keys[Min(L)] >= b)
    BY <1>4
  <2>4. Min(U) \in 0..n.count /\ (Min(U) = n.count \/ n.keys[Min(U)] > b)
    BY <1>5
  <2>5. p < Min(L) => p \notin L
    BY <1>4, <2>1, <2>3
  <2>6. p < Min(U) => p \notin U
    BY <1>5, <2>1, <2>4
  <2> HIDE DEF L, U
  <2>7. p >= Min(L) => n.keys[p] >= b
    BY <1>1, <1>2, <2>1, <2>3
  <2>8. p >= Min(U) => n.keys[p] > b
    BY <1>1, <1>2, <2>1, <2>4
  <2> QED
    BY <1>2, <2>1, <2>2, <2>3, <2>4, <2>5, <2>6, <2>7, <2>8
<1> QED
  BY <1>4, <1>5, <1>6, <1>7

\* find() on a sorted node: the slot beside the key.
LEMMA FindInSorted ==
    ASSUME NEW n, SortedNode(n), NEW b \in Byte
    PROVE  /\ \A p \in 0..(n.count - 1) : n.keys[p] = b => Find(n, b) = n.slots[p]
           /\ (\A p \in 0..(n.count - 1) : n.keys[p] # b) => Find(n, b) = Nil
           /\ Find(n, b) # Nil <=> \E p \in 0..(n.count - 1) : n.keys[p] = b
<1>1. Find(n, b) = FindSorted(n, b)
  BY DEF Find, SortedNode, Sorted, Indexed
<1> DEFINE L == LowerBound(n, b)
<1>2. /\ n.count \in Nat /\ L \in 0..n.count
      /\ \A p \in 0..(n.count - 1) : n.keys[p] \in Nat /\ n.slots[p] # Nil
      /\ \A p \in 0..(n.count - 1) : p < L <=> n.keys[p] < b
      /\ \A p, q \in 0..(n.count - 1) : p < q => n.keys[p] < n.keys[q]
  BY SortedFields, BytesAreNumbers, Bounds DEF SortedNode, Ascending
<1>3. b \in Nat
  BY BytesAreNumbers
<1>4. FindSorted(n, b) = IF L < n.count /\ n.keys[L] = b THEN n.slots[L] ELSE Nil
  BY DEF FindSorted
<1> HIDE DEF L
<1>5. ASSUME NEW p \in 0..(n.count - 1), n.keys[p] = b  PROVE p = L
  BY <1>2, <1>3, <1>5
<1> QED
  BY <1>1, <1>2, <1>4, <1>5
\* What the proofs use of a sorted node, and how one is recognised.
LEMMA SortedFacts ==
    ASSUME NEW n, SortedNode(n)
    PROVE  /\ n.type \in {"node_4", "node_16"}
           /\ MaxSize(n.type) \in Nat /\ n.count \in Nat /\ n.count =< MaxSize(n.type)
           /\ Places(n.type) = 0..(MaxSize(n.type) - 1)
           /\ n.keys \in [Places(n.type) -> Byte]
           /\ n.slots \in [Places(n.type) -> Slot]
           /\ n = Node(n.type, n.count, n.keys, Unused, n.slots)
           /\ \A p \in 0..(n.count - 1) : n.keys[p] \in Nat /\ n.keys[p] \in Byte
                                        /\ n.slots[p] \in Kids
           /\ \A p, q \in 0..(n.count - 1) : p < q => n.keys[p] < n.keys[q]
<1>1. /\ n.type \in {"node_4", "node_16"}
      /\ MaxSize(n.type) \in Nat /\ n.count \in 0..MaxSize(n.type)
      /\ Places(n.type) = 0..(MaxSize(n.type) - 1)
      /\ n.keys \in [Places(n.type) -> Byte]
      /\ n.slots \in [Places(n.type) -> Slot]
      /\ n = Node(n.type, n.count, n.keys, Unused, n.slots)
  BY SortedFields DEF SortedNode, Sorted
<1>2. /\ \A p, q \in 0..(n.count - 1) : p < q => n.keys[p] < n.keys[q]
      /\ \A p \in 0..(n.count - 1) : n.slots[p] # Nil
  BY DEF SortedNode, Ascending
<1>3. \A p \in 0..(n.count - 1) : p \in Places(n.type)
  BY <1>1
<1>4. \A p \in 0..(n.count - 1) : n.keys[p] \in Byte /\ n.slots[p] \in Slot
  BY <1>1, <1>3
<1>5. \A p \in 0..(n.count - 1) : n.keys[p] \in Nat /\ n.slots[p] \in Kids
  BY <1>2, <1>4, BytesAreNumbers DEF Slot
<1>6. n.count \in Nat /\ n.count =< MaxSize(n.type)
  BY <1>1
<1> QED
  BY <1>1, <1>2, <1>4, <1>5, <1>6

LEMMA SortedIsSound ==
    ASSUME NEW t \in {"node_4", "node_16"}, NEW m \in Nat, m =< MaxSize(t),
           NEW keys \in [Places(t) -> Byte], NEW slots \in [Places(t) -> Slot],
           \A p, q \in 0..(m - 1) : p < q => keys[p] < keys[q],
           \A p \in 0..(m - 1) : slots[p] # Nil
    PROVE  SortedNode(Node(t, m, keys, Unused, slots))
<1>1. m \in 0..MaxSize(t)
  BY Capacities
<1> QED
  BY <1>1, SortedShape DEF SortedNode, Ascending, Node

-----------------------------------------------------------------------------
(* insert() and erase() on sorted arrays.                                  *)

\* A child is found alike in two nodes that have it beside the same key.
LEMMA SameFind ==
    ASSUME NEW n, SortedNode(n), NEW m, SortedNode(m), NEW x \in Byte,
           \A p \in 0..(n.count - 1) : n.keys[p] = x =>
               \E q \in 0..(m.count - 1) : m.keys[q] = x /\ m.slots[q] = n.slots[p],
           \A q \in 0..(m.count - 1) : m.keys[q] = x =>
               \E p \in 0..(n.count - 1) : n.keys[p] = x
    PROVE  Find(m, x) = Find(n, x)
<1>1. CASE \E p \in 0..(n.count - 1) : n.keys[p] = x
  BY <1>1, FindInSorted
<1>2. CASE ~ \E p \in 0..(n.count - 1) : n.keys[p] = x
  BY <1>2, FindInSorted
<1> QED
  BY <1>1, <1>2

\* The arrays old with a pair (b, c) put in at place r.
PutIn(old, new, k, r, x) ==
    /\ \A q \in 0..(r - 1) : new[q] = old[q]
    /\ new[r] = x
    /\ \A q \in (r + 1)..k : new[q] = old[q - 1]

LEMMA MakeRoomPutsIn ==
    ASSUME NEW m \in Nat, NEW S, NEW k \in Nat, k < m, NEW a \in [0..(m - 1) -> S],
           NEW r \in 0..k, NEW x \in S
    PROVE  /\ MakeRoom(a, r, k, x) \in [0..(m - 1) -> S]
           /\ PutIn(a, MakeRoom(a, r, k, x), k, r, x)
<1>1. \A q \in (r + 1)..k : q - 1 \in 0..(m - 1)
  OBVIOUS
<1>2. MakeRoom(a, r, k, x) =
        [q \in 0..(m - 1) |-> IF q = r THEN x ELSE IF q \in (r + 1)..k THEN a[q - 1] ELSE a[q]]
  BY DEF MakeRoom
<1>3. \A q \in 0..(m - 1) : q # r /\ q \in (r + 1)..k => a[q - 1] \in S
  BY <1>1
<1> QED
  BY <1>2, <1>3 DEF PutIn

LEMMA PutInPlaces ==
    ASSUME NEW k \in Nat, NEW r \in 0..k, NEW old, NEW new, NEW x, PutIn(old, new, k, r, x)
    PROVE  /\ \A p \in 0..(k - 1) : p < r => p \in 0..k /\ new[p] = old[p]
           /\ \A p \in 0..(k - 1) : p >= r => p + 1 \in 0..k /\ new[p + 1] = old[p]
           /\ new[r] = x
           /\ \A q \in 0..k : q < r => q \in 0..(k - 1) /\ new[q] = old[q]
           /\ \A q \in 0..k : q > r => q - 1 \in 0..(k - 1) /\ new[q] = old[q - 1]
<1>1. \A p \in 0..(k - 1) : p < r => p \in 0..k /\ new[p] = old[p]
  <2>1. ASSUME NEW p \in 0..(k - 1), p < r  PROVE p \in 0..(r - 1) /\ p \in 0..k
    BY <2>1
  <2> QED
    BY <2>1 DEF PutIn
<1>2. \A p \in 0..(k - 1) : p >= r => p + 1 \in 0..k /\ new[p + 1] = old[p]
  <2>1. ASSUME NEW p \in 0..(k - 1), p >= r
        PROVE  p + 1 \in (r + 1)..k /\ p + 1 \in 0..k /\ (p + 1) - 1 = p
    BY <2>1
  <2>2. \A q \in (r + 1)..k : new[q] = old[q - 1]
    BY DEF PutIn
  <2>3. ASSUME NEW p \in 0..(k - 1), p >= r  PROVE new[p + 1] = old[p]
    <3>1. new[p + 1] = old[(p + 1) - 1]
      BY <2>1, <2>2, <2>3
    <3> QED
      BY <2>1, <2>3, <3>1
  <2> QED
    BY <2>1, <2>3
<1>3. \A q \in 0..k : q < r => q \in 0..(k - 1) /\ new[q] = old[q]
  <2>1. ASSUME NEW q \in 0..k, q < r  PROVE q \in 0..(r - 1) /\ q \in 0..(k - 1)
    BY <2>1
  <2> QED
    BY <2>1 DEF PutIn
<1>4. \A q \in 0..k : q > r => q - 1 \in 0..(k - 1) /\ new[q] = old[q - 1]
  <2>1. ASSUME NEW q \in 0..k, q > r  PROVE q \in (r + 1)..k /\ q - 1 \in 0..(k - 1)
    BY <2>1
  <2> QED
    BY <2>1 DEF PutIn
<1> QED
  BY <1>1, <1>2, <1>3, <1>4 DEF PutIn

\* Ascending keys stay so when a new one is put in where it belongs.
LEMMA AscendingPutIn ==
    ASSUME NEW k \in Nat, NEW r \in 0..k, NEW old, NEW new, NEW b \in Nat,
           PutIn(old, new, k, r, b),
           \A p \in 0..(k - 1) : old[p] \in Nat,
           \A p, q \in 0..(k - 1) : p < q => old[p] < old[q],
           \A p \in 0..(k - 1) : p < r <=> old[p] < b,
           \A p \in 0..(k - 1) : old[p] # b
    PROVE  \A p, q \in 0..k : p < q => new[p] < new[q]
<1>1. \A q \in 0..k : q < r => q \in 0..(k - 1) /\ new[q] = old[q] /\ new[q] \in Nat /\ new[q] < b
  BY PutInPlaces
<1>2. ASSUME NEW q \in 0..k, q > r
      PROVE  q - 1 \in 0..(k - 1) /\ new[q] = old[q - 1] /\ new[q] \in Nat /\ b < new[q]
  <2>1. q - 1 \in 0..(k - 1) /\ new[q] = old[q - 1] /\ ~ (q - 1 < r)
    BY <1>2, PutInPlaces
  <2>2. old[q - 1] \in Nat /\ ~ (old[q - 1] < b) /\ old[q - 1] # b
    BY <2>1
  <2> QED
    BY <2>1, <2>2
<1>3. new[r] = b
  BY PutInPlaces
<1>4. SUFFICES ASSUME NEW p \in 0..k, NEW q \in 0..k, p < q  PROVE new[p] < new[q]
  OBVIOUS
<1>5. CASE q < r
  <2>1. p < r
    BY <1>4, <1>5
  <2> QED
    BY <1>1, <1>4, <1>5, <2>1
<1>6. CASE q >= r /\ p =< r
  <2>1. (p < r \/ p = r) /\ (q > r \/ q = r)
    BY <1>6
  <2>2. (p < r => new[p] \in Nat /\ new[p] < b) /\ (p = r => new[p] = b)
    BY <1>1, <1>3
  <2>3. (q > r => new[q] \in Nat /\ b < new[q]) /\ (q = r => new[q] = b)
    BY <1>2, <1>3
  <2> QED
    BY <1>4, <2>1, <2>2, <2>3
<1>7. CASE p > r
  <2>1. q > r /\ p - 1 < q - 1
    BY <1>4, <1>7
  <2>2. p - 1 \in 0..(k - 1) /\ q - 1 \in 0..(k - 1) /\ new[p] = old[p - 1] /\ new[q] = old[q - 1]
    BY <1>2, <1>7, <2>1
  <2> QED
    BY <2>1, <2>2
<1> QED
  BY <1>5, <1>6, <1>7

\* The assignments at the end of insert() and erase().
Rewritten(n, keys, slots, k) == [n EXCEPT !.keys = keys, !.slots = slots, !.count = k]

LEMMA NodeChanged ==
    ASSUME NEW n, NEW t, NEW k, NEW keys, NEW index, NEW slots,
           n = Node(t, k, keys, index, slots), NEW keys2, NEW slots2, NEW k2
    PROVE  Rewritten(n, keys2, slots2, k2) = Node(t, k2, keys2, index, slots2)
<1>1. Rewritten(n, keys2, slots2, k2)
        = [[[n EXCEPT !.keys = keys2] EXCEPT !.slots = slots2] EXCEPT !.count = k2]
  BY DEF Node, Rewritten
<1>2. [n EXCEPT !.keys = keys2] = Node(t, k, keys2, index, slots)
  BY DEF Node
<1>3. [Node(t, k, keys2, index, slots) EXCEPT !.slots = slots2]
        = Node(t, k, keys2, index, slots2)
  BY DEF Node
<1>4. [Node(t, k, keys2, index, slots2) EXCEPT !.count = k2] = Node(t, k2, keys2, index, slots2)
  BY DEF Node
<1> QED
  BY <1>1, <1>2, <1>3, <1>4

LEMMA InsertSortedIs ==
    ASSUME NEW n, SortedNode(n), NEW b, NEW c
    PROVE  Insert(n, b, c) = Node(n.type, n.count + 1,
                                  MakeRoom(n.keys, LowerBound(n, b), n.count, b),
                                  Unused, MakeRoom(n.slots, LowerBound(n, b), n.count, c))
<1>1. n = Node(n.type, n.count, n.keys, Unused, n.slots)
  BY SortedFacts
<1>2. Insert(n, b, c) = InsertSorted(n, b, c)
  BY DEF Insert, SortedNode, Sorted, Indexed
<1>3. Insert(n, b, c) = Rewritten(n, MakeRoom(n.keys, LowerBound(n, b), n.count, b),
                                  MakeRoom(n.slots, LowerBound(n, b), n.count, c), n.count + 1)
  BY <1>2 DEF InsertSorted, Rewritten
<1> QED
  BY <1>1, <1>3, NodeChanged

\* insert() on a sorted node adds the child and moves no other.
LEMMA SortedInsert ==
    ASSUME NEW n, SortedNode(n), NEW b \in Byte, NEW c \in Kids,
           Find(n, b) = Nil, n.count < MaxSize(n.type)
    PROVE  /\ SortedNode(Insert(n, b, c))
           /\ Insert(n, b, c).type = n.type /\ Insert(n, b, c).count = n.count + 1
           /\ \A x \in Byte : Find(Insert(n, b, c), x) = IF x = b THEN c ELSE Find(n, x)
<1>0. PICK k \in Nat, r \in Nat : k = n.count /\ r = LowerBound(n, b)
  BY Bounds, SortedFacts
<1>1. PICK keys, slots, m :
        /\ k = n.count /\ r = LowerBound(n, b)
        /\ keys = MakeRoom(n.keys, r, k, b) /\ slots = MakeRoom(n.slots, r, k, c)
        /\ m = Node(n.type, k + 1, keys, Unused, slots)
  BY <1>0
<1>2. m = Insert(n, b, c)
  BY <1>1, InsertSortedIs
<1>3. /\ n.type \in {"node_4", "node_16"} /\ MaxSize(n.type) \in Nat /\ k < MaxSize(n.type)
      /\ Places(n.type) = 0..(MaxSize(n.type) - 1)
      /\ n.keys \in [Places(n.type) -> Byte] /\ n.slots \in [Places(n.type) -> Slot]
      /\ \A p \in 0..(k - 1) : n.keys[p] \in Nat /\ n.keys[p] \in Byte /\ n.slots[p] \in Kids
      /\ \A p, q \in 0..(k - 1) : p < q => n.keys[p] < n.keys[q]
  BY <1>1, SortedFacts
<1>4. b \in Nat /\ c \in Slot /\ c # Nil
  BY BytesAreNumbers, NilAssumption DEF Slot
<1>5. r \in 0..k /\ \A p \in 0..(k - 1) : p < r <=> n.keys[p] < b
  BY <1>1, Bounds
<1>6. \A p \in 0..(k - 1) : n.keys[p] # b
  BY <1>1, FindInSorted
<1>7. keys \in [Places(n.type) -> Byte] /\ PutIn(n.keys, keys, k, r, b)
  BY <1>1, <1>3, <1>5, MakeRoomPutsIn
<1>8. slots \in [Places(n.type) -> Slot] /\ PutIn(n.slots, slots, k, r, c)
  BY <1>1, <1>3, <1>4, <1>5, MakeRoomPutsIn
<1>9. \A p, q \in 0..k : p < q => keys[p] < keys[q]
  BY <1>3, <1>4, <1>5, <1>6, <1>7, AscendingPutIn
<1>10. \A p \in 0..k : slots[p] # Nil
  <2>1. ASSUME NEW p \in 0..k  PROVE slots[p] \in Kids
    <3>1. p < r \/ p = r \/ p > r
      BY <1>5
    <3>2. CASE p < r
      BY <1>3, <1>5, <1>8, <3>2, PutInPlaces
    <3>3. CASE p = r
      BY <1>5, <1>8, <3>3, PutInPlaces
    <3>4. CASE p > r
      <4>1. p - 1 \in 0..(k - 1) /\ slots[p] = n.slots[p - 1]
        BY <1>5, <1>8, <3>4, PutInPlaces
      <4> QED
        BY <1>3, <4>1
    <3> QED
      BY <3>1, <3>2, <3>3, <3>4
  <2> QED
    BY <2>1, NilAssumption
<1>11. SortedNode(m)
  <2>1. k + 1 \in Nat /\ k + 1 =< MaxSize(n.type) /\ (k + 1) - 1 = k
    BY <1>3
  <2> QED
    BY <1>1, <1>3, <1>7, <1>8, <1>9, <1>10, <2>1, SortedIsSound
<1>12. m.type = n.type /\ m.count = k + 1 /\ m.keys = keys /\ m.slots = slots /\ m.count - 1 = k
  BY <1>1 DEF Node
<1>13. Find(m, b) = c
  <2>1. r \in 0..k /\ keys[r] = b /\ slots[r] = c
    BY <1>5, <1>7, <1>8, PutInPlaces
  <2> QED
    BY <1>11, <1>12, <2>1, FindInSorted
<1>14. ASSUME NEW x \in Byte, x # b  PROVE Find(m, x) = Find(n, x)
  <2>1. ASSUME NEW p \in 0..(k - 1), n.keys[p] = x
        PROVE  \E q \in 0..k : keys[q] = x /\ slots[q] = n.slots[p]
    <3>1. CASE p < r
      BY <1>5, <1>7, <1>8, <2>1, <3>1, PutInPlaces
    <3>2. CASE p >= r
      BY <1>5, <1>7, <1>8, <2>1, <3>2, PutInPlaces
    <3> QED
      BY <1>5, <3>1, <3>2
  <2>2. ASSUME NEW q \in 0..k, keys[q] = x
        PROVE  \E p \in 0..(k - 1) : n.keys[p] = x
    <3>1. q < r \/ q = r \/ q > r
      BY <1>5
    <3>2. CASE q < r
      BY <1>5, <1>7, <2>2, <3>2, PutInPlaces
    <3>3. CASE q = r
      BY <1>5, <1>7, <1>14, <2>2, <3>3, PutInPlaces
    <3>4. CASE q > r
      BY <1>5, <1>7, <2>2, <3>4, PutInPlaces
    <3> QED
      BY <3>1, <3>2, <3>3, <3>4
  <2> QED
    BY <1>1, <1>11, <1>12, <2>1, <2>2, SameFind
<1> QED
  BY <1>1, <1>2, <1>11, <1>12, <1>13, <1>14

\* The arrays old with what was at place r taken out.
TakeOut(old, new, k, r) ==
    /\ \A q \in 0..(r - 1) : new[q] = old[q]
    /\ \A q \in r..(k - 2) : new[q] = old[q + 1]

LEMMA CloseUpTakesOut ==
    ASSUME NEW m \in Nat, NEW S, NEW k \in Nat, k =< m, NEW a \in [0..(m - 1) -> S],
           NEW r \in 0..(k - 1)
    PROVE  /\ CloseUp(a, r, k) \in [0..(m - 1) -> S]
           /\ TakeOut(a, CloseUp(a, r, k), k, r)
<1>1. \A q \in r..(k - 2) : q + 1 \in 0..(m - 1)
  OBVIOUS
<1>2. CloseUp(a, r, k) = [q \in 0..(m - 1) |-> IF q \in r..(k - 2) THEN a[q + 1] ELSE a[q]]
  BY DEF CloseUp
<1>3. CloseUp(a, r, k) \in [0..(m - 1) -> S]
  BY <1>1, <1>2
<1>4. \A q \in 0..(r - 1) : q \in 0..(m - 1) /\ ~ (q \in r..(k - 2))
  OBVIOUS
<1>5. \A q \in r..(k - 2) : q \in 0..(m - 1)
  OBVIOUS
<1>6. TakeOut(a, CloseUp(a, r, k), k, r)
  BY <1>2, <1>4, <1>5 DEF TakeOut
<1> QED
  BY <1>3, <1>6

LEMMA TakeOutPlaces ==
    ASSUME NEW k \in Nat, NEW r \in 0..(k - 1), NEW old, NEW new, TakeOut(old, new, k, r)
    PROVE  /\ \A p \in 0..(k - 1) : p < r => p \in 0..(k - 2) /\ new[p] = old[p]
           /\ \A p \in 0..(k - 1) : p > r => p - 1 \in 0..(k - 2) /\ new[p - 1] = old[p]
           /\ \A q \in 0..(k - 2) : q < r => q \in 0..(k - 1) /\ new[q] = old[q]
           /\ \A q \in 0..(k - 2) : q >= r => q + 1 \in 0..(k - 1) /\ new[q] = old[q + 1]
<1>1. ASSUME NEW p \in 0..(k - 1), p < r
      PROVE  p \in 0..(k - 2) /\ new[p] = old[p]
  <2>1. p \in 0..(r - 1) /\ p \in 0..(k - 2)
    BY <1>1
  <2> QED
    BY <2>1 DEF TakeOut
<1>2. ASSUME NEW p \in 0..(k - 1), p > r
      PROVE  p - 1 \in 0..(k - 2) /\ new[p - 1] = old[p]
  <2>1. p - 1 \in r..(k - 2) /\ p - 1 \in 0..(k - 2) /\ (p - 1) + 1 = p
    BY <1>2
  <2>2. new[p - 1] = old[(p - 1) + 1]
    BY <2>1 DEF TakeOut
  <2> QED
    BY <2>1, <2>2
<1>3. ASSUME NEW q \in 0..(k - 2), q < r
      PROVE  q \in 0..(k - 1) /\ new[q] = old[q]
  <2>1. q \in 0..(r - 1) /\ q \in 0..(k - 1)
    BY <1>3
  <2> QED
    BY <2>1 DEF TakeOut
<1>4. ASSUME NEW q \in 0..(k - 2), q >= r
      PROVE  q + 1 \in 0..(k - 1) /\ new[q] = old[q + 1]
  <2>1. q \in r..(k - 2) /\ q + 1 \in 0..(k - 1)
    BY <1>4
  <2> QED
    BY <2>1 DEF TakeOut
<1> QED
  BY <1>1, <1>2, <1>3, <1>4

LEMMA AscendingTakeOut ==
    ASSUME NEW k \in Nat, NEW r \in 0..(k - 1), NEW old, NEW new, TakeOut(old, new, k, r),
           \A p \in 0..(k - 1) : old[p] \in Nat,
           \A p, q \in 0..(k - 1) : p < q => old[p] < old[q]
    PROVE  \A p, q \in 0..(k - 2) : p < q => new[p] < new[q]
<1>1. SUFFICES ASSUME NEW p \in 0..(k - 2), NEW q \in 0..(k - 2), p < q  PROVE new[p] < new[q]
  OBVIOUS
<1>2. CASE q < r
  BY <1>1, <1>2, TakeOutPlaces
<1>3. CASE q >= r /\ p < r
  <2>1. p \in 0..(k - 1) /\ new[p] = old[p] /\ q + 1 \in 0..(k - 1) /\ new[q] = old[q + 1]
    BY <1>3, TakeOutPlaces
  <2>2. p < q + 1
    BY <1>1
  <2> QED
    BY <2>1, <2>2
<1>4. CASE p >= r
  <2>1. q >= r /\ p + 1 < q + 1
    BY <1>1, <1>4
  <2>2. /\ p + 1 \in 0..(k - 1) /\ new[p] = old[p + 1]
        /\ q + 1 \in 0..(k - 1) /\ new[q] = old[q + 1]
    BY <1>4, <2>1, TakeOutPlaces
  <2> QED
    BY <2>1, <2>2
<1> QED
  BY <1>2, <1>3, <1>4

\* The place of a byte that has a child.
LEMMA PlaceOfByte ==
    ASSUME NEW n, SortedNode(n), NEW b \in Byte, Find(n, b) # Nil
    PROVE  /\ LowerBound(n, b) \in 0..(n.count - 1)
           /\ LowerBound(n, b) < n.count
           /\ n.keys[LowerBound(n, b)] = b
<1>1. PICK p \in 0..(n.count - 1) : n.keys[p] = b
  BY FindInSorted
<1>2. /\ n.count \in Nat /\ LowerBound(n, b) \in 0..n.count
      /\ \A q \in 0..(n.count - 1) : n.keys[q] \in Nat /\ (q < LowerBound(n, b) <=> n.keys[q] < b)
      /\ \A x, y \in 0..(n.count - 1) : x < y => n.keys[x] < n.keys[y]
  BY SortedFacts, Bounds
<1>3. b \in Nat
  BY BytesAreNumbers
<1> QED
  BY <1>1, <1>2, <1>3

LEMMA EraseSortedIs ==
    ASSUME NEW n, SortedNode(n), NEW b, LowerBound(n, b) < n.count
    PROVE  Erase(n, b) = Node(n.type, n.count - 1, CloseUp(n.keys, LowerBound(n, b), n.count),
                              Unused, CloseUp(n.slots, LowerBound(n, b), n.count))
<1>1. n = Node(n.type, n.count, n.keys, Unused, n.slots)
  BY SortedFacts
<1>2. Erase(n, b) = EraseSorted(n, b)
  BY DEF Erase, SortedNode, Sorted, Indexed
<1>3. Erase(n, b) = Rewritten(n, CloseUp(n.keys, LowerBound(n, b), n.count),
                              CloseUp(n.slots, LowerBound(n, b), n.count), n.count - 1)
  BY <1>2 DEF EraseSorted, Rewritten
<1> QED
  BY <1>1, <1>3, NodeChanged

\* erase() on a sorted node takes the child out and moves no other.
LEMMA SortedErase ==
    ASSUME NEW n, SortedNode(n), NEW b \in Byte, Find(n, b) # Nil
    PROVE  /\ SortedNode(Erase(n, b))
           /\ Erase(n, b).type = n.type /\ Erase(n, b).count = n.count - 1
           /\ \A x \in Byte : Find(Erase(n, b), x) = IF x = b THEN Nil ELSE Find(n, x)
<1>0. PICK k \in Nat, r \in Nat : k = n.count /\ r = LowerBound(n, b)
  BY Bounds, SortedFacts
<1>1. PICK keys, slots, m :
        /\ k = n.count /\ r = LowerBound(n, b)
        /\ keys = CloseUp(n.keys, r, k) /\ slots = CloseUp(n.slots, r, k)
        /\ m = Node(n.type, k - 1, keys, Unused, slots)
  BY <1>0
<1>2. m = Erase(n, b)
  BY <1>1, PlaceOfByte, EraseSortedIs
<1>3. /\ n.type \in {"node_4", "node_16"} /\ MaxSize(n.type) \in Nat /\ k =< MaxSize(n.type)
      /\ Places(n.type) = 0..(MaxSize(n.type) - 1)
      /\ n.keys \in [Places(n.type) -> Byte] /\ n.slots \in [Places(n.type) -> Slot]
      /\ \A p \in 0..(k - 1) : n.keys[p] \in Nat /\ n.keys[p] \in Byte /\ n.slots[p] \in Kids
      /\ \A p, q \in 0..(k - 1) : p < q => n.keys[p] < n.keys[q]
  BY <1>1, SortedFacts
<1>4. r \in 0..(k - 1) /\ n.keys[r] = b
  BY <1>1, PlaceOfByte
<1>5. keys \in [Places(n.type) -> Byte] /\ TakeOut(n.keys, keys, k, r)
  BY <1>1, <1>3, <1>4, CloseUpTakesOut
<1>6. slots \in [Places(n.type) -> Slot] /\ TakeOut(n.slots, slots, k, r)
  BY <1>1, <1>3, <1>4, CloseUpTakesOut
<1>7. \A p, q \in 0..(k - 2) : p < q => keys[p] < keys[q]
  BY <1>3, <1>4, <1>5, AscendingTakeOut
<1>8. \A p \in 0..(k - 2) : slots[p] # Nil
  <2>1. ASSUME NEW p \in 0..(k - 2)  PROVE slots[p] \in Kids
    <3>1. CASE p < r
      BY <1>3, <1>4, <1>6, <3>1, TakeOutPlaces
    <3>2. CASE p >= r
      <4>1. p + 1 \in 0..(k - 1) /\ slots[p] = n.slots[p + 1]
        BY <1>4, <1>6, <3>2, TakeOutPlaces
      <4> QED
        BY <1>3, <4>1
    <3> QED
      BY <1>4, <3>1, <3>2
  <2> QED
    BY <2>1, NilAssumption
<1>9. k - 1 \in Nat /\ k - 1 =< MaxSize(n.type) /\ (k - 1) - 1 = k - 2
  BY <1>3, <1>4
<1>10. SortedNode(m)
  BY <1>1, <1>3, <1>5, <1>6, <1>7, <1>8, <1>9, SortedIsSound
<1>11. m.type = n.type /\ m.count = k - 1 /\ m.keys = keys /\ m.slots = slots /\ m.count - 1 = k - 2
  BY <1>1, <1>9 DEF Node
<1>12. ASSUME NEW q \in 0..(k - 2)
       PROVE  /\ keys[q] # b
              /\ \E p \in 0..(k - 1) : keys[q] = n.keys[p]
  <2>1. CASE q < r
    <3>1. q \in 0..(k - 1) /\ keys[q] = n.keys[q] /\ r \in 0..(k - 1)
      BY <1>4, <1>5, <2>1, TakeOutPlaces
    <3> QED
      BY <1>3, <1>4, <2>1, <3>1
  <2>2. CASE q >= r
    <3>1. q + 1 \in 0..(k - 1) /\ keys[q] = n.keys[q + 1] /\ r < q + 1 /\ r \in 0..(k - 1)
      BY <1>4, <1>5, <2>2, TakeOutPlaces
    <3> QED
      BY <1>3, <1>4, <3>1
  <2> QED
    BY <1>4, <2>1, <2>2
<1>13. Find(m, b) = Nil
  BY <1>10, <1>11, <1>12, FindInSorted
<1>14. ASSUME NEW x \in Byte, x # b  PROVE Find(m, x) = Find(n, x)
  <2>1. ASSUME NEW p \in 0..(k - 1), n.keys[p] = x
        PROVE  \E q \in 0..(k - 2) : keys[q] = x /\ slots[q] = n.slots[p]
    <3>1. p < r \/ p > r
      BY <1>4, <1>14, <2>1
    <3>2. CASE p < r
      BY <1>4, <1>5, <1>6, <2>1, <3>2, TakeOutPlaces
    <3>3. CASE p > r
      BY <1>4, <1>5, <1>6, <2>1, <3>3, TakeOutPlaces
    <3> QED
      BY <3>1, <3>2, <3>3
  <2>2. ASSUME NEW q \in 0..(k - 2), keys[q] = x
        PROVE  \E p \in 0..(k - 1) : n.keys[p] = x
    BY <1>12, <2>2
  <2> QED
    BY <1>1, <1>10, <1>11, <2>1, <2>2, SameFind
<1> QED
  BY <1>1, <1>2, <1>10, <1>11, <1>13, <1>14

\* update_child_ptr() on a sorted node.
LEMMA SortedUpdate ==
    ASSUME NEW n, SortedNode(n), NEW b \in Byte, NEW c \in Kids, Find(n, b) # Nil
    PROVE  /\ SortedNode(Update(n, b, c))
           /\ Update(n, b, c).type = n.type /\ Update(n, b, c).count = n.count
           /\ \A x \in Byte : Find(Update(n, b, c), x) = IF x = b THEN c ELSE Find(n, x)
<1>0. PICK k \in Nat, r \in Nat : k = n.count /\ r = LowerBound(n, b)
  BY Bounds, SortedFacts
<1>1. PICK slots, m :
        /\ k = n.count /\ r = LowerBound(n, b)
        /\ slots = [n.slots EXCEPT ![r] = c]
        /\ m = Node(n.type, k, n.keys, Unused, slots)
  BY <1>0
<1>2. /\ n.type \in {"node_4", "node_16"} /\ MaxSize(n.type) \in Nat /\ k =< MaxSize(n.type)
      /\ Places(n.type) = 0..(MaxSize(n.type) - 1)
      /\ n.keys \in [Places(n.type) -> Byte] /\ n.slots \in [Places(n.type) -> Slot]
      /\ n = Node(n.type, k, n.keys, Unused, n.slots)
      /\ \A p \in 0..(k - 1) : n.keys[p] \in Nat /\ n.keys[p] \in Byte /\ n.slots[p] \in Kids
      /\ \A p, q \in 0..(k - 1) : p < q => n.keys[p] < n.keys[q]
  BY <1>1, SortedFacts
<1>3. r \in 0..(k - 1) /\ r < k /\ n.keys[r] = b
  BY <1>1, PlaceOfByte
<1>4. Update(n, b, c) = [n EXCEPT !.slots = slots]
  <2>1. Update(n, b, c) = UpdateSorted(n, b, c)
    BY DEF Update, SortedNode, Sorted, Indexed
  <2>2. UpdateSorted(n, b, c) = [n EXCEPT !.slots = [n.slots EXCEPT ![r] = c]]
    BY <1>1, <1>3 DEF UpdateSorted
  <2> QED
    BY <1>1, <2>1, <2>2
<1>5. m = Update(n, b, c)
  <2>1. n = Node(n.type, k, n.keys, Unused, n.slots)
    BY <1>2
  <2>2. [n EXCEPT !.slots = slots] = Node(n.type, k, n.keys, Unused, slots)
    BY <2>1 DEF Node
  <2> QED
    BY <1>1, <1>4, <2>2
<1>6. c \in Slot /\ c # Nil
  BY NilAssumption DEF Slot
<1>7. /\ slots \in [Places(n.type) -> Slot]
      /\ slots[r] = c
      /\ \A p \in 0..(k - 1) : p # r => slots[p] = n.slots[p]
  BY <1>1, <1>2, <1>3, <1>6
<1>8. \A p \in 0..(k - 1) : slots[p] # Nil
  BY <1>2, <1>6, <1>7, NilAssumption
<1>9. SortedNode(m)
  BY <1>1, <1>2, <1>7, <1>8, SortedIsSound
<1>10. m.type = n.type /\ m.count = k /\ m.keys = n.keys /\ m.slots = slots
  BY <1>1 DEF Node
<1>11. Find(m, b) = c
  BY <1>3, <1>7, <1>9, <1>10, FindInSorted
<1>12. ASSUME NEW x \in Byte, x # b  PROVE Find(m, x) = Find(n, x)
  <2>1. ASSUME NEW p \in 0..(k - 1), n.keys[p] = x
        PROVE  m.keys[p] = x /\ m.slots[p] = n.slots[p]
    BY <1>3, <1>7, <1>10, <1>12, <2>1
  <2> QED
    BY <1>1, <1>9, <1>10, <2>1, SameFind
<1> QED
  BY <1>1, <1>5, <1>9, <1>10, <1>11, <1>12

-----------------------------------------------------------------------------
(* _Node_48.                                                               *)

IndexedNode(n) ==
    /\ Indexed(n.type)
    /\ n \in NodeShape(n.type)
    /\ ExactIndex(n)

LEMMA IndexedFacts ==
    ASSUME NEW n, IndexedNode(n)
    PROVE  /\ n.type = "node_48" /\ n.count \in Nat /\ n.count =< Cap48
           /\ n.index \in [Byte -> Places("node_48") \cup {EmptyMarker}]
           /\ n.slots \in [Places("node_48") -> Slot]
           /\ n = Node("node_48", n.count, Unused, n.index, n.slots)
           /\ \A b, c \in Byte : n.index[b] = n.index[c] /\ n.index[b] # EmptyMarker => b = c
           /\ \A p \in Places("node_48") : n.slots[p] # Nil <=> \E b \in Byte : n.index[b] = p
<1>1. n.type = "node_48"
  BY DEF IndexedNode, Indexed
<1>2. n \in [type : {"node_48"}, count : 0..Cap48, keys : {Unused},
             index : [Byte -> Places("node_48") \cup {EmptyMarker}],
             slots : [Places("node_48") -> Slot]]
  BY <1>1, Capacities DEF IndexedNode, NodeShape, Sorted, Indexed
<1>3. n.count \in 0..Cap48
  BY <1>2
<1>4. n.count \in Nat /\ n.count =< Cap48
  BY <1>3, Capacities
<1>5. n = Node("node_48", n.count, Unused, n.index, n.slots)
  BY <1>2 DEF Node
<1> QED
  BY <1>1, <1>2, <1>4, <1>5 DEF IndexedNode, ExactIndex

LEMMA MarkerIsNoPlace == EmptyMarker \notin Places("node_48")
BY Capacities, MarkerAssumption

LEMMA IndexedIsSound ==
    ASSUME NEW k \in Nat, k =< Cap48,
           NEW index \in [Byte -> Places("node_48") \cup {EmptyMarker}],
           NEW slots \in [Places("node_48") -> Slot],
           \A b, c \in Byte : index[b] = index[c] /\ index[b] # EmptyMarker => b = c,
           \A p \in Places("node_48") : slots[p] # Nil <=> \E b \in Byte : index[b] = p
    PROVE  IndexedNode(Node("node_48", k, Unused, index, slots))
<1>1. k \in 0..Cap48
  BY Capacities
<1>2. Node("node_48", k, Unused, index, slots) \in NodeShape("node_48")
  BY <1>1, Capacities DEF NodeShape, Node, Sorted, Indexed
<1> QED
  BY <1>2 DEF IndexedNode, Indexed, ExactIndex, Node

LEMMA FindInIndexed ==
    ASSUME NEW n, IndexedNode(n), NEW b \in Byte
    PROVE  /\ Find(n, b) = IF n.index[b] # EmptyMarker THEN n.slots[n.index[b]] ELSE Nil
           /\ Find(n, b) # Nil <=> n.index[b] # EmptyMarker
           /\ n.index[b] # EmptyMarker => n.index[b] \in Places("node_48")
           /\ Find(n, b) \in Slot
<1>1. Find(n, b) = IF n.index[b] # EmptyMarker THEN n.slots[n.index[b]] ELSE Nil
  BY DEF Find, FindIndexed, IndexedNode, Sorted, Indexed
<1>2. n.index[b] \in Places("node_48") \cup {EmptyMarker}
  BY IndexedFacts
<1>3. n.index[b] # EmptyMarker => n.slots[n.index[b]] \in Slot /\ n.slots[n.index[b]] # Nil
  BY <1>2, IndexedFacts
<1>4. Nil \in Slot
  BY DEF Slot
<1> QED
  BY <1>1, <1>2, <1>3, <1>4

LEMMA BytesAreFinite ==
    ASSUME NEW S \in SUBSET Byte
    PROVE  IsFiniteSet(S) /\ Cardinality(S) \in Nat
<1>1. IsFiniteSet(Byte)
  BY Capacities, FS_Interval DEF Byte
<1>2. IsFiniteSet(S)
  BY <1>1, FS_Subset
<1> QED
  BY <1>2, FS_CardinalityType

LEMMA TakenAreBytes ==
    ASSUME NEW n
    PROVE  Taken(n) \in SUBSET Byte /\ IsFiniteSet(Taken(n)) /\ Cardinality(Taken(n)) \in Nat
BY BytesAreFinite DEF Taken

\* The search of insert() for a null slot, which has no bound, ends in the array.
LEMMA SlotIsFree ==
    ASSUME NEW n, IndexedNode(n), n.count = Cardinality(Taken(n)), n.count < Cap48
    PROVE  /\ Min(FreePlaces(n)) \in Places("node_48")
           /\ n.slots[Min(FreePlaces(n))] = Nil
           /\ \A p \in Places("node_48") : n.slots[p] = Nil => Min(FreePlaces(n)) =< p
<1> DEFINE P == Places("node_48")
           f == [p \in P |-> CHOOSE b \in Byte : n.index[b] = p]
<1>1. P = 0..(Cap48 - 1) /\ IsFiniteSet(P) /\ Cardinality(P) = Cap48
  <2>1. P = 0..(Cap48 - 1) /\ 0 \in Int /\ Cap48 - 1 \in Int /\ ~ (0 > Cap48 - 1)
        /\ Cap48 - 1 - 0 + 1 = Cap48
    BY Capacities
  <2> QED
    BY <2>1, FS_Interval
<1>2. n.count \in Nat
  BY IndexedFacts
<1>3. ASSUME \A p \in P : n.slots[p] # Nil  PROVE FALSE
  <2>1. ASSUME NEW p \in P  PROVE f[p] \in Byte /\ n.index[f[p]] = p
    <3>1. \E b \in Byte : n.index[b] = p
      BY <1>3, IndexedFacts
    <3> QED
      BY <3>1
  <2> HIDE DEF f
  <2>2. ASSUME NEW p \in P  PROVE f[p] \in Taken(n)
    BY <2>1, FindInIndexed, MarkerIsNoPlace DEF Taken
  <2>3. f \in [P -> Taken(n)]
    BY <2>2 DEF f
  <2>4. PICK x \in P, y \in P : x # y /\ f[x] = f[y]
    BY <1>1, <1>2, <2>3, TakenAreBytes, FS_PigeonHole
  <2> QED
    BY <2>1, <2>4
<1>4. FreePlaces(n) = {p \in P : n.slots[p] = Nil}
  BY IndexedFacts DEF FreePlaces
<1>5. FreePlaces(n) # {} /\ FreePlaces(n) \in SUBSET Nat
  <2>1. P \in SUBSET Nat
    BY <1>1, Capacities
  <2>2. \E p \in P : n.slots[p] = Nil
    BY <1>3
  <2> HIDE DEF P
  <2> QED
    BY <1>4, <2>1, <2>2
<1>6. Min(FreePlaces(n)) \in FreePlaces(n) /\ \A p \in FreePlaces(n) : Min(FreePlaces(n)) =< p
  BY <1>5, MinOfBytes
<1> QED
  BY <1>4, <1>6

\* The assignments at the end of insert() and erase().
Reindexed(n, index, slots, k) == [n EXCEPT !.index = index, !.slots = slots, !.count = k]

LEMMA NodeReindexed ==
    ASSUME NEW n, NEW t, NEW k, NEW keys, NEW index, NEW slots,
           n = Node(t, k, keys, index, slots), NEW index2, NEW slots2, NEW k2
    PROVE  Reindexed(n, index2, slots2, k2) = Node(t, k2, keys, index2, slots2)
<1>1. Reindexed(n, index2, slots2, k2)
        = [[[n EXCEPT !.index = index2] EXCEPT !.slots = slots2] EXCEPT !.count = k2]
  BY DEF Node, Reindexed
<1>2. [n EXCEPT !.index = index2] = Node(t, k, keys, index2, slots)
  BY DEF Node
<1>3. [Node(t, k, keys, index2, slots) EXCEPT !.slots = slots2]
        = Node(t, k, keys, index2, slots2)
  BY DEF Node
<1>4. [Node(t, k, keys, index2, slots2) EXCEPT !.count = k2] = Node(t, k2, keys, index2, slots2)
  BY DEF Node
<1> QED
  BY <1>1, <1>2, <1>3, <1>4

LEMMA InsertIndexedIs ==
    ASSUME NEW n, IndexedNode(n), NEW b, NEW c
    PROVE  Insert(n, b, c) =
             Node("node_48", n.count + 1, Unused,
                  [n.index EXCEPT ![b] = Min(FreePlaces(n))],
                  [n.slots EXCEPT ![Min(FreePlaces(n))] = c])
<1>1. n = Node("node_48", n.count, Unused, n.index, n.slots)
  BY IndexedFacts
<1>2. Insert(n, b, c) = InsertIndexed(n, b, c)
  BY DEF Insert, IndexedNode, Sorted, Indexed
<1>3. Insert(n, b, c) = Reindexed(n, [n.index EXCEPT ![b] = Min(FreePlaces(n))],
                                  [n.slots EXCEPT ![Min(FreePlaces(n))] = c], n.count + 1)
  BY <1>2 DEF InsertIndexed, Reindexed
<1> QED
  BY <1>1, <1>3, NodeReindexed

LEMMA EraseIndexedIs ==
    ASSUME NEW n, IndexedNode(n), NEW b
    PROVE  Erase(n, b) =
             Node("node_48", n.count - 1, Unused, [n.index EXCEPT ![b] = EmptyMarker],
                  [n.slots EXCEPT ![n.index[b]] = Nil])
<1>1. n = Node("node_48", n.count, Unused, n.index, n.slots)
  BY IndexedFacts
<1>2. Erase(n, b) = EraseIndexed(n, b)
  BY DEF Erase, IndexedNode, Sorted, Indexed
<1>3. Erase(n, b) = Reindexed(n, [n.index EXCEPT ![b] = EmptyMarker],
                              [n.slots EXCEPT ![n.index[b]] = Nil], n.count - 1)
  BY <1>1, <1>2 DEF EraseIndexed, Reindexed, Node
<1> QED
  BY <1>1, <1>3, NodeReindexed

LEMMA IndexedInsert ==
    ASSUME NEW n, IndexedNode(n), NEW b \in Byte, NEW c \in Kids,
           Find(n, b) = Nil, n.count < Cap48, n.count = Cardinality(Taken(n))
    PROVE  /\ IndexedNode(Insert(n, b, c))
           /\ Insert(n, b, c).type = n.type /\ Insert(n, b, c).count = n.count + 1
           /\ \A x \in Byte : Find(Insert(n, b, c), x) = IF x = b THEN c ELSE Find(n, x)
<1>0. PICK k \in Nat : k = n.count
  BY IndexedFacts
<1>1. PICK p, index, slots, m :
        /\ k = n.count /\ p = Min(FreePlaces(n))
        /\ index = [n.index EXCEPT ![b] = p] /\ slots = [n.slots EXCEPT ![p] = c]
        /\ m = Node("node_48", k + 1, Unused, index, slots)
  BY <1>0
<1>2. m = Insert(n, b, c)
  BY <1>1, InsertIndexedIs
<1>3. p \in Places("node_48") /\ n.slots[p] = Nil
  BY <1>1, SlotIsFree
<1>4. /\ n.index \in [Byte -> Places("node_48") \cup {EmptyMarker}]
      /\ n.slots \in [Places("node_48") -> Slot]
      /\ \A x, y \in Byte : n.index[x] = n.index[y] /\ n.index[x] # EmptyMarker => x = y
      /\ \A q \in Places("node_48") : n.slots[q] # Nil <=> \E x \in Byte : n.index[x] = q
  BY IndexedFacts
<1>5. n.index[b] = EmptyMarker /\ \A x \in Byte : n.index[x] # p
  BY <1>3, <1>4, FindInIndexed
<1>6. c \in Slot /\ c # Nil /\ EmptyMarker # p
  BY <1>3, NilAssumption, MarkerIsNoPlace DEF Slot
<1>7. /\ index \in [Byte -> Places("node_48") \cup {EmptyMarker}]
      /\ index[b] = p /\ \A x \in Byte : x # b => index[x] = n.index[x]
  BY <1>1, <1>3, <1>4
<1>8. /\ slots \in [Places("node_48") -> Slot]
      /\ slots[p] = c /\ \A q \in Places("node_48") : q # p => slots[q] = n.slots[q]
  BY <1>1, <1>3, <1>4, <1>6
<1>9. \A x, y \in Byte : index[x] = index[y] /\ index[x] # EmptyMarker => x = y
  BY <1>4, <1>5, <1>7
<1>10. ASSUME NEW q \in Places("node_48")
       PROVE  slots[q] # Nil <=> \E x \in Byte : index[x] = q
  <2>1. CASE q = p
    BY <1>6, <1>7, <1>8, <2>1
  <2>2. CASE q # p
    <3>1. q # EmptyMarker
      BY MarkerIsNoPlace
    <3>2. (\E x \in Byte : index[x] = q) <=> (\E x \in Byte : n.index[x] = q)
      BY <1>5, <1>7, <2>2, <3>1
    <3> QED
      BY <1>4, <1>8, <2>2, <3>2
  <2> QED
    BY <2>1, <2>2
<1>11. IndexedNode(m)
  <2>1. k + 1 \in Nat /\ k + 1 =< Cap48
    BY <1>1, Capacities
  <2> QED
    BY <1>1, <1>7, <1>8, <1>9, <1>10, <2>1, IndexedIsSound
<1>12. m.type = "node_48" /\ m.count = k + 1 /\ m.index = index /\ m.slots = slots
  BY <1>1 DEF Node
<1>13. Find(m, b) = c
  BY <1>6, <1>7, <1>8, <1>11, <1>12, FindInIndexed
<1>14. ASSUME NEW x \in Byte, x # b  PROVE Find(m, x) = Find(n, x)
  <2>1. index[x] = n.index[x] /\ index[x] # p
    BY <1>5, <1>7, <1>14
  <2>2. index[x] # EmptyMarker => slots[index[x]] = n.slots[index[x]]
    BY <1>7, <1>8, <2>1
  <2> QED
    BY <1>11, <1>12, <2>1, <2>2, FindInIndexed
<1> QED
  BY <1>1, <1>2, <1>11, <1>12, <1>13, <1>14, IndexedFacts

LEMMA IndexedErase ==
    ASSUME NEW n, IndexedNode(n), NEW b \in Byte, Find(n, b) # Nil, n.count >= 1
    PROVE  /\ IndexedNode(Erase(n, b))
           /\ Erase(n, b).type = n.type /\ Erase(n, b).count = n.count - 1
           /\ \A x \in Byte : Find(Erase(n, b), x) = IF x = b THEN Nil ELSE Find(n, x)
<1>0. PICK k \in Nat : k = n.count
  BY IndexedFacts
<1>1. PICK p, index, slots, m :
        /\ k = n.count /\ p = n.index[b]
        /\ index = [n.index EXCEPT ![b] = EmptyMarker] /\ slots = [n.slots EXCEPT ![p] = Nil]
        /\ m = Node("node_48", k - 1, Unused, index, slots)
  BY <1>0
<1>2. m = Erase(n, b)
  BY <1>1, EraseIndexedIs
<1>3. p \in Places("node_48") /\ p # EmptyMarker
  BY <1>1, FindInIndexed
<1>4. /\ n.index \in [Byte -> Places("node_48") \cup {EmptyMarker}]
      /\ n.slots \in [Places("node_48") -> Slot]
      /\ \A x, y \in Byte : n.index[x] = n.index[y] /\ n.index[x] # EmptyMarker => x = y
      /\ \A q \in Places("node_48") : n.slots[q] # Nil <=> \E x \in Byte : n.index[x] = q
  BY IndexedFacts
<1>5. \A x \in Byte : x # b => n.index[x] # p
  BY <1>1, <1>3, <1>4
<1>6. /\ index \in [Byte -> Places("node_48") \cup {EmptyMarker}]
      /\ index[b] = EmptyMarker /\ \A x \in Byte : x # b => index[x] = n.index[x]
  BY <1>1, <1>4
<1>7. /\ slots \in [Places("node_48") -> Slot]
      /\ slots[p] = Nil /\ \A q \in Places("node_48") : q # p => slots[q] = n.slots[q]
  BY <1>1, <1>3, <1>4 DEF Slot
<1>8. \A x, y \in Byte : index[x] = index[y] /\ index[x] # EmptyMarker => x = y
  BY <1>4, <1>6
<1>9. ASSUME NEW q \in Places("node_48")
      PROVE  slots[q] # Nil <=> \E x \in Byte : index[x] = q
  <2>1. CASE q = p
    <3>1. ASSUME NEW x \in Byte  PROVE index[x] # q
      BY <1>3, <1>5, <1>6, <2>1
    <3> QED
      BY <1>7, <2>1, <3>1
  <2>2. CASE q # p
    <3>1. (\E x \in Byte : index[x] = q) <=> (\E x \in Byte : n.index[x] = q)
      BY <1>1, <1>6, <2>2, MarkerIsNoPlace
    <3> QED
      BY <1>4, <1>7, <2>2, <3>1
  <2> QED
    BY <2>1, <2>2
<1>10. IndexedNode(m)
  <2>1. k - 1 \in Nat /\ k - 1 =< Cap48
    BY <1>1, Capacities, IndexedFacts
  <2> QED
    BY <1>1, <1>6, <1>7, <1>8, <1>9, <2>1, IndexedIsSound
<1>11. m.type = "node_48" /\ m.count = k - 1 /\ m.index = index /\ m.slots = slots
  BY <1>1 DEF Node
<1>12. Find(m, b) = Nil
  BY <1>6, <1>10, <1>11, FindInIndexed
<1>13. ASSUME NEW x \in Byte, x # b  PROVE Find(m, x) = Find(n, x)
  <2>1. index[x] = n.index[x] /\ index[x] # p
    BY <1>5, <1>6, <1>13
  <2>2. index[x] # EmptyMarker => slots[index[x]] = n.slots[index[x]]
    BY <1>6, <1>7, <2>1
  <2> QED
    BY <1>10, <1>11, <2>1, <2>2, FindInIndexed
<1> QED
  BY <1>1, <1>2, <1>10, <1>11, <1>12, <1>13, IndexedFacts

LEMMA IndexedUpdate ==
    ASSUME NEW n, IndexedNode(n), NEW b \in Byte, NEW c \in Kids, Find(n, b) # Nil
    PROVE  /\ IndexedNode(Update(n, b, c))
           /\ Update(n, b, c).type = n.type /\ Update(n, b, c).count = n.count
           /\ \A x \in Byte : Find(Update(n, b, c), x) = IF x = b THEN c ELSE Find(n, x)
<1>1. PICK p, slots, m :
        /\ p = n.index[b] /\ slots = [n.slots EXCEPT ![p] = c]
        /\ m = Node("node_48", n.count, Unused, n.index, slots)
  OBVIOUS
<1>2. p \in Places("node_48") /\ p # EmptyMarker
  BY <1>1, FindInIndexed
<1>3. /\ n.index \in [Byte -> Places("node_48") \cup {EmptyMarker}]
      /\ n.slots \in [Places("node_48") -> Slot]
      /\ \A x, y \in Byte : n.index[x] = n.index[y] /\ n.index[x] # EmptyMarker => x = y
      /\ \A q \in Places("node_48") : n.slots[q] # Nil <=> \E x \in Byte : n.index[x] = q
      /\ n.count \in Nat /\ n.count =< Cap48 /\ n.type = "node_48"
  BY IndexedFacts
<1>4. m = Update(n, b, c)
  <2>1. Update(n, b, c) = UpdateIndexed(n, b, c)
    BY DEF Update, IndexedNode, Sorted, Indexed
  <2>2. UpdateIndexed(n, b, c) = [n EXCEPT !.slots = [n.slots EXCEPT ![n.index[b]] = c]]
    BY <1>1, <1>2 DEF UpdateIndexed
  <2>3. Update(n, b, c) = [n EXCEPT !.slots = slots]
    BY <1>1, <2>1, <2>2
  <2>4. n = Node("node_48", n.count, Unused, n.index, n.slots)
    BY IndexedFacts
  <2>5. [n EXCEPT !.slots = slots] = Node("node_48", n.count, Unused, n.index, slots)
    BY <2>4 DEF Node
  <2> QED
    BY <1>1, <2>3, <2>5
<1>5. c \in Slot /\ c # Nil
  BY NilAssumption DEF Slot
<1>6. /\ slots \in [Places("node_48") -> Slot]
      /\ slots[p] = c /\ \A q \in Places("node_48") : q # p => slots[q] = n.slots[q]
  BY <1>1, <1>2, <1>3, <1>5
<1>7. \A q \in Places("node_48") : slots[q] # Nil <=> \E x \in Byte : n.index[x] = q
  BY <1>1, <1>2, <1>3, <1>5, <1>6
<1>8. IndexedNode(m)
  BY <1>1, <1>3, <1>6, <1>7, IndexedIsSound
<1>9. m.type = "node_48" /\ m.count = n.count /\ m.index = n.index /\ m.slots = slots
  BY <1>1 DEF Node
<1>10. Find(m, b) = c
  BY <1>1, <1>2, <1>6, <1>8, <1>9, FindInIndexed
<1>11. ASSUME NEW x \in Byte, x # b  PROVE Find(m, x) = Find(n, x)
  <2>1. n.index[x] # p
    BY <1>1, <1>2, <1>3, <1>11
  <2>2. n.index[x] # EmptyMarker => slots[n.index[x]] = n.slots[n.index[x]]
    BY <1>3, <1>6, <2>1
  <2> QED
    BY <1>8, <1>9, <2>2, FindInIndexed
<1> QED
  BY <1>3, <1>4, <1>8, <1>9, <1>10, <1>11

-----------------------------------------------------------------------------
(* _Node_256.                                                              *)

DirectNode(n) == n.type = "node_256" /\ n \in NodeShape("node_256")

LEMMA DirectFacts ==
    ASSUME NEW n, DirectNode(n)
    PROVE  /\ n.type = "node_256" /\ n.count \in Nat /\ n.count =< Cap256
           /\ n.slots \in [Byte -> Slot]
           /\ n = Node("node_256", n.count, Unused, Unused, n.slots)
           /\ \A b \in Byte : Find(n, b) = n.slots[b]
<1>1. n.type = "node_256" /\ ~ Sorted(n.type) /\ ~ Indexed(n.type)
  BY DEF DirectNode, Sorted, Indexed
<1>2. n \in [type : {"node_256"}, count : 0..Cap256, keys : {Unused}, index : {Unused},
             slots : [Byte -> Slot]]
  BY <1>1, Capacities DEF DirectNode, NodeShape
<1>3. n.count \in 0..Cap256
  BY <1>2
<1>4. n.count \in Nat /\ n.count =< Cap256
  BY <1>3, Capacities
<1>5. n = Node("node_256", n.count, Unused, Unused, n.slots)
  BY <1>2 DEF Node
<1>6. \A b \in Byte : Find(n, b) = n.slots[b]
  BY <1>1 DEF Find
<1> QED
  BY <1>1, <1>2, <1>4, <1>5, <1>6

LEMMA DirectIsSound ==
    ASSUME NEW k \in Nat, k =< Cap256, NEW slots \in [Byte -> Slot]
    PROVE  DirectNode(Node("node_256", k, Unused, Unused, slots))
<1>1. k \in 0..Cap256
  BY Capacities
<1> QED
  BY <1>1, Capacities DEF DirectNode, NodeShape, Node, Sorted, Indexed

\* The assignment of a slot, and of the count.
LEMMA DirectWrite ==
    ASSUME NEW n, DirectNode(n), NEW b \in Byte, NEW c \in Slot, NEW k \in Nat, k =< Cap256,
           NEW m, m = Node("node_256", k, Unused, Unused, [n.slots EXCEPT ![b] = c])
    PROVE  /\ DirectNode(m) /\ m.type = n.type /\ m.count = k
           /\ \A x \in Byte : Find(m, x) = IF x = b THEN c ELSE Find(n, x)
<1>1. n.slots \in [Byte -> Slot]
  BY DirectFacts
<1>2. PICK slots : slots = [n.slots EXCEPT ![b] = c]
  OBVIOUS
<1>3. /\ slots \in [Byte -> Slot]
      /\ \A x \in Byte : slots[x] = IF x = b THEN c ELSE n.slots[x]
  BY <1>1, <1>2
<1>4. DirectNode(m) /\ m.count = k /\ m.slots = slots
  <2>1. m = Node("node_256", k, Unused, Unused, slots)
    BY <1>2
  <2>2. DirectNode(m)
    BY <1>3, <2>1, DirectIsSound
  <2> QED
    BY <2>1, <2>2 DEF Node
<1>5. \A x \in Byte : Find(m, x) = slots[x] /\ Find(n, x) = n.slots[x]
  BY <1>4, DirectFacts
<1> QED
  BY <1>3, <1>4, <1>5, DirectFacts

LEMMA SlotWritten ==
    ASSUME NEW n, DirectNode(n), NEW slots, NEW k
    PROVE  [n EXCEPT !.slots = slots, !.count = k] = Node("node_256", k, Unused, Unused, slots)
<1>1. n = Node("node_256", n.count, Unused, Unused, n.slots)
  BY DirectFacts
<1>2. [n EXCEPT !.slots = slots] = Node("node_256", n.count, Unused, Unused, slots)
  BY <1>1 DEF Node
<1>3. [Node("node_256", n.count, Unused, Unused, slots) EXCEPT !.count = k]
        = Node("node_256", k, Unused, Unused, slots)
  BY DEF Node
<1>4. [n EXCEPT !.slots = slots, !.count = k] = [[n EXCEPT !.slots = slots] EXCEPT !.count = k]
  BY <1>1 DEF Node
<1> QED
  BY <1>2, <1>3, <1>4

LEMMA DirectInsert ==
    ASSUME NEW n, DirectNode(n), NEW b \in Byte, NEW c \in Kids, n.count < Cap256
    PROVE  /\ DirectNode(Insert(n, b, c))
           /\ Insert(n, b, c).type = n.type /\ Insert(n, b, c).count = n.count + 1
           /\ \A x \in Byte : Find(Insert(n, b, c), x) = IF x = b THEN c ELSE Find(n, x)
<1>1. Insert(n, b, c) = Node("node_256", n.count + 1, Unused, Unused, [n.slots EXCEPT ![b] = c])
  <2>1. PICK slots, k : slots = [n.slots EXCEPT ![b] = c] /\ k = n.count + 1
    OBVIOUS
  <2>2. Insert(n, b, c) = InsertDirect(n, b, c)
    BY DEF Insert, DirectNode, Sorted, Indexed
  <2>3. Insert(n, b, c) = [n EXCEPT !.slots = slots, !.count = k]
    BY <2>1, <2>2 DEF InsertDirect
  <2>4. [n EXCEPT !.slots = slots, !.count = k] = Node("node_256", k, Unused, Unused, slots)
    BY SlotWritten
  <2> QED
    BY <2>1, <2>3, <2>4
<1>2. n.count + 1 \in Nat /\ n.count + 1 =< Cap256 /\ c \in Slot
  BY DirectFacts, Capacities DEF Slot
<1> QED
  BY <1>1, <1>2, DirectWrite

LEMMA DirectErase ==
    ASSUME NEW n, DirectNode(n), NEW b \in Byte, n.count >= 1
    PROVE  /\ DirectNode(Erase(n, b))
           /\ Erase(n, b).type = n.type /\ Erase(n, b).count = n.count - 1
           /\ \A x \in Byte : Find(Erase(n, b), x) = IF x = b THEN Nil ELSE Find(n, x)
<1>1. Erase(n, b) = Node("node_256", n.count - 1, Unused, Unused, [n.slots EXCEPT ![b] = Nil])
  <2>1. PICK slots, k : slots = [n.slots EXCEPT ![b] = Nil] /\ k = n.count - 1
    OBVIOUS
  <2>2. Erase(n, b) = EraseDirect(n, b)
    BY DEF Erase, DirectNode, Sorted, Indexed
  <2>3. Erase(n, b) = [n EXCEPT !.slots = slots, !.count = k]
    BY <2>1, <2>2 DEF EraseDirect
  <2>4. [n EXCEPT !.slots = slots, !.count = k] = Node("node_256", k, Unused, Unused, slots)
    BY SlotWritten
  <2> QED
    BY <2>1, <2>3, <2>4
<1>2. n.count - 1 \in Nat /\ n.count - 1 =< Cap256 /\ Nil \in Slot
  BY DirectFacts, Capacities DEF Slot
<1> QED
  BY <1>1, <1>2, DirectWrite

LEMMA DirectUpdate ==
    ASSUME NEW n, DirectNode(n), NEW b \in Byte, NEW c \in Kids, Find(n, b) # Nil
    PROVE  /\ DirectNode(Update(n, b, c))
           /\ Update(n, b, c).type = n.type /\ Update(n, b, c).count = n.count
           /\ \A x \in Byte : Find(Update(n, b, c), x) = IF x = b THEN c ELSE Find(n, x)
<1>1. Update(n, b, c) = Node("node_256", n.count, Unused, Unused, [n.slots EXCEPT ![b] = c])
  <2>1. PICK slots : slots = [n.slots EXCEPT ![b] = c]
    OBVIOUS
  <2>2. Update(n, b, c) = UpdateDirect(n, b, c) /\ n.slots[b] # Nil
    BY DirectFacts DEF Update, DirectNode, Sorted, Indexed
  <2>3. Update(n, b, c) = [n EXCEPT !.slots = slots]
    BY <2>1, <2>2 DEF UpdateDirect
  <2>4. n = Node("node_256", n.count, Unused, Unused, n.slots)
    BY DirectFacts
  <2>5. [n EXCEPT !.slots = slots] = Node("node_256", n.count, Unused, Unused, slots)
    BY <2>4 DEF Node
  <2> QED
    BY <2>1, <2>3, <2>5
<1>2. n.count \in Nat /\ n.count =< Cap256 /\ c \in Slot
  BY DirectFacts DEF Slot
<1> QED
  BY <1>1, <1>2, DirectWrite

-----------------------------------------------------------------------------
(* The constructors.                                                       *)

LEMMA ZeroIsByte == 0 \in Byte /\ Nil \in Slot
BY Capacities DEF Byte, Slot

LEMMA NewNodeIs ==
    ASSUME NEW b \in Byte, NEW c \in Kids
    PROVE  /\ SortedNode(NewNode4(b, c))
           /\ NewNode4(b, c).type = "node_4" /\ NewNode4(b, c).count = 1
           /\ \A x \in Byte : Find(NewNode4(b, c), x) = IF x = b THEN c ELSE Nil
<1>1. PICK keys, slots, m :
        /\ keys = [Zeros("node_4") EXCEPT ![0] = b]
        /\ slots = [NoSlots("node_4") EXCEPT ![0] = c]
        /\ m = Node("node_4", 1, keys, Unused, slots)
  OBVIOUS
<1>2. m = NewNode4(b, c)
  BY <1>1 DEF NewNode4
<1>3. 0 \in Places("node_4") /\ 0..(1 - 1) = {0} /\ 1 =< MaxSize("node_4")
  BY Capacities
<1>4. c \in Slot /\ c # Nil
  BY NilAssumption DEF Slot
<1>5. keys \in [Places("node_4") -> Byte] /\ keys[0] = b
  BY <1>1, <1>3, ZeroIsByte DEF Zeros
<1>6. slots \in [Places("node_4") -> Slot] /\ slots[0] = c
  BY <1>1, <1>3, <1>4, ZeroIsByte DEF NoSlots
<1>7. \A p, q \in 0..(1 - 1) : p < q => keys[p] < keys[q]
  BY <1>3
<1>8. \A p \in 0..(1 - 1) : slots[p] # Nil
  BY <1>3, <1>4, <1>6
<1>9. SortedNode(m)
  BY <1>1, <1>3, <1>5, <1>6, <1>7, <1>8, SortedIsSound
<1>10. m.type = "node_4" /\ m.count = 1 /\ m.keys = keys /\ m.slots = slots
  BY <1>1 DEF Node
<1>11. ASSUME NEW x \in Byte  PROVE Find(m, x) = IF x = b THEN c ELSE Nil
  <2>1. 0 \in 0..(m.count - 1) /\ \A p \in 0..(m.count - 1) : p = 0
    BY <1>3, <1>10
  <2> QED
    BY <1>5, <1>6, <1>9, <1>10, <2>1, FindInSorted
<1> QED
  BY <1>2, <1>9, <1>10, <1>11

\* _Node_16(_Node_4 *), _Node_4(_Node_16 *) and the copy of either: a sorted node
\* with the same keys and children at the places that count.
LEMMA SortedAlike ==
    ASSUME NEW n, SortedNode(n), NEW t \in {"node_4", "node_16"}, NEW k, k = n.count,
           k =< MaxSize(t),
           NEW keys \in [Places(t) -> Byte], NEW slots \in [Places(t) -> Slot],
           \A p \in 0..(k - 1) : keys[p] = n.keys[p] /\ slots[p] = n.slots[p],
           NEW m, m = Node(t, k, keys, Unused, slots)
    PROVE  /\ SortedNode(m) /\ m.type = t /\ m.count = n.count
           /\ \A x \in Byte : Find(m, x) = Find(n, x)
<1>1. /\ k \in Nat
      /\ \A p \in 0..(k - 1) : n.slots[p] \in Kids
      /\ \A p, q \in 0..(k - 1) : p < q => n.keys[p] < n.keys[q]
  BY SortedFacts
<1>2. \A p, q \in 0..(k - 1) : p < q => keys[p] < keys[q]
  BY <1>1
<1>3. \A p \in 0..(k - 1) : slots[p] # Nil
  BY <1>1, NilAssumption
<1>4. SortedNode(m)
  BY <1>1, <1>2, <1>3, SortedIsSound
<1>5. m.type = t /\ m.count = k /\ m.keys = keys /\ m.slots = slots
  BY DEF Node
<1>6. ASSUME NEW x \in Byte  PROVE Find(m, x) = Find(n, x)
  BY <1>4, <1>5, SameFind
<1> QED
  BY <1>4, <1>5, <1>6

LEMMA Grow4Is ==
    ASSUME NEW n, SortedNode(n), n.type = "node_4", n.count = Cap4
    PROVE  /\ SortedNode(GrownNode(n))
           /\ GrownNode(n).type = "node_16" /\ GrownNode(n).count = n.count
           /\ \A x \in Byte : Find(GrownNode(n), x) = Find(n, x)
<1>1. PICK keys, slots, m :
        /\ keys = [p \in Places("node_16") |-> IF p < Cap4 THEN n.keys[p] ELSE 0]
        /\ slots = [p \in Places("node_16") |-> IF p < Cap4 THEN n.slots[p] ELSE Nil]
        /\ m = Node("node_16", Cap4, keys, Unused, slots)
  OBVIOUS
<1>2. GrownNode(n) = m
  BY <1>1 DEF GrownNode, Grow4
<1>3. n.keys \in [Places("node_4") -> Byte] /\ n.slots \in [Places("node_4") -> Slot]
  BY SortedFacts
<1>4. \A p \in Places("node_16") : p < Cap4 => p \in Places("node_4")
  BY Capacities
<1>5. keys \in [Places("node_16") -> Byte] /\ slots \in [Places("node_16") -> Slot]
  BY <1>1, <1>3, <1>4, ZeroIsByte
<1>6. \A p \in 0..(Cap4 - 1) : p \in Places("node_16") /\ p < Cap4
  BY Capacities
<1>7. \A p \in 0..(Cap4 - 1) : keys[p] = n.keys[p] /\ slots[p] = n.slots[p]
  BY <1>1, <1>6
<1>8. Cap4 =< MaxSize("node_16")
  BY Capacities
<1>9. m = Node("node_16", Cap4, keys, Unused, slots)
  BY <1>1
<1>10. /\ SortedNode(m) /\ m.type = "node_16" /\ m.count = n.count
       /\ \A x \in Byte : Find(m, x) = Find(n, x)
  BY <1>5, <1>7, <1>8, <1>9, SortedAlike
<1> QED
  BY <1>2, <1>10

LEMMA Shrink16Is ==
    ASSUME NEW n, SortedNode(n), n.type = "node_16", n.count = Cap4
    PROVE  /\ SortedNode(Shrink16(n))
           /\ Shrink16(n).type = "node_4" /\ Shrink16(n).count = n.count
           /\ \A x \in Byte : Find(Shrink16(n), x) = Find(n, x)
<1>1. PICK keys, slots, m :
        /\ keys = [p \in Places("node_4") |-> n.keys[p]]
        /\ slots = [p \in Places("node_4") |-> n.slots[p]]
        /\ m = Node("node_4", Cap4, keys, Unused, slots)
  OBVIOUS
<1>2. Shrink16(n) = m
  BY <1>1 DEF Shrink16
<1>3. n.keys \in [Places("node_16") -> Byte] /\ n.slots \in [Places("node_16") -> Slot]
  BY SortedFacts
<1>4. \A p \in Places("node_4") : p \in Places("node_16")
  BY Capacities
<1>5. keys \in [Places("node_4") -> Byte] /\ slots \in [Places("node_4") -> Slot]
  BY <1>1, <1>3, <1>4
<1>6. \A p \in 0..(Cap4 - 1) : p \in Places("node_4")
  BY Capacities
<1>7. \A p \in 0..(Cap4 - 1) : keys[p] = n.keys[p] /\ slots[p] = n.slots[p]
  BY <1>1, <1>6
<1>8. Cap4 =< MaxSize("node_4")
  BY Capacities
<1>9. m = Node("node_4", Cap4, keys, Unused, slots)
  BY <1>1
<1>10. /\ SortedNode(m) /\ m.type = "node_4" /\ m.count = n.count
       /\ \A x \in Byte : Find(m, x) = Find(n, x)
  BY <1>5, <1>7, <1>8, <1>9, SortedAlike
<1> QED
  BY <1>2, <1>10

\* _Node_48(_Node_16 *): the index leads to the place of the key.
LEMMA Grow16Is ==
    ASSUME NEW n, SortedNode(n), n.type = "node_16", n.count = Cap16
    PROVE  /\ IndexedNode(GrownNode(n))
           /\ GrownNode(n).type = "node_48" /\ GrownNode(n).count = n.count
           /\ \A x \in Byte : Find(GrownNode(n), x) = Find(n, x)
<1> DEFINE At(b) == {p \in 0..(Cap16 - 1) : n.keys[p] = b}
<1>1. PICK index, slots, m :
        /\ index = [b \in Byte |-> IF At(b) = {} THEN EmptyMarker ELSE Max(At(b))]
        /\ slots = [p \in Places("node_48") |-> IF p < Cap16 THEN n.slots[p] ELSE Nil]
        /\ m = Node("node_48", Cap16, Unused, index, slots)
  OBVIOUS
<1>2. GrownNode(n) = m
  BY <1>1 DEF GrownNode, Grow16
<1>3. /\ n.keys \in [Places("node_16") -> Byte] /\ n.slots \in [Places("node_16") -> Slot]
      /\ \A p \in 0..(Cap16 - 1) : n.keys[p] \in Nat /\ n.keys[p] \in Byte /\ n.slots[p] \in Kids
      /\ \A p, q \in 0..(Cap16 - 1) : p < q => n.keys[p] < n.keys[q]
  BY SortedFacts
<1>4. \A p, q \in 0..(Cap16 - 1) : n.keys[p] = n.keys[q] => p = q
  BY <1>3, Capacities
<1>5. \A p \in 0..(Cap16 - 1) : p \in Places("node_48") /\ p < Cap16 /\ p # EmptyMarker
  BY Capacities, MarkerAssumption
<1>6. ASSUME NEW b \in Byte, NEW p \in 0..(Cap16 - 1), n.keys[p] = b  PROVE index[b] = p
  <2>1. At(b) = {p}
    BY <1>4, <1>6
  <2>2. p \in Nat /\ {p} \in SUBSET (0..p) /\ {p} # {}
    BY <1>6, Capacities
  <2>3. Max({p}) = p
    BY <2>2, MaxOfBytes
  <2> QED
    BY <1>1, <2>1, <2>3
<1>7. ASSUME NEW b \in Byte, \A p \in 0..(Cap16 - 1) : n.keys[p] # b
      PROVE  index[b] = EmptyMarker
  BY <1>1, <1>7
<1> HIDE DEF At
<1>8. index \in [Byte -> Places("node_48") \cup {EmptyMarker}]
  <2>1. ASSUME NEW b \in Byte  PROVE index[b] \in Places("node_48") \cup {EmptyMarker}
    BY <1>5, <1>6, <1>7
  <2> QED
    BY <1>1, <2>1
<1>9. \A b \in Byte : index[b] # EmptyMarker => index[b] \in 0..(Cap16 - 1) /\ n.keys[index[b]] = b
  BY <1>6, <1>7
<1>10. \A b, c \in Byte : index[b] = index[c] /\ index[b] # EmptyMarker => b = c
  BY <1>9
<1>11. slots \in [Places("node_48") -> Slot]
  <2>1. \A p \in Places("node_48") : p < Cap16 => p \in Places("node_16")
    BY Capacities
  <2> QED
    BY <1>1, <1>3, <2>1, ZeroIsByte
<1>12. \A p \in 0..(Cap16 - 1) : slots[p] = n.slots[p] /\ slots[p] # Nil
  BY <1>1, <1>3, <1>5, NilAssumption
<1>13. ASSUME NEW p \in Places("node_48")
       PROVE  slots[p] # Nil <=> \E b \in Byte : index[b] = p
  <2>1. CASE p < Cap16
    <3>1. p \in 0..(Cap16 - 1)
      BY <2>1, Capacities
    <3> QED
      BY <1>3, <1>6, <1>12, <3>1
  <2>2. CASE ~ (p < Cap16)
    <3>1. p \notin 0..(Cap16 - 1) /\ p # EmptyMarker
      BY <2>2, Capacities, MarkerIsNoPlace
    <3> QED
      BY <1>1, <1>9, <2>2, <3>1
  <2> QED
    BY <2>1, <2>2
<1>14. IndexedNode(m)
  <2>1. Cap16 \in Nat /\ Cap16 =< Cap48
    BY Capacities
  <2> QED
    <3>1. m = Node("node_48", Cap16, Unused, index, slots)
      BY <1>1
    <3> QED
      BY <1>8, <1>10, <1>11, <1>13, <2>1, <3>1, IndexedIsSound
<1>15. m.type = "node_48" /\ m.count = Cap16 /\ m.index = index /\ m.slots = slots
  BY <1>1 DEF Node
<1>16. ASSUME NEW x \in Byte  PROVE Find(m, x) = Find(n, x)
  <2>1. CASE \E p \in 0..(Cap16 - 1) : n.keys[p] = x
    <3>1. PICK p \in 0..(Cap16 - 1) : n.keys[p] = x
      BY <2>1
    <3>2. Find(n, x) = n.slots[p]
      BY <3>1, FindInSorted
    <3>3. index[x] = p /\ p # EmptyMarker
      BY <1>5, <1>6, <3>1
    <3>4. Find(m, x) = slots[p]
      BY <1>14, <1>15, <3>3, FindInIndexed
    <3> QED
      BY <1>12, <3>2, <3>4
  <2>2. CASE \A p \in 0..(Cap16 - 1) : n.keys[p] # x
    <3>1. Find(n, x) = Nil
      BY <2>2, FindInSorted
    <3>2. Find(m, x) = Nil
      BY <1>7, <1>14, <1>15, <2>2, FindInIndexed
    <3> QED
      BY <3>1, <3>2
  <2> QED
    BY <2>1, <2>2
<1> QED
  BY <1>2, <1>14, <1>15, <1>16

\* _Node_256(_Node_48 *).
LEMMA Grow48Is ==
    ASSUME NEW n, IndexedNode(n), n.count = Cap48
    PROVE  /\ DirectNode(GrownNode(n))
           /\ GrownNode(n).type = "node_256" /\ GrownNode(n).count = n.count
           /\ \A x \in Byte : Find(GrownNode(n), x) = Find(n, x)
<1>1. PICK slots, m :
        /\ slots = [b \in Byte |-> FindIndexed(n, b)]
        /\ m = Node("node_256", Cap48, Unused, Unused, slots)
  OBVIOUS
<1>2. GrownNode(n) = m
  BY <1>1, IndexedFacts DEF GrownNode, Grow48
<1>3. \A b \in Byte : FindIndexed(n, b) = Find(n, b)
  BY DEF Find, IndexedNode, Sorted, Indexed
<1>4. slots \in [Byte -> Slot] /\ \A b \in Byte : slots[b] = Find(n, b)
  BY <1>1, <1>3, FindInIndexed
<1>5. Cap48 \in Nat /\ Cap48 =< Cap256
  BY Capacities
<1>6. DirectNode(m)
  BY <1>1, <1>4, <1>5, DirectIsSound
<1>7. m.type = "node_256" /\ m.count = Cap48 /\ m.slots = slots
  BY <1>1 DEF Node
<1> QED
  BY <1>2, <1>4, <1>6, <1>7, DirectFacts

-----------------------------------------------------------------------------
(* The layouts together.                                                   *)

LEMMA SoundKinds ==
    ASSUME NEW n
    PROVE  /\ Sound(n) <=> SortedNode(n) \/ IndexedNode(n) \/ DirectNode(n)
           /\ Sound(n) /\ Sorted(n.type) => SortedNode(n)
           /\ Sound(n) /\ Indexed(n.type) => IndexedNode(n)
           /\ Sound(n) /\ Direct(n.type) => DirectNode(n)
           /\ Sound(n) => Sorted(n.type) \/ Indexed(n.type) \/ Direct(n.type)
<1>1. SortedNode(n) => Sound(n) /\ n.type # "node_48" /\ n.type # "node_256"
  BY DEF SortedNode, Sound, Sorted, Indexed, InnerTypes
<1>2. IndexedNode(n) => Sound(n)
  BY DEF IndexedNode, Sound, Sorted, Indexed, InnerTypes
<1>3. DirectNode(n) => Sound(n)
  BY DEF DirectNode, Sound, Sorted, Indexed, InnerTypes
<1>4. Sound(n) => Sorted(n.type) \/ Indexed(n.type) \/ Direct(n.type)
  BY DEF Sound, Sorted, Indexed, Direct, InnerTypes
<1>5. Sound(n) /\ Sorted(n.type) => SortedNode(n)
  BY DEF Sound, SortedNode
<1>6. Sound(n) /\ Indexed(n.type) => IndexedNode(n)
  BY DEF Sound, IndexedNode
<1>7. Sound(n) /\ Direct(n.type) => DirectNode(n)
  BY DEF Sound, DirectNode, Direct
<1> QED
  BY <1>1, <1>2, <1>3, <1>4, <1>5, <1>6, <1>7

LEMMA SoundFacts ==
    ASSUME NEW n, Sound(n)
    PROVE  /\ n.type \in InnerTypes /\ n \in NodeShape(n.type)
           /\ n.count \in Nat /\ n.count =< MaxSize(n.type) /\ MaxSize(n.type) \in Nat
           /\ \A x \in Byte : Find(n, x) \in Slot
<1>1. n.type \in InnerTypes /\ n \in NodeShape(n.type)
  BY DEF Sound
<1>2. CASE SortedNode(n)
  <2>1. \A x \in Byte : Find(n, x) \in Slot
    <3>1. ASSUME NEW x \in Byte  PROVE Find(n, x) \in Slot
      <4>1. CASE \E p \in 0..(n.count - 1) : n.keys[p] = x
        BY <1>2, <4>1, FindInSorted, SortedFacts DEF Slot
      <4>2. CASE \A p \in 0..(n.count - 1) : n.keys[p] # x
        BY <1>2, <4>2, FindInSorted, ZeroIsByte
      <4> QED
        BY <4>1, <4>2
    <3> QED
      BY <3>1
  <2> QED
    BY <1>1, <1>2, <2>1, SortedFacts
<1>3. CASE IndexedNode(n)
  BY <1>1, <1>3, IndexedFacts, FindInIndexed, Capacities
<1>4. CASE DirectNode(n)
  BY <1>1, <1>4, DirectFacts, Capacities
<1> QED
  BY <1>2, <1>3, <1>4, SoundKinds

\* The count of a node is the number of its children.
Counted(n) == n.count = Cardinality(Taken(n))

\* insert(), whatever the layout.
LEMMA InsertKeeps ==
    ASSUME NEW n, Sound(n), Counted(n), NEW b \in Byte, NEW c \in Kids,
           Find(n, b) = Nil, n.count < MaxSize(n.type)
    PROVE  /\ Sound(Insert(n, b, c)) /\ Counted(Insert(n, b, c))
           /\ Insert(n, b, c).type = n.type /\ Insert(n, b, c).count = n.count + 1
           /\ \A x \in Byte : Find(Insert(n, b, c), x) = IF x = b THEN c ELSE Find(n, x)
<1>1. PICK m : m = Insert(n, b, c)
  OBVIOUS
<1>2. /\ Sound(m) /\ m.type = n.type /\ m.count = n.count + 1
      /\ \A x \in Byte : Find(m, x) = IF x = b THEN c ELSE Find(n, x)
  <2>1. CASE SortedNode(n)
    BY <1>1, <2>1, SortedInsert, SoundKinds
  <2>2. CASE IndexedNode(n)
    <3>1. n.count < Cap48 /\ n.count = Cardinality(Taken(n))
      BY <2>2, IndexedFacts, Capacities DEF Counted
    <3> QED
      BY <1>1, <2>2, <3>1, IndexedInsert, SoundKinds
  <2>3. CASE DirectNode(n)
    <3>1. n.count < Cap256
      BY <2>3, DirectFacts, Capacities
    <3> QED
      BY <1>1, <2>3, <3>1, DirectInsert, SoundKinds
  <2> QED
    BY <2>1, <2>2, <2>3, SoundKinds
<1>3. Taken(m) = Taken(n) \cup {b} /\ b \notin Taken(n)
  BY <1>2, NilAssumption DEF Taken
<1>4. Cardinality(Taken(m)) = Cardinality(Taken(n)) + 1
  BY <1>3, TakenAreBytes, FS_AddElement
<1> QED
  BY <1>1, <1>2, <1>4 DEF Counted

\* erase(), whatever the layout.
LEMMA EraseKeeps ==
    ASSUME NEW n, Sound(n), Counted(n), NEW b \in Byte, Find(n, b) # Nil
    PROVE  /\ Sound(Erase(n, b)) /\ Counted(Erase(n, b))
           /\ Erase(n, b).type = n.type /\ Erase(n, b).count = n.count - 1
           /\ \A x \in Byte : Find(Erase(n, b), x) = IF x = b THEN Nil ELSE Find(n, x)
<1>1. PICK m : m = Erase(n, b)
  OBVIOUS
<1>2. n.count >= 1
  <2>1. b \in Taken(n)
    BY DEF Taken
  <2>2. Cardinality(Taken(n)) \in Nat /\ Cardinality(Taken(n)) # 0
    BY <2>1, TakenAreBytes, FS_EmptySet
  <2> QED
    BY <2>2 DEF Counted
<1>3. /\ Sound(m) /\ m.type = n.type /\ m.count = n.count - 1
      /\ \A x \in Byte : Find(m, x) = IF x = b THEN Nil ELSE Find(n, x)
  <2>1. CASE SortedNode(n)
    BY <1>1, <2>1, SortedErase, SoundKinds
  <2>2. CASE IndexedNode(n)
    BY <1>1, <1>2, <2>2, IndexedErase, SoundKinds
  <2>3. CASE DirectNode(n)
    BY <1>1, <1>2, <2>3, DirectErase, SoundKinds
  <2> QED
    BY <2>1, <2>2, <2>3, SoundKinds
<1>4. Taken(m) = Taken(n) \ {b} /\ b \in Taken(n)
  BY <1>3 DEF Taken
<1>5. Cardinality(Taken(m)) = Cardinality(Taken(n)) - 1
  <2>1. IsFiniteSet(Taken(n))
    BY TakenAreBytes
  <2>2. Cardinality(Taken(n) \ {b}) = Cardinality(Taken(n)) - 1
    BY <1>4, <2>1, FS_RemoveElement
  <2> QED
    BY <1>4, <2>2
<1> QED
  BY <1>1, <1>3, <1>5 DEF Counted

\* Nodes that find the same children count alike.
LEMMA SameTaken ==
    ASSUME NEW n, NEW m, \A x \in Byte : Find(m, x) = Find(n, x)
    PROVE  Taken(m) = Taken(n) /\ Represents(m) = Represents(n)
<1>1. Taken(m) = Taken(n) /\ Taken(n) \in SUBSET Byte
  BY DEF Taken
<1> QED
  BY <1>1 DEF Represents

\* update_child_ptr(), whatever the layout.
LEMMA UpdateKeeps ==
    ASSUME NEW n, Sound(n), Counted(n), NEW b \in Byte, NEW c \in Kids, Find(n, b) # Nil
    PROVE  /\ Sound(Update(n, b, c)) /\ Counted(Update(n, b, c))
           /\ Update(n, b, c).type = n.type /\ Update(n, b, c).count = n.count
           /\ \A x \in Byte : Find(Update(n, b, c), x) = IF x = b THEN c ELSE Find(n, x)
<1>1. PICK m : m = Update(n, b, c)
  OBVIOUS
<1>2. /\ Sound(m) /\ m.type = n.type /\ m.count = n.count
      /\ \A x \in Byte : Find(m, x) = IF x = b THEN c ELSE Find(n, x)
  <2>1. CASE SortedNode(n)
    BY <1>1, <2>1, SortedUpdate, SoundKinds
  <2>2. CASE IndexedNode(n)
    BY <1>1, <2>2, IndexedUpdate, SoundKinds
  <2>3. CASE DirectNode(n)
    BY <1>1, <2>3, DirectUpdate, SoundKinds
  <2> QED
    BY <2>1, <2>2, <2>3, SoundKinds
<1>3. Taken(m) = Taken(n)
  BY <1>2, NilAssumption DEF Taken
<1> QED
  BY <1>1, <1>2, <1>3 DEF Counted

\* grow() and the shrink of a _Node_16, which fill all of their places.
LEMMA GrowKeeps ==
    ASSUME NEW n, Sound(n), Counted(n), n.count = MaxSize(n.type), n.type # "node_256"
    PROVE  /\ Sound(GrownNode(n)) /\ Counted(GrownNode(n))
           /\ GrownNode(n).type = Grown(n.type) /\ GrownNode(n).count = n.count
           /\ \A x \in Byte : Find(GrownNode(n), x) = Find(n, x)
<1>1. PICK m : m = GrownNode(n)
  OBVIOUS
<1>2. /\ Sound(m) /\ m.type = Grown(n.type) /\ m.count = n.count
      /\ \A x \in Byte : Find(m, x) = Find(n, x)
  <2>1. CASE SortedNode(n) /\ n.type = "node_4"
    BY <1>1, <2>1, Capacities, Grow4Is, SoundKinds DEF Grown
  <2>2. CASE SortedNode(n) /\ n.type = "node_16"
    BY <1>1, <2>2, Capacities, Grow16Is, SoundKinds DEF Grown
  <2>3. CASE IndexedNode(n)
    <3>1. n.type = "node_48"
      BY <2>3, IndexedFacts
    <3> QED
      BY <1>1, <2>3, <3>1, Capacities, Grow48Is, SoundKinds DEF Grown
  <2>4. ~ DirectNode(n)
    BY DEF DirectNode
  <2> QED
    BY <2>1, <2>2, <2>3, <2>4, SoundKinds, SortedFacts
<1>3. Taken(m) = Taken(n)
  BY <1>2, SameTaken
<1> QED
  BY <1>1, <1>2, <1>3 DEF Counted

-----------------------------------------------------------------------------
(* minimum(), maximum(), successor() and predecessor() of a node.          *)

LEMMA LeastIs ==
    ASSUME NEW S \in SUBSET Int, NEW x \in S, \A y \in S : x =< y
    PROVE  Min(S) = x
<1>1. \A y \in S : (\A z \in S : y =< z) => y = x
  OBVIOUS
<1> QED
  BY <1>1 DEF Min

LEMMA GreatestIs ==
    ASSUME NEW S \in SUBSET Int, NEW x \in S, \A y \in S : y =< x
    PROVE  Max(S) = x
<1>1. \A y \in S : (\A z \in S : y >= z) => y = x
  OBVIOUS
<1>2. \A y \in S : x >= y
  OBVIOUS
<1> QED
  BY <1>1, <1>2 DEF Max

\* What a scan has to answer with: the child at byte b, if any byte is left.
Answer(n, S, b) == IF S = {} THEN Nil ELSE Find(n, b)

Above(n, b) == {c \in Taken(n) : c > b}
Below(n, b) == {c \in Taken(n) : c < b}

ScansRight(n) ==
    /\ First(n) = Find(n, Min(Taken(n))) /\ Last(n) = Find(n, Max(Taken(n)))
    /\ \A b \in Byte : /\ After(n, b) = Answer(n, Above(n, b), Min(Above(n, b)))
                       /\ Before(n, b) = Answer(n, Below(n, b), Max(Below(n, b)))

LEMMA TakenOfSorted ==
    ASSUME NEW n, SortedNode(n)
    PROVE  /\ \A p \in 0..(n.count - 1) : n.keys[p] \in Taken(n) /\ n.slots[p] = Find(n, n.keys[p])
           /\ \A x \in Taken(n) : \E p \in 0..(n.count - 1) : n.keys[p] = x
<1>1. ASSUME NEW p \in 0..(n.count - 1)
      PROVE  n.keys[p] \in Taken(n) /\ n.slots[p] = Find(n, n.keys[p])
  <2>1. n.keys[p] \in Byte
    BY SortedFacts
  <2> QED
    BY <2>1, FindInSorted DEF Taken
<1>2. ASSUME NEW x \in Taken(n)  PROVE \E p \in 0..(n.count - 1) : n.keys[p] = x
  BY FindInSorted DEF Taken
<1> QED
  BY <1>1, <1>2

LEMMA SortedScans ==
    ASSUME NEW n, SortedNode(n), Taken(n) # {}
    PROVE  ScansRight(n)
<1>1. PICK k \in Nat : k = n.count
  BY SortedFacts
<1>2. /\ \A p \in 0..(k - 1) : n.keys[p] \in Nat
      /\ \A p, q \in 0..(k - 1) : p < q => n.keys[p] < n.keys[q]
  BY <1>1, SortedFacts
<1>3. \A p, q \in 0..(k - 1) : p =< q => n.keys[p] =< n.keys[q]
  <2>1. ASSUME NEW p \in 0..(k - 1), NEW q \in 0..(k - 1), p =< q
        PROVE  n.keys[p] =< n.keys[q]
    <3>1. p < q \/ p = q
      BY <2>1
    <3> QED
      BY <1>2, <3>1
  <2> QED
    BY <2>1
<1>4. /\ \A p \in 0..(k - 1) : n.keys[p] \in Taken(n) /\ n.slots[p] = Find(n, n.keys[p])
      /\ \A x \in Taken(n) : \E p \in 0..(k - 1) : n.keys[p] = x
  BY <1>1, TakenOfSorted
<1>5. Sorted(n.type) /\ Taken(n) \in SUBSET Int /\ \A x \in Byte : x \in Int
  BY BytesAreNumbers, TakenAreBytes DEF SortedNode
<1>6. 0 \in 0..(k - 1) /\ k - 1 \in 0..(k - 1)
  BY <1>4
<1>7. First(n) = Find(n, Min(Taken(n)))
  <2>1. \A y \in Taken(n) : n.keys[0] =< y
    BY <1>3, <1>4, <1>6
  <2>2. Min(Taken(n)) = n.keys[0]
    BY <1>4, <1>5, <1>6, <2>1, LeastIs
  <2> QED
    BY <1>4, <1>5, <1>6, <2>2 DEF First
<1>8. Last(n) = Find(n, Max(Taken(n)))
  <2>1. \A y \in Taken(n) : y =< n.keys[k - 1]
    <3>1. ASSUME NEW p \in 0..(k - 1)  PROVE n.keys[p] =< n.keys[k - 1]
      <4>1. p =< k - 1
        OBVIOUS
      <4> QED
        BY <1>3, <1>6, <4>1
    <3> QED
      BY <1>4, <3>1
  <2>2. Max(Taken(n)) = n.keys[k - 1]
    BY <1>4, <1>5, <1>6, <2>1, GreatestIs
  <2> QED
    BY <1>1, <1>4, <1>5, <1>6, <2>2 DEF Last
<1>9. ASSUME NEW b \in Byte
      PROVE  After(n, b) = Answer(n, Above(n, b), Min(Above(n, b)))
  <2>1. PICK r \in 0..k : r = UpperBound(n, b)
    BY <1>1, Bounds
  <2>2. \A p \in 0..(k - 1) : p < r <=> n.keys[p] =< b
    BY <1>1, <2>1, Bounds
  <2>3. After(n, b) = IF r < k THEN n.slots[r] ELSE Nil
    BY <1>1, <1>5, <2>1 DEF After
  <2>4. b \in Int /\ Above(n, b) \in SUBSET Int
    BY <1>5 DEF Above
  <2>5. ASSUME NEW x \in Above(n, b)
        PROVE  \E p \in 0..(k - 1) : n.keys[p] = x /\ p >= r
    <3>1. x \in Taken(n) /\ x > b
      BY DEF Above
    <3>2. PICK p \in 0..(k - 1) : n.keys[p] = x
      BY <1>4, <3>1
    <3>3. ~ (p < r)
      BY <1>2, <2>2, <2>4, <3>1, <3>2
    <3> QED
      BY <3>2, <3>3
  <2>6. CASE r < k
    <3>1. r \in 0..(k - 1)
      BY <2>6
    <3>2. n.keys[r] > b /\ n.keys[r] \in Taken(n)
      BY <1>2, <1>4, <2>2, <2>4, <3>1
    <3>3. n.keys[r] \in Above(n, b)
      BY <3>2 DEF Above
    <3>4. \A x \in Above(n, b) : n.keys[r] =< x
      BY <1>3, <2>5, <3>1
    <3>5. Min(Above(n, b)) = n.keys[r]
      BY <2>4, <3>3, <3>4, LeastIs
    <3> QED
      BY <1>4, <2>3, <2>6, <3>1, <3>3, <3>5 DEF Answer
  <2>7. CASE ~ (r < k)
    <3>1. Above(n, b) = {}
      BY <2>5, <2>7
    <3> QED
      BY <2>3, <2>7, <3>1 DEF Answer
  <2> QED
    BY <2>6, <2>7
<1>10. ASSUME NEW b \in Byte
       PROVE  Before(n, b) = Answer(n, Below(n, b), Max(Below(n, b)))
  <2>1. PICK r \in 0..k : r = LowerBound(n, b)
    BY <1>1, Bounds
  <2>2. \A p \in 0..(k - 1) : p < r <=> n.keys[p] < b
    BY <1>1, <2>1, Bounds
  <2>3. PICK Q : Q = {q \in -1..(k - 1) : q = -1 \/ n.keys[q] < b}
    OBVIOUS
  <2>4. Q \in SUBSET Int /\ r - 1 \in Q
    <3>1. r - 1 \in -1..(k - 1) /\ (r - 1 # -1 => r - 1 \in 0..(k - 1) /\ r - 1 < r)
      OBVIOUS
    <3>2. r - 1 \in Q
      BY <2>2, <2>3, <3>1
    <3> QED
      BY <2>3, <3>2
  <2>5. ASSUME NEW q \in Q  PROVE q =< r - 1
    <3>1. q \in -1..(k - 1) /\ (q # -1 => q \in 0..(k - 1) /\ n.keys[q] < b)
      BY <2>3
    <3>2. q # -1 => q < r
      BY <2>2, <3>1
    <3> QED
      BY <3>1, <3>2
  <2>6. Max(Q) = r - 1
    BY <2>4, <2>5, GreatestIs
  <2>7. Before(n, b) = IF r - 1 >= 0 THEN n.slots[r - 1] ELSE Nil
    BY <1>1, <1>5, <2>3, <2>6 DEF Before
  <2>8. b \in Int /\ Below(n, b) \in SUBSET Int
    BY <1>5 DEF Below
  <2>9. ASSUME NEW x \in Below(n, b)
        PROVE  \E p \in 0..(k - 1) : n.keys[p] = x /\ p =< r - 1
    <3>1. x \in Taken(n) /\ x < b
      BY DEF Below
    <3>2. PICK p \in 0..(k - 1) : n.keys[p] = x
      BY <1>4, <3>1
    <3>3. p < r
      BY <1>2, <2>2, <2>8, <3>1, <3>2
    <3> QED
      BY <3>2, <3>3
  <2>10. CASE r - 1 >= 0
    <3>1. r - 1 \in 0..(k - 1) /\ r - 1 < r
      BY <2>10
    <3>2. n.keys[r - 1] < b /\ n.keys[r - 1] \in Taken(n)
      BY <1>4, <2>2, <3>1
    <3>3. n.keys[r - 1] \in Below(n, b)
      BY <3>2 DEF Below
    <3>4. \A x \in Below(n, b) : x =< n.keys[r - 1]
      BY <1>3, <2>9, <3>1
    <3>5. Max(Below(n, b)) = n.keys[r - 1]
      BY <2>8, <3>3, <3>4, GreatestIs
    <3> QED
      BY <1>4, <2>7, <2>10, <3>1, <3>3, <3>5 DEF Answer
  <2>11. CASE ~ (r - 1 >= 0)
    <3>1. Below(n, b) = {}
      BY <2>9, <2>11
    <3> QED
      BY <2>7, <2>11, <3>1 DEF Answer
  <2> QED
    BY <2>10, <2>11
<1> QED
  BY <1>7, <1>8, <1>9, <1>10 DEF ScansRight

\* The scans over 256 entries stop exactly at the bytes that have a child.
LEMMA InUseIsTaken ==
    ASSUME NEW n, IndexedNode(n) \/ DirectNode(n)
    PROVE  /\ ~ Sorted(n.type) /\ InUse(n) = Taken(n)
           /\ \A b \in Taken(n) : ChildAt(n, b) = Find(n, b)
<1>1. CASE IndexedNode(n)
  <2>1. Indexed(n.type) /\ ~ Sorted(n.type)
    BY <1>1 DEF IndexedNode, Sorted, Indexed
  <2>2. InUse(n) = {b \in Byte : n.index[b] # EmptyMarker}
    BY <2>1 DEF InUse
  <2>3. InUse(n) = Taken(n)
    BY <1>1, <2>2, FindInIndexed DEF Taken
  <2>4. ASSUME NEW b \in Taken(n)  PROVE ChildAt(n, b) = Find(n, b)
    <3>1. b \in Byte /\ n.index[b] # EmptyMarker
      BY <2>2, <2>3
    <3> QED
      BY <1>1, <2>1, <3>1, FindInIndexed DEF ChildAt
  <2> QED
    BY <2>1, <2>3, <2>4
<1>2. CASE DirectNode(n)
  <2>1. ~ Indexed(n.type) /\ ~ Sorted(n.type)
    BY <1>2 DEF DirectNode, Sorted, Indexed
  <2>2. InUse(n) = {b \in Byte : n.slots[b] # Nil}
    BY <2>1 DEF InUse
  <2>3. InUse(n) = Taken(n)
    BY <1>2, <2>2, DirectFacts DEF Taken
  <2>4. ASSUME NEW b \in Taken(n)  PROVE ChildAt(n, b) = Find(n, b)
    <3>1. b \in Byte
      BY DEF Taken
    <3> QED
      BY <1>2, <2>1, <3>1, DirectFacts DEF ChildAt
  <2> QED
    BY <2>1, <2>3, <2>4
<1> QED
  BY <1>1, <1>2

LEMMA WideScans ==
    ASSUME NEW n, IndexedNode(n) \/ DirectNode(n), Taken(n) # {}
    PROVE  ScansRight(n)
<1>1. /\ ~ Sorted(n.type) /\ InUse(n) = Taken(n)
      /\ \A b \in Taken(n) : ChildAt(n, b) = Find(n, b)
  BY InUseIsTaken
<1>2. /\ MaxByte \in Nat /\ Taken(n) \in SUBSET Nat /\ Taken(n) \in SUBSET (0..MaxByte)
  BY BytesAreNumbers, TakenAreBytes, Capacities
<1>3. ASSUME NEW S \in SUBSET Taken(n), S # {}
      PROVE  Min(S) \in S /\ Max(S) \in S
  <2>1. S \in SUBSET Nat /\ S \in SUBSET (0..MaxByte) /\ MaxByte \in Nat
    BY <1>2
  <2> QED
    BY <1>3, <2>1, MinOfBytes, MaxOfBytes
<1>4. First(n) = Find(n, Min(Taken(n))) /\ Last(n) = Find(n, Max(Taken(n)))
  <2>1. Min(Taken(n)) \in Taken(n) /\ Max(Taken(n)) \in Taken(n)
    BY <1>3
  <2> QED
    BY <1>1, <2>1 DEF First, Last
<1>5. ASSUME NEW b \in Byte
      PROVE  /\ After(n, b) = Answer(n, Above(n, b), Min(Above(n, b)))
             /\ Before(n, b) = Answer(n, Below(n, b), Max(Below(n, b)))
  <2>1. /\ Above(n, b) \in SUBSET Taken(n) /\ Below(n, b) \in SUBSET Taken(n)
        /\ {c \in InUse(n) : c > b} = Above(n, b)
        /\ {c \in InUse(n) : c < b} = Below(n, b)
    BY <1>1 DEF Above, Below
  <2>2. After(n, b) = IF Above(n, b) = {} THEN Nil ELSE ChildAt(n, Min(Above(n, b)))
    BY <1>1, <2>1 DEF After
  <2>3. Before(n, b) = IF Below(n, b) = {} THEN Nil ELSE ChildAt(n, Max(Below(n, b)))
    BY <1>1, <2>1 DEF Before
  <2>4. Above(n, b) # {} => Min(Above(n, b)) \in Taken(n)
    BY <1>3, <2>1
  <2>5. Below(n, b) # {} => Max(Below(n, b)) \in Taken(n)
    BY <1>3, <2>1
  <2> QED
    BY <1>1, <2>2, <2>3, <2>4, <2>5 DEF Answer
<1> QED
  BY <1>4, <1>5 DEF ScansRight

LEMMA SoundScans ==
    ASSUME NEW n, Sound(n), Taken(n) # {}
    PROVE  ScansRight(n)
BY SoundKinds, SortedScans, WideScans

-----------------------------------------------------------------------------
(* The sizes of the layouts.                                               *)

LEMMA Sizes ==
    ASSUME NEW t \in InnerTypes
    PROVE  /\ MinSize(t) \in Nat /\ MaxSize(t) \in Nat
           /\ 2 =< MinSize(t) /\ MinSize(t) =< MaxSize(t)
           /\ t # "node_256" => MaxSize(t) = MinSize(Grown(t)) - 1
           /\ t # "node_4" => MinSize(t) - 1 = MaxSize(Shrunk(t))
           /\ Grown(t) \in InnerTypes /\ Grown(t) # "node_4"
           /\ Shrunk(t) \in InnerTypes
BY SizesAssumption DEF MinSize, MaxSize, Cap256, Grown, Shrunk, InnerTypes
=============================================================================
