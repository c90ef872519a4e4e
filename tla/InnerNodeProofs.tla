-------------------------- MODULE InnerNodeProofs ---------------------------
(***************************************************************************)
(* The layouts of an inner node represent a map from bytes to children,    *)
(* for every choice of their capacities, the 4, 16, 48 and 256 of the code *)
(* among them, whatever the tree does to the node.                         *)
(***************************************************************************)
EXTENDS InnerNode, LayoutLemmas

-----------------------------------------------------------------------------
(* The inductive invariant.                                                *)

SizeFits(n) == \/ n.count \in MinSize(n.type)..MaxSize(n.type)
               \/ n.type = "node_4" /\ n.count = 1

\* One child short of the layout: just grown, or about to shrink.
OneShort(n) == n.type # "node_4" /\ n.count = MinSize(n.type) - 1

\* What a shrink constructor has filled so far, taken for a node.
Partial(m, k) == [m EXCEPT !.count = k]

\* The loop of a shrink constructor has dealt with the bytes below i: the places
\* below pos hold their children, in order, and the others are as they were.
Filling ==
    /\ ~ Sorted(node.type) /\ OneShort(node)
    /\ made \in NodeShape(Shrunk(node.type)) /\ made.count = node.count
    /\ i \in 0..Cap256 /\ pos \in Nat /\ pos =< made.count
    /\ Sound(Partial(made, pos)) /\ Counted(Partial(made, pos))
    /\ \A x \in Byte : Find(Partial(made, pos), x) = IF x < i THEN Find(node, x) ELSE Nil
    /\ Indexed(made.type) =>
         \A p \in Places("node_48") : made.slots[p] # Nil <=> p < pos

\* The copy has the slots of the turns below i and is else the node itself.
CopiedSlots(n, k) == [p \in Places(n.type) |-> IF p < k THEN n.slots[p] ELSE Nil]

CopiedSoFar(n, k) == [n EXCEPT !.slots = CopiedSlots(n, k)]

Cloning ==
    /\ SizeFits(node)
    /\ Indexed(node.type) => IndexIsByte(node)
    /\ made = CopiedSoFar(node, i)
    /\ i \in 0..Cap256 /\ (Sorted(node.type) => i =< node.count)
    /\ pos = 0

Resting == made = NoNode /\ i = 0 /\ pos = 0

IInv ==
    /\ Sound(node) /\ Counted(node) /\ node.count >= 1
    /\ next \in {"any", "insert", "shrink", "copy", "clone"}
    /\ next = "any" => SizeFits(node)
    /\ next \in {"insert", "shrink"} => OneShort(node)
    /\ next \in {"any", "insert", "shrink"} => Resting
    /\ next = "copy" => Filling
    /\ next = "clone" => Cloning

LEMMA InitIsSound == Init => IInv
<1>1. SUFFICES ASSUME Init  PROVE IInv
  OBVIOUS
<1>2. PICK b \in Byte, c \in Kids : node = NewNode4(b, c)
  BY <1>1 DEF Init
<1>3. next = "any" /\ Resting
  BY <1>1 DEF Init, Resting
<1>4. Sound(node) /\ node.type = "node_4" /\ node.count = 1
  BY <1>2, NewNodeIs, SoundKinds
<1>5. \A x \in Byte : Find(node, x) = IF x = b THEN c ELSE Nil
  BY <1>2, NewNodeIs
<1>6. Taken(node) = {b}
  BY <1>5, NilAssumption DEF Taken
<1>7. Counted(node)
  BY <1>4, <1>6, FS_Singleton DEF Counted
<1>8. node.count >= 1 /\ SizeFits(node)
  BY <1>4 DEF SizeFits
<1> QED
  BY <1>3, <1>4, <1>7, <1>8 DEF IInv

\* At rest nothing but the node matters.
LEMMA IInvAtRest ==
    ASSUME Sound(node'), Counted(node'), node'.count >= 1, Resting',
           \/ next' = "any" /\ SizeFits(node')
           \/ next' \in {"insert", "shrink"} /\ OneShort(node')
    PROVE  IInv'
BY DEF IInv

LEMMA RestStays ==
    ASSUME Resting, made' = made, i' = i, pos' = pos
    PROVE  Resting'
BY DEF Resting

LEMMA InsertStep ==
    ASSUME IInv, NEW b \in Byte, NEW c \in Kids, InsertChild(b, c)
    PROVE  IInv'
<1>1. /\ next \in {"any", "insert"} /\ Find(node, b) = Nil /\ node.count < MaxSize(node.type)
      /\ node' = Insert(node, b, c) /\ next' = "any"
      /\ made' = made /\ i' = i /\ pos' = pos
  BY DEF InsertChild
<1>2. Sound(node) /\ Counted(node) /\ node.count >= 1 /\ Resting
  BY <1>1 DEF IInv
<1>3. /\ Sound(node') /\ Counted(node')
      /\ node'.type = node.type /\ node'.count = node.count + 1
  BY <1>1, <1>2, InsertKeeps
<1>4. node.type \in InnerTypes /\ node.count \in Nat
  BY <1>2, SoundFacts
<1>5. /\ MinSize(node.type) \in Nat /\ MaxSize(node.type) \in Nat
      /\ 2 =< MinSize(node.type) /\ MinSize(node.type) =< MaxSize(node.type)
      /\ MinSize("node_4") = 2
  BY <1>4, Sizes DEF MinSize
<1>6. SizeFits(node) \/ OneShort(node)
  BY <1>1 DEF IInv
<1>7. node.count + 1 \in MinSize(node.type)..MaxSize(node.type)
  <2>1. CASE SizeFits(node)
    <3>1. CASE node.count \in MinSize(node.type)..MaxSize(node.type)
      BY <1>1, <1>4, <1>5, <3>1
    <3>2. CASE node.type = "node_4" /\ node.count = 1
      <4>1. MinSize(node.type) = 2 /\ node.count + 1 = 2
        BY <1>5, <3>2
      <4> QED
        BY <1>5, <4>1
    <3> QED
      BY <2>1, <3>1, <3>2 DEF SizeFits
  <2>2. CASE OneShort(node)
    <3>1. node.count = MinSize(node.type) - 1
      BY <2>2 DEF OneShort
    <3> QED
      BY <1>5, <3>1
  <2> QED
    BY <1>6, <2>1, <2>2
<1>8. SizeFits(node') /\ node'.count >= 1
  BY <1>3, <1>4, <1>7 DEF SizeFits
<1>9. Resting'
  BY <1>1, <1>2, RestStays
<1> QED
  BY <1>1, <1>3, <1>8, <1>9, IInvAtRest

LEMMA UpdateStep ==
    ASSUME IInv, NEW b \in Byte, NEW c \in Kids, UpdateChildPtr(b, c)
    PROVE  IInv'
<1>1. /\ next = "any" /\ Find(node, b) # Nil
      /\ node' = Update(node, b, c) /\ next' = next
      /\ made' = made /\ i' = i /\ pos' = pos
  BY DEF UpdateChildPtr
<1>2. Sound(node) /\ Counted(node) /\ node.count >= 1 /\ Resting /\ SizeFits(node)
  BY <1>1 DEF IInv
<1>3. /\ Sound(node') /\ Counted(node')
      /\ node'.type = node.type /\ node'.count = node.count
  BY <1>1, <1>2, UpdateKeeps
<1>4. SizeFits(node')
  BY <1>2, <1>3 DEF SizeFits
<1>5. Resting'
  BY <1>1, <1>2, RestStays
<1> QED
  BY <1>1, <1>2, <1>3, <1>4, <1>5, IInvAtRest

LEMMA GrowStep ==
    ASSUME IInv, Grow
    PROVE  IInv'
<1>1. /\ next = "any" /\ node.count = MaxSize(node.type) /\ node.type # "node_256"
      /\ node' = GrownNode(node) /\ next' = "insert"
      /\ made' = made /\ i' = i /\ pos' = pos
  BY DEF Grow
<1>2. Sound(node) /\ Counted(node) /\ node.count >= 1 /\ Resting
  BY <1>1 DEF IInv
<1>3. /\ Sound(node') /\ Counted(node')
      /\ node'.type = Grown(node.type) /\ node'.count = node.count
  BY <1>1, <1>2, GrowKeeps
<1>4. node.type \in InnerTypes
  BY <1>2, SoundFacts
<1>5. OneShort(node')
  BY <1>1, <1>3, <1>4, Sizes DEF OneShort
<1>6. Resting'
  BY <1>1, <1>2, RestStays
<1> QED
  BY <1>1, <1>2, <1>3, <1>5, <1>6, IInvAtRest

LEMMA EraseStep ==
    ASSUME IInv, NEW b \in Byte, EraseChild(b)
    PROVE  IInv'
<1>1. /\ next = "any" /\ Find(node, b) # Nil /\ node.count >= 2
      /\ node' = Erase(node, b)
      /\ next' = IF node.type # "node_4" /\ node.count - 1 < MinSize(node.type)
                 THEN "shrink" ELSE "any"
      /\ made' = made /\ i' = i /\ pos' = pos
  BY DEF EraseChild
<1>2. Sound(node) /\ Counted(node) /\ node.count >= 1 /\ Resting /\ SizeFits(node)
  BY <1>1 DEF IInv
<1>3. /\ Sound(node') /\ Counted(node')
      /\ node'.type = node.type /\ node'.count = node.count - 1
  BY <1>1, <1>2, EraseKeeps
<1>4. /\ node.type \in InnerTypes /\ node.count \in Nat
      /\ node.count =< MaxSize(node.type) /\ MaxSize(node.type) \in Nat
  BY <1>2, SoundFacts
<1>5. MinSize(node.type) \in Nat /\ MinSize("node_4") = 2
  BY <1>4, Sizes DEF MinSize
<1>6. node'.count >= 1
  BY <1>1, <1>3, <1>4
<1>7. Resting'
  BY <1>1, <1>2, RestStays
<1>8. CASE node.type # "node_4" /\ node.count - 1 < MinSize(node.type)
  <2>1. node.count >= MinSize(node.type)
    BY <1>2, <1>5, <1>8 DEF SizeFits
  <2>2. node.count - 1 = MinSize(node.type) - 1
    BY <1>4, <1>5, <1>8, <2>1
  <2>3. OneShort(node') /\ next' = "shrink"
    BY <1>1, <1>3, <1>8, <2>2 DEF OneShort
  <2> QED
    BY <1>3, <1>6, <1>7, <2>3, IInvAtRest
<1>9. CASE ~ (node.type # "node_4" /\ node.count - 1 < MinSize(node.type))
  <2>1. CASE node.count - 1 >= MinSize(node.type)
    <3>1. node.count - 1 \in MinSize(node.type)..MaxSize(node.type)
      BY <1>4, <1>5, <2>1
    <3>2. SizeFits(node')
      BY <1>3, <3>1 DEF SizeFits
    <3> QED
      BY <1>1, <1>3, <1>6, <1>7, <1>9, <3>2, IInvAtRest
  <2>2. CASE ~ (node.count - 1 >= MinSize(node.type))
    <3>1. node.type = "node_4"
      BY <1>4, <1>5, <1>9, <2>2
    <3>2. node.count - 1 = 1
      BY <1>1, <1>4, <1>5, <2>2, <3>1
    <3>3. SizeFits(node')
      BY <1>3, <3>1, <3>2 DEF SizeFits
    <3> QED
      BY <1>1, <1>3, <1>6, <1>7, <1>9, <3>3, IInvAtRest
  <2> QED
    BY <2>1, <2>2
<1> QED
  BY <1>8, <1>9

LEMMA ShrinkTo4Step ==
    ASSUME IInv, ShrinkTo4
    PROVE  IInv'
<1>1. /\ next = "shrink" /\ node.type = "node_16"
      /\ node' = Shrink16(node) /\ next' = "any"
      /\ made' = made /\ i' = i /\ pos' = pos
  BY DEF ShrinkTo4
<1>2. Sound(node) /\ Counted(node) /\ node.count >= 1 /\ Resting /\ OneShort(node)
  BY <1>1 DEF IInv
<1>3. node.count = Cap4 /\ SortedNode(node)
  <2>1. MinSize("node_16") = Cap4 + 1 /\ Sorted("node_16")
    BY DEF MinSize, Sorted
  <2> QED
    BY <1>1, <1>2, <2>1, SoundKinds, Capacities DEF OneShort
<1>4. /\ SortedNode(node') /\ node'.type = "node_4" /\ node'.count = node.count
      /\ \A x \in Byte : Find(node', x) = Find(node, x)
  BY <1>1, <1>3, Shrink16Is
<1>5. Sound(node')
  BY <1>4, SoundKinds
<1>6. Counted(node')
  <2>1. Taken(node') = Taken(node)
    BY <1>4, SameTaken
  <2> QED
    BY <1>2, <1>4, <2>1 DEF Counted
<1>7. SizeFits(node')
  <2>1. Cap4 \in MinSize("node_4")..MaxSize("node_4")
    BY Capacities DEF MinSize
  <2> QED
    BY <1>3, <1>4, <2>1 DEF SizeFits
<1>8. Resting'
  BY <1>1, <1>2, RestStays
<1> QED
  BY <1>1, <1>2, <1>4, <1>5, <1>6, <1>7, <1>8, IInvAtRest

-----------------------------------------------------------------------------
(* The loops of the shrink constructors.                                   *)

LEMMA PartialIs ==
    ASSUME NEW t, NEW m \in NodeShape(t), NEW k
    PROVE  /\ Partial(m, k) = Node(t, k, m.keys, m.index, m.slots)
           /\ Partial(m, m.count) = m
<1>1. m = Node(t, m.count, m.keys, m.index, m.slots)
  BY ShapeFields
<1>2. [m EXCEPT !.count = k] = Node(t, k, m.keys, m.index, m.slots)
  BY <1>1 DEF Node
<1>3. [m EXCEPT !.count = m.count] = m
  BY <1>1 DEF Node
<1> QED
  BY <1>2, <1>3 DEF Partial

LEMMA EmptyIsCounted ==
    ASSUME NEW n, n.count = 0, \A x \in Byte : Find(n, x) = Nil
    PROVE  Counted(n)
<1>1. Taken(n) = {}
  BY DEF Taken
<1> QED
  BY <1>1, FS_EmptySet DEF Counted

LEMMA Shrink48Starts ==
    /\ Shrink48Begins \in NodeShape("node_16") /\ Shrink48Begins.count = Cap16
    /\ Sound(Partial(Shrink48Begins, 0)) /\ Counted(Partial(Shrink48Begins, 0))
    /\ \A x \in Byte : Find(Partial(Shrink48Begins, 0), x) = Nil
<1>1. Zeros("node_16") \in [Places("node_16") -> Byte]
  BY ZeroIsByte DEF Zeros
<1>2. NoSlots("node_16") \in [Places("node_16") -> Slot]
  BY ZeroIsByte DEF NoSlots
<1>3. Cap16 \in 0..MaxSize("node_16") /\ 0 =< MaxSize("node_16")
  BY Capacities
<1>4. Shrink48Begins \in NodeShape("node_16")
  BY <1>1, <1>2, <1>3, SortedShape DEF Shrink48Begins
<1>5. /\ Shrink48Begins.count = Cap16 /\ Shrink48Begins.keys = Zeros("node_16")
      /\ Shrink48Begins.index = Unused /\ Shrink48Begins.slots = NoSlots("node_16")
  BY DEF Shrink48Begins, Node
<1>6. PICK m : m = Partial(Shrink48Begins, 0)
  OBVIOUS
<1>7. m = Node("node_16", 0, Zeros("node_16"), Unused, NoSlots("node_16"))
  BY <1>4, <1>5, <1>6, PartialIs
<1>8. SortedNode(m)
  <2>1. 0..(0 - 1) = {}
    OBVIOUS
  <2> QED
    BY <1>1, <1>2, <1>3, <1>7, <2>1, SortedIsSound
<1>9. m.count = 0
  BY <1>7 DEF Node
<1>10. \A x \in Byte : Find(m, x) = Nil
  <2>1. 0..(m.count - 1) = {}
    BY <1>9
  <2> QED
    BY <1>8, <2>1, FindInSorted
<1> QED
  BY <1>4, <1>5, <1>6, <1>8, <1>9, <1>10, SoundKinds, EmptyIsCounted

LEMMA Shrink256Starts ==
    /\ Shrink256Begins \in NodeShape("node_48") /\ Shrink256Begins.count = Cap48
    /\ Sound(Partial(Shrink256Begins, 0)) /\ Counted(Partial(Shrink256Begins, 0))
    /\ \A x \in Byte : Find(Partial(Shrink256Begins, 0), x) = Nil
    /\ \A p \in Places("node_48") : Shrink256Begins.slots[p] = Nil
<1>1. /\ NoIndex \in [Byte -> Places("node_48") \cup {EmptyMarker}]
      /\ \A b \in Byte : NoIndex[b] = EmptyMarker
  BY DEF NoIndex
<1>2. /\ NoSlots("node_48") \in [Places("node_48") -> Slot]
      /\ \A p \in Places("node_48") : NoSlots("node_48")[p] = Nil
  BY ZeroIsByte DEF NoSlots
<1>3. Cap48 \in 0..Cap48 /\ 0 =< Cap48
  BY Capacities
<1>4. Shrink256Begins \in NodeShape("node_48")
  BY <1>1, <1>2, <1>3, Capacities DEF Shrink256Begins, NodeShape, Node, Sorted, Indexed
<1>5. /\ Shrink256Begins.count = Cap48 /\ Shrink256Begins.keys = Unused
      /\ Shrink256Begins.index = NoIndex /\ Shrink256Begins.slots = NoSlots("node_48")
  BY DEF Shrink256Begins, Node
<1>6. PICK m : m = Partial(Shrink256Begins, 0)
  OBVIOUS
<1>7. m = Node("node_48", 0, Unused, NoIndex, NoSlots("node_48"))
  BY <1>4, <1>5, <1>6, PartialIs
<1>8. IndexedNode(m)
  BY <1>1, <1>2, <1>3, <1>7, MarkerIsNoPlace, IndexedIsSound
<1>9. m.count = 0 /\ m.index = NoIndex
  BY <1>7 DEF Node
<1>10. \A x \in Byte : Find(m, x) = Nil
  BY <1>1, <1>8, <1>9, FindInIndexed
<1> QED
  BY <1>2, <1>4, <1>5, <1>6, <1>8, <1>9, <1>10, SoundKinds, EmptyIsCounted

\* One turn of _Node_16(_Node_48 *) is an insert at the end.
LEMMA Shrink48Inserts ==
    ASSUME NEW n, IndexedNode(n), NEW b \in Byte, b \in Taken(n),
           NEW m \in NodeShape("node_16"), NEW p \in Nat, p < Cap16, Sound(Partial(m, p)),
           \A x \in Byte : Find(Partial(m, p), x) # Nil => x < b
    PROVE  /\ Shrink48Copies(m, n, b, p) \in NodeShape("node_16")
           /\ Shrink48Copies(m, n, b, p).count = m.count
           /\ Partial(Shrink48Copies(m, n, b, p), p + 1) = Insert(Partial(m, p), b, Find(n, b))
<1>1. PICK c, q, keys, slots, m2 :
        /\ c = Find(n, b) /\ q = Partial(m, p)
        /\ keys = [m.keys EXCEPT ![p] = b] /\ slots = [m.slots EXCEPT ![p] = c]
        /\ m2 = Node("node_16", m.count, keys, Unused, slots)
  OBVIOUS
<1>2. /\ m.count \in 0..MaxSize("node_16") /\ m.type = "node_16"
      /\ m = Node("node_16", m.count, m.keys, m.index, m.slots)
  BY ShapeFields
<1>3. /\ m.keys \in [Places("node_16") -> Byte] /\ m.slots \in [Places("node_16") -> Slot]
      /\ m.index = Unused
  <2>1. Sorted(m.type) /\ m \in NodeShape(m.type)
    BY <1>2 DEF Sorted
  <2> QED
    BY <1>2, <2>1, SortedFields
<1>4. c \in Slot /\ c = n.slots[n.index[b]]
  BY <1>1, FindInIndexed DEF Taken
<1>5. Shrink48Copies(m, n, b, p) = m2
  <2>1. Shrink48Copies(m, n, b, p) = [m EXCEPT !.keys = [m.keys EXCEPT ![p] = b],
                                               !.slots = [m.slots EXCEPT ![p] = n.slots[n.index[b]]]]
    BY DEF Shrink48Copies
  <2>2. Shrink48Copies(m, n, b, p) = [m EXCEPT !.keys = keys, !.slots = slots]
    BY <1>1, <1>4, <2>1
  <2>3. [m EXCEPT !.keys = keys, !.slots = slots] =
          [[m EXCEPT !.keys = keys] EXCEPT !.slots = slots]
    BY <1>2 DEF Node
  <2>4. [m EXCEPT !.keys = keys] = Node("node_16", m.count, keys, Unused, m.slots)
    BY <1>2, <1>3 DEF Node
  <2>5. [Node("node_16", m.count, keys, Unused, m.slots) EXCEPT !.slots = slots]
          = Node("node_16", m.count, keys, Unused, slots)
    BY DEF Node
  <2> QED
    BY <1>1, <2>2, <2>3, <2>4, <2>5
<1>6. p \in Places("node_16") /\ Places("node_16") = 0..(Cap16 - 1) /\ Cap16 \in Nat
  BY Capacities
<1>7. keys \in [Places("node_16") -> Byte] /\ slots \in [Places("node_16") -> Slot]
  BY <1>1, <1>3, <1>4, <1>6
<1>8. m2 \in NodeShape("node_16")
  BY <1>1, <1>2, <1>7, SortedShape
<1>9. m2.count = m.count /\ m2.keys = keys /\ m2.index = Unused /\ m2.slots = slots
  BY <1>1 DEF Node
<1>10. Partial(m2, p + 1) = Node("node_16", p + 1, keys, Unused, slots)
  BY <1>8, <1>9, PartialIs
<1>11. q = Node("node_16", p, m.keys, Unused, m.slots)
  BY <1>1, <1>3, PartialIs
<1>12. q.type = "node_16" /\ q.count = p /\ q.keys = m.keys /\ q.slots = m.slots
  BY <1>11 DEF Node
<1>13. SortedNode(q)
  BY <1>1, <1>12, SoundKinds DEF Sorted
<1>14. LowerBound(q, b) = p
  <2>1. /\ LowerBound(q, b) \in 0..p
        /\ \A j \in 0..(p - 1) : j < LowerBound(q, b) <=> q.keys[j] < b
    BY <1>12, <1>13, Bounds
  <2>2. \A j \in 0..(p - 1) : q.keys[j] < b
    <3>1. ASSUME NEW j \in 0..(p - 1)  PROVE q.keys[j] < b
      <4>1. q.keys[j] \in Taken(q)
        BY <1>12, <1>13, TakenOfSorted
      <4> QED
        BY <1>1, <4>1 DEF Taken
    <3> QED
      BY <3>1
  <2>3. CASE LowerBound(q, b) < p
    <3>1. LowerBound(q, b) \in 0..(p - 1)
      BY <2>1, <2>3
    <3> QED
      BY <2>1, <2>2, <3>1
  <2> QED
    BY <2>1, <2>3
<1>15. Insert(q, b, c) = Node("node_16", p + 1, MakeRoom(m.keys, p, p, b), Unused,
                              MakeRoom(m.slots, p, p, c))
  BY <1>12, <1>13, <1>14, InsertSortedIs
<1>16. MakeRoom(m.keys, p, p, b) = keys /\ MakeRoom(m.slots, p, p, c) = slots
  <2>1. (p + 1)..p = {}
    BY <1>6
  <2>2. MakeRoom(m.keys, p, p, b) = [x \in Places("node_16") |-> IF x = p THEN b ELSE m.keys[x]]
    BY <1>3, <2>1 DEF MakeRoom
  <2>3. MakeRoom(m.slots, p, p, c) = [x \in Places("node_16") |-> IF x = p THEN c ELSE m.slots[x]]
    BY <1>3, <2>1 DEF MakeRoom
  <2>4. MakeRoom(m.keys, p, p, b) = keys
    BY <1>1, <1>3, <1>6, <2>2
  <2>5. MakeRoom(m.slots, p, p, c) = slots
    BY <1>1, <1>3, <1>6, <2>3
  <2> QED
    BY <2>4, <2>5
<1> QED
  BY <1>1, <1>5, <1>8, <1>9, <1>10, <1>15, <1>16

\* One turn of _Node_48(_Node_256 *) is an insert into the next place.
LEMMA Shrink256Inserts ==
    ASSUME NEW n, DirectNode(n), NEW b \in Byte,
           NEW m \in NodeShape("node_48"), NEW p \in Nat, p < Cap48, Sound(Partial(m, p)),
           \A x \in Places("node_48") : m.slots[x] # Nil <=> x < p, b \in Taken(n)
    PROVE  /\ Shrink256Copies(m, n, b, p) \in NodeShape("node_48")
           /\ Shrink256Copies(m, n, b, p).count = m.count
           /\ Partial(Shrink256Copies(m, n, b, p), p + 1) = Insert(Partial(m, p), b, Find(n, b))
           /\ \A x \in Places("node_48") : Shrink256Copies(m, n, b, p).slots[x] # Nil <=> x < p + 1
<1>1. PICK c, q, index, slots, m2 :
        /\ c = Find(n, b) /\ q = Partial(m, p)
        /\ index = [m.index EXCEPT ![b] = p] /\ slots = [m.slots EXCEPT ![p] = c]
        /\ m2 = Node("node_48", m.count, Unused, index, slots)
  OBVIOUS
<1>2. /\ m.count \in 0..MaxSize("node_48") /\ m.type = "node_48"
      /\ m = Node("node_48", m.count, m.keys, m.index, m.slots)
  BY ShapeFields
<1>3. /\ m.index \in [Byte -> Places("node_48") \cup {EmptyMarker}]
      /\ m.slots \in [Places("node_48") -> Slot] /\ m.keys = Unused
  BY <1>2 DEF NodeShape, Sorted, Indexed
<1>4. c \in Slot /\ c = n.slots[b] /\ c # Nil
  BY <1>1, DirectFacts DEF Taken
<1>5. Shrink256Copies(m, n, b, p) = m2
  <2>1. Shrink256Copies(m, n, b, p) = [m EXCEPT !.index = [m.index EXCEPT ![b] = p],
                                                !.slots = [m.slots EXCEPT ![p] = n.slots[b]]]
    BY DEF Shrink256Copies
  <2>2. Shrink256Copies(m, n, b, p) = [m EXCEPT !.index = index, !.slots = slots]
    BY <1>1, <1>4, <2>1
  <2>3. [m EXCEPT !.index = index, !.slots = slots] =
          [[m EXCEPT !.index = index] EXCEPT !.slots = slots]
    BY <1>2 DEF Node
  <2>4. [m EXCEPT !.index = index] = Node("node_48", m.count, Unused, index, m.slots)
    BY <1>2, <1>3 DEF Node
  <2>5. [Node("node_48", m.count, Unused, index, m.slots) EXCEPT !.slots = slots]
          = Node("node_48", m.count, Unused, index, slots)
    BY DEF Node
  <2> QED
    BY <1>1, <2>2, <2>3, <2>4, <2>5
<1>6. p \in Places("node_48") /\ Places("node_48") = 0..(Cap48 - 1) /\ Cap48 \in Nat
  BY Capacities
<1>7. /\ index \in [Byte -> Places("node_48") \cup {EmptyMarker}]
      /\ slots \in [Places("node_48") -> Slot]
  BY <1>1, <1>3, <1>4, <1>6
<1>8. m2 \in NodeShape("node_48")
  BY <1>1, <1>2, <1>7 DEF NodeShape, Node, Sorted, Indexed
<1>9. m2.count = m.count /\ m2.keys = Unused /\ m2.index = index /\ m2.slots = slots
  BY <1>1 DEF Node
<1>10. Partial(m2, p + 1) = Node("node_48", p + 1, Unused, index, slots)
  BY <1>8, <1>9, PartialIs
<1>11. q = Node("node_48", p, Unused, m.index, m.slots)
  BY <1>1, <1>3, PartialIs
<1>12. q.type = "node_48" /\ q.count = p /\ q.index = m.index /\ q.slots = m.slots
  BY <1>11 DEF Node
<1>13. IndexedNode(q)
  BY <1>1, <1>12, SoundKinds DEF Indexed
<1>14. Min(FreePlaces(q)) = p
  <2>1. FreePlaces(q) = {x \in 0..(Cap48 - 1) : ~ (x < p)}
    BY <1>3, <1>6, <1>12 DEF FreePlaces
  <2>2. FreePlaces(q) \in SUBSET Int /\ p \in FreePlaces(q) /\ \A x \in FreePlaces(q) : p =< x
    BY <1>6, <2>1
  <2> QED
    BY <2>2, LeastIs
<1>15. Insert(q, b, c) = Node("node_48", p + 1, Unused, index, slots)
  BY <1>1, <1>12, <1>13, <1>14, InsertIndexedIs
<1>16. \A x \in Places("node_48") : slots[x] # Nil <=> x < p + 1
  BY <1>1, <1>3, <1>4, <1>6
<1> QED
  BY <1>1, <1>5, <1>8, <1>9, <1>10, <1>15, <1>16

\* What the constructor has filled holds the children of the bytes below i.
LEMMA FilledIs ==
    ASSUME IInv, next = "copy"
    PROVE  /\ Sound(node) /\ Counted(node) /\ node.count \in Nat /\ Filling
           /\ \/ IndexedNode(node) /\ node.type = "node_48" /\ made \in NodeShape("node_16")
                 /\ made.type = "node_16"
              \/ DirectNode(node) /\ node.type = "node_256" /\ made \in NodeShape("node_48")
                 /\ made.type = "node_48"
           /\ InUse(node) = Taken(node)
           /\ Taken(Partial(made, pos)) = {b \in Taken(node) : b < i}
           /\ Partial(made, pos).count = pos /\ Partial(made, pos).type = made.type
           /\ pos = Cardinality({b \in Taken(node) : b < i})
           /\ made.count =< MaxSize(made.type) /\ MaxSize(made.type) \in Nat /\ made.count \in Nat
<1>1. Sound(node) /\ Counted(node) /\ Filling
  BY DEF IInv
<1>2. node.count \in Nat /\ node.type \in InnerTypes
  BY <1>1, SoundFacts
<1>3. /\ ~ Sorted(node.type) /\ made \in NodeShape(Shrunk(node.type)) /\ pos \in Nat
      /\ Counted(Partial(made, pos))
      /\ \A x \in Byte : Find(Partial(made, pos), x) = IF x < i THEN Find(node, x) ELSE Nil
  BY <1>1 DEF Filling
<1>4. \/ IndexedNode(node) /\ node.type = "node_48" /\ made \in NodeShape("node_16")
      \/ DirectNode(node) /\ node.type = "node_256" /\ made \in NodeShape("node_48")
  BY <1>1, <1>3, SoundKinds DEF Shrunk, Indexed, Direct
<1>5. /\ node.type = "node_48" /\ made \in NodeShape("node_16") => made.type = "node_16"
      /\ node.type = "node_256" /\ made \in NodeShape("node_48") => made.type = "node_48"
  BY ShapeFields
<1>6. InUse(node) = Taken(node)
  BY <1>4, InUseIsTaken
<1>7. Taken(Partial(made, pos)) = {b \in Taken(node) : b < i}
  BY <1>3 DEF Taken
<1>8. Partial(made, pos).count = pos /\ Partial(made, pos).type = made.type
  BY <1>3, PartialIs, ShapeFields DEF Node
<1>9. pos = Cardinality({b \in Taken(node) : b < i})
  BY <1>3, <1>7, <1>8 DEF Counted
<1>10. made.count =< MaxSize(made.type) /\ MaxSize(made.type) \in Nat /\ made.count \in Nat
  <2>1. Shrunk(node.type) \in InnerTypes
    BY <1>2, Sizes
  <2>2. MaxSize(Shrunk(node.type)) \in Nat
    BY <2>1, Sizes
  <2>3. made.count \in 0..MaxSize(Shrunk(node.type)) /\ made.type = Shrunk(node.type)
    BY <1>3, ShapeFields
  <2> QED
    BY <2>2, <2>3
<1> QED
  BY <1>1, <1>2, <1>4, <1>5, <1>6, <1>7, <1>8, <1>9, <1>10

\* The running position never leaves the arrays and ends at their count.
LEMMA FillsExactly ==
    ASSUME IInv, next = "copy"
    PROVE  /\ i = Cap256 => pos = made.count
           /\ i < Cap256 /\ i \in InUse(node) => pos < made.count
<1>1. /\ Counted(node) /\ node.count \in Nat /\ InUse(node) = Taken(node)
      /\ pos = Cardinality({b \in Taken(node) : b < i})
  BY FilledIs
<1>2. made.count = node.count /\ i \in 0..Cap256 /\ pos \in Nat
  BY FilledIs DEF Filling
<1>3. CASE i = Cap256
  <2>1. \A b \in Taken(node) : b < i
    BY <1>3, BytesAreNumbers, Capacities DEF Taken
  <2>2. {b \in Taken(node) : b < i} = Taken(node)
    BY <2>1
  <2> QED
    BY <1>1, <1>2, <1>3, <2>2 DEF Counted
<1>4. ASSUME i < Cap256, i \in Taken(node)
      PROVE  pos < made.count
  <2>1. {b \in Taken(node) : b < i} \in SUBSET (Taken(node) \ {i})
    BY <1>2
  <2>2. /\ IsFiniteSet(Taken(node) \ {i})
        /\ Cardinality(Taken(node) \ {i}) = Cardinality(Taken(node)) - 1
    BY <1>4, TakenAreBytes, FS_RemoveElement
  <2>3. Cardinality({b \in Taken(node) : b < i}) =< Cardinality(Taken(node)) - 1
    BY <2>1, <2>2, FS_Subset
  <2> QED
    BY <1>1, <1>2, <2>3 DEF Counted
<1> QED
  BY <1>1, <1>2, <1>3, <1>4, Capacities

LEMMA IInvFills ==
    ASSUME Sound(node'), Counted(node'), node'.count >= 1, next' = "copy", Filling'
    PROVE  IInv'
BY DEF IInv

LEMMA ShrinkBeginsStep ==
    ASSUME IInv, ShrinkBegins
    PROVE  IInv'
<1>1. /\ next = "shrink" /\ node.type # "node_16"
      /\ made' = IF node.type = "node_48" THEN Shrink48Begins ELSE Shrink256Begins
      /\ next' = "copy" /\ node' = node /\ i' = i /\ pos' = pos
  BY DEF ShrinkBegins
<1>2. Sound(node) /\ Counted(node) /\ node.count >= 1 /\ Resting /\ OneShort(node)
  BY <1>1 DEF IInv
<1>3. i' = 0 /\ pos' = 0 /\ 0 \in 0..Cap256 /\ \A x \in Byte : ~ (x < 0)
  BY <1>1, <1>2, BytesAreNumbers, Capacities DEF Resting
<1>4. node.type \in {"node_48", "node_256"} /\ ~ Sorted(node.type)
  BY <1>1, <1>2, SoundFacts DEF OneShort, InnerTypes, Sorted
<1>5. CASE node.type = "node_48"
  <2>1. made' = Shrink48Begins /\ Shrunk(node.type) = "node_16" /\ node.count = Cap16
    BY <1>1, <1>2, <1>5, Capacities DEF Shrunk, OneShort, MinSize
  <2>2. ~ Indexed(made'.type)
    BY <2>1 DEF Shrink48Begins, Node, Indexed
  <2>3. /\ made' \in NodeShape(Shrunk(node.type)) /\ made'.count = node.count
        /\ Sound(Partial(made', 0)) /\ Counted(Partial(made', 0))
        /\ \A x \in Byte : Find(Partial(made', 0), x) = IF x < 0 THEN Find(node, x) ELSE Nil
    BY <1>3, <2>1, Shrink48Starts
  <2>4. 0 =< made'.count
    BY <2>1, <2>3, Capacities
  <2>5. Filling'
    BY <1>1, <1>2, <1>3, <1>4, <2>2, <2>3, <2>4 DEF Filling
  <2> QED
    BY <1>1, <1>2, <2>5, IInvFills
<1>6. CASE node.type = "node_256"
  <2>1. made' = Shrink256Begins /\ Shrunk(node.type) = "node_48" /\ node.count = Cap48
    BY <1>1, <1>2, <1>6, Capacities DEF Shrunk, OneShort, MinSize
  <2>2. \A p \in Places("node_48") : made'.slots[p] # Nil <=> p < 0
    BY <2>1, Shrink256Starts, Capacities
  <2>3. /\ made' \in NodeShape(Shrunk(node.type)) /\ made'.count = node.count
        /\ Sound(Partial(made', 0)) /\ Counted(Partial(made', 0))
        /\ \A x \in Byte : Find(Partial(made', 0), x) = IF x < 0 THEN Find(node, x) ELSE Nil
    BY <1>3, <2>1, Shrink256Starts
  <2>4. 0 =< made'.count
    BY <2>1, <2>3, Capacities
  <2>5. Filling'
    BY <1>1, <1>2, <1>3, <1>4, <2>2, <2>3, <2>4 DEF Filling
  <2> QED
    BY <1>1, <1>2, <2>5, IInvFills
<1> QED
  BY <1>4, <1>5, <1>6

LEMMA ShrinkSkipsStep ==
    ASSUME IInv, ShrinkSkips
    PROVE  IInv'
<1>1. /\ next = "copy" /\ i \in Byte /\ i \notin InUse(node)
      /\ i' = i + 1 /\ node' = node /\ next' = next /\ made' = made /\ pos' = pos
  BY DEF ShrinkSkips
<1>2. Sound(node) /\ Counted(node) /\ node.count >= 1 /\ Filling /\ InUse(node) = Taken(node)
  BY <1>1, FilledIs DEF IInv
<1>3. i + 1 \in 0..Cap256
  BY <1>1, Capacities DEF Byte
<1>4. Find(node, i) = Nil
  BY <1>1, <1>2 DEF Taken
<1>5. ASSUME NEW x \in Byte
      PROVE  Find(Partial(made, pos), x) = IF x < i + 1 THEN Find(node, x) ELSE Nil
  <2>1. Find(Partial(made, pos), x) = IF x < i THEN Find(node, x) ELSE Nil
    BY <1>2 DEF Filling
  <2>2. x \in Int /\ i \in Int
    BY <1>1, BytesAreNumbers
  <2>3. x < i + 1 <=> x < i \/ x = i
    BY <2>2
  <2> QED
    BY <1>4, <2>1, <2>3
<1>6. Filling'
  BY <1>1, <1>2, <1>3, <1>5 DEF Filling
<1> QED
  BY <1>1, <1>2, <1>6, IInvFills

LEMMA ShrinkCopiesStep ==
    ASSUME IInv, ShrinkCopies
    PROVE  IInv'
<1>1. /\ next = "copy" /\ i \in Byte /\ i \in InUse(node)
      /\ made' = IF node.type = "node_48" THEN Shrink48Copies(made, node, i, pos)
                                          ELSE Shrink256Copies(made, node, i, pos)
      /\ i' = i + 1 /\ pos' = pos + 1 /\ node' = node /\ next' = next
  BY DEF ShrinkCopies
<1>2. /\ Sound(node) /\ Counted(node) /\ node.count >= 1 /\ Filling /\ InUse(node) = Taken(node)
      /\ Taken(Partial(made, pos)) = {b \in Taken(node) : b < i}
      /\ Partial(made, pos).count = pos /\ Partial(made, pos).type = made.type
  BY <1>1, FilledIs DEF IInv
<1>3. /\ ~ Sorted(node.type) /\ OneShort(node)
      /\ made \in NodeShape(Shrunk(node.type)) /\ made.count = node.count
      /\ pos \in Nat /\ Sound(Partial(made, pos)) /\ Counted(Partial(made, pos))
      /\ \A x \in Byte : Find(Partial(made, pos), x) = IF x < i THEN Find(node, x) ELSE Nil
      /\ Indexed(made.type) => \A p \in Places("node_48") : made.slots[p] # Nil <=> p < pos
  BY <1>2 DEF Filling
<1>4. made.count =< MaxSize(made.type) /\ MaxSize(made.type) \in Nat /\ made.count \in Nat
  BY <1>1, FilledIs
<1>5. i \in Taken(node) /\ i < Cap256 /\ i \in Int /\ i + 1 \in 0..Cap256
  BY <1>1, <1>2, Capacities DEF Byte
<1>6. pos < made.count /\ pos < MaxSize(made.type)
  <2>1. pos < made.count
    BY <1>1, <1>5, FillsExactly
  <2> QED
    BY <1>3, <1>4, <2>1
<1>7. PICK c : c = Find(node, i)
  OBVIOUS
<1>8. c \in Kids /\ c # Nil
  <2>1. c \in Slot
    BY <1>2, <1>5, <1>7, SoundFacts DEF Taken
  <2> QED
    BY <1>5, <1>7, <2>1 DEF Taken, Slot
<1>9. Find(Partial(made, pos), i) = Nil
  BY <1>1, <1>3, <1>5
<1>10. /\ made' \in NodeShape(Shrunk(node.type)) /\ made'.count = made.count
       /\ Partial(made', pos + 1) = Insert(Partial(made, pos), i, c)
       /\ Indexed(made'.type) =>
            \A p \in Places("node_48") : made'.slots[p] # Nil <=> p < pos + 1
  <2>1. CASE IndexedNode(node) /\ node.type = "node_48" /\ made \in NodeShape("node_16")
             /\ made.type = "node_16"
    <3>1. made' = Shrink48Copies(made, node, i, pos) /\ Shrunk(node.type) = "node_16"
      BY <1>1, <2>1 DEF Shrunk
    <3>2. pos < Cap16
      BY <1>6, <2>1, Capacities
    <3>3. \A x \in Byte : Find(Partial(made, pos), x) # Nil => x < i
      BY <1>3
    <3>4. /\ made' \in NodeShape("node_16") /\ made'.count = made.count
          /\ Partial(made', pos + 1) = Insert(Partial(made, pos), i, c)
      BY <1>1, <1>3, <1>5, <1>7, <2>1, <3>1, <3>2, <3>3, Shrink48Inserts
    <3>5. ~ Indexed(made'.type)
      BY <3>4, ShapeFields DEF Indexed
    <3> QED
      BY <3>1, <3>4, <3>5
  <2>2. CASE DirectNode(node) /\ node.type = "node_256" /\ made \in NodeShape("node_48")
             /\ made.type = "node_48"
    <3>1. made' = Shrink256Copies(made, node, i, pos) /\ Shrunk(node.type) = "node_48"
      BY <1>1, <2>2 DEF Shrunk
    <3>2. pos < Cap48
      BY <1>6, <2>2, Capacities
    <3>3. \A p \in Places("node_48") : made.slots[p] # Nil <=> p < pos
      BY <1>3, <2>2 DEF Indexed
    <3>4. /\ made' \in NodeShape("node_48") /\ made'.count = made.count
          /\ Partial(made', pos + 1) = Insert(Partial(made, pos), i, c)
          /\ \A p \in Places("node_48") : made'.slots[p] # Nil <=> p < pos + 1
      BY <1>1, <1>3, <1>5, <1>7, <2>2, <3>1, <3>2, <3>3, Shrink256Inserts
    <3> QED
      BY <3>1, <3>4
  <2> QED
    BY <1>1, <2>1, <2>2, FilledIs
<1>11. /\ Sound(Partial(made', pos + 1)) /\ Counted(Partial(made', pos + 1))
       /\ \A x \in Byte : Find(Partial(made', pos + 1), x)
                            = IF x = i THEN c ELSE Find(Partial(made, pos), x)
  BY <1>1, <1>2, <1>3, <1>6, <1>8, <1>9, <1>10, InsertKeeps
<1>12. ASSUME NEW x \in Byte
       PROVE  Find(Partial(made', pos + 1), x) = IF x < i + 1 THEN Find(node, x) ELSE Nil
  <2>1. x \in Int
    BY BytesAreNumbers
  <2>2. x < i + 1 <=> x < i \/ x = i
    BY <1>5, <2>1
  <2> QED
    BY <1>3, <1>7, <1>11, <2>2
<1>13. pos + 1 \in Nat /\ pos + 1 =< made.count
  BY <1>3, <1>4, <1>6
<1>14. Filling'
  BY <1>1, <1>3, <1>5, <1>10, <1>11, <1>12, <1>13 DEF Filling
<1> QED
  BY <1>1, <1>2, <1>14, IInvFills

LEMMA ShrinkEndsStep ==
    ASSUME IInv, ShrinkEnds
    PROVE  IInv' /\ \A x \in Byte : Find(node', x) = Find(node, x)
<1>1. /\ next = "copy" /\ i = Cap256 /\ node' = made /\ next' = "any"
      /\ made' = NoNode /\ i' = 0 /\ pos' = 0
  BY DEF ShrinkEnds, Idle
<1>2. /\ Sound(node) /\ Counted(node) /\ node.count >= 1 /\ Filling
      /\ node.count \in Nat /\ node.type \in InnerTypes
  BY <1>1, FilledIs, SoundFacts DEF IInv
<1>3. /\ OneShort(node)
      /\ made \in NodeShape(Shrunk(node.type)) /\ made.count = node.count
      /\ Sound(Partial(made, pos)) /\ Counted(Partial(made, pos))
      /\ \A x \in Byte : Find(Partial(made, pos), x) = IF x < i THEN Find(node, x) ELSE Nil
  BY <1>2 DEF Filling
<1>4. pos = made.count
  BY <1>1, FillsExactly
<1>5. Partial(made, pos) = made
  BY <1>3, <1>4, PartialIs
<1>6. \A x \in Byte : x < i
  BY <1>1, Capacities DEF Byte
<1>7. Sound(node') /\ Counted(node') /\ \A x \in Byte : Find(node', x) = Find(node, x)
  BY <1>1, <1>3, <1>5, <1>6
<1>8. SizeFits(node')
  <2>1. made.type = Shrunk(node.type)
    BY <1>3, ShapeFields
  <2>2. made.count = MaxSize(made.type)
    BY <1>2, <1>3, <2>1, Sizes DEF OneShort
  <2>3. made.type \in InnerTypes
    BY <1>2, <2>1, Sizes
  <2>4. made.count \in MinSize(made.type)..MaxSize(made.type)
    BY <2>2, <2>3, Sizes
  <2> QED
    BY <1>1, <2>4 DEF SizeFits
<1>9. Resting' /\ node'.count >= 1
  BY <1>1, <1>2, <1>3 DEF Resting
<1>10. IInv'
  BY <1>1, <1>7, <1>8, <1>9, IInvAtRest
<1> QED
  BY <1>7, <1>10

-----------------------------------------------------------------------------
(* The loop of the copy constructors.  A _Node_48 whose children do not lie *)
(* in the slots of their bytes is not copied faithfully, so the rest is    *)
(* about clients that copy none.                                           *)

LEMMA CopiedIs ==
    ASSUME NEW n, Sound(n), NEW k
    PROVE  /\ n = Node(n.type, n.count, n.keys, n.index, n.slots)
           /\ n.slots \in [Places(n.type) -> Slot]
           /\ CopiedSoFar(n, k) = Node(n.type, n.count, n.keys, n.index, CopiedSlots(n, k))
           /\ CopiedSlots(n, k) \in [Places(n.type) -> Slot]
           /\ \A p \in Places(n.type) : CopiedSlots(n, k)[p] = IF p < k THEN n.slots[p] ELSE Nil
<1>1. n = Node(n.type, n.count, n.keys, n.index, n.slots)
  BY ShapeFields DEF Sound
<1>2. n.slots \in [Places(n.type) -> Slot]
  BY DEF Sound, NodeShape
<1>3. PICK slots : slots = CopiedSlots(n, k)
  OBVIOUS
<1>4. [n EXCEPT !.slots = slots] = Node(n.type, n.count, n.keys, n.index, slots)
  BY <1>1 DEF Node
<1>5. CopiedSoFar(n, k) = Node(n.type, n.count, n.keys, n.index, CopiedSlots(n, k))
  BY <1>3, <1>4 DEF CopiedSoFar
<1>6. CopiedSlots(n, k) \in [Places(n.type) -> Slot]
  BY <1>2, ZeroIsByte DEF CopiedSlots
<1>7. \A p \in Places(n.type) : CopiedSlots(n, k)[p] = IF p < k THEN n.slots[p] ELSE Nil
  BY DEF CopiedSlots
<1> QED
  BY <1>1, <1>2, <1>5, <1>6, <1>7

LEMMA PlacesAreBytes ==
    ASSUME NEW t \in InnerTypes
    PROVE  /\ Places(t) \in SUBSET Byte
           /\ \A p \in Places(t) : p \in Int /\ 0 =< p /\ p < Cap256
BY Capacities DEF InnerTypes, Byte

LEMMA IInvClones ==
    ASSUME Sound(node'), Counted(node'), node'.count >= 1, next' = "clone", Cloning'
    PROVE  IInv'
BY DEF IInv

LEMMA CopyNodeStep ==
    ASSUME CopyAnyNode48 = FALSE, IInv, CopyNode
    PROVE  IInv'
<1>1. /\ next = "any" /\ (Indexed(node.type) => IndexIsByte(node))
      /\ made' = CopyBegins(node) /\ next' = "clone"
      /\ node' = node /\ i' = i /\ pos' = pos
  BY DEF CopyNode
<1>2. Sound(node) /\ Counted(node) /\ node.count >= 1 /\ Resting /\ SizeFits(node)
  BY <1>1 DEF IInv
<1>3. i' = 0 /\ pos' = 0 /\ 0 \in 0..Cap256 /\ 0 =< node.count
  BY <1>1, <1>2, SoundFacts, Capacities DEF Resting
<1>4. NoSlots(node.type) = CopiedSlots(node, 0)
  <2>1. \A p \in Places(node.type) : ~ (p < 0)
    BY <1>2, SoundFacts, PlacesAreBytes
  <2> QED
    BY <2>1 DEF NoSlots, CopiedSlots
<1>5. made' = CopiedSoFar(node, 0)
  BY <1>1, <1>4 DEF CopyBegins, CopiedSoFar
<1>6. Cloning'
  BY <1>1, <1>2, <1>3, <1>5 DEF Cloning
<1> QED
  BY <1>1, <1>2, <1>6, IInvClones

\* One turn adds the slot of its number, or finds it null already.
LEMMA OneMoreCopied ==
    ASSUME NEW n, Sound(n), NEW k \in Int, NEW m, m = CopiedSoFar(n, k),
           \A p \in Places(n.type) : p \in Int
    PROVE  /\ k \in Places(n.type) => [m EXCEPT !.slots[k] = n.slots[k]] = CopiedSoFar(n, k + 1)
           /\ (k \in Places(n.type) => n.slots[k] = Nil) => m = CopiedSoFar(n, k + 1)
<1>1. /\ m = Node(n.type, n.count, n.keys, n.index, CopiedSlots(n, k))
      /\ CopiedSoFar(n, k + 1) = Node(n.type, n.count, n.keys, n.index, CopiedSlots(n, k + 1))
  BY CopiedIs
<1>2. \A p \in Places(n.type) : p < k + 1 <=> p < k \/ p = k
  OBVIOUS
<1>3. ASSUME k \in Places(n.type)
      PROVE  [m EXCEPT !.slots[k] = n.slots[k]] = CopiedSoFar(n, k + 1)
  <2>1. PICK slots : slots = [CopiedSlots(n, k) EXCEPT ![k] = n.slots[k]]
    OBVIOUS
  <2>2. slots = CopiedSlots(n, k + 1)
    BY <1>2, <1>3, <2>1 DEF CopiedSlots
  <2>3. m.slots = CopiedSlots(n, k)
    BY <1>1 DEF Node
  <2>4. [m EXCEPT !.slots[k] = n.slots[k]] = [m EXCEPT !.slots = [m.slots EXCEPT ![k] = n.slots[k]]]
    OBVIOUS
  <2>5. [m EXCEPT !.slots = slots] = Node(n.type, n.count, n.keys, n.index, slots)
    BY <1>1 DEF Node
  <2> QED
    BY <1>1, <2>1, <2>2, <2>3, <2>4, <2>5
<1>4. ASSUME k \in Places(n.type) => n.slots[k] = Nil
      PROVE  m = CopiedSoFar(n, k + 1)
  <2>1. CopiedSlots(n, k) = CopiedSlots(n, k + 1)
    BY <1>2, <1>4 DEF CopiedSlots
  <2> QED
    BY <1>1, <2>1
<1> QED
  BY <1>3, <1>4

LEMMA CopyChildStep ==
    ASSUME IInv, CopyChild
    PROVE  IInv'
<1>1. /\ next = "clone" /\ i \in CopyTurns(node)
      /\ made' = Copied(made, node, i) /\ i' = i + 1
      /\ node' = node /\ next' = next /\ pos' = pos
  BY DEF CopyChild
<1>2. Sound(node) /\ Counted(node) /\ node.count >= 1 /\ Cloning
  BY <1>1 DEF IInv
<1>3. /\ SizeFits(node) /\ (Indexed(node.type) => IndexIsByte(node))
      /\ made = CopiedSoFar(node, i) /\ i \in 0..Cap256 /\ pos = 0
  BY <1>2 DEF Cloning
<1>4. /\ node.type \in InnerTypes /\ node.count \in Nat
      /\ node.count =< MaxSize(node.type) /\ MaxSize(node.type) \in Nat
  BY <1>2, SoundFacts
<1>5. i \in Int /\ \A p \in Places(node.type) : p \in Int
  BY <1>3, <1>4, PlacesAreBytes, Capacities
<1>6. made' = CopiedSoFar(node, i + 1)
  <2>1. CASE Sorted(node.type)
    <3>1. made' = [made EXCEPT !.slots[i] = node.slots[i]]
      BY <1>1, <2>1 DEF Copied, CopiedSorted, Sorted, Indexed
    <3>2. i \in 0..(node.count - 1)
      BY <1>1, <2>1 DEF CopyTurns
    <3>3. i \in Places(node.type)
      BY <1>4, <3>2 DEF Places
    <3> QED
      BY <1>2, <1>3, <1>5, <3>1, <3>3, OneMoreCopied
  <2>2. CASE Direct(node.type)
    <3>1. made' = IF node.slots[i] # Nil THEN [made EXCEPT !.slots[i] = node.slots[i]] ELSE made
      BY <1>1, <2>2 DEF Copied, CopiedDirect, Sorted, Indexed, Direct
    <3>2. i \in Places(node.type)
      BY <1>1, <2>2, Capacities DEF CopyTurns, Sorted, Direct
    <3>3. CASE node.slots[i] # Nil
      BY <1>2, <1>3, <1>5, <3>1, <3>2, <3>3, OneMoreCopied
    <3>4. CASE node.slots[i] = Nil
      BY <1>2, <1>3, <1>5, <3>1, <3>2, <3>4, OneMoreCopied
    <3> QED
      BY <3>3, <3>4
  <2>3. CASE Indexed(node.type)
    <3>1. IndexedNode(node) /\ IndexIsByte(node) /\ node.type = "node_48" /\ i \in Byte
      BY <1>1, <1>2, <1>3, <2>3, SoundKinds DEF CopyTurns, Sorted, Indexed
    <3>2. made' = IF node.index[i] # EmptyMarker
                  THEN [made EXCEPT !.slots[node.index[i]] = node.slots[i]] ELSE made
      BY <1>1, <2>3 DEF Copied, CopiedIndexed, Sorted, Indexed
    <3>3. CASE node.index[i] # EmptyMarker
      <4>1. node.index[i] = i /\ i \in Places(node.type)
        BY <3>1, <3>3, FindInIndexed DEF IndexIsByte
      <4>2. made' = [made EXCEPT !.slots[i] = node.slots[i]]
        BY <3>2, <3>3, <4>1
      <4> QED
        BY <1>2, <1>3, <1>5, <4>1, <4>2, OneMoreCopied
    <3>4. CASE node.index[i] = EmptyMarker
      <4>1. i \in Places(node.type) => node.slots[i] = Nil
        <5>1. SUFFICES ASSUME i \in Places("node_48")  PROVE node.slots[i] = Nil
          BY <3>1
        <5>2. ASSUME NEW b \in Byte, node.index[b] = i  PROVE FALSE
          <6>1. i # EmptyMarker
            BY <5>1, MarkerIsNoPlace
          <6>2. b = i
            BY <3>1, <5>2, <6>1 DEF IndexIsByte
          <6> QED
            BY <3>4, <5>2, <6>1, <6>2
        <5> QED
          BY <3>1, <5>1, <5>2, IndexedFacts
      <4>2. made' = made
        BY <3>2, <3>4
      <4> QED
        BY <1>2, <1>3, <1>5, <4>1, <4>2, OneMoreCopied
    <3> QED
      BY <3>3, <3>4
  <2> QED
    BY <1>2, <2>1, <2>2, <2>3, SoundKinds
<1>7. i + 1 \in 0..Cap256 /\ (Sorted(node.type) => i + 1 =< node.count)
  <2>1. CASE Sorted(node.type)
    <3>1. i \in 0..(node.count - 1)
      BY <1>1, <2>1 DEF CopyTurns
    <3>2. MaxSize(node.type) =< Cap256
      BY <1>4, Capacities DEF InnerTypes
    <3> QED
      BY <1>4, <3>1, <3>2, Capacities
  <2>2. CASE ~ Sorted(node.type)
    BY <1>1, <2>2, Capacities DEF CopyTurns, Byte
  <2> QED
    BY <2>1, <2>2
<1>8. Cloning'
  BY <1>1, <1>3, <1>6, <1>7 DEF Cloning
<1> QED
  BY <1>1, <1>2, <1>8, IInvClones

\* What the loop leaves behind has every child of the node it copied.
LEMMA CopyIsWhole ==
    ASSUME IInv, next = "clone", i \notin CopyTurns(node)
    PROVE  /\ Sound(made) /\ made.type = node.type /\ made.count = node.count
           /\ \A x \in Byte : Find(made, x) = Find(node, x)
<1>1. Sound(node) /\ Cloning
  BY DEF IInv
<1>2. /\ made = CopiedSoFar(node, i) /\ i \in 0..Cap256
      /\ (Sorted(node.type) => i =< node.count)
  BY <1>1 DEF Cloning
<1>3. /\ node = Node(node.type, node.count, node.keys, node.index, node.slots)
      /\ node.slots \in [Places(node.type) -> Slot]
      /\ made = Node(node.type, node.count, node.keys, node.index, CopiedSlots(node, i))
      /\ CopiedSlots(node, i) \in [Places(node.type) -> Slot]
      /\ \A p \in Places(node.type) :
           CopiedSlots(node, i)[p] = IF p < i THEN node.slots[p] ELSE Nil
  BY <1>1, <1>2, CopiedIs
<1>4. node.type \in InnerTypes /\ node.count \in Nat
  BY <1>1, SoundFacts
<1>5. made.type = node.type /\ made.count = node.count
  BY <1>3 DEF Node
<1>6. CASE Sorted(node.type)
  <2>1. SortedNode(node)
    BY <1>1, <1>6, SoundKinds
  <2>2. i = node.count
    <3>1. i \notin 0..(node.count - 1)
      BY <1>6 DEF CopyTurns
    <3> QED
      BY <1>2, <1>4, <1>6, <3>1, Capacities
  <2>3. /\ node.type \in {"node_4", "node_16"} /\ node.count =< MaxSize(node.type)
        /\ node.keys \in [Places(node.type) -> Byte]
        /\ Places(node.type) = 0..(MaxSize(node.type) - 1) /\ MaxSize(node.type) \in Nat
        /\ node = Node(node.type, node.count, node.keys, Unused, node.slots)
    BY <2>1, SortedFacts
  <2>4. node.index = Unused
    BY <2>3 DEF Node
  <2>5. PICK slots, keys, k, t : /\ slots = CopiedSlots(node, i) /\ keys = node.keys
                                 /\ k = node.count /\ t = node.type
    OBVIOUS
  <2>6. \A p \in 0..(k - 1) : keys[p] = node.keys[p] /\ slots[p] = node.slots[p]
    <3>1. \A p \in 0..(node.count - 1) : p \in Places(node.type) /\ p < i
      BY <1>4, <2>2, <2>3
    <3>2. \A p \in 0..(node.count - 1) : CopiedSlots(node, i)[p] = node.slots[p]
      BY <1>3, <3>1
    <3> QED
      BY <2>5, <3>2
  <2>7. made = Node(t, k, keys, Unused, slots)
    BY <1>3, <2>4, <2>5
  <2>8. /\ slots \in [Places(t) -> Slot] /\ keys \in [Places(t) -> Byte]
        /\ t \in {"node_4", "node_16"} /\ k = node.count /\ k =< MaxSize(t)
    BY <1>3, <2>3, <2>5
  <2>9. SortedNode(made) /\ \A x \in Byte : Find(made, x) = Find(node, x)
    BY <2>1, <2>6, <2>7, <2>8, SortedAlike
  <2> QED
    BY <1>5, <2>9, SoundKinds
<1>7. CASE ~ Sorted(node.type)
  <2>1. i \notin Byte
    BY <1>7 DEF CopyTurns
  <2>2. i = Cap256
    BY <1>2, <2>1, Capacities DEF Byte
  <2>3. \A p \in Places(node.type) : p < i
    BY <1>4, <2>2, PlacesAreBytes
  <2>4. CopiedSlots(node, i) = node.slots
    BY <1>3, <2>3
  <2>5. made = node
    BY <1>3, <2>4
  <2> QED
    BY <1>1, <2>5
<1> QED
  BY <1>6, <1>7

LEMMA CopyEndsStep ==
    ASSUME IInv, CopyEnds
    PROVE  IInv' /\ \A x \in Byte : Find(node', x) = Find(node, x)
<1>1. /\ next = "clone" /\ i \notin CopyTurns(node) /\ node' = made /\ next' = "any"
      /\ made' = NoNode /\ i' = 0 /\ pos' = 0
  BY DEF CopyEnds, Idle
<1>2. Counted(node) /\ node.count >= 1 /\ Cloning
  BY <1>1 DEF IInv
<1>3. /\ Sound(node') /\ node'.type = node.type /\ node'.count = node.count
      /\ \A x \in Byte : Find(node', x) = Find(node, x)
  BY <1>1, CopyIsWhole
<1>4. Counted(node')
  <2>1. Taken(node') = Taken(node)
    BY <1>3, SameTaken
  <2> QED
    BY <1>2, <1>3, <2>1 DEF Counted
<1>5. SizeFits(node')
  BY <1>2, <1>3 DEF SizeFits, Cloning
<1>6. Resting' /\ node'.count >= 1
  BY <1>1, <1>2, <1>3 DEF Resting
<1>7. IInv'
  BY <1>1, <1>3, <1>4, <1>5, <1>6, IInvAtRest
<1> QED
  BY <1>3, <1>7

-----------------------------------------------------------------------------
(* Every step keeps the invariant.                                         *)

LEMMA StepKeeps ==
    ASSUME CopyAnyNode48 = FALSE, IInv, [Next]_vars
    PROVE  IInv'
<1>1. CASE CopyNode
  BY <1>1, CopyNodeStep
<1>2. CASE CopyChild
  BY <1>2, CopyChildStep
<1>3. CASE CopyEnds
  BY <1>3, CopyEndsStep
<1>4. ASSUME NEW b \in Byte, EraseChild(b)  PROVE IInv'
  BY <1>4, EraseStep
<1>5. ASSUME NEW b \in Byte, NEW c \in Kids, InsertChild(b, c)  PROVE IInv'
  BY <1>5, InsertStep
<1>6. ASSUME NEW b \in Byte, NEW c \in Kids, UpdateChildPtr(b, c)  PROVE IInv'
  BY <1>6, UpdateStep
<1>7. CASE Grow
  BY <1>7, GrowStep
<1>8. CASE ShrinkTo4
  BY <1>8, ShrinkTo4Step
<1>9. CASE ShrinkBegins
  BY <1>9, ShrinkBeginsStep
<1>10. CASE ShrinkSkips
  BY <1>10, ShrinkSkipsStep
<1>11. CASE ShrinkCopies
  BY <1>11, ShrinkCopiesStep
<1>12. CASE ShrinkEnds
  BY <1>12, ShrinkEndsStep
<1>13. CASE UNCHANGED vars
  BY <1>13 DEF vars, IInv, Filling, Cloning, Resting
<1> QED
  BY <1>1, <1>2, <1>3, <1>4, <1>5, <1>6, <1>7, <1>8, <1>9, <1>10, <1>11, <1>12, <1>13 DEF Next

\* A layout is what its constructor or its last operation left: the arrays are
\* in order, the count is the number of children, and a constructor that is
\* still at work has filled what lies below its running variables.
THEOREM LayoutHolds ==
    ASSUME CopyAnyNode48 = FALSE
    PROVE  Spec => []IInv
<1>1. Init => IInv
  BY InitIsSound
<1>2. IInv /\ [Next]_vars => IInv'
  BY StepKeeps
<1> QED
  BY <1>1, <1>2, PTL DEF Spec

LEMMA IInvTypes ==
    ASSUME IInv
    PROVE  TypeOK
<1>1. Sound(node) /\ node.type \in InnerTypes /\ node \in NodeShape(node.type)
  BY SoundFacts DEF IInv
<1>2. next \in {"any", "insert", "shrink", "copy", "clone"}
  BY DEF IInv
<1>3. CASE next \in {"any", "insert", "shrink"}
  <2>1. made = NoNode /\ i \in 0..Cap256 /\ pos \in Nat
    BY <1>3, Capacities DEF IInv, Resting
  <2> QED
    BY <1>1, <1>2, <1>3, <2>1 DEF TypeOK
<1>4. CASE next = "copy"
  <2>1. /\ made \in NodeShape(Shrunk(node.type)) /\ node.type \in {"node_48", "node_256"}
        /\ i \in 0..Cap256 /\ pos \in Nat
    BY <1>4, FilledIs DEF Filling
  <2> QED
    BY <1>1, <1>2, <1>4, <2>1 DEF TypeOK
<1>5. CASE next = "clone"
  <2>1. made = CopiedSoFar(node, i) /\ i \in 0..Cap256 /\ pos \in Nat
    BY <1>5 DEF IInv, Cloning
  <2>2. PICK slots : slots = CopiedSlots(node, i)
    OBVIOUS
  <2>3. slots \in [Places(node.type) -> Slot] /\ made = [node EXCEPT !.slots = slots]
    BY <1>1, <2>1, <2>2, CopiedIs DEF CopiedSoFar
  <2>4. made \in NodeShape(node.type)
    BY <1>1, <2>3 DEF NodeShape
  <2> QED
    BY <1>1, <1>2, <1>5, <2>1, <2>4 DEF TypeOK
<1> QED
  BY <1>2, <1>3, <1>4, <1>5

\* The node and the one a constructor is filling keep the shape of their layout.
THEOREM TypeHolds ==
    ASSUME CopyAnyNode48 = FALSE
    PROVE  Spec => []TypeOK
<1>1. IInv => TypeOK
  BY IInvTypes
<1> QED
  BY <1>1, LayoutHolds, PTL

\* Up to count the keys ascend and have a child each; no two bytes share a slot
\* of a _Node_48, and a slot is null exactly if no byte leads to it.
THEOREM ArraysStayExact ==
    ASSUME CopyAnyNode48 = FALSE
    PROVE  Spec => []ArraysExact
<1>1. IInv => ArraysExact
  BY DEF IInv, Sound, ArraysExact
<1> QED
  BY <1>1, LayoutHolds, PTL

\* The count is the number of children, and within the bounds of the layout
\* whenever the tree is done with the node.
THEOREM CountStaysExact ==
    ASSUME CopyAnyNode48 = FALSE
    PROVE  Spec => []CountExact
<1>1. IInv => CountExact
  BY DEF IInv, Counted, SizeFits, CountExact
<1> QED
  BY <1>1, LayoutHolds, PTL

\* A shrink constructor never leaves the arrays it fills, and fills them.
THEOREM ShrinkStaysInside ==
    ASSUME CopyAnyNode48 = FALSE
    PROVE  Spec => []ShrinkFills
<1>1. IInv => ShrinkFills
  <2>1. SUFFICES ASSUME IInv, next = "copy"
                 PROVE  /\ pos = Cardinality({b \in Taken(node) : b < i})
                        /\ i = Cap256 => pos = made.count
                        /\ i < Cap256 /\ i \in InUse(node) => pos < made.count
    BY DEF ShrinkFills
  <2> QED
    BY <2>1, FilledIs, FillsExactly
<1> QED
  BY <1>1, LayoutHolds, PTL

LEMMA IInvScans ==
    ASSUME IInv
    PROVE  ScansFollowOrder
<1>1. Sound(node) /\ Counted(node) /\ node.count >= 1
  BY DEF IInv
<1>2. Taken(node) # {}
  BY <1>1, FS_EmptySet DEF Counted
<1>3. ScansRight(node)
  BY <1>1, <1>2, SoundScans
<1> QED
  BY <1>3 DEF ScansRight, ScansFollowOrder, Above, Below, Answer

\* In every layout minimum(), maximum(), successor() and predecessor() of a node
\* answer with the child at the least, the greatest, the next and the previous byte.
THEOREM ScansStayOrdered ==
    ASSUME CopyAnyNode48 = FALSE
    PROVE  Spec => []ScansFollowOrder
<1>1. IInv => ScansFollowOrder
  BY IInvScans
<1> QED
  BY <1>1, LayoutHolds, PTL

\* A copy has every child at its byte, if no _Node_48 is copied whose children
\* do not lie in the slots of their bytes.
THEOREM CopyStaysFaithful ==
    ASSUME CopyAnyNode48 = FALSE
    PROVE  Spec => []CopyIsFaithful
<1>1. IInv => CopyIsFaithful
  BY CopyIsWhole, SameTaken DEF CopyIsFaithful
<1> QED
  BY <1>1, LayoutHolds, PTL

-----------------------------------------------------------------------------
(* The layouts implement a map from bytes to children.                     *)

LEMMA InitIsOneChild == Init => Children!Init
<1>1. SUFFICES ASSUME Init  PROVE Children!Init
  OBVIOUS
<1>2. PICK b \in Byte, c \in Kids : node = NewNode4(b, c)
  BY <1>1 DEF Init
<1>3. \A x \in Byte : Find(node, x) = IF x = b THEN c ELSE Nil
  BY <1>2, NewNodeIs
<1>4. Taken(node) = {b}
  BY <1>3, NilAssumption DEF Taken
<1>5. Represents(node) = [x \in {b} |-> c]
  BY <1>3, <1>4 DEF Represents
<1> QED
  BY <1>5 DEF Children!Init

LEMMA InsertPuts ==
    ASSUME IInv, NEW b \in Byte, NEW c \in Kids, InsertChild(b, c)
    PROVE  Children!Put(b, c)
<1>1. /\ Find(node, b) = Nil /\ node.count < MaxSize(node.type)
      /\ node' = Insert(node, b, c)
  BY DEF InsertChild
<1>2. Sound(node) /\ Counted(node)
  BY DEF IInv
<1>3. \A x \in Byte : Find(node', x) = IF x = b THEN c ELSE Find(node, x)
  BY <1>1, <1>2, InsertKeeps
<1>4. Taken(node') = Taken(node) \cup {b} /\ b \notin Taken(node) /\ Taken(node) \in SUBSET Byte
  BY <1>1, <1>3, NilAssumption DEF Taken
<1>5. DOMAIN Represents(node) = Taken(node)
      /\ \A x \in Taken(node) : Represents(node)[x] = Find(node, x)
  BY DEF Represents
<1>6. Represents(node') = [x \in Taken(node) \cup {b} |-> Find(node', x)]
  BY <1>4 DEF Represents
<1>7. Represents(node')
        = [x \in DOMAIN Represents(node) \cup {b} |-> IF x = b THEN c ELSE Represents(node)[x]]
  BY <1>3, <1>4, <1>5, <1>6
<1> QED
  BY <1>4, <1>5, <1>7 DEF Children!Put

LEMMA UpdateRedirects ==
    ASSUME IInv, NEW b \in Byte, NEW c \in Kids, UpdateChildPtr(b, c)
    PROVE  Children!Redirect(b, c)
<1>1. next = "any" /\ Find(node, b) # Nil /\ node' = Update(node, b, c)
  BY DEF UpdateChildPtr
<1>2. Sound(node) /\ Counted(node)
  BY DEF IInv
<1>3. \A x \in Byte : Find(node', x) = IF x = b THEN c ELSE Find(node, x)
  BY <1>1, <1>2, UpdateKeeps
<1>4. Taken(node') = Taken(node) /\ b \in Taken(node) /\ Taken(node) \in SUBSET Byte
  BY <1>1, <1>3, NilAssumption DEF Taken
<1>5. DOMAIN Represents(node) = Taken(node)
      /\ \A x \in Taken(node) : Represents(node)[x] = Find(node, x)
  BY DEF Represents
<1>6. Represents(node') = [x \in Taken(node) |-> Find(node', x)]
  BY <1>4 DEF Represents
<1>7. Represents(node') = [Represents(node) EXCEPT ![b] = c]
  <2>1. Represents(node) = [x \in Taken(node) |-> Find(node, x)]
    BY DEF Represents
  <2> QED
    BY <1>3, <1>4, <1>6, <2>1
<1> QED
  BY <1>4, <1>5, <1>7 DEF Children!Redirect

LEMMA EraseRemoves ==
    ASSUME IInv, NEW b \in Byte, EraseChild(b)
    PROVE  Children!Remove(b)
<1>1. Find(node, b) # Nil /\ node' = Erase(node, b)
  BY DEF EraseChild
<1>2. Sound(node) /\ Counted(node)
  BY DEF IInv
<1>3. \A x \in Byte : Find(node', x) = IF x = b THEN Nil ELSE Find(node, x)
  BY <1>1, <1>2, EraseKeeps
<1>4. Taken(node') = Taken(node) \ {b} /\ b \in Taken(node) /\ Taken(node) \in SUBSET Byte
  BY <1>1, <1>3 DEF Taken
<1>5. DOMAIN Represents(node) = Taken(node)
      /\ \A x \in Taken(node) : Represents(node)[x] = Find(node, x)
  BY DEF Represents
<1>6. Represents(node') = [x \in Taken(node) \ {b} |-> Find(node', x)]
  BY <1>4 DEF Represents
<1>7. Represents(node') = [x \in DOMAIN Represents(node) \ {b} |-> Represents(node)[x]]
  BY <1>3, <1>4, <1>5, <1>6
<1> QED
  BY <1>4, <1>5, <1>7 DEF Children!Remove

LEMMA RebuildKeeps ==
    ASSUME IInv, Rebuild
    PROVE  Represents(node') = Represents(node)
<1>1. CASE Grow
  <2>1. /\ Sound(node) /\ Counted(node)
        /\ node.count = MaxSize(node.type) /\ node.type # "node_256" /\ node' = GrownNode(node)
    BY <1>1 DEF Grow, IInv
  <2> QED
    BY <2>1, GrowKeeps, SameTaken
<1>2. CASE ShrinkTo4
  <2>1. next = "shrink" /\ node.type = "node_16" /\ node' = Shrink16(node)
    BY <1>2 DEF ShrinkTo4
  <2>2. Sound(node) /\ OneShort(node)
    BY <2>1 DEF IInv
  <2>3. node.count = Cap4 /\ SortedNode(node)
    <3>1. MinSize("node_16") = Cap4 + 1 /\ Sorted("node_16")
      BY DEF MinSize, Sorted
    <3> QED
      BY <2>1, <2>2, <3>1, SoundKinds, Capacities DEF OneShort
  <2> QED
    BY <2>1, <2>3, Shrink16Is, SameTaken
<1>3. CASE ShrinkEnds
  BY <1>3, ShrinkEndsStep, SameTaken
<1>4. CASE CopyEnds
  BY <1>4, CopyEndsStep, SameTaken
<1>5. CASE ShrinkBegins \/ ShrinkSkips \/ ShrinkCopies \/ CopyNode \/ CopyChild
  <2>1. node' = node
    BY <1>5 DEF ShrinkBegins, ShrinkSkips, ShrinkCopies, CopyNode, CopyChild
  <2> QED
    BY <2>1
<1> QED
  BY <1>1, <1>2, <1>3, <1>4, <1>5 DEF Rebuild

\* Whatever the layout, stale slots or not: an operation does to the children
\* what the same operation does to a map, and growing, shrinking and going on
\* with a copy do nothing to them.
THEOREM ImplementsMapOfChildren ==
    ASSUME CopyAnyNode48 = FALSE
    PROVE  Spec => ImplementsChildMap
<1>1. Init => Children!Init
  BY InitIsOneChild
<1>2. IInv /\ [Next]_vars => [StepsLikeChildMap]_vars
  <2>1. SUFFICES ASSUME IInv  PROVE StepsLikeChildMap
    OBVIOUS
  <2>2. ASSUME NEW b \in Byte, NEW c \in Kids, InsertChild(b, c)  PROVE Children!Put(b, c)
    BY <2>1, <2>2, InsertPuts
  <2>3. ASSUME NEW b \in Byte, NEW c \in Kids, UpdateChildPtr(b, c)  PROVE Children!Redirect(b, c)
    BY <2>1, <2>3, UpdateRedirects
  <2>4. ASSUME NEW b \in Byte, EraseChild(b)  PROVE Children!Remove(b)
    BY <2>1, <2>4, EraseRemoves
  <2>5. ASSUME Rebuild  PROVE UNCHANGED Represents(node)
    BY <2>1, <2>5, RebuildKeeps
  <2> QED
    BY <2>2, <2>3, <2>4, <2>5 DEF StepsLikeChildMap
<1> QED
  BY <1>1, <1>2, LayoutHolds, PTL DEF Spec, ImplementsChildMap
=============================================================================
