---------------------------- MODULE ArTreeProofs ----------------------------
(***************************************************************************)
(* Theorems about ArTree, for every key length, chunk size, set of keys    *)
(* and choice of node capacities that the assumptions of ArNode allow:     *)
(* the types, the dummy node, and the shape of the tree in every step of   *)
(* every call, on which SlotsFollowKeys, NothingLost, LayoutFitsSize,      *)
(* CountIsSize and ElementsStay rest.                                      *)
(*                                                                         *)
(* None of those five is inductive.  ShapeInv adds what the local          *)
(* variables of the running call know of the tree, and describes the       *)
(* half-built tree that an erasure works on as a whole one: until the      *)
(* final update_child_ptr, the slot that still holds the address of the    *)
(* erased node is read as holding its replacement (TreeLemmas).            *)
(*                                                                         *)
(* The last part shows that ArTree implements OrderedMap: whatever shape   *)
(* the tree has got into, each call does to the elements, and answers,     *)
(* what the same operation of an ordered map does.  Since the slots lead   *)
(* to where the chunks of the keys say, the walk down from the root finds  *)
(* an element if it is there.  For the bounds and the iterators, the climb *)
(* to the parent and the way down that follows it, SearchKnows says what   *)
(* such a call knows of the elements it has passed.  Then each action is   *)
(* an operation of the map, at the step where the call takes effect, or    *)
(* one that the map does not see.                                          *)
(***************************************************************************)
EXTENDS ArTree, TreeLemmas, SequenceTheorems

-----------------------------------------------------------------------------
(* The kind of step a call is at determines its fields.                    *)

LEMMA CallShape ==
    ASSUME call \in Call
    PROVE  /\ call.pc = "walk" => call \in WalkCall
           /\ call.pc = "tie" => call \in TieCall
           /\ call.pc = "link" => call \in LinkCall
           /\ call.pc = "climb" => call \in ClimbCall
           /\ call.pc = "down" => call \in DownCall
           /\ call.pc = "unlink" => call \in UnlinkCall
           /\ call.pc \in {"shrink", "relink"} => call \in ShrinkCall
           /\ call.pc = "compress" => call \in CompressCall
           /\ call.pc = "clear" => call \in ClearCall
           /\ call.pc = "return" => call \in ReturnCall
BY DEF Call, Idle, WalkCall, TieCall, LinkCall, ClimbCall, DownCall, UnlinkCall,
       ShrinkCall, CompressCall, ClearCall, ReturnCall

LEMMA CallParts ==
    /\ Idle \in Call
    /\ WalkCall \subseteq Call /\ TieCall \subseteq Call /\ LinkCall \subseteq Call
    /\ ClimbCall \subseteq Call /\ DownCall \subseteq Call /\ UnlinkCall \subseteq Call
    /\ ShrinkCall \subseteq Call /\ CompressCall \subseteq Call
    /\ ClearCall \subseteq Call /\ ReturnCall \subseteq Call
BY DEF Call

LEMMA ReturnType ==
    ASSUME NEW o \in Ops, NEW k \in KeyArg, NEW at \in Position, NEW did \in BOOLEAN
    PROVE  Return(o, k, at, did) \in Call
<1>1. Return(o, k, at, did) \in ReturnCall
  BY DEF Return, ReturnCall
<1> QED
  BY <1>1, CallParts

LEMMA KeyArgType == NoPath \in KeyArg /\ Keys \subseteq KeyArg
BY DEF KeyArg

LEMMA PositionType == {} \in Position /\ \A k \in Keys : {k} \in Position
BY DEF Position

LEMMA OpTypes ==
    /\ WalkOps \subseteq Ops /\ ClimbOps \subseteq Ops /\ DownOps \subseteq Ops
    /\ EraseOps \subseteq Ops /\ ClimbOps \subseteq DownOps
    /\ {"erase", "find", "lower", "upper", "insert", "emplace", "clear", "begin",
        "erase_at"} \subseteq Ops
    /\ {"lower", "upper", "next", "prev", "erase_at"} \subseteq ClimbOps
    /\ {"erase", "erase_at"} \subseteq EraseOps
BY DEF Ops, WalkOps, ClimbOps, DownOps, EraseOps

LEMMA PointToType ==
    ASSUME NEW h, IsHeap(h, InnerAddr, InnerNode), root \in Ptr, dummyRoot \in Ptr,
           NEW p, Writable(h, p), NEW k, NEW c \in Ptr, PointTo(h, p, k, c)
    PROVE  IsHeap(inner', InnerAddr, InnerNode) /\ root' \in Ptr /\ dummyRoot' \in Ptr
<1>1. root' \in Ptr /\ dummyRoot' \in Ptr
  BY DEF PointTo
<1>2. CASE p = Dummy
  BY <1>1, <1>2 DEF PointTo
<1>3. CASE p # Dummy
  <2>1. p \in DOMAIN h /\ h[p] \in InnerNode
    BY <1>3 DEF Writable, IsHeap
  <2>2. UpdateChild(h[p], k[h[p].depth], c) \in InnerNode
    BY <2>1, NodeChanges
  <2>3. inner' = [h EXCEPT ![p] = UpdateChild(h[p], k[h[p].depth], c)]
    BY <1>3 DEF PointTo
  <2> QED
    BY <1>1, <2>2, <2>3, WriteHeap
<1> QED
  BY <1>2, <1>3

\* A node of either kind has a parent field that is a pointer.
LEMMA ParentType ==
    ASSUME TypeOK
    PROVE  /\ \A a \in DOMAIN inner : /\ inner[a] \in InnerNode
                                      /\ inner[a].parent \in Ptr
                                      /\ a \in InnerAddr
           /\ \A a \in DOMAIN leaf : /\ leaf[a] \in LeafNode
                                     /\ leaf[a].parent \in Ptr
                                     /\ leaf[a].value \in Values
                                     /\ a \in LeafAddr
BY DEF TypeOK, IsHeap, InnerNode, LeafNode
\* What an action keeps of the type invariant when it leaves the tree alone.
LEMMA OnlyCall ==
    ASSUME TypeOK, UNCHANGED treeVars, call' \in Call
    PROVE  TypeOK'
BY DEF TypeOK, treeVars, IsHeap

-----------------------------------------------------------------------------
(* Type correctness, one lemma for each part of the next-state relation.   *)

LEMMA ClientType == ASSUME TypeOK, Client  PROVE TypeOK'
<1> USE OpTypes, PositionType
<1>1. ASSUME NEW o \in WalkOps, NEW k \in Keys, NEW v \in Given[k], CallOnEmpty(o, k, v)
      PROVE  TypeOK'
  <2>0. v \in Values
    BY GivenAssumption
  <2>1. CASE o = "insert"
    <3>1. LeafOf(k) \in LeafAddr /\ LeafOf(k) \in Ptr /\ Dummy \in Ptr
      BY LeafOfType, PointerKinds
    <3>2. [parent |-> Dummy, value |-> v] \in LeafNode
      BY <2>0, <3>1 DEF LeafNode
    <3>0. /\ leaf' = Allocate(leaf, LeafOf(k), [parent |-> Dummy, value |-> v])
          /\ root' = LeafOf(k) /\ dummyRoot' = LeafOf(k)
          /\ count' = count + 1
          /\ call' = Return("insert", k, {k}, TRUE)
          /\ inner' = inner
      BY <1>1, <2>1 DEF CallOnEmpty
    <3>3. IsHeap(leaf', LeafAddr, LeafNode)
      BY <3>0, <3>1, <3>2, AllocateHeap DEF TypeOK
    <3>4. call' \in Call
      BY <3>0, ReturnType, KeyArgType
    <3>5. IsHeap(inner', InnerAddr, InnerNode)
      BY <3>0 DEF TypeOK
    <3>6. root' \in Ptr /\ dummyRoot' \in Ptr /\ count' \in Int
      BY <3>0, <3>1 DEF TypeOK
    <3> QED
      BY <3>3, <3>4, <3>5, <3>6 DEF TypeOK
  <2>2. CASE o = "emplace"
    <3>1. call' \in LinkCall
      BY <1>1, <2>0, <2>2, PointerKinds DEF CallOnEmpty, LinkCall
    <3> QED
      BY <1>1, <2>2, <3>1, CallParts, OnlyCall DEF CallOnEmpty
  <2>3. CASE o \in {"erase", "find", "lower", "upper"}
    <3>1. call' \in Call
      BY <1>1, <2>3, ReturnType, KeyArgType DEF CallOnEmpty
    <3> QED
      BY <1>1, <2>3, <3>1, OnlyCall DEF CallOnEmpty
  <2> QED
    BY <2>1, <2>2, <2>3 DEF WalkOps
<1>2. ASSUME NEW o \in WalkOps, NEW k \in Keys, NEW v \in Given[k], CallOnTree(o, k, v)
      PROVE  TypeOK'
  <2>1. 0 \in 0..KeyLen /\ v \in Values
    BY KeyLenAssumption, GivenAssumption
  <2>2. call' \in WalkCall
    BY <1>2, <2>1, PointerKinds DEF CallOnTree, WalkCall, TypeOK
  <2> QED
    BY <1>2, <2>2, CallParts, OnlyCall DEF CallOnTree
<1>3. ASSUME NEW o \in {"next", "prev", "erase_at"}, NEW k \in Keys, MoveIterator(o, k)
      PROVE  TypeOK'
  <2>1. call' \in ClimbCall
    BY <1>3, ParentType DEF MoveIterator, ClimbCall, KeyArg
  <2> QED
    BY <1>3, <2>1, CallParts, OnlyCall DEF MoveIterator
<1>4. ASSUME MoveEnd  PROVE TypeOK'
  <2>1. call' \in ClimbCall
    BY <1>4, PointerKinds DEF MoveEnd, ClimbCall, KeyArg
  <2> QED
    BY <1>4, <2>1, CallParts, OnlyCall DEF MoveEnd
<1>5. ASSUME Begin  PROVE TypeOK'
  <2>1. [pc |-> "down", op |-> "begin", key |-> NoPath, cur |-> root] \in DownCall
    BY DEF DownCall, DownOps, KeyArg, TypeOK
  <2>2. call' \in Call
    BY <1>5, <2>1, CallParts, ReturnType, KeyArgType DEF Begin
  <2> QED
    BY <1>5, <2>2, OnlyCall DEF Begin
<1>6. ASSUME CallClear  PROVE TypeOK'
  <2>1. 0 \in 0..Cap256
    BY SizesAssumption DEF Cap256
  <2>2. [node |-> root, from |-> 0] \in Frame
    BY <2>1 DEF Frame, TypeOK
  <2>3. <<>> \in Seq(Frame) /\ <<[node |-> root, from |-> 0]>> \in Seq(Frame)
    BY <2>2
  <2>4. call' \in ClearCall
    BY <1>6, <2>3 DEF CallClear, ClearCall
  <2> QED
    BY <1>6, <2>4, CallParts, OnlyCall DEF CallClear
<1> QED
  BY <1>1, <1>2, <1>3, <1>4, <1>5, <1>6 DEF Client

\* The walk down, and the calls that only look.
WalkStep == Descend \/ FindEnds \/ BoundHits \/ BoundMisses \/ InsertDuplicate \/ EraseMisses

LEMMA WalkType == ASSUME TypeOK, WalkStep  PROVE TypeOK'
<1> USE OpTypes, PositionType
<1>1. call.pc = "walk" /\ call \in WalkCall
  BY CallShape DEF WalkStep, Descend, FindEnds, BoundHits, BoundMisses, InsertDuplicate,
                   EraseMisses, AtLeaf, AtGap, Walking, TypeOK
<1>2. call.op \in WalkOps /\ call.key \in Keys /\ call.depth \in 0..KeyLen
      /\ call.prev \in Ptr /\ call.cur \in Ptr
  BY <1>1 DEF WalkCall
<1>3. ASSUME Descend  PROVE TypeOK'
  <2>1. call.depth + 1 \in 0..KeyLen
    BY <1>2, <1>3, KeyLenAssumption DEF Descend, Chunks
  <2>2. inner[call.cur].child[call.key[call.depth]] \in Ptr
    BY <1>2, <1>3, KeyChunk, ParentType, ChildTypes DEF Descend
  <2>3. call' \in WalkCall
    BY <1>1, <1>2, <1>3, <2>1, <2>2 DEF Descend, WalkCall
  <2> QED
    BY <1>3, <2>3, CallParts, OnlyCall DEF Descend
<1>4. ASSUME FindEnds \/ BoundHits \/ InsertDuplicate \/ EraseMisses  PROVE TypeOK'
  <2>1. call.cur \in DOMAIN leaf => call.cur.path \in Keys
    BY ParentType, LeafPath
  <2>2. call' \in Call
    BY <1>2, <1>4, <2>1, ReturnType, KeyArgType
       DEF FindEnds, BoundHits, InsertDuplicate, EraseMisses, AtLeaf
  <2>3. UNCHANGED treeVars
    BY <1>4 DEF FindEnds, BoundHits, InsertDuplicate, EraseMisses
  <2> QED
    BY <2>2, <2>3, OnlyCall
<1>5. ASSUME BoundMisses  PROVE TypeOK'
  <2>1. call.op \in ClimbOps
    BY <1>5 DEF BoundMisses, AtGap, AtLeaf, Walking
  <2>2. call' \in ClimbCall
    BY <1>2, <1>5, <2>1 DEF BoundMisses, ClimbCall, KeyArg
  <2> QED
    BY <1>5, <2>2, CallParts, OnlyCall DEF BoundMisses
<1> QED
  BY <1>3, <1>4, <1>5 DEF WalkStep
\* Inserting: split, tie, grow and the new leaf itself.
LEMMA InsertLeafType ==
    ASSUME TypeOK, NEW n, NEW b, NEW k \in Keys, NEW v \in Values, InsertLeaf(n, b, k, v)
    PROVE  /\ IsHeap(inner', InnerAddr, InnerNode)
           /\ IsHeap(leaf', LeafAddr, LeafNode)
           /\ root' \in Ptr /\ dummyRoot' \in Ptr /\ count' \in Int
<1>1. LeafOf(k) \in LeafAddr /\ LeafOf(k) \in Ptr
  BY LeafOfType, PointerKinds
<1>2. n \in DOMAIN inner /\ n \in Ptr
  BY ParentType, PointerKinds DEF InsertLeaf
<1>3. [parent |-> n, value |-> v] \in LeafNode
  BY <1>2 DEF LeafNode
<1>4. IsHeap(leaf', LeafAddr, LeafNode)
  <2>1. leaf' = Allocate(leaf, LeafOf(k), [parent |-> n, value |-> v])
    BY DEF InsertLeaf
  <2> QED
    BY <1>1, <1>3, <2>1, AllocateHeap DEF TypeOK
<1>5. InsertChild(inner[n], b, LeafOf(k)) \in InnerNode
  BY <1>1, <1>2, ParentType, NodeChanges
<1>6. IsHeap(inner', InnerAddr, InnerNode)
  <2>1. inner' = [inner EXCEPT ![n] = InsertChild(inner[n], b, LeafOf(k))]
    BY DEF InsertLeaf
  <2> QED
    BY <1>5, <2>1, WriteHeap DEF TypeOK
<1>7. count' \in Int
  BY DEF InsertLeaf, TypeOK
<1> QED
  BY <1>4, <1>6, <1>7 DEF InsertLeaf, TypeOK

LEMMA SplitLeafType == ASSUME TypeOK, SplitLeaf  PROVE TypeOK'
<1> DEFINE old    == call.cur
           d      == call.depth
           node   == NodeAt("node_4", old.path, d)
           parent == leaf[old].parent
           made   == OneWay(parent, d, old.path[d], old)
<1>1. call \in WalkCall /\ old \in DOMAIN leaf /\ d \in Chunks
  BY CallShape DEF SplitLeaf, AtLeaf, Walking, TypeOK
<1>2. call.op \in WalkOps /\ call.key \in Keys /\ call.value \in Values
  BY <1>1 DEF WalkCall
<1>3. old \in LeafAddr /\ old \in Ptr /\ old.path \in Keys /\ parent \in Ptr
  BY <1>1, ParentType, LeafPath, PointerKinds
<1>4. node \in InnerAddr /\ node \in Ptr
  BY <1>1, <1>3, NodeAtType, PointerKinds DEF InnerTypes
<1>5. made \in InnerNode
  BY <1>1, <1>3, OneWayType
<1>6. IsHeap(Allocate(inner, node, made), InnerAddr, InnerNode)
  BY <1>4, <1>5, AllocateHeap DEF TypeOK
<1>7. /\ Writable(inner, parent)
      /\ PointTo(Allocate(inner, node, made), parent, old.path, node)
      /\ leaf' = [leaf EXCEPT ![old].parent = node]
      /\ call' = [pc |-> "tie", op |-> call.op, key |-> call.key,
                  value |-> call.value, node |-> node, old |-> old, depth |-> d]
      /\ UNCHANGED count
  BY DEF SplitLeaf
<1>8. Writable(Allocate(inner, node, made), parent)
  BY <1>7 DEF Writable, Allocate
<1>9. call' \in TieCall
  BY <1>1, <1>2, <1>3, <1>4, <1>7 DEF TieCall
<1>10. IsHeap(leaf', LeafAddr, LeafNode)
  <2>1. [leaf[old] EXCEPT !.parent = node] \in LeafNode
    BY <1>1, <1>4, ParentType DEF LeafNode
  <2> QED
    BY <1>7, <2>1, WriteHeap DEF TypeOK
<1> HIDE DEF old, d, node, parent, made
<1>11. IsHeap(inner', InnerAddr, InnerNode) /\ root' \in Ptr /\ dummyRoot' \in Ptr
  BY <1>4, <1>6, <1>7, <1>8, PointToType DEF TypeOK
<1> QED
  BY <1>7, <1>9, <1>10, <1>11, CallParts DEF TypeOK

LEMMA ExtendTieType == ASSUME TypeOK, ExtendTie  PROVE TypeOK'
<1> DEFINE old   == call.old
           d     == call.depth + 1
           child == NodeAt("node_4", old.path, d)
           made  == OneWay(leaf[old].parent, d, old.path[d], old)
           grown == Allocate(inner, child, made)
<1>1. call \in TieCall /\ old \in DOMAIN leaf /\ d \in Chunks /\ call.node \in DOMAIN inner
  BY CallShape DEF ExtendTie, TypeOK
<1>2. old \in LeafAddr /\ old \in Ptr /\ old.path \in Keys /\ leaf[old].parent \in Ptr
  BY <1>1, ParentType, LeafPath, PointerKinds
<1>3. child \in InnerAddr /\ child \in Ptr
  BY <1>1, <1>2, NodeAtType, PointerKinds DEF InnerTypes
<1>4. made \in InnerNode
  BY <1>1, <1>2, OneWayType
<1>5. IsHeap(grown, InnerAddr, InnerNode) /\ call.node \in DOMAIN grown
  <2>1. IsHeap(inner, InnerAddr, InnerNode)
    BY DEF TypeOK
  <2>2. IsHeap(grown, InnerAddr, InnerNode)
    BY <1>3, <1>4, <2>1, AllocateHeap
  <2>3. DOMAIN grown = DOMAIN inner \cup {child}
    BY DEF Allocate
  <2> QED
    BY <1>1, <2>2, <2>3
<1>6. UpdateChild(grown[call.node], call.key[call.depth], child) \in InnerNode
  BY <1>3, <1>5, NodeChanges DEF IsHeap
<1>7. /\ inner' = [grown EXCEPT ![call.node] =
                       UpdateChild(grown[call.node], call.key[call.depth], child)]
      /\ leaf' = [leaf EXCEPT ![old].parent = child]
      /\ call' = [call EXCEPT !.node = child, !.depth = d]
      /\ UNCHANGED <<root, dummyRoot, count>>
  BY DEF ExtendTie
<1>8. IsHeap(inner', InnerAddr, InnerNode)
  BY <1>5, <1>6, <1>7, WriteHeap
<1>9. IsHeap(leaf', LeafAddr, LeafNode)
  <2>1. [leaf[old] EXCEPT !.parent = child] \in LeafNode
    BY <1>1, <1>3, ParentType DEF LeafNode
  <2> QED
    BY <1>7, <2>1, WriteHeap DEF TypeOK
<1>10. call' \in TieCall
  BY <1>1, <1>3, <1>7 DEF TieCall
<1> QED
  BY <1>7, <1>8, <1>9, <1>10, CallParts DEF TypeOK
LEMMA GrowNodeType == ASSUME TypeOK, GrowNode  PROVE TypeOK'
<1> DEFINE old   == call.prev
           new   == [old EXCEPT !.type = Grown(old.type)]
           kids  == Children(inner[old])
           moved == Adopt(Free(Allocate(inner, new, inner[old]), old), kids, new)
<1>1. call \in WalkCall /\ old \in DOMAIN inner
  BY CallShape DEF GrowNode, AtGap, Walking, TypeOK
<1>2. old \in InnerAddr /\ inner[old] \in InnerNode
  BY <1>1, ParentType
<1>3. new \in InnerAddr /\ new \in Ptr
  BY <1>2, LayoutTypes, RetypedNode, PointerKinds
<1>4. IsHeap(moved, InnerAddr, InnerNode)
  <2>1. IsHeap(Allocate(inner, new, inner[old]), InnerAddr, InnerNode)
    BY <1>2, <1>3, AllocateHeap DEF TypeOK
  <2>2. IsHeap(Free(Allocate(inner, new, inner[old]), old), InnerAddr, InnerNode)
    BY <2>1, FreeHeap
  <2> QED
    BY <1>3, <2>2, AdoptInner
<1>5. IsHeap(Adopt(leaf, kids, new), LeafAddr, LeafNode)
  BY <1>3, AdoptLeaf DEF TypeOK
<1>6. /\ Writable(moved, inner[old].parent)
      /\ PointTo(moved, inner[old].parent, call.key, new)
      /\ leaf' = Adopt(leaf, kids, new)
      /\ call' = [call EXCEPT !.prev = new]
      /\ count' = count
  BY DEF GrowNode
<1>7. call' \in WalkCall
  BY <1>1, <1>3, <1>6 DEF WalkCall
<1> HIDE DEF old, new, kids, moved
<1>8. IsHeap(inner', InnerAddr, InnerNode) /\ root' \in Ptr /\ dummyRoot' \in Ptr
  BY <1>3, <1>4, <1>6, PointToType DEF TypeOK
<1> QED
  BY <1>5, <1>6, <1>7, <1>8, CallParts DEF TypeOK

LEMMA BreakTieType == ASSUME TypeOK, BreakTie  PROVE TypeOK'
<1>1. call \in TieCall
  BY CallShape DEF BreakTie, TypeOK
<1>2. call.key \in Keys /\ call.value \in Values /\ call.node \in Ptr
  BY <1>1 DEF TieCall
<1>3. CASE call.op = "insert"
  <2>1. InsertLeaf(call.node, call.key[call.depth], call.key, call.value)
    BY <1>3 DEF BreakTie
  <2>2. call' = Return("insert", call.key, {call.key}, TRUE)
    BY <1>3 DEF BreakTie
  <2>3. call' \in Call
    BY <1>2, <2>2, ReturnType, KeyArgType, PositionType, OpTypes
  <2> QED
    BY <1>2, <2>1, <2>3, InsertLeafType DEF TypeOK
<1>4. CASE call.op # "insert"
  <2>1. /\ call' = [pc |-> "link", key |-> call.key, value |-> call.value,
                    node |-> call.node]
        /\ UNCHANGED treeVars
    BY <1>4 DEF BreakTie
  <2>2. call' \in LinkCall
    BY <1>2, <2>1 DEF LinkCall
  <2> QED
    BY <2>1, <2>2, CallParts, OnlyCall
<1> QED
  BY <1>3, <1>4

LEMMA FillGapType == ASSUME TypeOK, FillGap  PROVE TypeOK'
<1>1. call \in WalkCall
  BY CallShape DEF FillGap, AtGap, Walking, TypeOK
<1>2. call.key \in Keys /\ call.value \in Values /\ call.prev \in Ptr
  BY <1>1 DEF WalkCall
<1>3. CASE call.op = "insert"
  <2>1. InsertLeaf(call.prev, call.key[call.depth - 1], call.key, call.value)
    BY <1>3 DEF FillGap
  <2>2. call' = Return("insert", call.key, {call.key}, TRUE)
    BY <1>3 DEF FillGap
  <2>3. call' \in Call
    BY <1>2, <2>2, ReturnType, KeyArgType, PositionType, OpTypes
  <2> QED
    BY <1>2, <2>1, <2>3, InsertLeafType DEF TypeOK
<1>4. CASE call.op # "insert"
  <2>1. /\ call' = [pc |-> "link", key |-> call.key, value |-> call.value,
                    node |-> call.prev]
        /\ UNCHANGED treeVars
    BY <1>4 DEF FillGap
  <2>2. call' \in LinkCall
    BY <1>2, <2>1 DEF LinkCall
  <2> QED
    BY <2>1, <2>2, CallParts, OnlyCall
<1> QED
  BY <1>3, <1>4

LEMMA LinkLeafType == ASSUME TypeOK, LinkLeaf  PROVE TypeOK'
<1>1. call \in LinkCall
  BY CallShape DEF LinkLeaf, TypeOK
<1>2. call.key \in Keys /\ call.value \in Values /\ call.node \in Ptr
  BY <1>1 DEF LinkCall
<1>3. call' \in Call
  BY <1>2, ReturnType, KeyArgType, PositionType, OpTypes DEF LinkLeaf
<1>4. CASE call.node = Dummy /\ call.node \notin DOMAIN inner
  <2>1. /\ leaf' = Allocate(leaf, LeafOf(call.key), [parent |-> Dummy, value |-> call.value])
        /\ root' = LeafOf(call.key) /\ dummyRoot' = LeafOf(call.key)
        /\ count' = count + 1
        /\ inner' = inner
    BY <1>4 DEF LinkLeaf
  <2>2. LeafOf(call.key) \in LeafAddr /\ LeafOf(call.key) \in Ptr /\ Dummy \in Ptr
    BY <1>2, LeafOfType, PointerKinds
  <2>3. [parent |-> Dummy, value |-> call.value] \in LeafNode
    BY <1>2, <2>2 DEF LeafNode
  <2>4. IsHeap(leaf', LeafAddr, LeafNode)
    BY <2>1, <2>2, <2>3, AllocateHeap DEF TypeOK
  <2>5. IsHeap(inner', InnerAddr, InnerNode)
    BY <2>1 DEF TypeOK
  <2>6. root' \in Ptr /\ dummyRoot' \in Ptr /\ count' \in Int
    BY <2>1, <2>2 DEF TypeOK
  <2> QED
    BY <1>3, <2>4, <2>5, <2>6 DEF TypeOK
<1>5. CASE call.node \in DOMAIN inner
  <2>1. call.node # Dummy
    BY <1>5, ParentType, PointerKinds
  <2>2. InsertLeaf(call.node, call.key[inner[call.node].depth], call.key, call.value)
    BY <2>1 DEF LinkLeaf
  <2> QED
    BY <1>2, <1>3, <2>2, InsertLeafType DEF TypeOK
<1> QED
  BY <1>4, <1>5 DEF LinkLeaf

-----------------------------------------------------------------------------
(* Erasing.                                                                *)

LEMMA DropRootType ==
    ASSUME TypeOK, DropRoot, call' \in Call
    PROVE  TypeOK'
<1>1. /\ leaf' = Free(leaf, root) /\ root' = Null /\ count' = count - 1
      /\ inner' = inner /\ dummyRoot' = dummyRoot
  BY DEF DropRoot
<1>2. IsHeap(leaf', LeafAddr, LeafNode)
  BY <1>1, FreeHeap DEF TypeOK
<1>3. IsHeap(inner', InnerAddr, InnerNode)
  BY <1>1 DEF TypeOK
<1>4. root' \in Ptr /\ dummyRoot' \in Ptr /\ count' \in Int
  BY <1>1, PointerKinds DEF TypeOK
<1> QED
  BY <1>2, <1>3, <1>4 DEF TypeOK

LEMMA DropLeafType ==
    ASSUME TypeOK, NEW o \in EraseOps, NEW n, NEW b, NEW k \in KeyArg, NEW at \in Position,
           DropLeaf(o, n, b, k, at)
    PROVE  TypeOK'
<1>1. n \in DOMAIN inner /\ n \in Ptr /\ inner[n] \in InnerNode
  BY ParentType, PointerKinds DEF DropLeaf
<1>2. /\ leaf' = Free(leaf, inner[n].child[b])
      /\ inner' = [inner EXCEPT ![n] = EraseChild(inner[n], b)]
      /\ count' = count - 1
      /\ call' = [pc |-> "shrink", op |-> o, key |-> k, at |-> at, node |-> n, first |-> n]
      /\ root' = root /\ dummyRoot' = dummyRoot
  BY DEF DropLeaf
<1>3. IsHeap(leaf', LeafAddr, LeafNode)
  BY <1>2, FreeHeap DEF TypeOK
<1>4. IsHeap(inner', InnerAddr, InnerNode)
  <2>1. EraseChild(inner[n], b) \in InnerNode
    BY <1>1, NodeChanges, PointerKinds
  <2> QED
    BY <1>2, <2>1, WriteHeap DEF TypeOK
<1>5. call' \in ShrinkCall
  BY <1>1, <1>2 DEF ShrinkCall
<1>6. root' \in Ptr /\ dummyRoot' \in Ptr /\ count' \in Int
  BY <1>2 DEF TypeOK
<1> QED
  BY <1>3, <1>4, <1>5, <1>6, CallParts DEF TypeOK

LEMMA EraseType ==
    ASSUME TypeOK, EraseRoot \/ EraseLeaf \/ UnlinkRoot \/ UnlinkLeaf
    PROVE  TypeOK'
<1> USE OpTypes, PositionType
<1>1. CASE EraseRoot
  <2>1. call.key \in KeyArg
    BY <1>1, CallShape DEF EraseRoot, AtLeaf, Walking, TypeOK, WalkCall, KeyArg
  <2>2. call' \in Call
    BY <1>1, <2>1, ReturnType DEF EraseRoot
  <2> QED
    BY <1>1, <2>2, DropRootType DEF EraseRoot
<1>2. CASE EraseLeaf
  <2>1. call.key \in KeyArg
    BY <1>2, CallShape DEF EraseLeaf, AtLeaf, Walking, TypeOK, WalkCall, KeyArg
  <2> QED
    BY <1>2, <2>1, DropLeafType DEF EraseLeaf
<1>3. CASE UnlinkRoot
  <2>1. call \in UnlinkCall
    BY <1>3, CallShape DEF UnlinkRoot, TypeOK
  <2>2. call.at \in Position /\ call.key \in KeyArg
    BY <2>1 DEF UnlinkCall
  <2>3. call' \in Call
    BY <1>3, <2>2, ReturnType DEF UnlinkRoot
  <2> QED
    BY <1>3, <2>3, DropRootType DEF UnlinkRoot
<1>4. CASE UnlinkLeaf
  <2>1. call.key \in KeyArg /\ call.at \in Position
    BY <1>4, CallShape DEF UnlinkLeaf, TypeOK, UnlinkCall
  <2> QED
    BY <1>4, <2>1, DropLeafType DEF UnlinkLeaf
<1> QED
  BY <1>1, <1>2, <1>3, <1>4
LEMMA ShrinkToNodeType == ASSUME TypeOK, ShrinkToNode  PROVE TypeOK'
<1> DEFINE old  == call.node
           new  == [old EXCEPT !.type = Shrunk(old.type)]
           kids == Children(inner[old])
           made == [inner[old] EXCEPT !.count = MaxSize(Shrunk(old.type))]
<1>1. call.pc = "shrink" /\ call \in ShrinkCall /\ old \in DOMAIN inner
  BY CallShape DEF ShrinkToNode, Underfull, TypeOK
<1>2. old \in InnerAddr /\ inner[old] \in InnerNode
  BY <1>1, ParentType
<1>3. new \in InnerAddr /\ new \in Ptr
  BY <1>2, LayoutTypes, RetypedNode, PointerKinds
<1>4. made \in InnerNode
  BY <1>2, SizeTypes DEF InnerNode
<1>5. IsHeap(Adopt(Free(Allocate(inner, new, made), old), kids, new), InnerAddr, InnerNode)
  <2>1. IsHeap(Allocate(inner, new, made), InnerAddr, InnerNode)
    BY <1>3, <1>4, AllocateHeap DEF TypeOK
  <2>2. IsHeap(Free(Allocate(inner, new, made), old), InnerAddr, InnerNode)
    BY <2>1, FreeHeap
  <2> QED
    BY <1>3, <2>2, AdoptInner
<1>6. IsHeap(Adopt(leaf, kids, new), LeafAddr, LeafNode)
  BY <1>3, AdoptLeaf DEF TypeOK
<1>7. /\ inner' = Adopt(Free(Allocate(inner, new, made), old), kids, new)
      /\ leaf' = Adopt(leaf, kids, new)
      /\ call' = [call EXCEPT !.node = new]
      /\ UNCHANGED <<root, dummyRoot, count>>
  BY DEF ShrinkToNode
<1>8. call' \in ShrinkCall
  BY <1>1, <1>3, <1>7 DEF ShrinkCall
<1> QED
  BY <1>5, <1>6, <1>7, <1>8, CallParts DEF TypeOK

LEMMA ShrinkToLeafType == ASSUME TypeOK, ShrinkToLeaf  PROVE TypeOK'
<1> DEFINE old == call.node
           kid == OnlyChild(inner[old])
<1>1. call.pc = "shrink" /\ call \in ShrinkCall /\ old \in DOMAIN inner /\ kid \in DOMAIN leaf
  BY CallShape DEF ShrinkToLeaf, Underfull, TypeOK
<1>2. /\ inner[old] \in InnerNode /\ inner[old].parent \in Ptr
      /\ inner[old].depth \in Chunks /\ kid \in Ptr
  BY <1>1, ParentType, PointerKinds DEF InnerNode
<1>3. /\ leaf' = [leaf EXCEPT ![kid].parent = inner[old].parent]
      /\ inner' = Free(inner, old)
      /\ call' = [pc |-> "compress", op |-> call.op, key |-> call.key,
                  at |-> call.at, node |-> kid, first |-> call.first,
                  depth |-> inner[old].depth, j |-> 1]
      /\ UNCHANGED <<root, dummyRoot, count>>
  BY DEF ShrinkToLeaf
<1>4. IsHeap(leaf', LeafAddr, LeafNode)
  <2>1. [leaf[kid] EXCEPT !.parent = inner[old].parent] \in LeafNode
    BY <1>1, <1>2, ParentType DEF LeafNode
  <2> QED
    BY <1>3, <2>1, WriteHeap DEF TypeOK
<1>5. IsHeap(inner', InnerAddr, InnerNode)
  BY <1>3, FreeHeap DEF TypeOK
<1>6. call' \in CompressCall
  BY <1>1, <1>2, <1>3 DEF CompressCall, ShrinkCall
<1> QED
  BY <1>3, <1>4, <1>5, <1>6, CallParts DEF TypeOK

LEMMA ShrinkStopsType == ASSUME TypeOK, KeepOneWay \/ ShrinkEnds  PROVE TypeOK'
<1>1. call.pc = "shrink" /\ call \in ShrinkCall /\ UNCHANGED treeVars
  BY CallShape DEF KeepOneWay, ShrinkEnds, Underfull, TypeOK
<1>2. /\ call.op \in EraseOps /\ call.key \in KeyArg /\ call.at \in Position
      /\ call.node \in Ptr /\ call.first \in Ptr
  BY <1>1 DEF ShrinkCall
<1>3. Return(call.op, call.key, call.at, TRUE) \in Call
  BY <1>2, ReturnType, KeyArgType, OpTypes
<1>4. [pc |-> "relink", op |-> call.op, key |-> call.key, at |-> call.at,
       node |-> call.node, first |-> call.first] \in ShrinkCall
  BY <1>2 DEF ShrinkCall
<1>5. call' \in Call
  BY <1>3, <1>4, CallParts DEF KeepOneWay, ShrinkEnds
<1> QED
  BY <1>1, <1>5, OnlyCall

CompressStep == CompressAtTop \/ CompressRoot \/ CompressInner \/ CompressEnds

LEMMA CompressType == ASSUME TypeOK, CompressStep  PROVE TypeOK'
<1>1. call.pc = "compress" /\ call \in CompressCall
  BY CallShape DEF CompressStep, CompressAtTop, CompressRoot, CompressInner, CompressEnds,
                   OneWayAbove, TypeOK
<1>2. /\ call.op \in EraseOps /\ call.key \in KeyArg /\ call.at \in Position
      /\ call.node \in Ptr /\ call.first \in Ptr /\ call.j \in Nat
  BY <1>1 DEF CompressCall
<1>3. EndCompress => call' \in Call
  <2>1. [pc |-> "relink", op |-> call.op, key |-> call.key, at |-> call.at,
         node |-> call.node, first |-> call.first] \in ShrinkCall
    BY <1>2 DEF ShrinkCall
  <2> QED
    BY <2>1, CallParts DEF EndCompress
<1>4. CASE CompressAtTop \/ CompressEnds
  <2>1. EndCompress /\ UNCHANGED treeVars
    BY <1>4 DEF CompressAtTop, CompressEnds
  <2> QED
    BY <1>3, <2>1, OnlyCall
<1>5. CASE CompressRoot
  <2> DEFINE parent == leaf[call.node].parent
  <2>1. /\ call.node \in DOMAIN leaf
        /\ leaf' = [leaf EXCEPT ![call.node].parent = Dummy]
        /\ inner' = Free(inner, parent)
        /\ EndCompress
        /\ UNCHANGED <<root, dummyRoot, count>>
    BY <1>5 DEF CompressRoot, OneWayAbove
  <2>2. [leaf[call.node] EXCEPT !.parent = Dummy] \in LeafNode
    BY <2>1, ParentType, PointerKinds DEF LeafNode
  <2>3. IsHeap(leaf', LeafAddr, LeafNode)
    BY <2>1, <2>2, WriteHeap DEF TypeOK
  <2>4. IsHeap(inner', InnerAddr, InnerNode)
    BY <2>1, FreeHeap DEF TypeOK
  <2> QED
    BY <1>3, <2>1, <2>3, <2>4 DEF TypeOK
<1>6. CASE CompressInner
  <2> DEFINE parent == leaf[call.node].parent
             grand  == inner[parent].parent
             d      == call.depth - call.j - 1
             rest   == Free(inner, parent)
  <2>1. /\ call.node \in DOMAIN leaf
        /\ grand \in DOMAIN inner \ {parent}
        /\ inner' = [rest EXCEPT ![grand] = UpdateChild(rest[grand], call.key[d], call.node)]
        /\ leaf' = [leaf EXCEPT ![call.node].parent = grand]
        /\ call' = [call EXCEPT !.j = call.j + 1]
        /\ UNCHANGED <<root, dummyRoot, count>>
    BY <1>6 DEF CompressInner, OneWayAbove
  <2>2. IsHeap(rest, InnerAddr, InnerNode)
    BY FreeHeap DEF TypeOK
  <2>3. rest[grand] \in InnerNode
    BY <2>1, <2>2 DEF IsHeap, Free
  <2>4. IsHeap(inner', InnerAddr, InnerNode)
    BY <1>2, <2>1, <2>2, <2>3, NodeChanges, WriteHeap
  <2>5. [leaf[call.node] EXCEPT !.parent = grand] \in LeafNode
    BY <2>1, ParentType, PointerKinds DEF LeafNode
  <2>6. IsHeap(leaf', LeafAddr, LeafNode)
    BY <2>1, <2>5, WriteHeap DEF TypeOK
  <2>7. call' \in CompressCall
    BY <1>1, <1>2, <2>1 DEF CompressCall
  <2> QED
    BY <2>1, <2>4, <2>6, <2>7, CallParts DEF TypeOK
<1> QED
  BY <1>4, <1>5, <1>6 DEF CompressStep

LEMMA RelinkType == ASSUME TypeOK, Relink  PROVE TypeOK'
<1>1. call.pc = "relink" /\ call \in ShrinkCall
  BY CallShape DEF Relink, TypeOK
<1>2. /\ call.op \in EraseOps /\ call.key \in KeyArg /\ call.at \in Position
      /\ call.node \in Ptr
  BY <1>1 DEF ShrinkCall
<1>3. call' \in Call
  BY <1>2, ReturnType, OpTypes DEF Relink
<1>4. IsHeap(inner', InnerAddr, InnerNode) /\ root' \in Ptr /\ dummyRoot' \in Ptr
  BY <1>2, PointToType DEF Relink, TypeOK
<1>5. leaf' = leaf /\ count' = count
  BY DEF Relink
<1> QED
  BY <1>3, <1>4, <1>5 DEF TypeOK
-----------------------------------------------------------------------------
(* Moving iterators and clearing.                                          *)

LEMMA ArriveType ==
    ASSUME NEW o \in DownOps, NEW k \in KeyArg, NEW at \in Position, Arrive(o, k, at)
    PROVE  call' \in Call
<1>1. [pc |-> "unlink", key |-> k, at |-> at] \in UnlinkCall
  BY DEF UnlinkCall
<1>2. Return(o, k, at, FALSE) \in Call
  BY ReturnType, KeyArgType, OpTypes
<1> QED
  BY <1>1, <1>2, CallParts DEF Arrive

LEMMA ClimbType == ASSUME TypeOK, Climb \/ ClimbPastTop  PROVE TypeOK'
<1>1. call \in ClimbCall /\ UNCHANGED treeVars
  BY CallShape DEF Climb, ClimbPastTop, TypeOK
<1>2. call.op \in ClimbOps /\ call.op \in DownOps /\ call.key \in KeyArg
  BY <1>1, OpTypes DEF ClimbCall
<1>3. CASE Climb
  <2> DEFINE n    == inner[call.cur]
             more == Beyond(call.op, call.key[n.depth], n)
             stop == n.child[IF Backward(call.op) THEN Max(more) ELSE Min(more)]
  <2>1. n \in InnerNode /\ n.parent \in Ptr
    BY <1>3, ParentType DEF Climb
  <2>2. CASE more = {}
    <3>1. call' = [call EXCEPT !.cur = n.parent]
      BY <1>3, <2>2 DEF Climb
    <3>2. call' \in ClimbCall
      BY <1>1, <2>1, <3>1 DEF ClimbCall
    <3> QED
      BY <1>1, <3>2, CallParts, OnlyCall
  <2>3. CASE more # {}
    <3>1. more \in SUBSET Occupied(n)
      BY DEF Beyond
    <3>2. stop \in Ptr
      BY <2>1, <2>3, <3>1, ExtremeChildren
    <3>3. call' = [pc |-> "down", op |-> call.op, key |-> call.key, cur |-> stop]
      BY <1>3, <2>3 DEF Climb
    <3>4. call' \in DownCall
      BY <1>2, <3>2, <3>3 DEF DownCall
    <3> QED
      BY <1>1, <3>4, CallParts, OnlyCall
  <2> QED
    BY <2>2, <2>3
<1>4. CASE ClimbPastTop
  <2>1. [pc |-> "down", op |-> call.op, key |-> call.key, cur |-> dummyRoot] \in DownCall
    BY <1>2 DEF DownCall, TypeOK
  <2>2. call' \in Call
    BY <1>2, <1>4, <2>1, CallParts, ArriveType, PositionType DEF ClimbPastTop
  <2> QED
    BY <1>1, <2>2, OnlyCall
<1> QED
  BY <1>3, <1>4

LEMMA DownType == ASSUME TypeOK, GoDown \/ ArriveAtLeaf  PROVE TypeOK'
<1>1. call \in DownCall /\ UNCHANGED treeVars
  BY CallShape DEF GoDown, ArriveAtLeaf, TypeOK
<1>2. call.op \in DownOps /\ call.key \in KeyArg
  BY <1>1 DEF DownCall
<1>3. CASE GoDown
  <2>1. inner[call.cur] \in InnerNode /\ Occupied(inner[call.cur]) # {}
    BY <1>3, ParentType DEF GoDown
  <2>2. Extreme(call.op, inner[call.cur]) \in Ptr
    BY <2>1, ExtremeChildren DEF Extreme
  <2>3. call' \in DownCall
    BY <1>1, <1>3, <2>2 DEF GoDown, DownCall
  <2> QED
    BY <1>1, <2>3, CallParts, OnlyCall
<1>4. CASE ArriveAtLeaf
  <2>1. {call.cur.path} \in Position
    BY <1>4, ParentType, LeafPath, PositionType DEF ArriveAtLeaf
  <2>2. call' \in Call
    BY <1>2, <1>4, <2>1, ArriveType DEF ArriveAtLeaf
  <2> QED
    BY <1>1, <2>2, OnlyCall
<1> QED
  BY <1>3, <1>4

LEMMA ClearType == ASSUME TypeOK, ClearChild \/ ClearNode \/ ClearEnds  PROVE TypeOK'
<1>1. call \in ClearCall
  BY CallShape DEF ClearChild, ClearNode, ClearEnds, Clearing, TypeOK
<1>2. call.stack \in Seq(Frame)
  BY <1>1 DEF ClearCall
<1>3. call.stack # <<>> => Top \in Frame /\ Tail(call.stack) \in Seq(Frame)
  BY <1>2, HeadTailProperties DEF Top
<1>4. CASE ClearChild
  <2> DEFINE n    == inner[Top.node]
             b    == Min(Left(Top))
             deep == [node |-> n.child[b], from |-> 0]
             next == [Top EXCEPT !.from = b + 1]
  <2>1. n \in InnerNode /\ Left(Top) # {} /\ Left(Top) \in SUBSET Occupied(n)
    BY <1>4, ParentType DEF ClearChild, Left
  <2>2. b \in Byte /\ n.child[b] \in Ptr
    BY <2>1, ExtremeChildren, ChildTypes
  <2>3. b + 1 \in 0..Cap256 /\ 0 \in 0..Cap256
    BY <2>2, SizesAssumption DEF Byte, Cap256
  <2>4. Top \in Frame /\ Tail(call.stack) \in Seq(Frame)
    BY <1>3, <1>4 DEF ClearChild, Clearing
  <2>5. deep \in Frame /\ next \in Frame
    BY <2>2, <2>3, <2>4 DEF Frame
  <2>6. <<deep, next>> \o Tail(call.stack) \in Seq(Frame)
    <3> HIDE DEF deep, next
    <3>1. <<deep, next>> \in Seq(Frame)
      BY <2>5
    <3> QED
      BY <2>4, <3>1, ConcatProperties
  <2>7. call' = [call EXCEPT !.stack = <<deep, next>> \o Tail(call.stack)]
        /\ UNCHANGED treeVars
    BY <1>4 DEF ClearChild
  <2>8. call' \in ClearCall
    BY <1>1, <2>6, <2>7 DEF ClearCall
  <2> QED
    BY <2>7, <2>8, CallParts, OnlyCall
<1>5. CASE ClearNode
  <2>1. /\ inner' = Free(inner, Top.node) /\ leaf' = Free(leaf, Top.node)
        /\ call' = [call EXCEPT !.stack = Tail(call.stack)]
        /\ UNCHANGED <<root, dummyRoot, count>>
    BY <1>5 DEF ClearNode
  <2>2. IsHeap(inner', InnerAddr, InnerNode) /\ IsHeap(leaf', LeafAddr, LeafNode)
    BY <2>1, FreeHeap DEF TypeOK
  <2>3. Tail(call.stack) \in Seq(Frame)
    BY <1>3, <1>5 DEF ClearNode, Clearing
  <2>4. call' \in ClearCall
    BY <1>1, <2>1, <2>3 DEF ClearCall
  <2> QED
    BY <2>1, <2>2, <2>4, CallParts DEF TypeOK
<1>6. CASE ClearEnds
  <2>1. /\ inner' = inner /\ leaf' = leaf /\ dummyRoot' = dummyRoot
        /\ root' = Null /\ count' = 0
    BY <1>6 DEF ClearEnds
  <2>2. call' \in Call
    BY <1>6, ReturnType, KeyArgType, OpTypes, PositionType DEF ClearEnds
  <2>3. IsHeap(inner', InnerAddr, InnerNode) /\ IsHeap(leaf', LeafAddr, LeafNode)
    BY <2>1 DEF TypeOK
  <2> QED
    BY <2>1, <2>2, <2>3, PointerKinds DEF TypeOK
<1> QED
  BY <1>4, <1>5, <1>6

LEMMA ResumeType == ASSUME TypeOK, Resume  PROVE TypeOK'
BY CallParts, OnlyCall DEF Resume

LEMMA NextType == ASSUME TypeOK, [Next]_vars  PROVE TypeOK'
<1>1. CASE Running
  <2> USE <1>1, WalkType, SplitLeafType, ExtendTieType, BreakTieType, GrowNodeType, FillGapType,
          LinkLeafType, EraseType, ShrinkToNodeType, ShrinkToLeafType, ShrinkStopsType,
          CompressType, RelinkType, ClimbType, DownType, ClearType, ResumeType
  <2> QED
    BY DEF Running, WalkStep, CompressStep
<1>2. CASE Client
  BY <1>2, ClientType
<1>3. CASE UNCHANGED vars
  <2>1. UNCHANGED treeVars /\ call' = call
    BY <1>3 DEF vars, treeVars
  <2>2. call' \in Call
    BY <2>1 DEF TypeOK
  <2> QED
    BY <2>1, <2>2, OnlyCall
<1> QED
  BY <1>1, <1>2, <1>3 DEF Next

LEMMA InitType == ASSUME Init  PROVE TypeOK
<1>1. IsHeap(inner, InnerAddr, InnerNode) /\ IsHeap(leaf, LeafAddr, LeafNode)
  BY DEF Init, IsHeap
<1> QED
  BY <1>1, CallParts, PointerKinds DEF Init, TypeOK

\* Every pointer, depth, slot and argument stays in its domain, in every step
\* of every call: heaps hold well-formed nodes, a depth is a chunk of the key,
\* an answer is one position.
THEOREM TypeCorrect == Spec => []TypeOK
<1>1. Init => TypeOK
  BY InitType
<1>2. TypeOK /\ [Next]_vars => TypeOK'
  BY NextType
<1> QED
  BY <1>1, <1>2, PTL DEF Spec

\* The dummy node follows the root: nothing else than replace_root and the
\* insertion of the first leaf writes the root while it is not null.
THEOREM DummyFollows == Spec => []DummyTracksRoot
<1>1. Init => DummyTracksRoot
  BY DEF Init, DummyTracksRoot
<1>2. DummyTracksRoot /\ [Next]_vars => DummyTracksRoot'
  <2> SUFFICES ASSUME DummyTracksRoot, [Next]_vars
               PROVE  root' # Null => dummyRoot' = root'
    BY DEF DummyTracksRoot
  <2>1. ASSUME UNCHANGED <<root, dummyRoot>>  PROVE root' # Null => dummyRoot' = root'
    BY <2>1 DEF DummyTracksRoot
  <2>2. ASSUME NEW h, NEW p, NEW k, NEW c, PointTo(h, p, k, c)
        PROVE  root' # Null => dummyRoot' = root'
    BY <2>2 DEF PointTo, DummyTracksRoot
  <2>3. ASSUME NEW n, NEW b, NEW k, NEW v, InsertLeaf(n, b, k, v)
        PROVE  root' # Null => dummyRoot' = root'
    BY <2>1, <2>3 DEF InsertLeaf
  <2>4. CASE Client
    BY <2>1, <2>4 DEF Client, CallOnEmpty, CallOnTree, MoveIterator, MoveEnd, Begin, CallClear,
                      treeVars
  <2>5. CASE Descend \/ FindEnds \/ BoundHits \/ BoundMisses \/ InsertDuplicate \/ EraseMisses
    BY <2>1, <2>5 DEF Descend, FindEnds, BoundHits, BoundMisses, InsertDuplicate, EraseMisses,
                      treeVars
  <2>6. CASE SplitLeaf \/ GrowNode \/ Relink
    BY <2>2, <2>6 DEF SplitLeaf, GrowNode, Relink
  <2>7. CASE ExtendTie \/ BreakTie \/ FillGap \/ LinkLeaf
    BY <2>1, <2>3, <2>7 DEF ExtendTie, BreakTie, FillGap, LinkLeaf, treeVars
  <2>8. CASE EraseRoot \/ UnlinkRoot \/ ClearEnds
    BY <2>8 DEF EraseRoot, UnlinkRoot, DropRoot, ClearEnds
  <2>9. CASE EraseLeaf \/ UnlinkLeaf
    BY <2>1, <2>9 DEF EraseLeaf, UnlinkLeaf, DropLeaf
  <2>10. CASE ShrinkToNode \/ ShrinkToLeaf \/ KeepOneWay \/ ShrinkEnds
    BY <2>1, <2>10 DEF ShrinkToNode, ShrinkToLeaf, KeepOneWay, ShrinkEnds, treeVars
  <2>11. CASE CompressAtTop \/ CompressRoot \/ CompressInner \/ CompressEnds
    BY <2>1, <2>11 DEF CompressAtTop, CompressRoot, CompressInner, CompressEnds, treeVars
  <2>12. CASE Climb \/ ClimbPastTop \/ GoDown \/ ArriveAtLeaf \/ ClearChild \/ ClearNode \/ Resume
    BY <2>1, <2>12 DEF Climb, ClimbPastTop, GoDown, ArriveAtLeaf, ClearChild, ClearNode, Resume,
                       treeVars
  <2>13. CASE UNCHANGED vars
    BY <2>1, <2>13 DEF vars
  <2> QED
    BY <2>4, <2>5, <2>6, <2>7, <2>8, <2>9, <2>10, <2>11, <2>12, <2>13 DEF Next, Running
<1> QED
  BY <1>1, <1>2, PTL DEF Spec

-----------------------------------------------------------------------------
(* The tree.                                                               *)

\* fix_after_erase is at work: what replaces a node may not hang in its place.
Fixing == call.pc \in {"shrink", "compress", "relink"}

\* What _M_root will be once replace_root has caught up.
RootView == IF Fixing /\ ParentOf(call.node) = Dummy THEN call.node ELSE root

\* The deleted node whose address is still in a slot, and what belongs there.
Gone   == IF Fixing /\ call.node # call.first THEN call.first ELSE Null
Instead == IF Fixing THEN call.node ELSE Null

\* The node whose number of children the running call is about to put right.
Unsized ==
    CASE call.pc = "walk" /\ call.op \in InsertOps /\ call.cur = Null -> {call.prev}
      [] call.pc \in {"tie", "link", "shrink"} -> {call.node}
      [] call.pc = "compress" -> {leaf[call.node].parent}
      [] OTHER -> {}

\* How far it may be off.
Spared(a) == IF call.pc \in {"tie", "compress"} THEN OneWayed(inner, a) ELSE Nearly(inner, a)

Sized == \A a \in DOMAIN inner : \/ Fits(inner, Gone, Instead, a)
                                 \/ a \in Unsized /\ Spared(a)

-----------------------------------------------------------------------------
(* What the local variables of a call know.                                *)

\* The walk has followed the chunks of its key to the slot that holds cur.
WalkFits ==
    call.pc = "walk" =>
        \/ /\ call.depth = 0 /\ call.cur = root /\ root # Null
           /\ call.prev \in {Null, Dummy}
        \/ /\ call.depth \in 1..KeyLen
           /\ call.prev \in DOMAIN inner
           /\ inner[call.prev].depth = call.depth - 1
           /\ Agree(call.prev.path, call.key, call.depth - 1)
           /\ call.cur = inner[call.prev].child[call.key[call.depth - 1]]

\* The node has the old leaf as its only child, and both keys lead to it.
TieFits ==
    call.pc = "tie" =>
        /\ call.node \in DOMAIN inner /\ inner[call.node].depth = call.depth
        /\ Agree(call.node.path, call.key, call.depth)
        /\ Agree(call.old.path, call.key, call.depth)
        /\ call.old \in DOMAIN leaf /\ leaf[call.old].parent = call.node
        /\ inner[call.node].child = [NoChildren EXCEPT ![call.old.path[call.depth]] = call.old]

\* The slot for the leaf that emplace made is empty.
LinkFits ==
    call.pc = "link" =>
        \/ call.node = Dummy /\ root = Null
        \/ /\ call.node \in DOMAIN inner
           /\ Agree(call.node.path, call.key, inner[call.node].depth)
           /\ inner[call.node].child[call.key[inner[call.node].depth]] = Null

\* The node lies on the path of the erased key; if it replaces another it fits.
ShrinkFits ==
    call.pc = "shrink" =>
        /\ call.key \in Keys
        /\ call.node \in DOMAIN inner
        /\ Agree(call.node.path, call.key, inner[call.node].depth)
        /\ call.node = call.first => RootView = root
        /\ call.node # call.first =>
               /\ call.first \notin Live /\ call.first # Null
               /\ inner[call.node].count >= MinSize(call.node.type)

\* depth - j is the depth of the leaf's parent, -1 that of the dummy node.
CompressFits ==
    call.pc = "compress" =>
        /\ call.key \in Keys
        /\ call.node \in DOMAIN leaf
        /\ call.first \notin Live /\ call.first # Null
        /\ call.j \in Nat \ {0}
        /\ Agree(call.node.path, call.key, call.depth)
        /\ \/ leaf[call.node].parent = Dummy /\ call.depth - call.j = -1
           \/ /\ leaf[call.node].parent \in DOMAIN inner
              /\ inner[leaf[call.node].parent].depth = call.depth - call.j

\* The key leads to the slot that is about to be written.
RelinkFits ==
    call.pc = "relink" =>
        /\ call.key \in Keys
        /\ call.node \in Live
        /\ call.first \notin Live /\ call.first # Null
        /\ ParentOf(call.node) \in DOMAIN inner =>
               Agree(call.node.path, call.key, inner[ParentOf(call.node)].depth + 1)

\* What clear() has not yet deleted: the nodes of the recursion, and those
\* that a loop of the recursion has still before it.
ToClear(in, lf, stack, a) ==
    \/ \E i \in DOMAIN stack : stack[i].node = a
    \/ LET p == Par(in, lf, a)
       IN  /\ Hangs(in, lf, Null, Null, a)
           /\ a \in DOMAIN in => in[a].depth = in[p].depth + 1
           /\ \A i \in DOMAIN stack :
                  stack[i].node = p => stack[i].from =< a.path[in[p].depth]

ClearFits ==
    call.pc = "clear" => \A a \in Live : ToClear(inner, leaf, call.stack, a)

Whole == /\ Tree(inner, leaf, RootView, Gone, Instead)
         /\ Counted(inner)
         /\ Sized
         /\ IsFiniteSet(DOMAIN leaf) /\ count = Cardinality(DOMAIN leaf)

ShapeInv ==
    /\ TypeOK
    /\ call.pc # "clear" => Whole
    /\ WalkFits /\ TieFits /\ LinkFits
    /\ ShrinkFits /\ CompressFits /\ RelinkFits
    /\ ClearFits

-----------------------------------------------------------------------------
(* Where no node is being replaced the tree is read as it is.              *)

Replacing == {"shrink", "compress", "relink"}

\* Outside a replacement the slots are read as they are.
LEMMA PlainView ==
    ASSUME call.pc \notin Replacing
    PROVE  Gone = Null /\ Instead = Null /\ RootView = root
BY DEF Replacing, Gone, Instead, RootView, Fixing

\* The same of the next state.
LEMMA PlainViewNext ==
    ASSUME call'.pc \notin Replacing
    PROVE  Gone' = Null /\ Instead' = Null /\ RootView' = root'
BY DEF Replacing, Gone, Instead, RootView, Fixing

\* What is said of the calls concerns one kind of step each.
LEMMA OtherCallsNext ==
    /\ call'.pc # "walk" => WalkFits'
    /\ call'.pc # "tie" => TieFits'
    /\ call'.pc # "link" => LinkFits'
    /\ call'.pc # "shrink" => ShrinkFits'
    /\ call'.pc # "compress" => CompressFits'
    /\ call'.pc # "relink" => RelinkFits'
    /\ call'.pc # "clear" => ClearFits'
BY DEF WalkFits, TieFits, LinkFits, ShrinkFits, CompressFits, RelinkFits, ClearFits

\* TypeOK, as the lemmas on the two heaps need it.
LEMMA HeapsTyped == ASSUME TypeOK  PROVE Heaps(inner, leaf)
BY DEF TypeOK, Heaps

\* The names of ArTree for the nodes and their parent fields.
LEMMA LiveNodes == Live = Nodes(inner, leaf) /\ \A c : ParentOf(c) = Par(inner, leaf, c)
BY DEF Live, Nodes, ParentOf, Par

\* The whole tree, seen from outside a replacement.
PlainWhole ==
    /\ Tree(inner, leaf, root, Null, Null)
    /\ Counted(inner)
    /\ \A a \in DOMAIN inner : Fits(inner, Null, Null, a) \/ (a \in Unsized /\ Spared(a))
    /\ IsFiniteSet(DOMAIN leaf) /\ count = Cardinality(DOMAIN leaf)

\* Outside a replacement Whole speaks of the tree as it is.
LEMMA WholeIsPlain ==
    ASSUME call.pc \notin Replacing
    PROVE  Whole <=> PlainWhole
BY PlainView DEF Whole, Sized, PlainWhole

\* The same of the next state.
LEMMA WholeIsPlainNext ==
    ASSUME call'.pc \notin Replacing
    PROVE  Whole' <=> PlainWhole'
BY PlainViewNext DEF Whole, Sized, PlainWhole

\* A step that leaves the tree alone, after which every node fits.
LEMMA QuietWhole ==
    ASSUME Whole, UNCHANGED treeVars, call.pc \notin Replacing, call'.pc \notin Replacing,
           Unsized = {}
    PROVE  Whole'
<1>1. PlainWhole
  BY WholeIsPlain
<1>2. inner' = inner /\ leaf' = leaf /\ root' = root /\ count' = count
  BY DEF treeVars
<1>3. PlainWhole'
  BY <1>1, <1>2 DEF PlainWhole
<1> QED
  BY <1>3, WholeIsPlainNext

\* The empty tree is whole.
LEMMA InitShape == ASSUME Init  PROVE ShapeInv
<1>1. TypeOK /\ call.pc = "idle"
  BY InitType DEF Init, Idle
<1>2. DOMAIN inner = {} /\ DOMAIN leaf = {} /\ root = Null /\ count = 0
  BY DEF Init
<1>3. Tree(inner, leaf, root, Null, Null)
  BY <1>2 DEF Tree, Depths, Slots, Places, RootFits, Nodes
<1>4. PlainWhole
  BY <1>2, <1>3, FS_EmptySet DEF PlainWhole, Counted
<1>5. Whole
  BY <1>1, <1>4, WholeIsPlain DEF Replacing
<1> QED
  BY <1>1, <1>5 DEF ShapeInv, WalkFits, TieFits, LinkFits, ShrinkFits, CompressFits, RelinkFits,
                    ClearFits

-----------------------------------------------------------------------------
(* The client's calls and the walk down.                                   *)

\* A step to a kind of call of which nothing more is to be known.
PlainPcs == {"idle", "return", "climb", "down", "unlink"}

\* After a step to such a call nothing but the tree itself is left to show.
LEMMA ToPlainCall ==
    ASSUME TypeOK', Whole', call'.pc \in PlainPcs
    PROVE  ShapeInv'
<1>1. call'.pc \notin {"walk", "tie", "link", "shrink", "compress", "relink", "clear"}
  BY DEF PlainPcs
<1> QED
  BY <1>1, OtherCallsNext DEF ShapeInv

\* The first leaf: insert on an empty tree, and emplace when it links its leaf.
LEMMA FirstLeaf ==
    ASSUME TypeOK, PlainWhole, root = Null, NEW k \in Keys, NEW v, LeafOf(k) \notin DOMAIN leaf,
           leaf' = Allocate(leaf, LeafOf(k), [parent |-> Dummy, value |-> v]),
           root' = LeafOf(k), inner' = inner, count' = count + 1,
           Unsized \cap DOMAIN inner = {}, call'.pc = "return"
    PROVE  Whole'
<1>1. Tree(inner', leaf', root', Null, Null)
  BY HeapsTyped, RootLeafAdded DEF PlainWhole
<1>2. Counted(inner') /\ \A a \in DOMAIN inner' : Fits(inner', Null, Null, a)
  BY DEF PlainWhole
<1>3. DOMAIN leaf' = DOMAIN leaf \cup {LeafOf(k)}
  BY DEF Allocate
<1>4. IsFiniteSet(DOMAIN leaf') /\ count' = Cardinality(DOMAIN leaf')
  BY <1>3, FS_AddElement DEF PlainWhole
<1>5. PlainWhole'
  BY <1>1, <1>2, <1>4 DEF PlainWhole
<1> QED
  BY <1>5, WholeIsPlainNext DEF Replacing

\* A call begins: the tree changes only if it gets its first leaf, and the
\* recursion of clear() starts with every node before it.
LEMMA ClientShape == ASSUME ShapeInv, Client  PROVE ShapeInv'
<1>1. call.pc = "idle"
  <2>1. call = Idle
    BY DEF Client, CallOnEmpty, CallOnTree, MoveIterator, MoveEnd, Begin, CallClear
  <2> QED
    BY <2>1 DEF Idle
<1>2. TypeOK' /\ TypeOK /\ Whole /\ PlainWhole /\ Unsized = {}
  BY <1>1, ClientType, WholeIsPlain DEF ShapeInv, Unsized, Replacing
<1>3. ASSUME UNCHANGED treeVars, call'.pc \in PlainPcs  PROVE ShapeInv'
  BY <1>1, <1>2, <1>3, QuietWhole, ToPlainCall DEF Replacing, PlainPcs
<1>4. ASSUME NEW o \in WalkOps, NEW k \in Keys, NEW v \in Given[k], CallOnEmpty(o, k, v)
      PROVE  ShapeInv'
  <2>1. CASE o = "insert"
    <3>1. /\ LeafOf(k) \notin DOMAIN leaf /\ root = Null
          /\ leaf' = Allocate(leaf, LeafOf(k), [parent |-> Dummy, value |-> v])
          /\ root' = LeafOf(k) /\ inner' = inner /\ count' = count + 1
          /\ call'.pc = "return"
      BY <1>4, <2>1 DEF CallOnEmpty, Return
    <3>2. Unsized \cap DOMAIN inner = {}
      BY <1>2
    <3>3. Whole'
      BY <1>2, <3>1, <3>2, FirstLeaf
    <3> QED
      BY <1>2, <3>1, <3>3, ToPlainCall DEF PlainPcs
  <2>2. CASE o = "emplace"
    <3>1. /\ call' = [pc |-> "link", key |-> k, value |-> v, node |-> Dummy]
          /\ UNCHANGED treeVars /\ root = Null
      BY <1>4, <2>2 DEF CallOnEmpty
    <3>2. call'.pc = "link" /\ call'.node = Dummy /\ root' = Null
      BY <3>1 DEF treeVars
    <3>3. Whole'
      BY <1>1, <1>2, <3>1, <3>2, QuietWhole DEF Replacing
    <3>4. LinkFits'
      BY <3>2 DEF LinkFits
    <3> QED
      BY <1>2, <3>2, <3>3, <3>4, OtherCallsNext DEF ShapeInv
  <2>3. CASE o \in {"erase", "find", "lower", "upper"}
    BY <1>3, <1>4, <2>3 DEF CallOnEmpty, Return, PlainPcs
  <2> QED
    BY <2>1, <2>2, <2>3 DEF WalkOps
<1>5. ASSUME NEW o \in WalkOps, NEW k \in Keys, NEW v \in Given[k], CallOnTree(o, k, v)
      PROVE  ShapeInv'
  <2>1. /\ call' = [pc |-> "walk", op |-> o, key |-> k, value |-> v, cur |-> root,
                    prev |-> IF o \in {"lower", "upper"} THEN Null ELSE Dummy, depth |-> 0]
        /\ UNCHANGED treeVars /\ root # Null
    BY <1>5 DEF CallOnTree
  <2>2. /\ call'.pc = "walk" /\ call'.depth = 0 /\ call'.cur = root' /\ root' # Null
        /\ call'.prev \in {Null, Dummy}
    BY <2>1 DEF treeVars
  <2>3. Whole'
    BY <1>1, <1>2, <2>1, <2>2, QuietWhole DEF Replacing
  <2>4. WalkFits'
    BY <2>2 DEF WalkFits
  <2> QED
    BY <1>2, <2>2, <2>3, <2>4, OtherCallsNext DEF ShapeInv
<1>6. ASSUME NEW o \in {"next", "prev", "erase_at"}, NEW k \in Keys, MoveIterator(o, k)
      PROVE  ShapeInv'
  BY <1>3, <1>6 DEF MoveIterator, PlainPcs
<1>7. ASSUME MoveEnd \/ Begin  PROVE ShapeInv'
  BY <1>3, <1>7 DEF MoveEnd, Begin, Return, PlainPcs
<1>8. ASSUME CallClear  PROVE ShapeInv'
  <2>1. /\ call' = [pc |-> "clear",
                    stack |-> IF root = Null THEN <<>> ELSE <<[node |-> root, from |-> 0]>>]
        /\ inner' = inner /\ leaf' = leaf /\ root' = root
    BY <1>8 DEF CallClear, treeVars
  <2> DEFINE s == call'.stack
  <2>2. /\ call'.pc = "clear"
        /\ root = Null => s = <<>>
        /\ root # Null => s = <<[node |-> root, from |-> 0]>>
    BY <2>1
  <2>3. /\ root # Null => DOMAIN s = {1} /\ s[1].node = root /\ s[1].from = 0
        /\ root = Null => DOMAIN s = {}
    BY <2>2
  <2> HIDE DEF s
  <2>4. ASSUME NEW a \in Live, a # root  PROVE ToClear(inner, leaf, s, a)
    <3> DEFINE p == Par(inner, leaf, a)
    <3>1. Hangs(inner, leaf, Null, Null, a)
      BY <1>2, <2>4, LiveNodes DEF PlainWhole, Tree, Places
    <3>2. a \in DOMAIN inner => inner[a].depth = inner[p].depth + 1
      BY <1>2, <3>1, PlainSubst DEF PlainWhole, Tree, Slots, Belongs, Hangs
    <3>3. 0 =< a.path[inner[p].depth]
      BY <3>1, SizesAssumption DEF Hangs, Byte
    <3>4. \A i \in DOMAIN s : s[i].from = 0
      BY <2>3
    <3> QED
      BY <3>1, <3>2, <3>3, <3>4 DEF ToClear
  <2>5. ASSUME NEW a \in Live, a = root  PROVE ToClear(inner, leaf, s, a)
    <3>1. root # Null
      BY <1>2, <2>5, HeapsTyped, HeapFacts, LiveNodes
    <3> QED
      BY <2>3, <2>5, <3>1 DEF ToClear
  <2>6. Live' = Live
    BY <2>1 DEF Live
  <2>7. ClearFits'
    BY <2>1, <2>4, <2>5, <2>6 DEF ClearFits, s
  <2> QED
    BY <1>2, <2>2, <2>7, OtherCallsNext DEF ShapeInv
<1> QED
  BY <1>4, <1>5, <1>6, <1>7, <1>8, <1>2 DEF Client

\* The walk down follows the chunks of the key from slot to slot.
LEMMA WalkShape == ASSUME ShapeInv, WalkStep  PROVE ShapeInv'
<1>1. call.pc = "walk"
  BY DEF WalkStep, Descend, FindEnds, BoundHits, BoundMisses, InsertDuplicate, EraseMisses,
         AtLeaf, AtGap, Walking
<1>2. TypeOK' /\ TypeOK /\ Whole /\ WalkFits /\ PlainWhole
  BY <1>1, WalkType, WholeIsPlain DEF ShapeInv, Replacing
<1>3. UNCHANGED treeVars
  BY DEF WalkStep, Descend, FindEnds, BoundHits, BoundMisses, InsertDuplicate, EraseMisses
<1>4. Null \notin DOMAIN inner /\ Null \notin DOMAIN leaf
  BY <1>2, HeapsTyped, HeapFacts DEF Nodes
<1>5. call.op \in InsertOps => call.cur # Null
  BY <1>4 DEF WalkStep, Descend, FindEnds, BoundHits, BoundMisses, InsertDuplicate, EraseMisses,
              AtLeaf, AtGap, Walking, InsertOps
<1>6. Unsized = {}
  BY <1>1, <1>5 DEF Unsized
<1>7. ASSUME FindEnds \/ BoundHits \/ BoundMisses \/ InsertDuplicate \/ EraseMisses
      PROVE  ShapeInv'
  <2>1. call'.pc \in PlainPcs
    BY <1>7 DEF FindEnds, BoundHits, BoundMisses, InsertDuplicate, EraseMisses, Return, PlainPcs
  <2> QED
    BY <1>1, <1>2, <1>3, <1>6, <2>1, QuietWhole, ToPlainCall DEF Replacing, PlainPcs
<1>8. ASSUME Descend  PROVE ShapeInv'
  <2> DEFINE a == call.cur
             d == call.depth
             b == call.key[d]
  <2>1. /\ a \in DOMAIN inner /\ d \in Chunks
        /\ call' = [call EXCEPT !.prev = a, !.depth = d + 1, !.cur = inner[a].child[b]]
    BY <1>8 DEF Descend
  <2>2. call \in WalkCall /\ call.key \in Keys
    BY <1>1, <1>2, CallShape DEF TypeOK, WalkCall
  <2>3. /\ call'.pc = "walk" /\ call'.prev = a /\ call'.depth = d + 1
        /\ call'.cur = inner[a].child[b] /\ call'.key = call.key
    BY <2>1, <2>2 DEF WalkCall
  <2>4. inner' = inner
    BY <1>3 DEF treeVars
  <2>5. b \in Byte /\ d \in Nat /\ d + 1 \in 1..KeyLen /\ (d + 1) - 1 = d
    BY <2>1, <2>2, KeyChunk, KeyLenAssumption DEF Chunks
  <2>6. inner[a].depth = d /\ Agree(a.path, call.key, d)
    <3>1. CASE d = 0 /\ a = root
      <4>1. inner[a].depth = 0
        BY <1>2, <1>4, <2>1, <3>1 DEF PlainWhole, Tree, RootFits
      <4> QED
        BY <3>1, <4>1 DEF Agree
    <3>2. CASE d \in 1..KeyLen
      <4> DEFINE p == call.prev
                 e == d - 1
                 c == call.key[e]
      <4>1. /\ p \in DOMAIN inner /\ inner[p].depth = e
            /\ Agree(p.path, call.key, e) /\ a = inner[p].child[c]
        BY <1>1, <1>2, <3>2 DEF WalkFits
      <4>2. c \in Byte /\ e \in Nat /\ e + 1 = d
        BY <2>1, <2>2, <3>2, KeyChunk, KeyLenAssumption DEF Chunks
      <4>3. Belongs(inner, leaf, p, c, a)
        BY <1>2, <1>4, <2>1, <4>1, <4>2, PlainSubst DEF PlainWhole, Tree, Slots
      <4>4. Agree(a.path, p.path, e) /\ a.path[e] = call.key[e] /\ inner[a].depth = e + 1
        BY <2>1, <4>1, <4>3 DEF Belongs
      <4>5. Agree(a.path, call.key, e)
        BY <4>1, <4>4, AgreeTrans
      <4>6. Agree(a.path, call.key, e + 1)
        BY <4>2, <4>4, <4>5, AgreeMore
      <4> QED
        BY <4>2, <4>4, <4>6
    <3> QED
      BY <1>1, <1>2, <3>1, <3>2 DEF WalkFits
  <2> HIDE DEF a, d, b
  <2>7. WalkFits'
    <3>1. /\ call'.depth \in 1..KeyLen /\ call'.prev \in DOMAIN inner'
          /\ inner'[call'.prev].depth = call'.depth - 1
          /\ Agree(call'.prev.path, call'.key, call'.depth - 1)
      BY <2>1, <2>3, <2>4, <2>5, <2>6
    <3>2. call'.cur = inner'[call'.prev].child[call'.key[call'.depth - 1]]
      BY <2>3, <2>4, <2>5 DEF b
    <3> QED
      BY <3>1, <3>2 DEF WalkFits
  <2>8. Whole'
    BY <1>1, <1>2, <1>3, <1>6, <2>3, QuietWhole DEF Replacing
  <2> QED
    BY <1>2, <2>3, <2>7, <2>8, OtherCallsNext DEF ShapeInv
<1> QED
  BY <1>7, <1>8 DEF WalkStep

-----------------------------------------------------------------------------
(* Inserting.                                                              *)

\* The fields of a live inner node, and of its children.
LEMMA InnerTyped ==
    ASSUME TypeOK, NEW a \in DOMAIN inner
    PROVE  /\ inner[a] \in InnerNode /\ inner[a].count \in Int /\ a.type \in InnerTypes
           /\ inner[a].depth \in Chunks /\ inner[a].depth \in Nat
           /\ a # Null /\ a # Dummy /\ a \notin DOMAIN leaf /\ a \in InnerAddr
           /\ MinSize(a.type) \in Nat /\ MaxSize(a.type) \in Nat
BY HeapsTyped, HeapFacts, SizeTypes DEF InnerAddr, Nodes

\* new _Leaf(value, n); n->insert(byte, leaf) into the slot for the key.
LEMMA LeafInserted ==
    ASSUME TypeOK, PlainWhole, NEW n \in DOMAIN inner, NEW k \in Keys, NEW v,
           InsertLeaf(n, k[inner[n].depth], k, v),
           Agree(n.path, k, inner[n].depth), inner[n].child[k[inner[n].depth]] = Null,
           Unsized \cap DOMAIN inner \subseteq {n},
           call'.pc = "return"
    PROVE  Whole'
<1> DEFINE d == inner[n].depth
           b == k[d]
           l == LeafOf(k)
<1>1. /\ inner[n].count < MaxSize(n.type) /\ l \notin DOMAIN leaf
      /\ leaf' = Allocate(leaf, l, [parent |-> n, value |-> v])
      /\ inner' = [inner EXCEPT ![n] = InsertChild(inner[n], b, l)]
      /\ count' = count + 1 /\ root' = root
  BY DEF InsertLeaf
<1>2. b \in Byte /\ l # Null
  BY InnerTyped, KeyChunk, LeafOfType, PointerKinds
<1>3. Tree(inner', leaf', root', Null, Null)
  BY <1>1, HeapsTyped, LeafAdded DEF PlainWhole
<1>4. /\ Cardinality(Occupied(InsertChild(inner[n], b, l))) = Cardinality(Occupied(inner[n])) + 1
      /\ InsertChild(inner[n], b, l).count = inner[n].count + 1
  BY <1>2, InnerTyped, InsertCounts
<1> HIDE DEF l, b
<1>5. /\ DOMAIN inner' = DOMAIN inner /\ inner'[n] = InsertChild(inner[n], b, l)
      /\ \A a \in DOMAIN inner : a # n => inner'[a] = inner[a]
  BY <1>1
<1>6. Counted(inner')
  BY <1>4, <1>5 DEF PlainWhole, Counted
<1>7. ASSUME NEW a \in DOMAIN inner'  PROVE Fits(inner', Null, Null, a)
  <2>1. CASE a = n
    <3>1. Nearly(inner, n)
      BY InnerTyped, NearlyAll DEF PlainWhole, Spared
    <3>2. inner'[n].count \in MinSize(n.type)..MaxSize(n.type)
      BY <1>1, <1>4, <1>5, <3>1, InnerTyped DEF Nearly
    <3> QED
      BY <2>1, <3>2 DEF Fits
  <2>2. CASE a # n
    <3>1. Fits(inner, Null, Null, a)
      BY <1>5, <2>2 DEF PlainWhole
    <3> QED
      BY <1>5, <2>2, <3>1 DEF Fits
  <2> QED
    BY <2>1, <2>2
<1>8. IsFiniteSet(DOMAIN leaf') /\ count' = Cardinality(DOMAIN leaf')
  <2>1. DOMAIN leaf' = DOMAIN leaf \cup {l}
    BY <1>1 DEF Allocate
  <2> QED
    BY <1>1, <2>1, FS_AddElement DEF PlainWhole
<1>9. PlainWhole'
  BY <1>3, <1>6, <1>7, <1>8 DEF PlainWhole
<1> QED
  BY <1>9, WholeIsPlainNext DEF Replacing

\* A step of emplace to the linking of its leaf.
LEMMA ToLink ==
    ASSUME ShapeInv, TypeOK', call.pc \in {"walk", "tie"}, NEW n \in DOMAIN inner, NEW k \in Keys,
           Agree(n.path, k, inner[n].depth), inner[n].child[k[inner[n].depth]] = Null,
           Unsized \cap DOMAIN inner \subseteq {n},
           UNCHANGED treeVars,
           call'.pc = "link", call'.key = k, call'.node = n
    PROVE  ShapeInv'
<1>1. inner' = inner /\ leaf' = leaf /\ root' = root /\ count' = count
  BY DEF treeVars
<1>2. PlainWhole /\ TypeOK
  BY WholeIsPlain DEF ShapeInv, Replacing
<1>3. Unsized' = {n}
  BY DEF Unsized
<1>4. ASSUME NEW a \in DOMAIN inner, a \in Unsized, Spared(a)  PROVE Spared(a)'
  <2>1. Nearly(inner, a)
    BY <1>2, <1>4, InnerTyped, NearlyAll DEF Spared
  <2> QED
    BY <1>1, <2>1 DEF Spared
<1>5. PlainWhole'
  BY <1>1, <1>2, <1>3, <1>4 DEF PlainWhole
<1>6. LinkFits'
  BY <1>1 DEF LinkFits
<1> QED
  BY <1>5, <1>6, WholeIsPlainNext, OtherCallsNext DEF ShapeInv, Replacing

\* A leaf goes into an empty slot of a node with room.
LEMMA FillGapShape == ASSUME ShapeInv, FillGap  PROVE ShapeInv'
<1> DEFINE n == call.prev
           k == call.key
           d == call.depth - 1
<1>1. /\ call.pc = "walk" /\ call.op \in InsertOps /\ call.cur = Null /\ n \in DOMAIN inner
      /\ d \in Chunks
  BY DEF FillGap, AtGap, Walking
<1>2. TypeOK' /\ TypeOK /\ WalkFits /\ PlainWhole /\ call \in WalkCall
  BY <1>1, FillGapType, WholeIsPlain, CallShape DEF ShapeInv, Replacing, TypeOK
<1>3. k \in Keys
  BY <1>2 DEF WalkCall
<1>4. inner[n].depth = d /\ Agree(n.path, k, d) /\ inner[n].child[k[d]] = Null
  <2>1. call.depth # 0
    BY <1>1 DEF Chunks
  <2> QED
    BY <1>1, <1>2, <2>1 DEF WalkFits
<1>5. Unsized = {n}
  BY <1>1 DEF Unsized
<1>6. CASE call.op = "insert"
  <2>1. /\ InsertLeaf(n, k[inner[n].depth], k, call.value)
        /\ call' = Return("insert", k, {k}, TRUE)
    BY <1>4, <1>6 DEF FillGap
  <2>2. call'.pc = "return"
    BY <2>1 DEF Return
  <2>3. Whole'
    BY <1>1, <1>2, <1>3, <1>4, <1>5, <2>1, <2>2, LeafInserted
  <2> QED
    BY <1>2, <2>2, <2>3, ToPlainCall DEF PlainPcs
<1>7. CASE call.op # "insert"
  <2>1. /\ call' = [pc |-> "link", key |-> k, value |-> call.value, node |-> n]
        /\ UNCHANGED treeVars
    BY <1>7 DEF FillGap
  <2> QED
    BY <1>1, <1>2, <1>3, <1>4, <1>5, <2>1, ToLink
<1> QED
  BY <1>6, <1>7

\* The new leaf goes beside the old one, into the one-way node of the tie.
LEMMA BreakTieShape == ASSUME ShapeInv, BreakTie  PROVE ShapeInv'
<1> DEFINE n == call.node
           k == call.key
           d == call.depth
<1>1. call.pc = "tie" /\ call.old.path[d] # k[d]
  BY DEF BreakTie
<1>2. TypeOK' /\ TypeOK /\ TieFits /\ PlainWhole /\ call \in TieCall
  BY <1>1, BreakTieType, WholeIsPlain, CallShape DEF ShapeInv, Replacing, TypeOK
<1>3. k \in Keys /\ d \in Chunks
  BY <1>2 DEF TieCall
<1>4. n \in DOMAIN inner /\ inner[n].depth = d /\ Agree(n.path, k, d)
  BY <1>1, <1>2 DEF TieFits
<1>5. inner[n].child[k[d]] = Null
  <2>1. inner[n].child = [NoChildren EXCEPT ![call.old.path[d]] = call.old]
    BY <1>1, <1>2 DEF TieFits
  <2>2. k[d] \in Byte
    BY <1>3, KeyChunk
  <2> QED
    BY <1>1, <2>1, <2>2 DEF NoChildren
<1>6. Unsized = {n}
  BY <1>1 DEF Unsized
<1>7. CASE call.op = "insert"
  <2>1. /\ InsertLeaf(n, k[inner[n].depth], k, call.value)
        /\ call' = Return("insert", k, {k}, TRUE)
    BY <1>4, <1>7 DEF BreakTie
  <2>2. call'.pc = "return"
    BY <2>1 DEF Return
  <2>3. Whole'
    BY <1>2, <1>3, <1>4, <1>5, <1>6, <2>1, <2>2, LeafInserted
  <2> QED
    BY <1>2, <2>2, <2>3, ToPlainCall DEF PlainPcs
<1>8. CASE call.op # "insert"
  <2>1. /\ call' = [pc |-> "link", key |-> k, value |-> call.value, node |-> n]
        /\ UNCHANGED treeVars
    BY <1>8 DEF BreakTie
  <2> QED
    BY <1>1, <1>2, <1>3, <1>4, <1>5, <1>6, <2>1, ToLink
<1> QED
  BY <1>7, <1>8

\* emplace links its leaf: as the root, or into the slot it has found empty.
LEMMA LinkLeafShape == ASSUME ShapeInv, LinkLeaf  PROVE ShapeInv'
<1> DEFINE n == call.node
           k == call.key
<1>1. call.pc = "link" /\ call'.pc = "return"
  BY DEF LinkLeaf, Return
<1>2. TypeOK' /\ TypeOK /\ LinkFits /\ PlainWhole /\ call \in LinkCall
  BY <1>1, LinkLeafType, WholeIsPlain, CallShape DEF ShapeInv, Replacing, TypeOK
<1>3. k \in Keys
  BY <1>2 DEF LinkCall
<1>4. Unsized = {n}
  BY <1>1 DEF Unsized
<1>5. CASE n = Dummy
  <2>1. n \notin DOMAIN inner
    BY <1>2, <1>5, InnerTyped
  <2>2. /\ LeafOf(k) \notin DOMAIN leaf
        /\ leaf' = Allocate(leaf, LeafOf(k), [parent |-> Dummy, value |-> call.value])
        /\ root' = LeafOf(k) /\ inner' = inner /\ count' = count + 1
    BY <2>1 DEF LinkLeaf
  <2>3. root = Null
    BY <1>1, <1>2, <2>1 DEF LinkFits
  <2>4. Unsized \cap DOMAIN inner = {}
    BY <1>4, <2>1
  <2>5. Whole'
    BY <1>1, <1>2, <1>3, <2>2, <2>3, <2>4, FirstLeaf
  <2> QED
    BY <1>1, <1>2, <2>5, ToPlainCall DEF PlainPcs
<1>6. CASE n # Dummy
  <2>1. n \in DOMAIN inner /\ InsertLeaf(n, k[inner[n].depth], k, call.value)
    BY <1>6 DEF LinkLeaf
  <2>2. Agree(n.path, k, inner[n].depth) /\ inner[n].child[k[inner[n].depth]] = Null
    BY <1>1, <1>2, <1>6 DEF LinkFits
  <2>3. Whole'
    BY <1>1, <1>2, <1>3, <1>4, <2>1, <2>2, LeafInserted
  <2> QED
    BY <1>1, <1>2, <2>3, ToPlainCall DEF PlainPcs
<1> QED
  BY <1>5, <1>6

\* A node 4 with the leaf as its only child is put above it, in its place.
NodePut(old, p, d, node) ==
    LET more == Allocate(inner, node, OneWay(p, d, old.path[d], old))
    IN  /\ old \in DOMAIN leaf /\ p = leaf[old].parent
        /\ d \in Chunks /\ node = NodeAt("node_4", old.path, d)
        /\ node \notin DOMAIN inner
        /\ \/ p = Dummy /\ d = 0
           \/ p \in DOMAIN inner /\ d = inner[p].depth + 1
        /\ inner' = IF p = Dummy THEN more
                    ELSE [more EXCEPT ![p] = UpdateChild(more[p], old.path[more[p].depth], node)]
        /\ leaf' = [leaf EXCEPT ![old].parent = node]
        /\ root' = IF p = Dummy THEN node ELSE root
        /\ count' = count
        /\ call'.pc = "tie" /\ call'.node = node

\* The one-way node is put in place; a one-way node above it now has an inner
\* node below and fits.
LEMMA OneWayInserted ==
    ASSUME TypeOK, PlainWhole, NEW old, NEW p, NEW d, NEW node, NodePut(old, p, d, node),
           Unsized \cap DOMAIN inner \subseteq {p},
           p \in Unsized \cap DOMAIN inner =>
               /\ OneWayed(inner, p)
               /\ inner[p].child = [NoChildren EXCEPT ![old.path[inner[p].depth]] = old]
    PROVE  Whole'
<1> DEFINE made == OneWay(p, d, old.path[d], old)
           more == Allocate(inner, node, made)
<1>a. /\ old \in DOMAIN leaf /\ p = leaf[old].parent
      /\ d \in Chunks /\ node = NodeAt("node_4", old.path, d)
      /\ node \notin DOMAIN inner
      /\ \/ p = Dummy /\ d = 0
         \/ p \in DOMAIN inner /\ d = inner[p].depth + 1
      /\ call'.pc = "tie" /\ call'.node = node
  BY DEF NodePut
<1>b. /\ inner' = IF p = Dummy THEN more
                  ELSE [more EXCEPT ![p] = UpdateChild(more[p], old.path[more[p].depth], node)]
      /\ leaf' = [leaf EXCEPT ![old].parent = node]
      /\ root' = IF p = Dummy THEN node ELSE root
      /\ count' = count
  BY DEF NodePut
<1>1. Tree(inner', leaf', root', Null, Null)
  <2>1. RoomAbove(inner, leaf, root, old, p, d)
    BY <1>a, HeapsTyped DEF PlainWhole, RoomAbove
  <2> DEFINE put  == NodeAt("node_4", old.path, d)
             rest == Allocate(inner, put, OneWay(p, d, old.path[d], old))
  <2>2. Tree(IF p = Dummy THEN rest
             ELSE [rest EXCEPT ![p] = UpdateChild(rest[p], old.path[rest[p].depth], put)],
             [leaf EXCEPT ![old].parent = put],
             IF p = Dummy THEN put ELSE root, Null, Null)
    BY <2>1, OneWayPut, Zenon
  <2>3. put = node /\ rest = more
    BY <1>a
  <2> HIDE DEF put, rest, more
  <2> QED
    BY <1>b, <2>2, <2>3
<1>2. old.path[d] \in Byte /\ old # Null /\ node # Null
  BY <1>a, HeapsTyped, HeapFacts, KeyChunk, NodeAtType, PointerKinds DEF Nodes, InnerTypes
<1>3. Cardinality(Occupied(made)) = 1 /\ made.count = 1
  BY <1>2, OneWayCounts
<1>4. /\ DOMAIN more = DOMAIN inner \cup {node} /\ more[node] = made
      /\ \A a \in DOMAIN inner : more[a] = inner[a]
  BY <1>a DEF Allocate
<1> HIDE DEF made, more
<1>5. DOMAIN inner' = DOMAIN inner \cup {node} /\ inner'[node] = made
  <2>1. CASE p = Dummy
    BY <1>4, <1>b, <2>1
  <2>2. CASE p # Dummy
    <3>1. p # node
      BY <1>a, <2>2
    <3> QED
      BY <1>4, <1>b, <2>2, <3>1
  <2> QED
    BY <2>1, <2>2
<1>6. ASSUME NEW a \in DOMAIN inner
      PROVE  /\ inner'[a].count = inner[a].count /\ Occupied(inner'[a]) = Occupied(inner[a])
             /\ \A b \in Byte : inner'[a].child[b] \in {inner[a].child[b], node}
             /\ a = p => \A b \in Byte :
                            inner[a].child[b] # Null /\ b = old.path[inner[p].depth]
                                => inner'[a].child[b] = node
  <2>1. CASE a = p /\ p # Dummy
    <3>1. inner'[p] = UpdateChild(inner[p], old.path[inner[p].depth], node)
      BY <1>4, <1>b, <2>1
    <3> DEFINE e == old.path[inner[p].depth]
    <3>2. inner[p] \in InnerNode /\ inner[p].child \in [Byte -> Ptr]
      BY <2>1, InnerTyped DEF InnerNode
    <3>a. inner'[p] = UpdateChild(inner[p], e, node)
      BY <3>1
    <3> HIDE DEF e
    <3>3. inner'[p].count = inner[p].count /\ Occupied(inner'[p]) = Occupied(inner[p])
      BY <1>2, <3>2, <3>a, UpdateCounts
    <3>b. \A b \in Byte : inner'[p].child[b] = IF b = e /\ inner[p].child[e] # Null THEN node
                                               ELSE inner[p].child[b]
      BY <3>2, <3>a, UpdateSlots
    <3>4. \A b \in Byte : /\ inner'[p].child[b] \in {inner[p].child[b], node}
                          /\ inner[p].child[b] # Null /\ b = e => inner'[p].child[b] = node
      BY <3>b
    <3>5. \A b \in Byte : inner[p].child[b] # Null /\ b = old.path[inner[p].depth]
                             => inner'[p].child[b] = node
      BY <3>4 DEF e
    <3> QED
      BY <2>1, <3>3, <3>4, <3>5
  <2>2. CASE a # p \/ p = Dummy
    <3>1. inner'[a] = inner[a]
      BY <1>4, <1>b, <2>2
    <3>2. a # p
      BY <2>2, InnerTyped
    <3> QED
      BY <3>1, <3>2
  <2> QED
    BY <2>1, <2>2
<1>7. Counted(inner')
  <2> SUFFICES ASSUME NEW a \in DOMAIN inner'
               PROVE  inner'[a].count = Cardinality(Occupied(inner'[a]))
    BY DEF Counted
  <2>1. CASE a = node
    BY <1>3, <1>5, <2>1
  <2>2. CASE a # node
    <3>1. a \in DOMAIN inner
      BY <1>5, <2>2
    <3>2. inner'[a].count = inner[a].count /\ Occupied(inner'[a]) = Occupied(inner[a])
      BY <1>6, <3>1
    <3> QED
      BY <3>1, <3>2 DEF PlainWhole, Counted
  <2> QED
    BY <2>1, <2>2
<1>8. ASSUME NEW a \in DOMAIN inner'
      PROVE  Fits(inner', Null, Null, a) \/ (a \in Unsized' /\ Spared(a)')
  <2>1. CASE a = node
    <3>1. OneWayed(inner', node)
      BY <1>3, <1>5, <1>a DEF OneWayed, NodeAt
    <3>2. Unsized' = {node} /\ call'.pc = "tie"
      BY <1>a DEF Unsized
    <3> QED
      BY <2>1, <3>1, <3>2 DEF Spared
  <2>2. CASE a # node
    <3>1. a \in DOMAIN inner
      BY <1>5, <2>2
    <3>2. ASSUME NEW b \in Byte, inner'[a].child[b] # Null
          PROVE  inner[a].child[b] # Null /\ inner'[a].child[b] \in {inner[a].child[b], node}
      <4>1. Occupied(inner'[a]) = Occupied(inner[a])
        BY <1>6, <3>1
      <4>2. b \in Occupied(inner'[a])
        BY <3>2 DEF Occupied
      <4>3. inner[a].child[b] # Null
        BY <4>1, <4>2 DEF Occupied
      <4>4. inner'[a].child[b] \in {inner[a].child[b], node}
        BY <1>6, <3>1
      <4> QED
        BY <4>3, <4>4
    <3>3. CASE Fits(inner, Null, Null, a)
      <4>1. ASSUME NEW b \in Byte, inner'[a].child[b] # Null,
                   Subst(inner[a].child[b], Null, Null) \in DOMAIN inner
            PROVE  Subst(inner'[a].child[b], Null, Null) \in DOMAIN inner'
        <5>1. inner[a].child[b] \in DOMAIN inner
          BY <4>1, PlainSubst
        <5>2. inner'[a].child[b] \in DOMAIN inner'
          BY <1>5, <3>2, <4>1, <5>1
        <5> QED
          BY <5>2, PlainSubst
      <4>2. inner'[a].count = inner[a].count
        BY <1>6, <3>1
      <4>3. Fits(inner', Null, Null, a)
        BY <3>2, <3>3, <4>1, <4>2 DEF Fits
      <4> QED
        BY <4>3
    <3>4. CASE a \in Unsized
      <4>1. a = p /\ OneWayed(inner, p)
            /\ inner[p].child = [NoChildren EXCEPT ![old.path[inner[p].depth]] = old]
        BY <3>1, <3>4
      <4>2. \A b \in Byte : inner[a].child[b] # Null => b = old.path[inner[p].depth]
        BY <4>1 DEF NoChildren
      <4>3. ASSUME NEW b \in Byte, inner'[a].child[b] # Null
            PROVE  Subst(inner'[a].child[b], Null, Null) \in DOMAIN inner'
        <5>1. inner'[a].child[b] = node
          BY <1>6, <3>1, <3>2, <4>1, <4>2, <4>3
        <5> QED
          BY <1>5, <5>1, PlainSubst
      <4>4. inner'[a].count = 1 /\ a.type = "node_4"
        BY <1>6, <3>1, <4>1 DEF OneWayed
      <4>5. Fits(inner', Null, Null, a)
        BY <4>3, <4>4 DEF Fits
      <4> QED
        BY <4>5
    <3> QED
      BY <3>1, <3>3, <3>4 DEF PlainWhole
  <2> QED
    BY <2>1, <2>2
<1>9. IsFiniteSet(DOMAIN leaf') /\ count' = Cardinality(DOMAIN leaf')
  <2>1. DOMAIN leaf' = DOMAIN leaf
    BY <1>b
  <2> QED
    BY <1>b, <2>1 DEF PlainWhole
<1>10. PlainWhole'
  BY <1>1, <1>7, <1>8, <1>9 DEF PlainWhole
<1> QED
  BY <1>10, <1>a, WholeIsPlainNext DEF Replacing

\* What the tie knows once the one-way node is in place.
LEMMA TieMade ==
    ASSUME TypeOK, NEW old \in DOMAIN leaf, NEW p, NEW d \in Chunks, NEW k,
           NEW node, node = NodeAt("node_4", old.path, d), Agree(old.path, k, d),
           node \in DOMAIN inner', inner'[node] = OneWay(p, d, old.path[d], old),
           leaf' = [leaf EXCEPT ![old].parent = node],
           call'.node = node, call'.old = old, call'.depth = d, call'.key = k
    PROVE  TieFits'
<1>1. /\ inner'[node].depth = d
      /\ inner'[node].child = [NoChildren EXCEPT ![old.path[d]] = old]
  BY DEF OneWay
<1>2. old \in DOMAIN leaf' /\ leaf'[old].parent = node
  BY HeapsTyped, HeapFacts DEF LeafNode
<1>3. Agree(node.path, k, d)
  BY DEF Agree, NodeAt, Prefix
<1> QED
  BY <1>1, <1>2, <1>3 DEF TieFits

\* A one-way node takes the place of the leaf that is in the way.
LEMMA SplitLeafShape == ASSUME ShapeInv, SplitLeaf  PROVE ShapeInv'
<1> DEFINE old  == call.cur
           d    == call.depth
           node == NodeAt("node_4", old.path, d)
           p    == leaf[old].parent
           made == OneWay(p, d, old.path[d], old)
           more == Allocate(inner, node, made)
<1>1. /\ call.pc = "walk" /\ call.op \in InsertOps /\ old \in DOMAIN leaf /\ d \in Chunks
      /\ node \notin DOMAIN inner
      /\ PointTo(more, p, old.path, node)
      /\ leaf' = [leaf EXCEPT ![old].parent = node]
      /\ call' = [pc |-> "tie", op |-> call.op, key |-> call.key,
                  value |-> call.value, node |-> node, old |-> old, depth |-> d]
      /\ count' = count
  BY DEF SplitLeaf, AtLeaf, Walking
<1>2. TypeOK' /\ TypeOK /\ WalkFits /\ PlainWhole /\ call \in WalkCall
  BY <1>1, SplitLeafType, WholeIsPlain, CallShape DEF ShapeInv, Replacing, TypeOK
<1>3. /\ call'.pc = "tie" /\ call'.node = node /\ call'.old = old /\ call'.depth = d
      /\ call'.key = call.key
  BY <1>1
<1>4. call.key \in Keys /\ old # Null
  BY <1>1, <1>2, HeapsTyped, HeapFacts DEF WalkCall, Nodes
<1>5. Unsized = {}
  BY <1>1, <1>4 DEF Unsized
<1>6. /\ Agree(old.path, call.key, d)
      /\ \/ p = Dummy /\ d = 0
         \/ p \in DOMAIN inner /\ d = inner[p].depth + 1
  <2>1. CASE d = 0 /\ old = root
    <3>1. p = Dummy
      BY <1>1, <1>2, <1>4, <2>1 DEF PlainWhole, Tree, RootFits, Par
    <3> QED
      BY <2>1, <3>1 DEF Agree
  <2>2. CASE d \in 1..KeyLen
    <3> DEFINE q == call.prev
               e == d - 1
               c == call.key[e]
    <3>1. /\ q \in DOMAIN inner /\ inner[q].depth = e
          /\ Agree(q.path, call.key, e) /\ old = inner[q].child[c]
      BY <1>1, <1>2, <2>2 DEF WalkFits
    <3>2. c \in Byte /\ e \in Nat /\ e + 1 = d
      BY <1>1, <1>4, <2>2, KeyChunk, KeyLenAssumption DEF Chunks
    <3>3. Belongs(inner, leaf, q, c, old)
      BY <1>2, <1>4, <3>1, <3>2, PlainSubst DEF PlainWhole, Tree, Slots
    <3>4. Agree(old.path, q.path, e) /\ old.path[e] = call.key[e] /\ p = q
      BY <1>1, <3>1, <3>3 DEF Belongs, Par
    <3>5. Agree(old.path, call.key, e)
      BY <3>1, <3>4, AgreeTrans
    <3>6. Agree(old.path, call.key, e + 1)
      BY <3>2, <3>4, <3>5, AgreeMore
    <3> QED
      BY <3>1, <3>2, <3>4, <3>6
  <2> QED
    BY <1>1, <1>2, <2>1, <2>2 DEF WalkFits
<1> HIDE DEF made, more, node, old, d, p
<1>7. /\ inner' = IF p = Dummy THEN more
                  ELSE [more EXCEPT ![p] = UpdateChild(more[p], old.path[more[p].depth], node)]
      /\ root' = IF p = Dummy THEN node ELSE root
  BY <1>1 DEF PointTo
<1>8. Whole'
  <2>1. NodePut(old, p, d, node)
    BY <1>1, <1>3, <1>6, <1>7 DEF made, more, node, p, NodePut
  <2> QED
    BY <1>2, <1>5, <2>1, OneWayInserted
<1>9. node \in DOMAIN inner' /\ inner'[node] = made
  <2>1. node \in DOMAIN more /\ more[node] = made
    BY DEF more, Allocate
  <2>2. p # node
    <3>1. node \in InnerAddr
      BY <1>1, <1>2, HeapsTyped, HeapFacts, NodeAtType DEF node, InnerTypes
    <3> QED
      BY <1>1, <1>6, <3>1, PointerKinds
  <2> QED
    BY <1>7, <2>1, <2>2
<1>10. TieFits'
  BY <1>1, <1>2, <1>3, <1>6, <1>9, TieMade DEF made, node
<1> QED
  BY <1>2, <1>3, <1>8, <1>10, OtherCallsNext DEF ShapeInv

\* The tie grows by a one-way node, put above the old leaf like the first one.
LEMMA ExtendTieShape == ASSUME ShapeInv, ExtendTie  PROVE ShapeInv'
<1> DEFINE old  == call.old
           d    == call.depth + 1
           node == NodeAt("node_4", old.path, d)
           p    == call.node
           made == OneWay(leaf[old].parent, d, old.path[d], old)
           more == Allocate(inner, node, made)
<1>1. /\ call.pc = "tie" /\ old \in DOMAIN leaf /\ d \in Chunks /\ p \in DOMAIN inner
      /\ old.path[call.depth] = call.key[call.depth]
      /\ node \notin DOMAIN inner
      /\ inner' = [more EXCEPT ![p] = UpdateChild(more[p], call.key[call.depth], node)]
      /\ leaf' = [leaf EXCEPT ![old].parent = node]
      /\ call' = [call EXCEPT !.node = node, !.depth = d]
      /\ root' = root /\ count' = count
  BY DEF ExtendTie
<1>2. TypeOK' /\ TypeOK /\ TieFits /\ PlainWhole /\ call \in TieCall
  BY <1>1, ExtendTieType, WholeIsPlain, CallShape DEF ShapeInv, Replacing, TypeOK
<1>3. /\ call'.pc = "tie" /\ call'.node = node /\ call'.old = old /\ call'.depth = d
      /\ call'.key = call.key /\ call.key \in Keys /\ call.depth \in Chunks /\ call.depth \in Nat
  BY <1>1, <1>2 DEF TieCall, Chunks
<1>4. /\ leaf[old].parent = p /\ inner[p].depth = call.depth
      /\ inner[p].child = [NoChildren EXCEPT ![old.path[call.depth]] = old]
      /\ Agree(old.path, call.key, call.depth)
  BY <1>1, <1>2 DEF TieFits
<1>5. Unsized = {p}
  BY <1>1 DEF Unsized
<1>6. OneWayed(inner, p) \/ Fits(inner, Null, Null, p)
  BY <1>1, <1>2 DEF PlainWhole, Spared
<1>7. inner[p].count = 1
  <2>1. old.path[call.depth] \in Byte /\ old # Null
    BY <1>1, <1>2, <1>3, HeapsTyped, HeapFacts, KeyChunk DEF Nodes
  <2>2. Occupied(inner[p]) = {old.path[call.depth]}
    BY <1>4, <2>1 DEF Occupied, NoChildren
  <2>3. Cardinality(Occupied(inner[p])) = 1
    BY <2>2, FS_Singleton
  <2> QED
    BY <1>1, <1>2, <2>3 DEF PlainWhole, Counted
<1>8. OneWayed(inner, p)
  <2>1. inner[p].count \in MinSize(p.type)..MaxSize(p.type) => FALSE
    <3>1. MinSize(p.type) >= 2 /\ MinSize(p.type) \in Nat
      BY SizesAssumption, SizeTypes DEF MinSize
    <3> QED
      BY <1>7, <3>1, SizeTypes
  <2> QED
    BY <1>6, <1>7, <2>1 DEF Fits, OneWayed
<1>9. Agree(old.path, call.key, d)
  BY <1>1, <1>3, <1>4, AgreeMore
<1> HIDE DEF made, more, node, old, d, p
<1>10. p # Dummy /\ p # node /\ more[p] = inner[p]
  <2>1. more[p] = inner[p]
    BY <1>1 DEF more, Allocate
  <2> QED
    BY <1>1, <1>2, <2>1, InnerTyped
<1>11. /\ inner' = IF p = Dummy THEN more
                   ELSE [more EXCEPT ![p] = UpdateChild(more[p], old.path[more[p].depth], node)]
       /\ root' = IF p = Dummy THEN node ELSE root
  BY <1>1, <1>4, <1>10 DEF old
<1>12. d = inner[p].depth + 1
  BY <1>4 DEF d
<1>13. Whole'
  <2>1. NodePut(old, p, d, node)
    BY <1>1, <1>3, <1>4, <1>11, <1>12 DEF made, more, node, NodePut
  <2>2. inner[p].child = [NoChildren EXCEPT ![old.path[inner[p].depth]] = old]
    BY <1>4
  <2>3. Unsized \cap DOMAIN inner \subseteq {p}
    BY <1>5
  <2> QED
    BY <1>2, <1>8, <2>1, <2>2, <2>3, OneWayInserted
<1>14. node \in DOMAIN inner' /\ inner'[node] = made
  <2>1. node \in DOMAIN more /\ more[node] = made
    BY DEF more, Allocate
  <2> QED
    BY <1>1, <1>10, <2>1
<1>15. TieFits'
  BY <1>1, <1>2, <1>3, <1>9, <1>14, TieMade DEF made, node
<1> QED
  BY <1>2, <1>3, <1>13, <1>15, OtherCallsNext DEF ShapeInv

\* A layout that is full has one child less than the next one needs.
LEMMA NextLayout ==
    ASSUME NEW t \in InnerTypes
    PROVE  /\ t # "node_256" => /\ MaxSize(t) = MinSize(Grown(t)) - 1
                                /\ MaxSize(t) =< MaxSize(Grown(t))
           /\ t # "node_4" => MinSize(t) - 1 = MaxSize(Shrunk(t))
           /\ MinSize(t) =< MaxSize(t) /\ MinSize(t) >= 2
BY SizesAssumption DEF InnerTypes, MaxSize, MinSize, Grown, Shrunk, Cap256

\* A full node is replaced by the next layout: children, parent field and slot
\* follow in one step, and the walk goes on from the new node.
LEMMA GrowNodeShape == ASSUME ShapeInv, GrowNode  PROVE ShapeInv'
<1> DEFINE old   == call.prev
           t     == Grown(old.type)
           new   == [old EXCEPT !.type = t]
           moved == RetypedInner(inner, old, t, inner[old])
           held  == RetypedLeaf(inner, leaf, old, t)
           p     == inner[old].parent
           k     == call.key
<1>1. /\ call.pc = "walk" /\ call.op \in InsertOps /\ call.cur = Null
      /\ old \in DOMAIN inner /\ old.type # "node_256"
      /\ inner[old].count = MaxSize(old.type)
      /\ new \notin DOMAIN inner /\ Writable(moved, p) /\ PointTo(moved, p, k, new)
      /\ leaf' = held /\ call' = [call EXCEPT !.prev = new] /\ count' = count
  BY DEF GrowNode, AtGap, Walking, RetypedInner, RetypedLeaf
<1>2. TypeOK' /\ TypeOK /\ WalkFits /\ PlainWhole /\ call \in WalkCall
  BY <1>1, GrowNodeType, WholeIsPlain, CallShape DEF ShapeInv, Replacing, TypeOK
<1>3. /\ call'.pc = "walk" /\ call'.op \in InsertOps /\ call'.cur = Null /\ call'.prev = new
      /\ call'.depth = call.depth /\ call'.key = k /\ k \in Keys
  BY <1>1, <1>2 DEF WalkCall
<1>4. Unsized = {old} /\ Unsized' = {new}
  BY <1>1, <1>3 DEF Unsized
<1>5. /\ Heaps(inner, leaf) /\ Tree(inner, leaf, root, Null, Null) /\ Counted(inner)
      /\ inner[old] \in InnerNode /\ t \in InnerTypes /\ old.type \in InnerTypes
      /\ old # Null /\ old # Dummy
  BY <1>1, <1>2, HeapsTyped, InnerTyped, LayoutTypes DEF PlainWhole
<1>6. /\ call.depth \in 1..KeyLen /\ inner[old].depth = call.depth - 1
      /\ Agree(old.path, k, call.depth - 1)
      /\ inner[old].child[k[call.depth - 1]] = Null
  BY <1>1, <1>2, <1>5 DEF WalkFits
<1>7. Heaps(moved, held)
  BY <1>1, <1>5, RetypedHeaps DEF RetypedInner, RetypedLeaf
<1>8. Tree(moved, held, IF root = old THEN new ELSE root, old, new)
  BY <1>1, <1>5, Retyped DEF RetypedInner, RetypedLeaf
<1>9. /\ DOMAIN moved = (DOMAIN inner \ {old}) \cup {new}
      /\ DOMAIN held = DOMAIN leaf
      /\ new \notin Nodes(inner, leaf) /\ new.path = old.path /\ new.type = t
      /\ moved[new].depth = inner[old].depth /\ moved[new].child = inner[old].child
      /\ moved[new].parent = inner[old].parent /\ moved[new].count = inner[old].count
      /\ \A a \in DOMAIN inner \ {old} : moved[a].depth = inner[a].depth
      /\ Counted(moved)
      /\ \A a \in DOMAIN inner \ {old} :
             Fits(inner, Null, Null, a) => Fits(moved, old, new, a)
      /\ \A l \in DOMAIN leaf : held[l].value = leaf[l].value
  <2>1. Recast(inner, leaf, old, new, t, moved, held)
    BY <1>1, <1>5, RetypedSizes
  <2> QED
    BY <2>1 DEF Recast
<1> HIDE DEF moved, held, new, old, k
<1>10. /\ root = old <=> p = Dummy
       /\ p # Dummy => p \in DOMAIN inner \ {old} /\ inner[p].depth + 1 = inner[old].depth
  <2>1. CASE root = old
    <3>1. p = Dummy
      BY <1>1, <1>5, <2>1, InnerTyped, <1>2 DEF Tree, RootFits, Par
    <3> QED
      BY <2>1, <3>1
  <2>2. CASE root # old
    <3>1. Par(inner, leaf, old) = p /\ old \in Nodes(inner, leaf)
      BY <1>1, <1>2, InnerTyped DEF Par, Nodes
    <3>2. Hangs(inner, leaf, Null, Null, old)
      BY <1>5, <2>2, <3>1 DEF Tree, Places
    <3>3. p \in DOMAIN inner /\ inner[old].depth = inner[p].depth + 1
      BY <1>1, <1>5, <3>1, <3>2, PlainSubst DEF Hangs, Tree, Slots, Belongs
    <3>4. p # Dummy /\ inner[p].depth \in Nat
      BY <1>2, <3>3, InnerTyped
    <3>5. p # old
      BY <3>3, <3>4
    <3> QED
      BY <2>2, <3>3, <3>4, <3>5
  <2> QED
    BY <2>1, <2>2
<1>11. ReadyToHang(moved, held, IF root = old THEN new ELSE root, old, new, p, k)
  <2>1. new \in Nodes(moved, held) /\ p = Par(moved, held, new)
    BY <1>9 DEF Nodes, Par
  <2>2. ASSUME p # Dummy  PROVE p \in DOMAIN moved /\ Agree(new.path, k, moved[p].depth + 1)
    <3>1. p \in DOMAIN moved /\ moved[p].depth = inner[p].depth
      BY <1>9, <1>10, <2>2
    <3>2. moved[p].depth + 1 = call.depth - 1
      BY <1>6, <1>10, <2>2, <3>1
    <3> QED
      BY <1>6, <1>9, <3>1, <3>2
  <2> QED
    BY <1>7, <1>8, <1>9, <2>1, <2>2 DEF ReadyToHang
<1> DEFINE in2 == HungAt(moved, p, k, new)
<1>12. /\ Tree(in2, held, IF p = Dummy THEN new ELSE IF root = old THEN new ELSE root, Null, Null)
       /\ Counted(in2)
       /\ DOMAIN in2 = DOMAIN moved
       /\ \A a \in DOMAIN moved : /\ in2[a].count = moved[a].count
                                  /\ a # p => in2[a] = moved[a]
                                  /\ Fits(moved, old, new, a) => Fits(in2, Null, Null, a)
  BY <1>11, HungUp
<1>13. inner' = in2 /\ root' = IF p = Dummy THEN new ELSE root
  BY <1>1 DEF PointTo, HungAt
<1> HIDE DEF in2, p
<1>14. Tree(inner', leaf', root', Null, Null)
  <2>1. root' = IF p = Dummy THEN new ELSE IF root = old THEN new ELSE root
    BY <1>10, <1>13
  <2> QED
    BY <1>1, <1>12, <1>13, <2>1
<1>15. inner'[new].count = MaxSize(old.type) /\ new \in DOMAIN inner' /\ inner'[new] = moved[new]
  <2>1. p # new
    BY <1>7, <1>9, <1>10, HeapFacts DEF Nodes
  <2> QED
    BY <1>1, <1>9, <1>12, <1>13, <2>1
<1>16. ASSUME NEW a, a = new  PROVE Spared(a)'
  <2>1. Nearly(inner', new)
    BY <1>1, <1>5, <1>9, <1>15, NextLayout, SizeTypes DEF Nearly, t
  <2> QED
    BY <1>3, <1>16, <2>1 DEF Spared
<1>17. ASSUME NEW a \in DOMAIN inner'
       PROVE  Fits(inner', Null, Null, a) \/ (a \in Unsized' /\ Spared(a)')
  <2>1. CASE a = new
    BY <1>4, <1>16, <2>1
  <2>2. CASE a # new
    <3>1. a \in DOMAIN inner \ {old} /\ a \in DOMAIN moved
      BY <1>9, <1>12, <1>13, <2>2
    <3>2. Fits(inner, Null, Null, a)
      BY <1>2, <1>4, <3>1 DEF PlainWhole
    <3> QED
      BY <1>9, <1>12, <1>13, <3>1, <3>2
  <2> QED
    BY <2>1, <2>2
<1>18. PlainWhole'
  BY <1>1, <1>2, <1>9, <1>12, <1>13, <1>14, <1>17 DEF PlainWhole
<1>19. Whole'
  BY <1>3, <1>18, WholeIsPlainNext DEF Replacing
<1>20. WalkFits'
  <2>1. /\ inner'[new].depth = call.depth - 1 /\ Agree(new.path, k, call.depth - 1)
        /\ inner'[new].child[k[call.depth - 1]] = Null
    BY <1>6, <1>9, <1>15
  <2> QED
    BY <1>3, <1>6, <1>15, <2>1 DEF WalkFits
<1> QED
  BY <1>2, <1>3, <1>19, <1>20, OtherCallsNext DEF ShapeInv

-----------------------------------------------------------------------------
(* Erasing.                                                                *)

\* The erasure of the only element.
LEMMA RootErased ==
    ASSUME TypeOK, PlainWhole, Unsized = {}, DropRoot, call'.pc = "return"
    PROVE  Whole'
<1>1. /\ root \in DOMAIN leaf /\ leaf' = Free(leaf, root) /\ root' = Null
      /\ count' = count - 1 /\ inner' = inner
  BY DEF DropRoot
<1>2. Tree(inner', leaf', root', Null, Null)
  BY <1>1, HeapsTyped, RootDropped DEF PlainWhole
<1>3. DOMAIN leaf' = DOMAIN leaf \ {root}
  BY <1>1 DEF Free
<1>4. IsFiniteSet(DOMAIN leaf') /\ count' = Cardinality(DOMAIN leaf')
  BY <1>1, <1>3, FS_RemoveElement DEF PlainWhole
<1>5. PlainWhole'
  BY <1>1, <1>2, <1>4 DEF PlainWhole
<1> QED
  BY <1>5, WholeIsPlainNext DEF Replacing

\* The erasure of another leaf: its node is at most one child short.
LEMMA LeafErased ==
    ASSUME TypeOK, TypeOK', PlainWhole, Unsized = {},
           NEW o, NEW n, NEW b \in Byte, NEW k \in Keys, NEW at, DropLeaf(o, n, b, k, at),
           Agree(n.path, k, inner[n].depth)
    PROVE  ShapeInv'
<1> DEFINE l == inner[n].child[b]
<1>1. /\ n \in DOMAIN inner /\ l \in DOMAIN leaf
      /\ leaf' = Free(leaf, l)
      /\ inner' = [inner EXCEPT ![n] = EraseChild(inner[n], b)]
      /\ count' = count - 1 /\ root' = root
      /\ call' = [pc |-> "shrink", op |-> o, key |-> k, at |-> at, node |-> n, first |-> n]
  BY DEF DropLeaf
<1>2. Tree(inner', leaf', root', Null, Null)
  BY <1>1, HeapsTyped, LeafDropped DEF PlainWhole
<1>3. call'.pc = "shrink" /\ call'.node = n /\ call'.first = n /\ call'.key = k
  BY <1>1
<1>4. l # Null /\ l \notin DOMAIN inner
  BY <1>1, HeapsTyped, HeapFacts DEF Nodes
<1>5. /\ Cardinality(Occupied(EraseChild(inner[n], b))) = Cardinality(Occupied(inner[n])) - 1
      /\ EraseChild(inner[n], b).count = inner[n].count - 1
  BY <1>1, <1>4, InnerTyped, EraseCounts
<1>6. /\ DOMAIN inner' = DOMAIN inner /\ inner'[n] = EraseChild(inner[n], b)
      /\ inner'[n].depth = inner[n].depth
      /\ \A a \in DOMAIN inner : a # n => inner'[a] = inner[a]
  BY <1>1, InnerTyped DEF EraseChild, InnerNode
<1> HIDE DEF l
<1>7. Counted(inner')
  BY <1>5, <1>6 DEF PlainWhole, Counted
<1>8. ASSUME NEW a \in DOMAIN inner', a # n  PROVE Fits(inner', Null, Null, a)
  <2>1. Fits(inner, Null, Null, a)
    BY <1>6, <1>8 DEF PlainWhole
  <2> QED
    BY <1>6, <1>8, <2>1 DEF Fits
<1>9. Nearly(inner', n)
  <2>1. Fits(inner, Null, Null, n)
    BY <1>1 DEF PlainWhole
  <2>2. inner[n].count \in MinSize(n.type)..MaxSize(n.type)
    BY <1>4, <2>1, PlainSubst DEF Fits, l
  <2>3. inner'[n].count = inner[n].count - 1
    BY <1>5, <1>6
  <2> QED
    BY <1>1, <2>2, <2>3, InnerTyped DEF Nearly
<1>10. IsFiniteSet(DOMAIN leaf') /\ count' = Cardinality(DOMAIN leaf')
  <2>1. DOMAIN leaf' = DOMAIN leaf \ {l}
    BY <1>1 DEF Free
  <2> QED
    BY <1>1, <2>1, FS_RemoveElement DEF PlainWhole
<1>11. Gone' = Null /\ Instead' = n
  BY <1>3 DEF Gone, Instead, Fixing
<1>12. RootView' = root'
  <2>1. ParentOf(n)' = Par(inner', leaf', n)
    BY DEF ParentOf, Par
  <2>2. n \in Nodes(inner', leaf')
    BY <1>1, <1>6 DEF Nodes
  <2>3. ASSUME Par(inner', leaf', n) = Dummy  PROVE n = root'
    <3>1. Heaps(inner', leaf')
      BY DEF TypeOK, Heaps
    <3> QED
      BY <1>2, <2>2, <2>3, <3>1, RootRelinked, Reread, HeapFacts
  <2> QED
    BY <1>3, <2>1, <2>3 DEF RootView
<1>13. /\ Tree(inner', leaf', RootView', Gone', Instead')
       /\ \A a \in DOMAIN inner' : Fits(inner', Null, Null, a) => Fits(inner', Gone', Instead', a)
  <2>1. Null \notin Nodes(inner', leaf')
    <3>1. Heaps(inner', leaf')
      BY DEF TypeOK, Heaps
    <3> QED
      BY <3>1, HeapFacts
  <2> QED
    BY <1>2, <1>11, <1>12, <2>1, Reread, RereadSizes
<1>14. Unsized' = {n}
  BY <1>3 DEF Unsized
<1>15. ASSUME NEW a \in DOMAIN inner', a = n  PROVE Spared(a)'
  BY <1>3, <1>9, <1>15 DEF Spared
<1>16. Sized'
  BY <1>8, <1>13, <1>14, <1>15 DEF Sized
<1>17. Whole'
  BY <1>7, <1>10, <1>13, <1>16 DEF Whole
<1>18. ShrinkFits'
  BY <1>1, <1>3, <1>6, <1>12 DEF ShrinkFits
<1> QED
  BY <1>3, <1>17, <1>18, OtherCallsNext DEF ShapeInv

\* The four ways to delete the leaf of an erasure.
LEMMA EraseShape ==
    ASSUME ShapeInv, EraseRoot \/ EraseLeaf \/ UnlinkRoot \/ UnlinkLeaf
    PROVE  ShapeInv'
<1>1. /\ TypeOK' /\ TypeOK /\ WalkFits /\ PlainWhole
      /\ call.pc \in {"walk", "unlink"}
  BY EraseType, WholeIsPlain
     DEF ShapeInv, Replacing, EraseRoot, EraseLeaf, UnlinkRoot, UnlinkLeaf, AtLeaf, Walking
<1>2. Unsized = {}
  <2>1. call.pc = "walk" => call.op = "erase"
    BY DEF EraseRoot, EraseLeaf, UnlinkRoot, UnlinkLeaf, AtLeaf, Walking
  <2> QED
    BY <1>1, <2>1 DEF Unsized, InsertOps
<1>3. CASE EraseRoot \/ UnlinkRoot
  <2>1. DropRoot /\ call'.pc = "return"
    BY <1>3 DEF EraseRoot, UnlinkRoot, Return
  <2>2. Whole'
    BY <1>1, <1>2, <2>1, RootErased
  <2> QED
    BY <1>1, <2>1, <2>2, ToPlainCall DEF PlainPcs
<1>4. CASE EraseLeaf
  <2> DEFINE d == call.depth - 1
  <2>1. /\ call.pc = "walk" /\ call.cur # root /\ d \in Chunks
        /\ DropLeaf("erase", call.prev, call.key[d], call.key, {})
    BY <1>4 DEF EraseLeaf, AtLeaf, Walking
  <2>2. call.key \in Keys
    BY <1>1, <2>1, CallShape DEF WalkCall, TypeOK
  <2>3. inner[call.prev].depth = d /\ Agree(call.prev.path, call.key, d)
    BY <1>1, <2>1 DEF WalkFits
  <2>4. call.key[d] \in Byte
    BY <2>1, <2>2, KeyChunk
  <2> QED
    BY <1>1, <1>2, <2>1, <2>2, <2>3, <2>4, LeafErased
<1>5. CASE UnlinkLeaf
  <2> DEFINE l == LeafOf(call.key)
             n == leaf[l].parent
             b == call.key[inner[n].depth]
  <2>1. /\ l # root /\ l \in DOMAIN leaf /\ n \in DOMAIN inner
        /\ DropLeaf("erase_at", n, b, call.key, call.at)
    BY <1>5 DEF UnlinkLeaf
  <2>2. l.path = call.key /\ call.key \in Keys
    BY <1>1, <2>1, HeapsTyped, HeapFacts DEF LeafOf
  <2>3. Hangs(inner, leaf, Null, Null, l) /\ Par(inner, leaf, l) = n
    BY <1>1, <2>1 DEF PlainWhole, Tree, Places, Nodes, Par
  <2>4. b \in Byte /\ inner[n].child[b] = l /\ l # Null
    BY <2>2, <2>3, PlainSubst DEF Hangs
  <2>5. Belongs(inner, leaf, n, b, l)
    BY <1>1, <2>1, <2>4, PlainSubst DEF PlainWhole, Tree, Slots
  <2>6. Agree(n.path, call.key, inner[n].depth)
    BY <2>2, <2>5 DEF Belongs, Agree
  <2> QED
    BY <1>1, <1>2, <2>1, <2>2, <2>4, <2>6, LeafErased
<1> QED
  BY <1>3, <1>4, <1>5

\* The steps of the iterators change nothing of the tree.
LEMMA MoveShape ==
    ASSUME ShapeInv, Climb \/ ClimbPastTop \/ GoDown \/ ArriveAtLeaf \/ Resume
    PROVE  ShapeInv'
<1>1. TypeOK' /\ TypeOK
  BY ClimbType, DownType, ResumeType DEF ShapeInv
<1>2. UNCHANGED treeVars /\ call.pc \in {"climb", "down", "return"}
  BY DEF Climb, ClimbPastTop, GoDown, ArriveAtLeaf, Resume
<1>3. Whole /\ Unsized = {} /\ call.pc \notin Replacing
  BY <1>2 DEF ShapeInv, Unsized, Replacing
<1>4. call'.pc \in PlainPcs
  <2>1. ASSUME NEW o, NEW k, NEW at, Arrive(o, k, at)  PROVE call'.pc \in PlainPcs
    BY <2>1 DEF Arrive, Return, PlainPcs
  <2>2. CASE Climb
    <3>1. call \in ClimbCall
      BY <1>1, <2>2, CallShape DEF Climb, TypeOK
    <3> QED
      BY <2>2, <3>1 DEF Climb, ClimbCall, PlainPcs
  <2>3. CASE ClimbPastTop
    BY <2>1, <2>3 DEF ClimbPastTop, PlainPcs
  <2>4. CASE GoDown
    <3>1. call \in DownCall
      BY <1>1, <2>4, CallShape DEF GoDown, TypeOK
    <3> QED
      BY <2>4, <3>1 DEF GoDown, DownCall, PlainPcs
  <2>5. CASE ArriveAtLeaf
    BY <2>1, <2>5 DEF ArriveAtLeaf
  <2>6. CASE Resume
    BY <2>6 DEF Resume, Idle, PlainPcs
  <2> QED
    BY <2>2, <2>3, <2>4, <2>5, <2>6
<1>5. Whole'
  BY <1>2, <1>3, <1>4, QuietWhole DEF PlainPcs, Replacing
<1> QED
  BY <1>1, <1>4, <1>5, ToPlainCall

-----------------------------------------------------------------------------
(* shrink_after_erase.                                                     *)

\* A node that shrinks is the one that the leaf was erased from, and is one
\* child short.
LEMMA UnderfullNode ==
    ASSUME ShapeInv, Underfull
    PROVE  /\ TypeOK /\ Counted(inner) /\ call.pc = "shrink" /\ call \in ShrinkCall
           /\ call.key \in Keys
           /\ call.node \in DOMAIN inner /\ call.node = call.first /\ RootView = root
           /\ Agree(call.node.path, call.key, inner[call.node].depth)
           /\ inner[call.node].count = MinSize(call.node.type) - 1
           /\ Tree(inner, leaf, root, Null, Null)
           /\ \A a \in DOMAIN inner : a # call.node => Fits(inner, Null, Null, a)
           /\ IsFiniteSet(DOMAIN leaf) /\ count = Cardinality(DOMAIN leaf)
<1>1. /\ call.pc = "shrink" /\ call.node \in DOMAIN inner
      /\ inner[call.node].count < MinSize(call.node.type)
  BY DEF Underfull
<1>2. TypeOK /\ Whole /\ ShrinkFits /\ call \in ShrinkCall
  BY <1>1, CallShape DEF ShapeInv, TypeOK
<1>3. inner[call.node].count \in Int /\ MinSize(call.node.type) \in Nat
      /\ MaxSize(call.node.type) \in Nat /\ call.node.type \in InnerTypes
  BY <1>1, <1>2, InnerTyped
<1>4. call.node = call.first
  BY <1>1, <1>2, <1>3 DEF ShrinkFits
<1>5. Gone = Null /\ RootView = root /\ Unsized = {call.node}
  BY <1>1, <1>2, <1>4 DEF Gone, Unsized, ShrinkFits
<1>6. /\ Tree(inner, leaf, root, Null, Null)
      /\ \A a \in DOMAIN inner : \/ Fits(inner, Null, Null, a)
                                 \/ a = call.node /\ Nearly(inner, a)
  BY <1>1, <1>2, <1>5, NullRead DEF Whole, Sized, Spared
<1>7. inner[call.node].count = MinSize(call.node.type) - 1
  <2>1. CASE Nearly(inner, call.node)
    BY <1>1, <1>3, <2>1 DEF Nearly
  <2>2. CASE Fits(inner, Null, Null, call.node)
    <3>1. inner[call.node].count = 1 /\ call.node.type = "node_4"
      BY <1>1, <1>3, <2>2 DEF Fits
    <3> QED
      BY <3>1 DEF MinSize
  <2> QED
    BY <1>1, <1>6, <2>1, <2>2
<1> QED
  BY <1>1, <1>2, <1>4, <1>5, <1>6, <1>7 DEF ShrinkFits, Whole

\* An underfull node is replaced by the smaller layout; its parent's slot still
\* holds the old address, which is then read as the new one.
LEMMA ShrinkToNodeShape == ASSUME ShapeInv, ShrinkToNode  PROVE ShapeInv'
<1> DEFINE old  == call.node
           t    == Shrunk(old.type)
           new  == [old EXCEPT !.type = t]
           made == [inner[old] EXCEPT !.count = MaxSize(t)]
           in2  == RetypedInner(inner, old, t, made)
           lf2  == RetypedLeaf(inner, leaf, old, t)
           p    == inner[old].parent
<1>1. /\ Underfull /\ old.type # "node_4" /\ new \notin DOMAIN inner
      /\ inner' = in2 /\ leaf' = lf2 /\ call' = [call EXCEPT !.node = new]
      /\ root' = root /\ count' = count
  BY DEF ShrinkToNode, RetypedInner, RetypedLeaf
<1>2. /\ TypeOK /\ Counted(inner) /\ call.pc = "shrink" /\ call \in ShrinkCall
      /\ call.key \in Keys
      /\ old \in DOMAIN inner /\ old = call.first /\ RootView = root
      /\ Agree(old.path, call.key, inner[old].depth)
      /\ inner[old].count = MinSize(old.type) - 1
      /\ Tree(inner, leaf, root, Null, Null)
      /\ \A a \in DOMAIN inner : a # old => Fits(inner, Null, Null, a)
      /\ IsFiniteSet(DOMAIN leaf) /\ count = Cardinality(DOMAIN leaf)
  BY <1>1, UnderfullNode
<1>3. /\ call'.pc = "shrink" /\ call'.node = new /\ call'.first = old /\ call'.key = call.key
  BY <1>1, <1>2 DEF ShrinkCall
<1>4. /\ Heaps(inner, leaf) /\ inner[old] \in InnerNode /\ t \in InnerTypes
      /\ old.type \in InnerTypes /\ old # Null /\ old # Dummy /\ old \notin DOMAIN leaf
  BY <1>2, HeapsTyped, InnerTyped, LayoutTypes
<1>5. made \in InnerNode /\ made.parent = p /\ made.depth = inner[old].depth
      /\ made.child = inner[old].child /\ made.count = inner[old].count
  <2>1. MaxSize(t) = inner[old].count /\ MaxSize(t) \in Int
    BY <1>1, <1>2, <1>4, NextLayout, SizeTypes
  <2> HIDE DEF t
  <2> QED
    BY <1>4, <2>1 DEF InnerNode
<1> HIDE DEF made
<1>6. Tree(in2, lf2, IF root = old THEN new ELSE root, old, new)
  BY <1>1, <1>2, <1>4, <1>5, Retyped DEF RetypedInner, RetypedLeaf
<1>7. /\ DOMAIN in2 = (DOMAIN inner \ {old}) \cup {new}
      /\ DOMAIN lf2 = DOMAIN leaf
      /\ new \notin Nodes(inner, leaf) /\ new.path = old.path /\ new.type = t
      /\ in2[new].depth = inner[old].depth
      /\ in2[new].parent = p /\ in2[new].count = inner[old].count
      /\ Counted(in2)
      /\ \A a \in DOMAIN inner \ {old} : Fits(inner, Null, Null, a) => Fits(in2, old, new, a)
  <2>1. Recast(inner, leaf, old, new, t, in2, lf2)
    BY <1>1, <1>2, <1>4, <1>5, RetypedSizes
  <2> QED
    BY <2>1 DEF Recast
<1> HIDE DEF in2, lf2, new, old
<1>8. new # old /\ new \notin DOMAIN leaf /\ old \notin Live'
  <2>1. new # old /\ new \notin DOMAIN leaf
    BY <1>2, <1>7 DEF Nodes
  <2> QED
    BY <1>1, <1>4, <1>7, <2>1 DEF Live
<1>9. Gone' = old /\ Instead' = new
  BY <1>3, <1>8 DEF Gone, Instead, Fixing
<1>10. RootView' = IF root = old THEN new ELSE root
  <2>1. ParentOf(call.node)' = p
    BY <1>1, <1>3, <1>7, <1>8 DEF ParentOf
  <2>2. root = old => p = Dummy
    BY <1>2, <1>4 DEF Tree, RootFits, Par
  <2>3. p = Dummy => root = old
    BY <1>2, <1>3, <1>4 DEF RootView, Fixing, ParentOf, old
  <2> QED
    BY <1>1, <1>3, <2>1, <2>2, <2>3 DEF RootView, Fixing
<1>11. ASSUME NEW a, a = new  PROVE inner'[a].count \in MinSize(a.type)..MaxSize(a.type)
  <2>1. inner'[new].count = MaxSize(t)
    BY <1>1, <1>2, <1>4, <1>7, NextLayout
  <2> QED
    BY <1>4, <1>7, <1>11, <2>1, NextLayout, SizeTypes
<1>12. Sized'
  <2> SUFFICES ASSUME NEW a \in DOMAIN inner'  PROVE Fits(inner', Gone', Instead', a)
    BY DEF Sized
  <2>1. CASE a = new
    BY <1>11, <2>1 DEF Fits
  <2>2. CASE a # new
    BY <1>1, <1>2, <1>7, <1>9, <2>2
  <2> QED
    BY <2>1, <2>2
<1>13. Tree(inner', leaf', RootView', Gone', Instead')
  BY <1>1, <1>6, <1>9, <1>10
<1>14. Counted(inner') /\ IsFiniteSet(DOMAIN leaf') /\ count' = Cardinality(DOMAIN leaf')
  BY <1>1, <1>2, <1>7
<1>15. Whole'
  BY <1>12, <1>13, <1>14 DEF Whole
<1>16. ShrinkFits'
  <2>1. inner'[new].count >= MinSize(new.type)
    BY <1>4, <1>7, <1>11, SizeTypes
  <2> QED
    BY <1>1, <1>2, <1>3, <1>4, <1>7, <1>8, <2>1 DEF ShrinkFits
<1>17. TypeOK'
  BY <1>2, ShrinkToNodeType
<1> QED
  BY <1>3, <1>15, <1>16, <1>17, OtherCallsNext DEF ShapeInv

\* A node with a single child has it in a single slot, which the scan finds.
LEMMA SingleChild ==
    ASSUME NEW n \in InnerNode, Cardinality(Occupied(n)) = 1
    PROVE  /\ Occupied(n) # {}
           /\ \E b \in Byte : /\ Occupied(n) = {b} /\ OnlyChild(n) = n.child[b]
                              /\ n.child[b] # Null
<1>1. PICK b : Occupied(n) = {b}
  BY OccupiedFinite
<1>2. b \in Byte /\ n.child[b] # Null
  BY <1>1 DEF Occupied
<1>3. Min(Occupied(n)) = b
  BY <1>1, ExtremeChildren
<1> QED
  BY <1>1, <1>2, <1>3 DEF OnlyChild

\* A node 4 with a leaf as its only child is replaced by the leaf.
LEMMA ShrinkToLeafShape == ASSUME ShapeInv, ShrinkToLeaf  PROVE ShapeInv'
<1> DEFINE old  == call.node
           kid  == OnlyChild(inner[old])
           p    == inner[old].parent
           d    == inner[old].depth
<1>1. /\ Underfull /\ old.type = "node_4" /\ kid \in DOMAIN leaf
      /\ leaf' = [leaf EXCEPT ![kid].parent = p]
      /\ inner' = Free(inner, old)
      /\ call' = [pc |-> "compress", op |-> call.op, key |-> call.key,
                  at |-> call.at, node |-> kid, first |-> call.first, depth |-> d, j |-> 1]
      /\ root' = root /\ count' = count
  BY DEF ShrinkToLeaf
<1>2. /\ TypeOK /\ Counted(inner) /\ call.pc = "shrink" /\ call.key \in Keys
      /\ old \in DOMAIN inner /\ old = call.first /\ RootView = root
      /\ Agree(old.path, call.key, d)
      /\ inner[old].count = MinSize(old.type) - 1
      /\ Tree(inner, leaf, root, Null, Null)
      /\ \A a \in DOMAIN inner : a # old => Fits(inner, Null, Null, a)
      /\ IsFiniteSet(DOMAIN leaf) /\ count = Cardinality(DOMAIN leaf)
  BY <1>1, UnderfullNode
<1>3. /\ call'.pc = "compress" /\ call'.node = kid /\ call'.first = old /\ call'.key = call.key
      /\ call'.depth = d /\ call'.j = 1
  BY <1>1, <1>2
<1>4. /\ Heaps(inner, leaf) /\ inner[old] \in InnerNode /\ d \in Nat
      /\ old # Null /\ old # Dummy /\ old \notin DOMAIN leaf
      /\ kid # Null /\ kid \notin DOMAIN inner
  BY <1>1, <1>2, HeapsTyped, InnerTyped, HeapFacts DEF Nodes
<1>5. Cardinality(Occupied(inner[old])) = 1
  BY <1>1, <1>2 DEF MinSize, Counted
<1>6. PICK b \in Byte : Occupied(inner[old]) = {b} /\ kid = inner[old].child[b]
  BY <1>4, <1>5, SingleChild
<1> HIDE DEF kid, old, p, d
<1>7. \A e \in Byte : inner[old].child[e] # Null => Subst(inner[old].child[e], Null, Null) = kid
  BY <1>6, PlainSubst DEF Occupied
<1>8. Belongs(inner, leaf, old, b, kid)
  BY <1>2, <1>4, <1>6, PlainSubst DEF Tree, Slots
<1>9. leaf[kid].parent = old /\ Agree(kid.path, call.key, d)
  <2>1. leaf[kid].parent = old /\ Agree(kid.path, old.path, d)
    BY <1>1, <1>8 DEF Belongs, Par, d
  <2> QED
    BY <1>2, <2>1, AgreeTrans
<1>10. Tree(inner', leaf', IF p = Dummy THEN kid ELSE root, old, kid)
  <2>1. OnlyLeaf(inner, leaf, root, Null, Null, kid, old)
    BY <1>1, <1>2, <1>4, <1>7, <1>9, HeapFacts DEF OnlyLeaf
  <2>2. Tree(Free(inner, old), Raised(leaf, kid, p), IF p = Dummy THEN kid ELSE root, old, kid)
    BY <2>1, OneWayGone DEF p
  <2> QED
    BY <1>1, <2>2 DEF Raised
<1>11. /\ Counted(inner')
       /\ \A a \in DOMAIN inner \ {old} :
              Fits(inner, Null, Null, a) => \/ Fits(inner', old, kid, a)
                                            \/ a = p /\ OneWayed(inner', a)
  BY <1>1, <1>2, <1>4, <1>9, OneWayGoneSizes DEF p
<1>12. DOMAIN inner' = DOMAIN inner \ {old} /\ \A a \in DOMAIN inner' : inner'[a] = inner[a]
  BY <1>1 DEF Free
<1>13. DOMAIN leaf' = DOMAIN leaf /\ leaf'[kid].parent = p
  BY <1>1, <1>4, HeapFacts DEF LeafNode
<1>14. Gone' = old /\ Instead' = kid
  BY <1>2, <1>3, <1>4 DEF Gone, Instead, Fixing
<1>15. RootView' = IF p = Dummy THEN kid ELSE root
  BY <1>1, <1>3, <1>13 DEF RootView, Fixing, ParentOf
<1>16. Unsized' = {p}
  BY <1>3, <1>13 DEF Unsized
<1>17. Sized'
  <2> SUFFICES ASSUME NEW a \in DOMAIN inner'
               PROVE  Fits(inner', Gone', Instead', a) \/ (a \in Unsized' /\ Spared(a)')
    BY DEF Sized
  <2>1. Fits(inner', old, kid, a) \/ (a = p /\ OneWayed(inner', a))
    BY <1>2, <1>11, <1>12
  <2> QED
    BY <1>3, <1>14, <1>16, <2>1 DEF Spared
<1>18. IsFiniteSet(DOMAIN leaf') /\ count' = Cardinality(DOMAIN leaf')
  BY <1>1, <1>2, <1>13
<1>19. Whole'
  BY <1>10, <1>11, <1>14, <1>15, <1>17, <1>18 DEF Whole
<1>20. \/ p = Dummy /\ d - 1 = -1
       \/ p \in DOMAIN inner' /\ inner'[p].depth = d - 1
  <2>1. CASE old = root
    <3>1. d = 0 /\ p = Dummy
      BY <1>2, <1>4, <2>1 DEF Tree, RootFits, Par, p, d
    <3> QED
      BY <3>1
  <2>2. CASE old # root
    <3>1. Hangs(inner, leaf, Null, Null, old) /\ Par(inner, leaf, old) = p
      BY <1>2, <1>4, <2>2 DEF Tree, Places, Nodes, Par, p
    <3>2. p \in DOMAIN inner /\ d = inner[p].depth + 1
      BY <1>2, <3>1, PlainSubst DEF Hangs, Tree, Slots, Belongs, d
    <3>3. inner[p].depth \in Nat
      BY <1>2, <3>2, InnerTyped
    <3>4. p # old
      BY <3>2, <3>3 DEF d
    <3> QED
      BY <1>12, <3>2, <3>3, <3>4
  <2> QED
    BY <2>1, <2>2
<1>21. CompressFits'
  <2>1. old \notin Live'
    BY <1>4, <1>12, <1>13 DEF Live
  <2> QED
    BY <1>1, <1>2, <1>3, <1>4, <1>9, <1>13, <1>20, <2>1 DEF CompressFits
<1>22. TypeOK'
  BY <1>2, ShrinkToLeafType
<1> QED
  BY <1>3, <1>19, <1>21, <1>22, OtherCallsNext DEF ShapeInv

\* A node 4 with a single inner node below it may stay.
LEMMA KeepOneWayShape == ASSUME ShapeInv, KeepOneWay  PROVE ShapeInv'
<1> DEFINE n == call.node
<1>1. /\ Underfull /\ n.type = "node_4" /\ OnlyChild(inner[n]) \in DOMAIN inner
      /\ call'.pc = "return"
      /\ inner' = inner /\ leaf' = leaf /\ root' = root /\ count' = count
  BY DEF KeepOneWay, Return, treeVars
<1>2. /\ TypeOK /\ Counted(inner) /\ n \in DOMAIN inner
      /\ inner[n].count = MinSize(n.type) - 1
      /\ Tree(inner, leaf, root, Null, Null)
      /\ \A a \in DOMAIN inner : a # n => Fits(inner, Null, Null, a)
      /\ IsFiniteSet(DOMAIN leaf) /\ count = Cardinality(DOMAIN leaf)
  BY <1>1, UnderfullNode
<1>3. inner[n].count = 1 /\ Cardinality(Occupied(inner[n])) = 1
  BY <1>1, <1>2 DEF MinSize, Counted
<1>4. PICK b \in Byte : Occupied(inner[n]) = {b} /\ OnlyChild(inner[n]) = inner[n].child[b]
  BY <1>2, <1>3, InnerTyped, SingleChild
<1>5. \A e \in Byte : inner[n].child[e] # Null =>
          Subst(inner[n].child[e], Null, Null) \in DOMAIN inner
  BY <1>1, <1>4, PlainSubst DEF Occupied
<1>6. Fits(inner, Null, Null, n)
  BY <1>1, <1>3, <1>5 DEF Fits
<1>7. PlainWhole'
  BY <1>1, <1>2, <1>6 DEF PlainWhole
<1>8. Whole' /\ TypeOK'
  BY <1>1, <1>2, <1>7, WholeIsPlainNext, ShrinkStopsType DEF Replacing
<1> QED
  BY <1>1, <1>8, ToPlainCall DEF PlainPcs

\* The shrinking ends: without a replacement the call returns, otherwise the
\* key leads to the slot that is still to be written.
LEMMA ShrinkEndsShape == ASSUME ShapeInv, ShrinkEnds  PROVE ShapeInv'
<1> DEFINE n == call.node
<1>1. /\ call.pc = "shrink" /\ n \in DOMAIN inner /\ inner[n].count >= MinSize(n.type)
      /\ inner' = inner /\ leaf' = leaf /\ root' = root /\ count' = count
      /\ n = call.first => call'.pc = "return"
      /\ n # call.first => call' = [pc |-> "relink", op |-> call.op, key |-> call.key,
                                    at |-> call.at, node |-> n, first |-> call.first]
  BY DEF ShrinkEnds, Return, treeVars
<1>2. TypeOK /\ TypeOK' /\ Whole /\ ShrinkFits
  <2>1. TypeOK /\ Whole /\ ShrinkFits
    BY <1>1 DEF ShapeInv
  <2> QED
    BY <2>1, ShrinkStopsType
<1>3. \A a \in DOMAIN inner : Fits(inner, Gone, Instead, a)
  <2>1. Fits(inner, Gone, Instead, n) \/ Nearly(inner, n)
    BY <1>1, <1>2 DEF Whole, Sized, Spared
  <2>2. Fits(inner, Gone, Instead, n)
    BY <1>1, <1>2, <2>1, InnerTyped DEF Nearly, Fits
  <2>3. Unsized = {n}
    BY <1>1 DEF Unsized
  <2> QED
    BY <1>2, <2>2, <2>3 DEF Whole, Sized
<1>4. CASE n = call.first
  <2>1. Gone = Null /\ RootView = root
    BY <1>1, <1>2, <1>4 DEF Gone, ShrinkFits
  <2>2. Tree(inner, leaf, root, Null, Null) /\ \A a \in DOMAIN inner : Fits(inner, Null, Null, a)
    BY <1>2, <1>3, <2>1, NullRead DEF Whole
  <2>3. PlainWhole'
    BY <1>1, <1>2, <2>2 DEF PlainWhole, Whole
  <2>4. Whole'
    BY <1>1, <1>4, <2>3, WholeIsPlainNext DEF Replacing
  <2> QED
    BY <1>1, <1>2, <1>4, <2>4, ToPlainCall DEF PlainPcs
<1>5. CASE n # call.first
  <2>1. call'.pc = "relink" /\ call'.node = n /\ call'.first = call.first /\ call'.key = call.key
    BY <1>1, <1>5
  <2>2. Gone' = Gone /\ Instead' = Instead /\ RootView' = RootView
    BY <1>1, <2>1 DEF Gone, Instead, RootView, Fixing, ParentOf
  <2>3. Whole'
    BY <1>1, <1>2, <1>3, <2>2 DEF Whole, Sized
  <2>4. RelinkFits'
    <3>1. ASSUME ParentOf(n) \in DOMAIN inner
          PROVE  Agree(n.path, call.key, inner[ParentOf(n)].depth + 1)
      <4> DEFINE p == ParentOf(n)
      <4>1. p # Dummy /\ Par(inner, leaf, n) = p /\ n \in Nodes(inner, leaf)
        BY <1>1, <1>2, <3>1, InnerTyped DEF Par, ParentOf, Nodes
      <4>2. n # RootView
        BY <1>1, <1>2, <4>1, InnerTyped DEF Whole, Tree, RootFits
      <4>3. Hangs(inner, leaf, Gone, Instead, n)
        BY <1>2, <4>1, <4>2 DEF Whole, Tree, Places
      <4>4. inner[n].depth = inner[p].depth + 1
        BY <1>1, <1>2, <4>1, <4>3 DEF Hangs, Whole, Tree, Slots, Belongs
      <4> QED
        BY <1>1, <1>2, <4>4 DEF ShrinkFits
    <3>2. ParentOf(n)' = ParentOf(n)' /\ \A a : ParentOf(a)' = ParentOf(a)
      BY <1>1 DEF ParentOf
    <3>3. call.key \in Keys /\ call.first \notin Live /\ call.first # Null /\ n \in Live
      BY <1>1, <1>2, <1>5 DEF ShrinkFits, Live
    <3>4. Live' = Live
      BY <1>1 DEF Live
    <3> QED
      BY <1>1, <2>1, <3>1, <3>2, <3>3, <3>4 DEF RelinkFits
  <2> QED
    BY <1>2, <2>1, <2>3, <2>4, OtherCallsNext DEF ShapeInv
<1> QED
  BY <1>4, <1>5

-----------------------------------------------------------------------------
(* Path compression after an erasure.                                      *)

\* What a step of the compression starts from.
LEMMA CompressView ==
    ASSUME ShapeInv, call.pc = "compress"
    PROVE  /\ TypeOK /\ Whole /\ CompressFits /\ Counted(inner)
           /\ Gone = call.first /\ Instead = call.node /\ call.node \in DOMAIN leaf
           /\ RootView = IF leaf[call.node].parent = Dummy THEN call.node ELSE root
           /\ Tree(inner, leaf, RootView, call.first, call.node)
           /\ \A a \in DOMAIN inner : \/ Fits(inner, call.first, call.node, a)
                                      \/ a = leaf[call.node].parent /\ OneWayed(inner, a)
           /\ call.first \notin Nodes(inner, leaf) /\ call.first # Null
           /\ call.node \notin DOMAIN inner
           /\ call.depth \in Int /\ call.j \in Int /\ call \in CompressCall
<1>1. TypeOK /\ Whole /\ CompressFits /\ call.node \in DOMAIN leaf /\ call \in CompressCall
  BY CallShape DEF ShapeInv, CompressFits, TypeOK
<1>2. call.first \notin Nodes(inner, leaf) /\ call.first # Null /\ call.node \notin DOMAIN inner
  BY <1>1, LiveNodes, HeapsTyped, HeapFacts DEF CompressFits
<1>3. call.first # call.node
  BY <1>1, <1>2 DEF Nodes
<1>4. Gone = call.first /\ Instead = call.node
  BY <1>3 DEF Gone, Instead, Fixing
<1>5. RootView = IF leaf[call.node].parent = Dummy THEN call.node ELSE root
  BY <1>1 DEF RootView, Fixing, ParentOf
<1>6. Unsized = {leaf[call.node].parent}
  BY DEF Unsized
<1>7. \A a \in DOMAIN inner : \/ Fits(inner, call.first, call.node, a)
                              \/ a = leaf[call.node].parent /\ OneWayed(inner, a)
  BY <1>1, <1>4, <1>6 DEF Whole, Sized, Spared
<1>8. call.depth \in Int /\ call.j \in Int
  BY <1>1 DEF CompressCall, Chunks
<1> QED
  BY <1>1, <1>2, <1>4, <1>5, <1>7, <1>8 DEF Whole

\* Where the leaf hangs.
LEMMA LeafHangs ==
    ASSUME ShapeInv, call.pc = "compress", NEW p \in DOMAIN inner, leaf[call.node].parent = p
    PROVE  /\ \E b \in Byte : /\ inner[p].child[b] # Null
                              /\ Subst(inner[p].child[b], call.first, call.node) = call.node
           /\ inner[p].count >= 1
           /\ inner[p].depth = call.depth - call.j /\ p # Dummy
<1>1. /\ TypeOK /\ CompressFits /\ Counted(inner)
      /\ Tree(inner, leaf, RootView, call.first, call.node)
      /\ call.node \in DOMAIN leaf
  BY CompressView
<1>2. /\ p # Dummy /\ Par(inner, leaf, call.node) = p /\ call.node \in Nodes(inner, leaf)
      /\ call.node # Null
  BY <1>1, InnerTyped, HeapsTyped, HeapFacts DEF Par, Nodes
<1>3. Hangs(inner, leaf, call.first, call.node, call.node)
  BY <1>1, <1>2, CompressView DEF Tree, RootFits, Places
<1>4. PICK b \in Byte : /\ inner[p].child[b] # Null
                        /\ Subst(inner[p].child[b], call.first, call.node) = call.node
  BY <1>2, <1>3 DEF Hangs
<1>5. inner[p].count >= 1
  <2>1. Occupied(inner[p]) # {}
    BY <1>4 DEF Occupied
  <2>2. Cardinality(Occupied(inner[p])) \in Nat /\ Cardinality(Occupied(inner[p])) # 0
    BY <1>1, <2>1, InnerTyped, OccupiedFinite
  <2> QED
    BY <1>1, <2>2 DEF Counted
<1>6. inner[p].depth = call.depth - call.j
  BY <1>1, <1>2 DEF CompressFits
<1> QED
  BY <1>2, <1>4, <1>5, <1>6

\* The step to the final update of the tree.
LEMMA ToRelink ==
    ASSUME ShapeInv, call.pc = "compress", TypeOK', EndCompress, UNCHANGED treeVars,
           \A a \in DOMAIN inner : Fits(inner, call.first, call.node, a)
    PROVE  ShapeInv'
<1>1. /\ TypeOK /\ Whole /\ CompressFits /\ Gone = call.first /\ Instead = call.node
      /\ call.node \in DOMAIN leaf /\ call.first \notin Nodes(inner, leaf) /\ call.first # Null
      /\ call.depth \in Int /\ call.j \in Int
  BY CompressView
<1>2. /\ call'.pc = "relink" /\ call'.node = call.node /\ call'.first = call.first
      /\ call'.key = call.key
  BY DEF EndCompress
<1>3. inner' = inner /\ leaf' = leaf /\ root' = root /\ count' = count
  BY DEF treeVars
<1>4. Gone' = Gone /\ Instead' = Instead /\ RootView' = RootView
  BY <1>2, <1>3 DEF Gone, Instead, RootView, Fixing, ParentOf
<1>5. Whole'
  BY <1>1, <1>3, <1>4 DEF Whole, Sized
<1>6. ASSUME leaf[call.node].parent \in DOMAIN inner
      PROVE  Agree(call.node.path, call.key, inner[leaf[call.node].parent].depth + 1)
  <2>1. inner[leaf[call.node].parent].depth = call.depth - call.j
    BY <1>6, LeafHangs
  <2>2. Agree(call.node.path, call.key, call.depth) /\ call.j >= 1
    BY <1>1 DEF CompressFits
  <2>3. (call.depth - call.j) + 1 \in Int /\ (call.depth - call.j) + 1 =< call.depth
    BY <1>1, <2>2
  <2> QED
    BY <1>1, <2>1, <2>2, <2>3, AgreeLess
<1>7. RelinkFits'
  <2>1. ParentOf(call.node) = leaf[call.node].parent /\ \A a : ParentOf(a)' = ParentOf(a)
    BY <1>1, <1>3 DEF ParentOf
  <2>2. Live' = Live /\ Live = Nodes(inner, leaf)
    BY <1>3, LiveNodes DEF Live
  <2>3. call.key \in Keys /\ call.node \in Live
    BY <1>1 DEF CompressFits, Live
  <2> QED
    BY <1>1, <1>2, <1>3, <1>6, <2>1, <2>2, <2>3 DEF RelinkFits
<1> QED
  BY <1>2, <1>5, <1>7, OtherCallsNext DEF ShapeInv

\* The compression ends where the parent is the dummy node or has more than
\* one child.
LEMMA CompressStopsShape ==
    ASSUME ShapeInv, CompressAtTop \/ CompressEnds
    PROVE  ShapeInv'
<1>1. call.pc = "compress" /\ EndCompress /\ UNCHANGED treeVars
  BY DEF CompressAtTop, CompressEnds, OneWayAbove
<1>2. TypeOK'
  BY <1>1, CompressType, CompressView DEF CompressStep
<1>3. /\ TypeOK /\ CompressFits
      /\ \A a \in DOMAIN inner : \/ Fits(inner, call.first, call.node, a)
                                 \/ a = leaf[call.node].parent /\ OneWayed(inner, a)
      /\ call.depth \in Int /\ call.j \in Int
  BY <1>1, CompressView
<1>4. ASSUME leaf[call.node].parent \in DOMAIN inner, OneWayed(inner, leaf[call.node].parent)
      PROVE  FALSE
  <2> DEFINE p == leaf[call.node].parent
  <2>1. p # Dummy /\ inner[p].depth = call.depth - call.j /\ inner[p].depth \in Nat
    BY <1>1, <1>3, <1>4, LeafHangs, InnerTyped
  <2>2. Size(p) = 1
    BY <1>4 DEF Size, OneWayed
  <2> QED
    BY <2>1, <2>2 DEF CompressAtTop, CompressEnds
<1>5. \A a \in DOMAIN inner : Fits(inner, call.first, call.node, a)
  BY <1>3, <1>4
<1> QED
  BY <1>1, <1>2, <1>5, ToRelink

\* A one-way node above the leaf goes: what is known of the tree without it.
LEMMA Compressed ==
    ASSUME ShapeInv, OneWayAbove, NEW p \in DOMAIN inner, leaf[call.node].parent = p
    PROVE  /\ Tree(Free(inner, p), Raised(leaf, call.node, inner[p].parent),
                   IF inner[p].parent = Dummy THEN call.node ELSE root, p, call.node)
           /\ Heaps(Free(inner, p), Raised(leaf, call.node, inner[p].parent))
           /\ Counted(Free(inner, p))
           /\ \A a \in DOMAIN inner \ {p} :
                  \/ Fits(Free(inner, p), p, call.node, a)
                  \/ a = inner[p].parent /\ OneWayed(Free(inner, p), a)
<1> DEFINE kid == call.node
<1>1. call.pc = "compress" /\ inner[p].count =< 1
  BY DEF OneWayAbove, Size
<1>2. /\ TypeOK /\ Counted(inner) /\ kid \in DOMAIN leaf
      /\ RootView = IF leaf[kid].parent = Dummy THEN kid ELSE root
      /\ Tree(inner, leaf, RootView, call.first, kid)
      /\ call.first \notin Nodes(inner, leaf)
      /\ \A a \in DOMAIN inner : \/ Fits(inner, call.first, kid, a)
                                 \/ a = p /\ OneWayed(inner, a)
  BY <1>1, CompressView
<1>3. PICK b \in Byte : /\ inner[p].child[b] # Null
                        /\ Subst(inner[p].child[b], call.first, kid) = kid
  BY <1>1, LeafHangs
<1>4. inner[p].count = 1 /\ p # Dummy
  BY <1>1, <1>2, LeafHangs, InnerTyped
<1>5. \A e \in Byte : inner[p].child[e] # Null => e = b
  <2>1. PICK c : Occupied(inner[p]) = {c}
    BY <1>2, <1>4, InnerTyped, OccupiedFinite DEF Counted
  <2> QED
    BY <1>3, <2>1 DEF Occupied
<1>6. RootView = root
  BY <1>2, <1>4
<1>7. Heaps(inner, leaf)
  BY <1>2, HeapsTyped
<1> HIDE DEF kid
<1>8. Tree(Free(inner, p), Raised(leaf, kid, inner[p].parent),
           IF inner[p].parent = Dummy THEN kid ELSE root, p, kid)
  <2>1. OnlyLeaf(inner, leaf, root, call.first, kid, kid, p)
    BY <1>2, <1>3, <1>5, <1>6, <1>7 DEF OnlyLeaf, kid
  <2> QED
    BY <2>1, OneWayGone
<1>9. /\ Counted(Free(inner, p))
      /\ \A a \in DOMAIN inner \ {p} :
             \/ Fits(Free(inner, p), p, kid, a)
             \/ a = inner[p].parent /\ OneWayed(Free(inner, p), a)
  BY <1>2, <1>6, <1>7, OneWayGoneSizes DEF kid
<1>10. Heaps(Free(inner, p), Raised(leaf, kid, inner[p].parent))
  <2>1. IsHeap(Free(inner, p), InnerAddr, InnerNode)
    BY <1>7, FreeHeap DEF Heaps
  <2>2. IsHeap(Raised(leaf, kid, inner[p].parent), LeafAddr, LeafNode)
    BY <1>2, <1>7, InnerTyped DEF Heaps, IsHeap, LeafNode, Raised, InnerNode
  <2> QED
    BY <2>1, <2>2 DEF Heaps
<1> QED
  BY <1>8, <1>9, <1>10 DEF kid

\* The one-way node that goes was the root: the leaf hangs from the dummy node.
LEMMA CompressRootShape == ASSUME ShapeInv, CompressRoot  PROVE ShapeInv'
<1> DEFINE kid == call.node
           p   == leaf[kid].parent
           x   == call.first
<1>1. /\ OneWayAbove /\ call.pc = "compress" /\ p \in DOMAIN inner /\ inner[p].parent = Dummy
      /\ leaf' = Raised(leaf, kid, Dummy) /\ inner' = Free(inner, p)
      /\ call'.pc = "relink" /\ call'.node = kid /\ call'.first = x /\ call'.key = call.key
      /\ root' = root /\ count' = count
  BY DEF CompressRoot, OneWayAbove, EndCompress, Raised
<1>2. /\ TypeOK /\ CompressFits /\ Whole /\ kid \in DOMAIN leaf /\ x \notin Nodes(inner, leaf)
      /\ x # Null /\ kid \notin DOMAIN inner
  BY <1>1, CompressView
<1>3. TypeOK'
  BY <1>2, CompressType DEF CompressStep
<1>4. /\ Tree(inner', leaf', kid, p, kid) /\ Heaps(inner', leaf') /\ Counted(inner')
      /\ \A a \in DOMAIN inner \ {p} : \/ Fits(inner', p, kid, a)
                                       \/ a = Dummy
  BY <1>1, Compressed
<1>5. DOMAIN inner' = DOMAIN inner \ {p} /\ DOMAIN leaf' = DOMAIN leaf
      /\ leaf'[kid].parent = Dummy
  BY <1>1, <1>2, HeapsTyped, HeapFacts DEF Free, Raised, LeafNode
<1> HIDE DEF kid, p, x
<1>6. Par(inner', leaf', kid) = Dummy /\ kid \in Nodes(inner', leaf') /\ x \notin Nodes(inner', leaf')
  BY <1>2, <1>5 DEF Par, Nodes
<1>7. Tree(inner', leaf', kid, Null, Null)
  BY <1>4, <1>6, RootRelinked
<1>8. Tree(inner', leaf', kid, x, kid)
  BY <1>6, <1>7, Reread
<1>9. ASSUME NEW a \in DOMAIN inner'  PROVE Fits(inner', x, kid, a)
  <2>1. Fits(inner', p, kid, a)
    BY <1>2, <1>4, <1>5, InnerTyped
  <2>2. Fits(inner', Null, Null, a)
    BY <1>4, <1>6, <2>1, RootRelinkedSizes
  <2> QED
    BY <1>6, <1>7, <2>2, RereadSizes
<1>10. Gone' = x /\ Instead' = kid /\ RootView' = kid
  <2>1. x # kid
    BY <1>2 DEF Nodes
  <2> QED
    BY <1>1, <1>2, <1>5, <2>1 DEF Gone, Instead, RootView, Fixing, ParentOf
<1>11. Whole'
  BY <1>1, <1>2, <1>4, <1>5, <1>8, <1>9, <1>10 DEF Whole, Sized
<1>12. RelinkFits'
  <2>1. Dummy \notin DOMAIN inner'
    BY <1>4, HeapFacts DEF Nodes
  <2>2. call.key \in Keys
    BY <1>1, <1>2 DEF CompressFits
  <2>3. Live' = Nodes(inner', leaf')
    BY DEF Live, Nodes
  <2>4. ParentOf(call.node)' = Dummy
    BY <1>1, <1>2, <1>5 DEF ParentOf, kid
  <2> QED
    BY <1>1, <1>2, <1>6, <2>1, <2>2, <2>3, <2>4 DEF RelinkFits
<1> QED
  BY <1>1, <1>3, <1>11, <1>12, OtherCallsNext DEF ShapeInv

\* A one-way node below another node goes, and the leaf takes its slot.
LEMMA CompressInnerShape == ASSUME ShapeInv, CompressInner  PROVE ShapeInv'
<1> DEFINE kid == call.node
           p   == leaf[kid].parent
           g   == inner[p].parent
           x   == call.first
           d   == call.depth - call.j - 1
           h   == Free(inner, p)
           k   == call.key
<1>1. /\ OneWayAbove /\ call.pc = "compress" /\ p \in DOMAIN inner /\ g \in DOMAIN inner \ {p}
      /\ inner' = [h EXCEPT ![g] = UpdateChild(h[g], k[d], kid)]
      /\ leaf' = Raised(leaf, kid, g)
      /\ call' = [call EXCEPT !.j = call.j + 1]
      /\ root' = root /\ count' = count
  BY DEF CompressInner, OneWayAbove, Raised
<1>2. /\ TypeOK /\ CompressFits /\ Whole /\ kid \in DOMAIN leaf /\ x \notin Nodes(inner, leaf)
      /\ x # Null /\ kid \notin DOMAIN inner /\ call \in CompressCall
      /\ call.depth \in Int /\ call.j \in Int
      /\ RootView = IF p = Dummy THEN kid ELSE root
      /\ Tree(inner, leaf, RootView, x, kid)
      /\ \A a \in DOMAIN inner : \/ Fits(inner, x, kid, a)
                                 \/ a = p /\ OneWayed(inner, a)
  BY <1>1, CompressView
<1>3. TypeOK'
  BY <1>2, CompressType DEF CompressStep
<1>4. /\ call'.pc = "compress" /\ call'.node = kid /\ call'.first = x /\ call'.key = k
      /\ call'.depth = call.depth /\ call'.j = call.j + 1
  BY <1>1, <1>2 DEF CompressCall
<1>5. p # Dummy /\ g # Dummy /\ inner[p].depth = call.depth - call.j
      /\ inner[g].depth \in Nat /\ k \in Keys
  BY <1>1, <1>2, LeafHangs, InnerTyped DEF CompressFits
<1>6. /\ Tree(h, Raised(leaf, kid, g), root, p, kid)
      /\ Heaps(h, Raised(leaf, kid, g)) /\ Counted(h)
      /\ \A a \in DOMAIN inner \ {p} : \/ Fits(h, p, kid, a)
                                       \/ a = g /\ OneWayed(h, a)
  <2>1. /\ Tree(h, Raised(leaf, kid, g), IF g = Dummy THEN kid ELSE root, p, kid)
        /\ Heaps(h, Raised(leaf, kid, g)) /\ Counted(h)
        /\ \A a \in DOMAIN inner \ {p} : \/ Fits(h, p, kid, a)
                                         \/ a = g /\ OneWayed(h, a)
    BY <1>1, Compressed
  <2> QED
    BY <1>5, <2>1
<1>7. /\ DOMAIN h = DOMAIN inner \ {p} /\ DOMAIN leaf' = DOMAIN leaf
      /\ leaf'[kid].parent = g /\ \A a \in DOMAIN h : h[a] = inner[a]
  BY <1>1, <1>2, HeapsTyped, HeapFacts DEF Free, Raised, LeafNode
\* p hangs from g, one level up.
<1>8. inner[g].depth = d
  <2>1. p \in Nodes(inner, leaf) /\ Par(inner, leaf, p) = g
    BY <1>1, <1>2, InnerTyped DEF Nodes, Par
  <2>2. p # RootView
    BY <1>1, <1>2, <1>5, <2>1, InnerTyped DEF Tree, RootFits
  <2>3. Hangs(inner, leaf, x, kid, p)
    BY <1>2, <2>1, <2>2 DEF Tree, Places
  <2> HIDE DEF p, g, x, kid
  <2> DEFINE b == p.path[inner[g].depth]
             c == Subst(inner[g].child[b], x, kid)
  <2>4. b \in Byte /\ inner[g].child[b] # Null /\ c = p
    BY <2>1, <2>3 DEF Hangs
  <2>5. Belongs(inner, leaf, g, b, c)
    BY <1>1, <1>2, <2>4 DEF Tree, Slots
  <2>6. inner[p].depth = inner[g].depth + 1
    BY <1>1, <2>4, <2>5 DEF Belongs
  <2> QED
    BY <1>2, <1>5, <2>6 DEF d
<1> HIDE DEF h, kid, p, g, x, d
<1>9. ReadyToHang(h, leaf', root, p, kid, g, k)
  <2>1. kid \in Nodes(h, leaf') /\ g = Par(h, leaf', kid)
    BY <1>2, <1>7 DEF Nodes, Par
  <2>2. g \in DOMAIN h /\ h[g].depth = d
    BY <1>1, <1>7, <1>8
  <2>3. Agree(kid.path, k, d + 1)
    <3>1. Agree(kid.path, k, call.depth) /\ call.j >= 1
      BY <1>1, <1>2 DEF CompressFits, kid
    <3>2. d + 1 \in Int /\ d + 1 =< call.depth
      BY <1>2, <3>1 DEF d
    <3> QED
      BY <1>2, <3>1, <3>2, AgreeLess
  <2> QED
    BY <1>1, <1>6, <2>1, <2>2, <2>3 DEF ReadyToHang
<1>10. inner' = HungAt(h, g, k, kid)
  <2>1. h[g].depth = d
    BY <1>1, <1>7, <1>8
  <2> QED
    BY <1>1, <1>5, <2>1 DEF HungAt
<1>11. /\ Tree(inner', leaf', root, Null, Null)
       /\ Counted(inner') /\ DOMAIN inner' = DOMAIN h
       /\ \A a \in DOMAIN h : /\ inner'[a].count = h[a].count /\ inner'[a].depth = h[a].depth
                              /\ Fits(h, p, kid, a) => Fits(inner', Null, Null, a)
  <2> DEFINE in2 == HungAt(h, g, k, kid)
  <2>1. /\ Tree(in2, leaf', IF g = Dummy THEN kid ELSE root, Null, Null)
        /\ Counted(in2) /\ DOMAIN in2 = DOMAIN h
        /\ \A a \in DOMAIN h : /\ in2[a].count = h[a].count /\ in2[a].depth = h[a].depth
                               /\ a # g => in2[a] = h[a]
                               /\ Fits(h, p, kid, a) => Fits(in2, Null, Null, a)
    BY <1>9, HungUp
  <2> HIDE DEF in2
  <2> QED
    BY <1>5, <1>10, <2>1 DEF in2
<1>12. x \notin Nodes(inner', leaf')
  BY <1>2, <1>7, <1>11 DEF Nodes
<1>13. Tree(inner', leaf', root, x, kid)
  BY <1>11, <1>12, Reread
<1>14. ASSUME NEW a \in DOMAIN inner'
       PROVE  Fits(inner', x, kid, a) \/ (a = g /\ OneWayed(inner', a))
  <2>1. CASE Fits(h, p, kid, a)
    BY <1>11, <1>12, <2>1, RereadSizes
  <2>2. CASE a = g /\ OneWayed(h, a)
    BY <1>11, <2>2 DEF OneWayed
  <2> QED
    BY <1>6, <1>7, <1>11, <2>1, <2>2
<1>15. Gone' = x /\ Instead' = kid
  <2>1. x # kid
    BY <1>2 DEF Nodes
  <2> QED
    BY <1>4, <2>1 DEF Gone, Instead, Fixing
<1>16. leaf'[call'.node].parent = g /\ call'.node \in DOMAIN leaf'
  BY <1>2, <1>4, <1>7
<1>17. RootView' = root'
  BY <1>1, <1>5, <1>16 DEF RootView, Fixing, ParentOf
<1>18. Unsized' = {g}
  BY <1>4, <1>16 DEF Unsized
<1>19. Sized'
  BY <1>4, <1>14, <1>15, <1>18 DEF Sized, Spared
<1>20. Whole'
  BY <1>1, <1>2, <1>7, <1>11, <1>13, <1>15, <1>17, <1>19 DEF Whole
<1>21. CompressFits'
  <2>1. Live' = Nodes(inner', leaf')
    BY DEF Live, Nodes
  <2>2. g \in DOMAIN inner' /\ inner'[g].depth = call.depth - (call.j + 1)
    BY <1>1, <1>2, <1>7, <1>8, <1>11 DEF d
  <2>3. call.j + 1 \in Nat \ {0} /\ Agree(kid.path, k, call.depth)
    BY <1>1, <1>2 DEF CompressFits, kid
  <2> QED
    BY <1>2, <1>4, <1>5, <1>12, <1>16, <2>1, <2>2, <2>3 DEF CompressFits
<1> QED
  BY <1>3, <1>4, <1>20, <1>21, OtherCallsNext DEF ShapeInv

\* update_child_ptr, and every slot holds what it should again.
LEMMA RelinkShape == ASSUME ShapeInv, Relink  PROVE ShapeInv'
<1> DEFINE n == call.node
           x == call.first
           p == ParentOf(n)
           k == call.key
<1>1. /\ call.pc = "relink" /\ n \in DOMAIN inner \cup DOMAIN leaf
      /\ Writable(inner, p) /\ PointTo(inner, p, k, n) /\ call'.pc = "return"
      /\ leaf' = leaf /\ count' = count
  BY DEF Relink, Return
<1>2. TypeOK /\ TypeOK' /\ Whole /\ RelinkFits
  <2>1. TypeOK /\ Whole /\ RelinkFits
    BY <1>1 DEF ShapeInv
  <2> QED
    BY <2>1, RelinkType
<1>3. n \in Live /\ x \notin Live /\ x # n
  BY <1>1, <1>2 DEF RelinkFits
<1>4. Gone = x /\ Instead = n /\ RootView = (IF p = Dummy THEN n ELSE root) /\ Unsized = {}
  BY <1>1, <1>3 DEF Gone, Instead, RootView, Fixing, Unsized
<1>5. /\ Tree(inner, leaf, RootView, x, n) /\ Counted(inner)
      /\ \A a \in DOMAIN inner : Fits(inner, x, n, a)
      /\ IsFiniteSet(DOMAIN leaf) /\ count = Cardinality(DOMAIN leaf)
  BY <1>2, <1>4 DEF Whole, Sized
<1>6. p = Par(inner, leaf, n) /\ n \in Nodes(inner, leaf)
  BY <1>3, LiveNodes
<1>7. p # Dummy => p \in DOMAIN inner /\ Agree(n.path, k, inner[p].depth + 1)
  BY <1>1, <1>2 DEF RelinkFits, Writable
<1> HIDE DEF n, x, p, k
<1>8. ReadyToHang(inner, leaf, RootView, x, n, p, k)
  BY <1>2, <1>5, <1>6, <1>7, HeapsTyped DEF ReadyToHang
<1> DEFINE in2 == HungAt(inner, p, k, n)
<1>9. /\ Tree(in2, leaf, IF p = Dummy THEN n ELSE RootView, Null, Null)
      /\ Counted(in2) /\ DOMAIN in2 = DOMAIN inner
      /\ \A a \in DOMAIN inner : /\ in2[a].count = inner[a].count
                                 /\ in2[a].depth = inner[a].depth
                                 /\ a # p => in2[a] = inner[a]
                                 /\ Fits(inner, x, n, a) => Fits(in2, Null, Null, a)
  BY <1>8, HungUp
<1>10. inner' = in2 /\ root' = IF p = Dummy THEN n ELSE root
  BY <1>1 DEF PointTo, HungAt
<1> HIDE DEF in2
<1>11. root' = IF p = Dummy THEN n ELSE RootView
  BY <1>4, <1>10
<1>12. PlainWhole'
  BY <1>1, <1>5, <1>9, <1>10, <1>11 DEF PlainWhole
<1>13. Whole'
  BY <1>1, <1>12, WholeIsPlainNext DEF Replacing
<1> QED
  BY <1>1, <1>2, <1>13, ToPlainCall DEF PlainPcs

-----------------------------------------------------------------------------
(* clear().                                                                *)

\* The loop at the top of the recursion goes down into its next child: the
\* nodes it passes over are on the stack or still before it.
LEMMA ClearChildShape == ASSUME ShapeInv, ClearChild  PROVE ShapeInv'
<1> DEFINE n    == Top.node
           b    == Min(Left(Top))
           c    == inner[n].child[b]
           rest == Tail(call.stack)
           deep == [node |-> c, from |-> 0]
           next == [Top EXCEPT !.from = b + 1]
           s    == <<deep, next>> \o rest
<1>1. /\ call.pc = "clear" /\ call.stack # <<>> /\ n \in DOMAIN inner /\ Left(Top) # {}
      /\ call' = [call EXCEPT !.stack = s]
      /\ inner' = inner /\ leaf' = leaf
  BY DEF ClearChild, Clearing, treeVars
<1>2. TypeOK /\ ClearFits /\ call \in ClearCall
  BY <1>1, CallShape DEF ShapeInv, TypeOK
<1>3. TypeOK'
  BY <1>2, ClearType
<1>4. call.stack \in Seq(Frame) /\ Top \in Frame /\ rest \in Seq(Frame)
  BY <1>1, <1>2, HeadTailProperties DEF ClearCall, Top
<1>5. call'.pc = "clear" /\ call'.stack = s
  BY <1>1, <1>2 DEF ClearCall
<1>6. inner[n] \in InnerNode /\ Left(Top) \in SUBSET Occupied(inner[n]) /\ Left(Top) \in SUBSET Nat
      /\ Left(Top) \in SUBSET Byte
  BY <1>1, <1>2, InnerTyped, SizesAssumption DEF Left, Occupied, Byte
<1>7. b \in Left(Top) /\ b \in Byte /\ b \in Nat /\ \A e \in Left(Top) : b =< e
  BY <1>1, <1>6, MinOfBytes
<1>8. /\ deep.node = c /\ deep.from = 0 /\ next.node = n /\ next.from = b + 1
  BY <1>4 DEF Frame
<1>9. c \in Ptr
  BY <1>6, <1>7, ChildTypes
<1>10. deep \in Frame /\ next \in Frame
  <2>1. b + 1 \in 0..Cap256 /\ 0 \in 0..Cap256
    BY <1>7, SizesAssumption DEF Byte, Cap256
  <2> QED
    BY <1>4, <1>9, <2>1 DEF Frame
<1> HIDE DEF deep, next, b
<1>11. /\ DOMAIN s = 1..(Len(rest) + 2) /\ s[1] = deep /\ s[2] = next
       /\ \A i \in DOMAIN rest : i + 2 \in DOMAIN s /\ s[i + 2] = rest[i]
       /\ \A i \in DOMAIN s : i = 1 \/ i = 2 \/ (i - 2 \in DOMAIN rest /\ s[i] = rest[i - 2])
       /\ DOMAIN rest = 1..Len(rest) /\ Len(rest) \in Nat
  BY <1>4, <1>10
<1>12. /\ DOMAIN call.stack = 1..(Len(rest) + 1) /\ call.stack[1] = Top
       /\ \A i \in DOMAIN rest : i + 1 \in DOMAIN call.stack /\ call.stack[i + 1] = rest[i]
       /\ \A i \in DOMAIN call.stack :
              i = 1 \/ (i - 1 \in DOMAIN rest /\ call.stack[i] = rest[i - 1])
  BY <1>1, <1>4 DEF Top
<1> HIDE DEF s, rest
<1>13. ASSUME NEW a \in Live  PROVE ToClear(inner, leaf, s, a)
  <2> DEFINE p == Par(inner, leaf, a)
             e == a.path[inner[p].depth]
  <2>1. CASE \E i \in DOMAIN call.stack : call.stack[i].node = a
    <3>1. PICK i \in DOMAIN call.stack : call.stack[i].node = a
      BY <2>1
    <3>2. CASE i = 1
      <4>1. a = n
        BY <1>12, <3>1, <3>2
      <4>2. 2 \in DOMAIN s /\ s[2].node = a
        BY <1>8, <1>11, <4>1
      <4> QED
        BY <4>2 DEF ToClear
    <3>3. CASE i # 1
      <4>1. i - 1 \in DOMAIN rest /\ rest[i - 1].node = a
        BY <1>12, <3>1, <3>3
      <4>2. (i - 1) + 2 \in DOMAIN s /\ s[(i - 1) + 2].node = a
        BY <1>11, <4>1
      <4> QED
        BY <4>2 DEF ToClear
    <3> QED
      BY <3>2, <3>3
  <2>2. CASE /\ Hangs(inner, leaf, Null, Null, a)
             /\ a \in DOMAIN inner => inner[a].depth = inner[p].depth + 1
             /\ \A i \in DOMAIN call.stack : call.stack[i].node = p => call.stack[i].from =< e
    <3>1. p \in DOMAIN inner /\ e \in Byte /\ e \in Nat /\ inner[p].child[e] # Null
          /\ inner[p].child[e] = a
      BY <2>2, PlainSubst, SizesAssumption DEF Hangs, Byte
    <3>2. CASE p = n /\ e = b
      <4>1. 1 \in DOMAIN s /\ s[1].node = a
        BY <1>8, <1>11, <3>1, <3>2
      <4> QED
        BY <4>1 DEF ToClear
    <3>3. CASE ~ (p = n /\ e = b)
      <4>1. p = n => b + 1 =< e
        <5> SUFFICES ASSUME p = n  PROVE b + 1 =< e
          OBVIOUS
        <5>1. Top.from =< e
          BY <1>12, <2>2
        <5>2. e \in Left(Top)
          BY <3>1, <5>1 DEF Left, Occupied
        <5>3. b =< e /\ e # b
          BY <1>7, <3>3, <5>2
        <5> QED
          BY <1>7, <3>1, <5>3
      <4>2. ASSUME NEW i \in DOMAIN s, s[i].node = p  PROVE s[i].from =< e
        <5>1. CASE i = 1
          BY <1>8, <1>11, <3>1, <5>1
        <5>2. CASE i = 2
          BY <1>8, <1>11, <4>1, <4>2, <5>2
        <5>3. CASE i # 1 /\ i # 2
          <6>1. i - 2 \in DOMAIN rest /\ s[i] = rest[i - 2]
            BY <1>11, <5>3
          <6>2. (i - 2) + 1 \in DOMAIN call.stack /\ call.stack[(i - 2) + 1] = s[i]
            BY <1>12, <6>1
          <6> QED
            BY <2>2, <4>2, <6>2
        <5> QED
          BY <5>1, <5>2, <5>3
      <4> QED
        BY <2>2, <4>2 DEF ToClear
    <3> QED
      BY <3>2, <3>3
  <2>3. ToClear(inner, leaf, call.stack, a)
    BY <1>1, <1>2 DEF ClearFits
  <2> QED
    BY <2>1, <2>2, <2>3 DEF ToClear
<1>14. ClearFits'
  <2>1. Live' = Live
    BY <1>1 DEF Live
  <2> QED
    BY <1>1, <1>5, <1>13, <2>1 DEF ClearFits
<1> QED
  BY <1>3, <1>5, <1>14, OtherCallsNext DEF ShapeInv

\* A node is deleted once its loop has passed all its children.
LEMMA ClearNodeShape == ASSUME ShapeInv, ClearNode  PROVE ShapeInv'
<1> DEFINE n    == Top.node
           rest == Tail(call.stack)
<1>1. /\ call.pc = "clear" /\ call.stack # <<>>
      /\ n \in DOMAIN leaf \/ (n \in DOMAIN inner /\ Left(Top) = {})
      /\ inner' = Free(inner, n) /\ leaf' = Free(leaf, n)
      /\ call' = [call EXCEPT !.stack = rest]
  BY DEF ClearNode, Clearing
<1>2. TypeOK /\ ClearFits /\ call \in ClearCall
  BY <1>1, CallShape DEF ShapeInv, TypeOK
<1>3. TypeOK'
  BY <1>2, ClearType
<1>4. call.stack \in Seq(Frame) /\ Top \in Frame /\ rest \in Seq(Frame)
  BY <1>1, <1>2, HeadTailProperties DEF ClearCall, Top
<1>5. call'.pc = "clear" /\ call'.stack = rest
  BY <1>1, <1>2 DEF ClearCall
<1>6. /\ call.stack[1] = Top /\ 1 \in DOMAIN call.stack
      /\ \A i \in DOMAIN rest : i + 1 \in DOMAIN call.stack /\ call.stack[i + 1] = rest[i]
      /\ \A i \in DOMAIN call.stack :
             i = 1 \/ (i - 1 \in DOMAIN rest /\ call.stack[i] = rest[i - 1])
  BY <1>1, <1>4 DEF Top
<1>7. /\ DOMAIN inner' = DOMAIN inner \ {n} /\ DOMAIN leaf' = DOMAIN leaf \ {n}
      /\ \A a \in DOMAIN inner' : inner'[a] = inner[a]
      /\ \A a \in DOMAIN leaf' : leaf'[a] = leaf[a]
  BY <1>1 DEF Free
<1>8. Live' = Live \ {n} /\ \A a \in Live' : Par(inner', leaf', a) = Par(inner, leaf, a)
  BY <1>7 DEF Live, Par
<1>9. n \in DOMAIN leaf => n \notin DOMAIN inner
  BY <1>2, HeapsTyped, HeapFacts
<1> HIDE DEF rest
<1>10. ASSUME NEW a \in Live, a # n  PROVE ToClear(inner', leaf', rest, a)
  <2> DEFINE p == Par(inner, leaf, a)
             e == a.path[inner[p].depth]
  <2>1. CASE \E i \in DOMAIN call.stack : call.stack[i].node = a
    <3>1. PICK i \in DOMAIN call.stack : call.stack[i].node = a
      BY <2>1
    <3>2. i - 1 \in DOMAIN rest /\ rest[i - 1].node = a
      BY <1>6, <1>10, <3>1
    <3> QED
      BY <3>2 DEF ToClear
  <2>2. CASE /\ Hangs(inner, leaf, Null, Null, a)
             /\ a \in DOMAIN inner => inner[a].depth = inner[p].depth + 1
             /\ \A i \in DOMAIN call.stack : call.stack[i].node = p => call.stack[i].from =< e
    <3>1. p \in DOMAIN inner /\ e \in Byte /\ inner[p].child[e] # Null
      BY <2>2 DEF Hangs
    <3>2. p # n
      <4> SUFFICES ASSUME p = n  PROVE FALSE
        OBVIOUS
      <4>1. Top.from =< e
        BY <1>6, <2>2
      <4>2. e \in Left(Top)
        BY <3>1, <4>1 DEF Left, Occupied
      <4> QED
        BY <1>1, <1>9, <3>1, <4>2
    <3>3. p \in DOMAIN inner' /\ inner'[p] = inner[p] /\ Par(inner', leaf', a) = p
      BY <1>7, <1>8, <1>10, <3>1, <3>2
    <3>4. Hangs(inner', leaf', Null, Null, a)
      BY <2>2, <3>3 DEF Hangs
    <3>5. a \in DOMAIN inner' => inner'[a].depth = inner'[p].depth + 1
      BY <1>7, <2>2, <3>3
    <3>6. \A i \in DOMAIN rest : rest[i].node = p => rest[i].from =< e
      BY <1>6, <2>2
    <3> QED
      BY <3>3, <3>4, <3>5, <3>6 DEF ToClear
  <2>3. ToClear(inner, leaf, call.stack, a)
    BY <1>1, <1>2 DEF ClearFits
  <2> QED
    BY <2>1, <2>2, <2>3 DEF ToClear
<1>11. ClearFits'
  BY <1>5, <1>8, <1>10 DEF ClearFits
<1> QED
  BY <1>3, <1>5, <1>11, OtherCallsNext DEF ShapeInv

\* When the recursion is over nothing is left: a live node hangs from another
\* one that is less deep, and there is no least deep one.
LEMMA ClearEndsShape == ASSUME ShapeInv, ClearEnds  PROVE ShapeInv'
<1>1. /\ call.pc = "clear" /\ call.stack = <<>> /\ call'.pc = "return"
      /\ root' = Null /\ count' = 0 /\ inner' = inner /\ leaf' = leaf
  BY DEF ClearEnds, Return
<1>2. TypeOK /\ ClearFits
  BY <1>1 DEF ShapeInv
<1>3. TypeOK'
  BY <1>2, ClearType
<1>4. ASSUME NEW a \in Live
      PROVE  LET p == Par(inner, leaf, a)
             IN  /\ p \in DOMAIN inner
                 /\ a \in DOMAIN inner => inner[a].depth = inner[p].depth + 1
  <2>1. ToClear(inner, leaf, call.stack, a) /\ DOMAIN call.stack = {}
    BY <1>1, <1>2 DEF ClearFits
  <2> QED
    BY <2>1 DEF ToClear, Hangs
<1>5. DOMAIN inner = {}
  <2> SUFFICES ASSUME DOMAIN inner # {}  PROVE FALSE
    OBVIOUS
  <2> DEFINE S == {inner[a].depth : a \in DOMAIN inner}
  <2>1. S \in SUBSET Nat /\ S # {}
    BY <1>2, InnerTyped
  <2>2. Min(S) \in S /\ \A d \in S : Min(S) =< d
    BY <2>1, MinOfBytes
  <2>3. PICK a \in DOMAIN inner : inner[a].depth = Min(S)
    BY <2>2
  <2>4. PICK p \in DOMAIN inner : inner[a].depth = inner[p].depth + 1
    BY <1>4 DEF Live
  <2>5. inner[p].depth \in S /\ inner[p].depth \in Nat /\ inner[a].depth \in Nat
    BY <1>2, InnerTyped
  <2>6. Min(S) =< inner[p].depth
    BY <2>2, <2>5
  <2> HIDE DEF S
  <2> QED
    BY <2>3, <2>4, <2>5, <2>6
<1>6. DOMAIN leaf = {}
  BY <1>4, <1>5 DEF Live
<1>7. Tree(inner', leaf', root', Null, Null)
  BY <1>1, <1>5, <1>6 DEF Tree, Depths, Slots, Places, RootFits, Nodes
<1>8. PlainWhole'
  BY <1>1, <1>5, <1>6, <1>7, FS_EmptySet DEF PlainWhole, Counted
<1>9. Whole'
  BY <1>1, <1>8, WholeIsPlainNext DEF Replacing
<1> QED
  BY <1>1, <1>3, <1>9, ToPlainCall DEF PlainPcs

-----------------------------------------------------------------------------
(* The invariant, and the theorems.                                        *)

\* Every step keeps the invariant.
LEMMA NextShape == ASSUME ShapeInv, [Next]_vars  PROVE ShapeInv'
<1>1. CASE Client
  BY <1>1, ClientShape
<1>2. CASE Running
  <2>1. CASE Descend \/ FindEnds \/ BoundHits \/ BoundMisses \/ InsertDuplicate \/ EraseMisses
    BY <2>1, WalkShape DEF WalkStep
  <2>2. CASE SplitLeaf \/ ExtendTie \/ BreakTie \/ GrowNode \/ FillGap \/ LinkLeaf
    BY <2>2, SplitLeafShape, ExtendTieShape, BreakTieShape, GrowNodeShape, FillGapShape,
       LinkLeafShape
  <2>3. CASE EraseRoot \/ EraseLeaf \/ UnlinkRoot \/ UnlinkLeaf
    BY <2>3, EraseShape
  <2>4. CASE ShrinkToNode \/ ShrinkToLeaf \/ KeepOneWay \/ ShrinkEnds
    BY <2>4, ShrinkToNodeShape, ShrinkToLeafShape, KeepOneWayShape, ShrinkEndsShape
  <2>5. CASE CompressAtTop \/ CompressRoot \/ CompressInner \/ CompressEnds \/ Relink
    BY <2>5, CompressStopsShape, CompressRootShape, CompressInnerShape, RelinkShape
  <2>6. CASE Climb \/ ClimbPastTop \/ GoDown \/ ArriveAtLeaf \/ Resume
    BY <2>6, MoveShape
  <2>7. CASE ClearChild \/ ClearNode \/ ClearEnds
    BY <2>7, ClearChildShape, ClearNodeShape, ClearEndsShape
  <2> QED
    BY <1>2, <2>1, <2>2, <2>3, <2>4, <2>5, <2>6, <2>7 DEF Running
<1>3. CASE UNCHANGED vars
  <2>1. /\ inner' = inner /\ leaf' = leaf /\ root' = root /\ dummyRoot' = dummyRoot
        /\ count' = count /\ call' = call
    BY <1>3 DEF vars
  <2>2. TypeOK' /\ TypeOK
    BY <1>3, NextType DEF ShapeInv
  <2>3. Live' = Live /\ (\A c : ParentOf(c)' = ParentOf(c))
    BY <2>1 DEF Live, ParentOf
  <2>4. Gone' = Gone /\ Instead' = Instead /\ Unsized' = Unsized
    BY <2>1 DEF Gone, Instead, Unsized, Fixing
  <2>5. RootView' = RootView
    BY <2>1, <2>3 DEF RootView, Fixing, ParentOf
  <2>6. \A a : Spared(a)' <=> Spared(a)
    BY <2>1 DEF Spared
  <2>7. Whole => Whole'
    BY <2>1, <2>4, <2>5, <2>6 DEF Whole, Sized
  <2>8. WalkFits' /\ TieFits' /\ LinkFits'
    BY <2>1 DEF ShapeInv, WalkFits, TieFits, LinkFits
  <2>9. ShrinkFits' /\ CompressFits' /\ RelinkFits' /\ ClearFits'
    BY <2>1, <2>3, <2>5
       DEF ShapeInv, ShrinkFits, CompressFits, RelinkFits, ClearFits, ParentOf
  <2> QED
    BY <2>1, <2>2, <2>7, <2>8, <2>9 DEF ShapeInv
<1> QED
  BY <1>1, <1>2, <1>3 DEF Next

\* The tree is whole at every step of every call, seen as the running call
\* will leave it: the slots, the parent fields, the depths, the counts and
\* layouts of the nodes and the number of elements agree, and the locals of
\* the call point to where the call takes them to point.
THEOREM ShapeHolds == Spec => []ShapeInv
<1>1. Init => ShapeInv
  BY InitShape
<1>2. ShapeInv /\ [Next]_vars => ShapeInv'
  BY NextShape
<1> QED
  BY <1>1, <1>2, PTL DEF Spec

\* A node's address holds exactly the chunks it shares with its children.
LEMMA SharedPath ==
    ASSUME NEW p, NEW q, NEW d \in Nat, Agree(p, q, d), q \in [0..(d - 1) -> Byte]
    PROVE  Prefix(p, d) = q
BY DEF Agree, Prefix

\* Where no call is changing links the tree is whole as it is.
LEMMA LinkedWhole ==
    ASSUME ShapeInv, Linked
    PROVE  TypeOK /\ Tree(inner, leaf, root, Null, Null)
BY WholeIsPlain DEF ShapeInv, Linked, Replacing, PlainWhole

\* Between the pointer updates of a call every slot in use holds a live node
\* whose parent field leads back and whose key chunks lead to the slot, and
\* the root hangs from the dummy node: split, grow, shrink and compress leave
\* no slot and no _parent behind, whatever the capacities and the key length.
THEOREM SlotsFollow == Spec => []SlotsFollowKeys
<1>1. ASSUME ShapeInv  PROVE SlotsFollowKeys
  <2> SUFFICES ASSUME Linked  PROVE SlotsFollowKeys
    BY DEF SlotsFollowKeys
  <2>1. TypeOK /\ Tree(inner, leaf, root, Null, Null)
    BY <1>1, LinkedWhole
  <2>2. ASSUME NEW a \in DOMAIN inner, NEW b \in Occupied(inner[a])
        PROVE  LET d == inner[a].depth
                   c == inner[a].child[b]
               IN  /\ c \in Live
                   /\ ParentOf(c) = a
                   /\ Prefix(c.path, d) = a.path /\ c.path[d] = b
                   /\ c \in DOMAIN inner => inner[c].depth = d + 1
    <3> DEFINE d == inner[a].depth
               c == inner[a].child[b]
    <3>1. Belongs(inner, leaf, a, b, c)
      BY <2>1, <2>2, PlainSubst DEF Tree, Slots, Occupied
    <3>2. d \in Nat /\ a.path \in [0..(d - 1) -> Byte]
      BY <2>1, InnerTyped DEF Tree, Depths
    <3>3. /\ c \in Live /\ ParentOf(c) = a /\ c.path[d] = b /\ Agree(c.path, a.path, d)
          /\ c \in DOMAIN inner => inner[c].depth = d + 1
      BY <3>1, LiveNodes DEF Belongs
    <3>4. Prefix(c.path, d) = a.path
      <4> HIDE DEF c, d
      <4> QED
        BY <3>2, <3>3, SharedPath
    <3> QED
      BY <3>3, <3>4
  <2>3. root # Null => /\ root \in Live
                       /\ ParentOf(root) = Dummy
                       /\ root \in DOMAIN inner => inner[root].depth = 0
    BY <2>1, LiveNodes DEF Tree, RootFits
  <2> QED
    BY <2>2, <2>3 DEF SlotsFollowKeys
<1>2. ShapeInv => SlotsFollowKeys
  BY <1>1
<1> QED
  BY <1>2, ShapeHolds, PTL

\* No node leaks: between the pointer updates of a call every live node is the
\* root or sits in its parent's slot, so what grow, shrink, compress and
\* clear() no longer use has been deleted.
THEOREM NoneLost == Spec => []NothingLost
<1>1. ASSUME ShapeInv  PROVE NothingLost
  <2> SUFFICES ASSUME Linked, NEW a \in Live, a # root
               PROVE  LET p == ParentOf(a)
                      IN  p \in DOMAIN inner /\ inner[p].child[a.path[inner[p].depth]] = a
    BY DEF NothingLost
  <2>1. Hangs(inner, leaf, Null, Null, a)
    BY <1>1, LinkedWhole, LiveNodes DEF Tree, Places
  <2> QED
    BY <2>1, LiveNodes, PlainSubst DEF Hangs
<1>2. ShapeInv => NothingLost
  BY <1>1
<1> QED
  BY <1>2, ShapeHolds, PTL

\* Between operations every node has the layout for the number of its children
\* and no node 4 is left with a single leaf: the array copies of the next grow
\* or shrink start from an exactly full node.
THEOREM LayoutFits == Spec => []LayoutFitsSize
<1>1. ASSUME ShapeInv  PROVE LayoutFitsSize
  <2> SUFFICES ASSUME Settled, NEW a \in DOMAIN inner
               PROVE  LET n == inner[a]
                      IN  /\ n.count = Cardinality(Occupied(n))
                          /\ \/ n.count \in MinSize(a.type)..MaxSize(a.type)
                             \/ /\ a.type = "node_4" /\ n.count = 1
                                /\ Children(n) \subseteq DOMAIN inner
    BY DEF LayoutFitsSize
  <2>1. PlainWhole
    BY <1>1, WholeIsPlain DEF ShapeInv, Settled, Linked, Replacing
  <2>2. Unsized = {}
    BY DEF Settled, Linked, Unsized
  <2>3. inner[a].count = Cardinality(Occupied(inner[a])) /\ Fits(inner, Null, Null, a)
    BY <2>1, <2>2 DEF PlainWhole, Counted
  <2> QED
    BY <2>3, PlainSubst DEF Fits, Children, Occupied
<1>2. ShapeInv => LayoutFitsSize
  BY <1>1
<1> QED
  BY <1>2, ShapeHolds, PTL

\* size() is the number of elements, at every step but those of clear().
THEOREM CountExact == Spec => []CountIsSize
<1>1. ShapeInv => CountIsSize
  BY DEF ShapeInv, Whole, CountIsSize
<1> QED
  BY <1>1, ShapeHolds, PTL

\* Every leaf stays where it is, with its value.
Kept == \A a \in DOMAIN leaf : a \in DOMAIN leaf' /\ leaf'[a].value = leaf[a].value

\* A step that writes no more of the leaves than their parent fields.
LEMMA KeptBy ==
    ASSUME TypeOK
    PROVE  /\ leaf' = leaf => Kept
           /\ \A x, n : x \notin DOMAIN leaf /\ leaf' = Allocate(leaf, x, n) => Kept
           /\ \A x, p : leaf' = [leaf EXCEPT ![x].parent = p] => Kept
           /\ \A S, p : leaf' = Adopt(leaf, S, p) => Kept
<1>1. leaf \in [DOMAIN leaf -> LeafNode]
  BY DEF TypeOK, IsHeap
<1>2. \A n \in LeafNode : \A p : [n EXCEPT !.parent = p].value = n.value
  BY DEF LeafNode
<1>3. ASSUME NEW x, NEW n, x \notin DOMAIN leaf, leaf' = Allocate(leaf, x, n)  PROVE Kept
  BY <1>3 DEF Allocate, Kept
<1>4. ASSUME NEW x, NEW p, leaf' = [leaf EXCEPT ![x].parent = p]  PROVE Kept
  <2> SUFFICES ASSUME NEW a \in DOMAIN leaf
               PROVE  a \in DOMAIN leaf' /\ leaf'[a].value = leaf[a].value
    BY DEF Kept
  <2>1. a \in DOMAIN leaf' /\ leaf'[a] \in {leaf[a], [leaf[a] EXCEPT !.parent = p]}
    BY <1>1, <1>4
  <2> QED
    BY <1>1, <1>2, <2>1
<1>5. ASSUME NEW S, NEW p, leaf' = Adopt(leaf, S, p)  PROVE Kept
  <2> SUFFICES ASSUME NEW a \in DOMAIN leaf
               PROVE  a \in DOMAIN leaf' /\ leaf'[a].value = leaf[a].value
    BY DEF Kept
  <2>1. a \in DOMAIN leaf' /\ leaf'[a] \in {leaf[a], [leaf[a] EXCEPT !.parent = p]}
    BY <1>5 DEF Adopt
  <2> QED
    BY <1>1, <1>2, <2>1
<1> QED
  BY <1>3, <1>4, <1>5 DEF Kept

\* A deletion of one leaf keeps the others.
LEMMA KeptOthers ==
    ASSUME NEW x, leaf' = Free(leaf, x)
    PROVE  \A a \in DOMAIN leaf : a = x \/ (a \in DOMAIN leaf' /\ leaf'[a].value = leaf[a].value)
BY DEF Free

\* The slot that erase_unique empties holds the leaf of its key.
LEMMA ErasedLeaf ==
    ASSUME ShapeInv, EraseLeaf
    PROVE  leaf' = Free(leaf, LeafOf(call.key))
<1>1. /\ call.pc = "walk" /\ call.cur # root /\ call.cur = LeafOf(call.key)
      /\ leaf' = Free(leaf, inner[call.prev].child[call.key[call.depth - 1]])
  BY DEF EraseLeaf, AtLeaf, Walking, Matches, DropLeaf
<1> QED
  BY <1>1 DEF ShapeInv, WalkFits

\* The slot that erase(iterator) empties holds the leaf of the iterator.
LEMMA UnlinkedLeaf ==
    ASSUME ShapeInv, UnlinkLeaf
    PROVE  leaf' = Free(leaf, LeafOf(call.key))
<1> DEFINE l == LeafOf(call.key)
           n == leaf[l].parent
           b == call.key[inner[n].depth]
<1>1. /\ call.pc = "unlink" /\ l # root /\ l \in DOMAIN leaf
      /\ DropLeaf("erase_at", n, b, call.key, call.at)
  BY DEF UnlinkLeaf
<1>2. Hangs(inner, leaf, Null, Null, l)
  BY <1>1, LinkedWhole DEF Linked, Tree, Places, Nodes
<1>3. l.path = call.key /\ Par(inner, leaf, l) = n
  BY <1>1 DEF LeafOf, Par
<1> HIDE DEF l, n
<1>4. inner[n].child[b] = l
  BY <1>2, <1>3, PlainSubst DEF Hangs
<1> HIDE DEF b
<1>5. leaf' = Free(leaf, inner[n].child[b])
  BY <1>1 DEF DropLeaf
<1> QED
  BY <1>4, <1>5 DEF l

\* What one step does to an element.
Stays(a) ==
    \/ a \in DOMAIN leaf' /\ leaf'[a].value = leaf[a].value
    \/ call.pc = "walk" /\ call.op = "erase" /\ a = LeafOf(call.key)
    \/ call.pc = "unlink" /\ a = LeafOf(call.key)
    \/ call.pc = "clear"

\* What a step does to the elements, action by action.
LEMMA ElementsStayNext ==
    ASSUME ShapeInv, [Next]_vars
    PROVE  \A a \in DOMAIN leaf : Stays(a)
<1>1. TypeOK
  BY DEF ShapeInv
<1>2. ASSUME Kept  PROVE \A a \in DOMAIN leaf : Stays(a)
  BY <1>2 DEF Kept, Stays
<1>3. ASSUME leaf' = leaf  PROVE \A a \in DOMAIN leaf : Stays(a)
  BY <1>1, <1>2, <1>3, KeptBy
<1>4. ASSUME NEW n, NEW b, NEW k, NEW v, InsertLeaf(n, b, k, v)  PROVE Kept
  BY <1>1, <1>4, KeptBy DEF InsertLeaf
<1>5. CASE Client
  <2>1. ASSUME NEW o, NEW k, NEW v, CallOnEmpty(o, k, v)  PROVE Kept
    BY <1>1, <2>1, KeptBy DEF CallOnEmpty, treeVars
  <2>2. ASSUME NEW o, NEW k, NEW v, CallOnTree(o, k, v) \/ MoveIterator(o, k)  PROVE Kept
    BY <1>1, <2>2, KeptBy DEF CallOnTree, MoveIterator, treeVars
  <2>3. ASSUME MoveEnd \/ Begin \/ CallClear  PROVE Kept
    BY <1>1, <2>3, KeptBy DEF MoveEnd, Begin, CallClear, treeVars
  <2> QED
    BY <1>2, <1>5, <2>1, <2>2, <2>3 DEF Client
<1>6. CASE WalkStep \/ Climb \/ ClimbPastTop \/ GoDown \/ ArriveAtLeaf \/ Resume
  BY <1>3, <1>6 DEF WalkStep, Descend, FindEnds, BoundHits, BoundMisses, InsertDuplicate,
                    EraseMisses, Climb, ClimbPastTop, GoDown, ArriveAtLeaf, Resume, treeVars
<1>7. CASE SplitLeaf \/ ExtendTie \/ GrowNode
  <2>1. \/ \E x, p : leaf' = [leaf EXCEPT ![x].parent = p]
        \/ \E S, p : leaf' = Adopt(leaf, S, p)
    BY <1>7 DEF SplitLeaf, ExtendTie, GrowNode
  <2> QED
    BY <1>1, <1>2, <2>1, KeptBy
<1>8. CASE BreakTie \/ FillGap \/ LinkLeaf
  <2>1. CASE LinkLeaf /\ call.node = Dummy
    <3>1. \/ \E x, n : x \notin DOMAIN leaf /\ leaf' = Allocate(leaf, x, n)
          \/ \E n, b, k, v : InsertLeaf(n, b, k, v)
      BY <2>1 DEF LinkLeaf
    <3> QED
      BY <1>1, <1>2, <1>4, <3>1, KeptBy
  <2>2. CASE ~ (LinkLeaf /\ call.node = Dummy)
    <3>1. leaf' = leaf \/ \E n, b, k, v : InsertLeaf(n, b, k, v)
      BY <1>8, <2>2 DEF BreakTie, FillGap, LinkLeaf, treeVars
    <3> QED
      BY <1>2, <1>3, <1>4, <3>1
  <2> QED
    BY <2>1, <2>2
<1>9. CASE EraseRoot \/ UnlinkRoot
  <2>1. /\ leaf' = Free(leaf, LeafOf(call.key))
        /\ call.pc = "unlink" \/ (call.pc = "walk" /\ call.op = "erase")
    BY <1>9 DEF EraseRoot, UnlinkRoot, DropRoot, AtLeaf, Walking, Matches
  <2> QED
    BY <2>1, KeptOthers DEF Stays
<1>10. CASE EraseLeaf \/ UnlinkLeaf
  <2>1. /\ leaf' = Free(leaf, LeafOf(call.key))
        /\ call.pc = "unlink" \/ (call.pc = "walk" /\ call.op = "erase")
    BY <1>10, ErasedLeaf, UnlinkedLeaf DEF EraseLeaf, UnlinkLeaf, AtLeaf, Walking
  <2> QED
    BY <2>1, KeptOthers DEF Stays
<1>11. CASE ShrinkToNode \/ ShrinkToLeaf \/ KeepOneWay \/ ShrinkEnds
  <2>1. \/ leaf' = leaf
        \/ \E x, p : leaf' = [leaf EXCEPT ![x].parent = p]
        \/ \E S, p : leaf' = Adopt(leaf, S, p)
    BY <1>11 DEF ShrinkToNode, ShrinkToLeaf, KeepOneWay, ShrinkEnds, treeVars
  <2> QED
    BY <1>1, <1>2, <2>1, KeptBy
<1>12. CASE CompressStep \/ Relink
  <2>1. leaf' = leaf \/ \E x, p : leaf' = [leaf EXCEPT ![x].parent = p]
    BY <1>12 DEF CompressStep, CompressAtTop, CompressRoot, CompressInner, CompressEnds, Relink,
                 treeVars
  <2> QED
    BY <1>1, <1>2, <2>1, KeptBy
<1>13. CASE ClearChild \/ ClearNode \/ ClearEnds
  BY <1>13 DEF ClearChild, ClearNode, ClearEnds, Clearing, Stays
<1>14. CASE UNCHANGED vars
  BY <1>3, <1>14 DEF vars
<1> QED
  BY <1>5, <1>6, <1>7, <1>8, <1>9, <1>10, <1>11, <1>12, <1>13, <1>14
     DEF Next, Running, WalkStep, CompressStep

\* Iterators and references stay valid: a step deletes no other element than
\* the one its call erases, and writes no value.  For the slots that erase and
\* erase(iterator) empty this needs the shape of the tree: they hold the leaf
\* of the key, and of the iterator.
THEOREM ElementsAreKept == Spec => ElementsStay
<1>1. ShapeInv /\ [Next]_vars =>
          [\A a \in DOMAIN leaf :
              \/ a \in DOMAIN leaf' /\ leaf'[a].value = leaf[a].value
              \/ call.pc = "walk" /\ call.op = "erase" /\ a = LeafOf(call.key)
              \/ call.pc = "unlink" /\ a = LeafOf(call.key)
              \/ call.pc = "clear"]_vars
  BY ElementsStayNext DEF Stays
<1> QED
  BY <1>1, ShapeHolds, PTL DEF Spec, ElementsStay

-----------------------------------------------------------------------------
(* A search that follows the chunks of an element comes to its leaf.       *)

Standing == TypeOK /\ Tree(inner, leaf, root, Null, Null)

\* Every node but the root is in the slot of a node one chunk above it.
LEMMA Upward ==
    ASSUME Standing, NEW c \in Live, c # root
    PROVE  LET p == ParentOf(c)
               d == inner[p].depth
           IN  /\ p \in DOMAIN inner /\ d \in Nat /\ d \in Chunks
               /\ inner[p].child[c.path[d]] = c /\ c.path[d] \in Byte
               /\ Agree(c.path, p.path, d)
               /\ c \in DOMAIN inner => inner[c].depth = d + 1
<1> DEFINE p == ParentOf(c)
           d == inner[p].depth
<1>1. Hangs(inner, leaf, Null, Null, c) /\ p = Par(inner, leaf, c)
  BY LiveNodes DEF Standing, Tree, Places
<1> HIDE DEF p
<1>2. /\ p \in DOMAIN inner /\ c.path[d] \in Byte /\ inner[p].child[c.path[d]] = c
      /\ inner[p].child[c.path[d]] # Null
  BY <1>1, PlainSubst DEF Hangs
<1>3. Belongs(inner, leaf, p, c.path[d], c)
  BY <1>2, PlainSubst DEF Standing, Tree, Slots
<1>4. d \in Nat /\ d \in Chunks
  BY <1>2, InnerTyped DEF Standing
<1> QED
  BY <1>2, <1>3, <1>4 DEF Belongs, p

\* Only the root has the dummy node as its parent, and only the root is at
\* depth 0.
LEMMA TopNode ==
    ASSUME Standing, NEW c \in Live
    PROVE  /\ ParentOf(c) = Dummy => c = root
           /\ c \in DOMAIN inner /\ inner[c].depth = 0 => c = root
           /\ c = root => /\ ParentOf(c) = Dummy
                          /\ c \in DOMAIN inner => inner[c].depth = 0
<1>1. Dummy \notin DOMAIN inner /\ c # Null
  BY HeapsTyped, HeapFacts, LiveNodes DEF Standing, Nodes
<1>2. c # root => ParentOf(c) # Dummy /\ (c \in DOMAIN inner => inner[c].depth # 0)
  BY <1>1, Upward
<1>3. c = root => ParentOf(c) = Dummy /\ (c \in DOMAIN inner => inner[c].depth = 0)
  BY <1>1, LiveNodes DEF Standing, Tree, RootFits
<1> QED
  BY <1>2, <1>3

\* The chunks on the path tell the nodes of one depth apart.
LEMMA SamePath ==
    ASSUME Standing, NEW a \in DOMAIN inner, NEW b \in DOMAIN inner,
           inner[a].depth = inner[b].depth, Agree(a.path, b.path, inner[a].depth)
    PROVE  a = b
<1> DEFINE Twins(x, y, n) == /\ x # y /\ inner[x].depth = n /\ inner[y].depth = n
                             /\ Agree(x.path, y.path, n)
           D == {n \in Nat : \E x \in DOMAIN inner, y \in DOMAIN inner : Twins(x, y, n)}
<1> SUFFICES ASSUME a # b  PROVE FALSE
  OBVIOUS
<1>1. inner[a].depth \in D
  BY InnerTyped DEF Standing
<1>2. Min(D) \in D /\ (\A n \in D : Min(D) =< n)
  BY <1>1, MinOfBytes
<1> DEFINE n == Min(D)
<1>3. n \in Nat
  BY <1>2
<1> HIDE DEF n
<1>4. PICK x \in DOMAIN inner, y \in DOMAIN inner : Twins(x, y, n)
  BY <1>2 DEF n
<1>5. x \in Live /\ y \in Live
  BY DEF Live
<1>6. x # root /\ y # root
  BY <1>4, <1>5, TopNode
<1> DEFINE p == ParentOf(x)
           q == ParentOf(y)
<1>7. /\ p \in DOMAIN inner /\ inner[p].depth \in Nat /\ n = inner[p].depth + 1
      /\ inner[p].child[x.path[inner[p].depth]] = x /\ Agree(x.path, p.path, inner[p].depth)
  BY <1>4, <1>5, <1>6, Upward
<1>8. /\ q \in DOMAIN inner /\ inner[q].depth \in Nat /\ n = inner[q].depth + 1
      /\ inner[q].child[y.path[inner[q].depth]] = y /\ Agree(y.path, q.path, inner[q].depth)
  BY <1>4, <1>5, <1>6, Upward
<1> HIDE DEF p, q
<1> DEFINE m == inner[p].depth
<1>9. m \in Nat /\ inner[q].depth = m /\ n = m + 1
  BY <1>7, <1>8
<1>10. x.path[m] = y.path[m] /\ Agree(x.path, y.path, m)
  BY <1>4, <1>9 DEF Agree
<1>11. Agree(p.path, q.path, m)
  BY <1>7, <1>8, <1>9, <1>10 DEF Agree
<1>12. p # q
  BY <1>4, <1>7, <1>8, <1>9, <1>10
<1>13. m \in D
  BY <1>7, <1>8, <1>9, <1>11, <1>12
<1>14. n =< m
  BY <1>2, <1>13 DEF n
<1> HIDE DEF m, D
<1> QED
  BY <1>9, <1>14

\* Node a leads on to the leaf of key k.
LeadsTo(a, k) ==
    LET c == inner[a].child[k[inner[a].depth]]
    IN  \/ c = LeafOf(k)
        \/ /\ c \in DOMAIN inner /\ inner[c].depth = inner[a].depth + 1
           /\ Agree(c.path, k, inner[c].depth)

\* Above the parent of a leaf there is a node at every depth that leads to it.
LEMMA Ancestors ==
    ASSUME Standing, NEW l \in DOMAIN leaf, l # root, NEW n \in Nat,
           n =< inner[leaf[l].parent].depth
    PROVE  \E a \in DOMAIN inner : inner[a].depth = n /\ Agree(a.path, l.path, n) /\ LeadsTo(a, l.path)
<1> DEFINE p == leaf[l].parent
           top == inner[p].depth
           k == l.path
           Found(m) == \E a \in DOMAIN inner : /\ inner[a].depth = m /\ Agree(a.path, k, m)
                                               /\ LeadsTo(a, k)
           D == {m \in Nat : m =< top /\ ~ Found(top - m)}
<1>1. l \in Live /\ ParentOf(l) = p /\ l = LeafOf(k)
  BY HeapsTyped, HeapFacts DEF Live, ParentOf, Standing
<1>2. /\ p \in DOMAIN inner /\ top \in Nat /\ inner[p].child[k[top]] = l /\ Agree(k, p.path, top)
  BY <1>1, Upward
<1>3. Found(top)
  <2>1. Agree(p.path, k, top) /\ LeadsTo(p, k)
    BY <1>1, <1>2 DEF Agree, LeadsTo
  <2> QED
    BY <1>2, <2>1
<1> HIDE DEF top, p
<1> SUFFICES ASSUME ~ Found(n)  PROVE FALSE
  OBVIOUS
<1>4. n =< top /\ top \in Nat
  BY <1>2 DEF top, p
<1>5. top - n \in D
  <2>1. top - (top - n) = n /\ top - n \in Nat /\ top - n =< top
    BY <1>4
  <2> HIDE DEF Found
  <2> QED
    BY <2>1
<1>6. Min(D) \in D /\ (\A m \in D : Min(D) =< m)
  BY <1>5, MinOfBytes
<1> DEFINE m == Min(D)
<1>7. m \in Nat /\ m =< top /\ ~ Found(top - m)
  BY <1>6
<1> HIDE DEF m
<1>8. m # 0
  <2>1. m = 0 => top - m = top
    BY <1>4
  <2> HIDE DEF Found
  <2> QED
    BY <1>3, <1>7, <2>1
<1>9. Found(top - (m - 1))
  <2>1. m - 1 \in Nat /\ m - 1 =< top /\ ~ (m =< m - 1)
    BY <1>4, <1>7, <1>8
  <2>2. m - 1 \notin D
    BY <1>6, <2>1 DEF m
  <2> HIDE DEF Found
  <2> QED
    BY <2>1, <2>2
<1> DEFINE e == top - m
<1>10. e \in Nat /\ top - (m - 1) = e + 1
  BY <1>4, <1>7
<1> HIDE DEF e
<1>11. PICK a \in DOMAIN inner : inner[a].depth = e + 1 /\ Agree(a.path, k, e + 1) /\ LeadsTo(a, k)
  BY <1>9, <1>10
<1>12. a \in Live /\ a # root
  <2>1. a \in Live
    BY DEF Live
  <2> QED
    BY <1>10, <1>11, <2>1, TopNode
<1> DEFINE q == ParentOf(a)
<1>13. /\ q \in DOMAIN inner /\ inner[q].depth \in Nat /\ e + 1 = inner[q].depth + 1
       /\ inner[q].child[a.path[inner[q].depth]] = a /\ Agree(a.path, q.path, inner[q].depth)
  BY <1>11, <1>12, Upward
<1> HIDE DEF q
<1>14. inner[q].depth = e
  BY <1>10, <1>13
<1>15. a.path[e] = k[e] /\ Agree(q.path, k, e)
  BY <1>10, <1>11, <1>13, <1>14 DEF Agree
<1>16. LeadsTo(q, k)
  BY <1>11, <1>13, <1>14, <1>15 DEF LeadsTo
<1>17. Found(e)
  BY <1>13, <1>14, <1>15, <1>16
<1> HIDE DEF Found
<1> QED
  BY <1>7, <1>17 DEF e

\* A tree with an inner node has one for its root; another has at most one
\* element, the root.
LEMMA RootKind ==
    ASSUME Standing
    PROVE  /\ DOMAIN inner # {} => root \in DOMAIN inner
           /\ root \notin DOMAIN inner => \A l \in DOMAIN leaf : l = root
<1>1. ASSUME DOMAIN inner # {}  PROVE root \in DOMAIN inner
  <2> DEFINE D == {inner[a].depth : a \in DOMAIN inner}
  <2>1. D # {} /\ D \in SUBSET Nat
    BY <1>1, InnerTyped DEF Standing
  <2>2. Min(D) \in D /\ (\A n \in D : Min(D) =< n)
    BY <2>1, MinOfBytes
  <2>3. PICK a \in DOMAIN inner : inner[a].depth = Min(D)
    BY <2>2
  <2>4. ASSUME a # root  PROVE FALSE
    <3> DEFINE p == ParentOf(a)
    <3>1. p \in DOMAIN inner /\ inner[p].depth \in Nat /\ inner[a].depth = inner[p].depth + 1
      BY <2>4, Upward DEF Live
    <3>2. Min(D) =< inner[p].depth
      BY <2>2, <3>1
    <3> HIDE DEF D, p
    <3> QED
      BY <2>3, <3>1, <3>2
  <2> QED
    BY <2>4
<1>2. ASSUME root \notin DOMAIN inner, NEW l \in DOMAIN leaf, l # root  PROVE FALSE
  <2>1. ParentOf(l) \in DOMAIN inner
    BY <1>2, Upward DEF Live
  <2> QED
    BY <1>1, <1>2, <2>1
<1> QED
  BY <1>1, <1>2

\* A search for a stored key never comes to an empty slot or to the leaf of
\* another key.
LEMMA Reach ==
    ASSUME Standing, NEW l \in DOMAIN leaf, NEW a \in DOMAIN inner,
           Agree(a.path, l.path, inner[a].depth)
    PROVE  LeadsTo(a, l.path)
<1> DEFINE k == l.path
           p == leaf[l].parent
           top == inner[p].depth
           Stray(b) == Agree(b.path, k, inner[b].depth) /\ ~ (LeadsTo(b, k) /\ inner[b].depth =< top)
           D == {inner[b].depth : b \in {x \in DOMAIN inner : Stray(x)}}
<1>1. l # root
  <2>1. DOMAIN leaf \cap DOMAIN inner = {} /\ root \in DOMAIN inner
    BY RootKind, HeapsTyped, HeapFacts DEF Standing
  <2> QED
    BY <2>1
<1>2. /\ p \in DOMAIN inner /\ top \in Nat /\ inner[p].child[k[top]] = l /\ Agree(k, p.path, top)
      /\ l \notin DOMAIN inner
  <2>1. l \in Live /\ ParentOf(l) = p
    BY DEF Live, ParentOf
  <2> QED
    BY <1>1, <2>1, Upward, HeapsTyped, HeapFacts DEF Standing
<1> SUFFICES ASSUME Stray(a)  PROVE FALSE
  OBVIOUS
<1>3. D # {} /\ D \in SUBSET Nat
  BY InnerTyped DEF Standing
<1>4. Min(D) \in D /\ (\A n \in D : Min(D) =< n)
  BY <1>3, MinOfBytes
<1>5. PICK b \in DOMAIN inner : Stray(b) /\ inner[b].depth = Min(D)
  BY <1>4
<1>6. ASSUME NEW x \in DOMAIN inner, inner[x].depth < inner[b].depth  PROVE ~ Stray(x)
  <2>1. inner[x].depth \in Nat /\ inner[b].depth \in Nat
    BY InnerTyped DEF Standing
  <2>2. Stray(x) => inner[b].depth =< inner[x].depth
    BY <1>4, <1>5
  <2> HIDE DEF Stray
  <2> QED
    BY <1>6, <2>1, <2>2
<1>7. b \in Live
  BY DEF Live
<1> HIDE DEF D
<1>8. ASSUME NEW n \in Nat, inner[b].depth = n, n =< top  PROVE FALSE
  <2>1. PICK e \in DOMAIN inner : inner[e].depth = n /\ Agree(e.path, k, n) /\ LeadsTo(e, k)
    BY <1>1, <1>8, Ancestors
  <2>2. Agree(b.path, e.path, n)
    BY <1>5, <1>8, <2>1 DEF Agree
  <2>3. b = e
    BY <1>8, <2>1, <2>2, SamePath
  <2> QED
    BY <1>5, <1>8, <2>1, <2>3
<1>9. inner[b].depth \in Nat /\ top \in Nat
  BY <1>2, InnerTyped DEF Standing
<1>10. inner[b].depth > top
  BY <1>8, <1>9
<1>11. b # root
  BY <1>7, <1>9, <1>10, <1>2, TopNode
<1> DEFINE q == ParentOf(b)
<1>12. /\ q \in DOMAIN inner /\ inner[q].depth \in Nat /\ inner[b].depth = inner[q].depth + 1
       /\ inner[q].child[b.path[inner[q].depth]] = b /\ Agree(b.path, q.path, inner[q].depth)
  BY <1>7, <1>11, Upward
<1> HIDE DEF q
<1>13. Agree(q.path, k, inner[q].depth) /\ b.path[inner[q].depth] = k[inner[q].depth]
  BY <1>5, <1>12 DEF Agree
<1>14. inner[q].depth =< top
  BY <1>6, <1>12, <1>13
<1>15. inner[q].depth = top
  BY <1>9, <1>10, <1>12, <1>14
<1>16. Agree(q.path, p.path, top)
  BY <1>2, <1>13, <1>15 DEF Agree
<1>17. q = p
  BY <1>2, <1>12, <1>15, <1>16, SamePath
<1> QED
  BY <1>2, <1>12, <1>13, <1>15, <1>17

-----------------------------------------------------------------------------
(* What the bounds and the iterators look for.                             *)

\* The keys of the elements.
Elements == {a.path : a \in DOMAIN leaf}

\* Does a come before b in the direction of call o?
Ahead(o, a, b) == IF Backward(o) THEN Less(b, a) ELSE Less(a, b)

\* The elements a call looks for the first of.
Sought(o, k) == {m \in Elements : (o = "lower" /\ m = k) \/ Ahead(o, k, m)}

\* The first of a set of keys in the direction of the call.
FirstOf(o, W) == {k \in W : \A j \in W \ {k} : Ahead(o, k, j)}

\* Element m is below node p, or is p.
Within(m, p) == \/ LeafOf(m) = p
                \/ p \in DOMAIN inner /\ Agree(m, p.path, inner[p].depth)

\* The first element of W is below node p, where there are no others.
Holds(o, p, W) ==
    /\ \A m \in Elements : Within(m, p) => m \in W
    /\ \A l \in Elements, m \in W : Within(l, p) /\ ~ Within(m, p) => Ahead(o, l, m)

\* The number of chunks an element shares with the key if the climb has
\* passed it by the time it is at node p.
Passed(p) == IF p = Dummy THEN 0 ELSE inner[p].depth + 1

\* The calls that start from an element.
FromElement == {"next", "prev", "erase_at"}

\* The climb is on the path of its key, and has left nothing behind that it
\* looks for.  The climb from end() begins at the dummy node.
ClimbKnows ==
    call.pc = "climb" /\ call.cur # Null =>
        \/ call.key = NoPath /\ call.op = "prev" /\ call.cur = Dummy /\ root # Null
        \/ /\ call.key \in Keys
           /\ call.op \in FromElement => call.key \in Elements
           /\ \/ call.cur = Dummy
              \/ call.cur \in DOMAIN inner /\ Agree(call.cur.path, call.key, inner[call.cur].depth)
           /\ \A m \in Elements :
                  Agree(call.key, m, Passed(call.cur)) => m \notin Sought(call.op, call.key)

\* The way down is to the first element of those the call looks for or, for
\* begin() and for a decrement that wraps around, of all.
DownKnows ==
    call.pc = "down" =>
        /\ call.op \in FromElement /\ call.key # NoPath => call.key \in Elements
        /\ \/ /\ call.op \in ClimbOps /\ call.key \in Keys
              /\ Holds(call.op, call.cur, Sought(call.op, call.key))
           \/ /\ Holds(call.op, call.cur, Elements)
              /\ \/ call.key = NoPath /\ call.op \in {"begin", "prev"}
                 \/ call.key \in Keys /\ call.op = "prev" /\ Sought("prev", call.key) = {}

\* erase(iterator) has the position after the element it is about to erase.
UnlinkKnows ==
    call.pc = "unlink" => /\ call.key \in Elements
                          /\ call.at = FirstOf("next", Sought("next", call.key))

SearchKnows == ClimbKnows /\ DownKnows /\ UnlinkKnows

-----------------------------------------------------------------------------
(* Elements and the nodes they are below.                                  *)

\* An element is the key of its leaf.
LEMMA ElementFacts ==
    ASSUME TypeOK
    PROVE  /\ \A m : m \in Elements <=> LeafOf(m) \in DOMAIN leaf
           /\ \A m \in Elements : m \in Keys /\ LeafOf(m) \notin DOMAIN inner
           /\ \A l \in DOMAIN leaf : l = LeafOf(l.path) /\ l.path \in Elements
           /\ \A m : LeafOf(m).path = m
           /\ \A m, k : LeafOf(m) = LeafOf(k) => m = k
<1>1. \A m : LeafOf(m).path = m
  BY DEF LeafOf
<1>2. \A l \in DOMAIN leaf : l = LeafOf(l.path) /\ l.path \in Keys /\ l \notin DOMAIN inner
  BY HeapsTyped, HeapFacts
<1>3. \A m : m \in Elements <=> LeafOf(m) \in DOMAIN leaf
  BY <1>1, <1>2 DEF Elements
<1> QED
  BY <1>1, <1>2, <1>3 DEF Elements

\* Agreement does not depend on the side.
LEMMA AgreeSides ==
    ASSUME NEW p, NEW q, NEW d
    PROVE  Agree(p, q, d) <=> Agree(q, p, d)
BY DEF Agree

\* What is below a node is below one of its children, the one that its chunk
\* names.
LEMMA BelowNode ==
    ASSUME Standing, NEW a \in DOMAIN inner, NEW m \in Elements
    PROVE  LET n == inner[a]
               d == n.depth
           IN  /\ Within(m, a) <=> Agree(m, a.path, d)
               /\ Agree(m, a.path, d) => m[d] \in Occupied(n)
               /\ \A b \in Occupied(n) :
                      Within(m, n.child[b]) <=> Agree(m, a.path, d) /\ m[d] = b
<1> DEFINE n == inner[a]
           d == n.depth
           l == LeafOf(m)
<1>1. l \in DOMAIN leaf /\ l.path = m /\ m \in Keys /\ l \notin DOMAIN inner
  BY ElementFacts DEF Standing
<1>2. d \in Nat /\ d \in Chunks /\ m[d] \in Byte
  BY <1>1, InnerTyped, KeyChunk DEF Standing
<1>3. Within(m, a) <=> Agree(m, a.path, d)
  BY <1>1 DEF Within
<1>4. ASSUME Agree(m, a.path, d)
      PROVE  /\ m[d] \in Occupied(n)
             /\ \A b \in Byte : m[d] = b => Within(m, n.child[b])
  <2> DEFINE c == n.child[m[d]]
  <2>1. LeadsTo(a, m)
    BY <1>1, <1>4, Reach, AgreeSides
  <2>2. c = l \/ (c \in DOMAIN inner /\ Agree(c.path, m, inner[c].depth))
    BY <2>1 DEF LeadsTo
  <2>3. c # Null
    BY <1>1, <2>2, HeapsTyped, HeapFacts DEF Standing, Nodes
  <2>4. Within(m, c)
    BY <2>2, AgreeSides DEF Within
  <2> QED
    BY <1>2, <2>3, <2>4 DEF Occupied
<1>5. ASSUME NEW b \in Occupied(n), Within(m, n.child[b])
      PROVE  Agree(m, a.path, d) /\ m[d] = b
  <2> DEFINE c == n.child[b]
  <2>1. Belongs(inner, leaf, a, b, c)
    BY PlainSubst DEF Standing, Tree, Slots, Occupied
  <2>2. /\ Agree(c.path, a.path, d) /\ c.path[d] = b
        /\ c \in DOMAIN inner => inner[c].depth = d + 1
    BY <2>1 DEF Belongs
  <2>3. CASE l = c
    BY <1>1, <2>2, <2>3
  <2>4. CASE c \in DOMAIN inner /\ Agree(m, c.path, inner[c].depth)
    <3>1. Agree(m, c.path, d + 1)
      BY <2>2, <2>4
    <3> HIDE DEF c, d
    <3>2. Agree(m, c.path, d) /\ m[d] = c.path[d]
      BY <1>2, <3>1 DEF Agree
    <3> QED
      BY <2>2, <3>2, AgreeTrans
  <2> QED
    BY <1>5, <2>3, <2>4 DEF Within
<1> QED
  BY <1>3, <1>4, <1>5 DEF Occupied

\* Every element is below the root.
LEMMA BelowRoot ==
    ASSUME Standing, NEW m \in Elements
    PROVE  Within(m, root) /\ root # Null
<1>1. LeafOf(m) \in DOMAIN leaf
  BY ElementFacts DEF Standing
<1>2. CASE root \in DOMAIN inner
  <2>1. inner[root].depth = 0 /\ root # Null
    BY <1>2, TopNode, InnerTyped DEF Live, Standing
  <2>2. Agree(m, root.path, 0)
    BY DEF Agree
  <2> QED
    BY <1>2, <2>1, <2>2 DEF Within
<1>3. CASE root \notin DOMAIN inner
  <2>1. LeafOf(m) = root
    BY <1>1, <1>3, RootKind
  <2>2. LeafOf(m) # Null
    BY <1>1, HeapsTyped, HeapFacts DEF Standing, Nodes
  <2> QED
    BY <2>1, <2>2 DEF Within
<1> QED
  BY <1>2, <1>3

\* The order in the direction of a call, at the chunk in which two keys part.
LEMMA AheadAt ==
    ASSUME NEW o, NEW a \in Keys, NEW b \in Keys, NEW d \in Chunks, Agree(a, b, d), a[d] # b[d]
    PROVE  Ahead(o, a, b) <=> IF Backward(o) THEN b[d] < a[d] ELSE a[d] < b[d]
<1>1. Agree(b, a, d)
  BY AgreeSides
<1> QED
  BY <1>1, LessAt DEF Ahead

\* The same facts about Less, for either direction.
LEMMA AheadFacts ==
    ASSUME NEW o, NEW a \in Keys, NEW b \in Keys
    PROVE  /\ ~ Ahead(o, a, a)
           /\ ~ (Ahead(o, a, b) /\ Ahead(o, b, a))
           /\ a # b => Ahead(o, a, b) \/ Ahead(o, b, a)
BY LessIsTotal DEF Ahead

\* SameSide, in the direction of a call.
LEMMA AheadSide ==
    ASSUME NEW o, NEW a \in Keys, NEW b \in Keys, NEW c \in Keys, NEW d \in 0..KeyLen,
           Agree(a, b, d), ~ Agree(a, c, d)
    PROVE  Ahead(o, a, c) <=> Ahead(o, b, c)
BY SameSide DEF Ahead

-----------------------------------------------------------------------------
(* The steps of a search.                                                  *)

\* The first of a set of bytes in the direction of the call.
LEMMA FirstByte ==
    ASSUME NEW o, NEW S \in SUBSET Byte, S # {}
    PROVE  LET b == IF Backward(o) THEN Max(S) ELSE Min(S)
           IN  /\ b \in S
               /\ \A x \in S \ {b} : IF Backward(o) THEN x < b ELSE b < x
<1>1. MaxByte \in Nat /\ S \in SUBSET (0..MaxByte) /\ S \in SUBSET Nat
  BY SizesAssumption DEF Byte
<1>2. Min(S) \in S /\ \A x \in S : Min(S) =< x
  BY <1>1, MinOfBytes
<1>3. Max(S) \in S /\ \A x \in S : x =< Max(S)
  BY <1>1, MaxOfBytes
<1>4. CASE Backward(o)
  <2>1. ASSUME NEW x \in S, x # Max(S)  PROVE x < Max(S)
    <3>1. x \in Nat /\ Max(S) \in Nat
      BY <1>1, <1>3
    <3> QED
      BY <1>3, <2>1, <3>1
  <2> QED
    BY <1>3, <1>4, <2>1
<1>5. CASE ~ Backward(o)
  <2>1. ASSUME NEW x \in S, x # Min(S)  PROVE Min(S) < x
    <3>1. x \in Nat /\ Min(S) \in Nat
      BY <1>1, <1>2
    <3> QED
      BY <1>2, <2>1, <3>1
  <2> QED
    BY <1>2, <1>5, <2>1
<1> QED
  BY <1>4, <1>5

\* minimum() and maximum() go to the child that holds the first element.
LEMMA HoldsBelow ==
    ASSUME Standing, NEW o, NEW a \in DOMAIN inner, NEW W \in SUBSET Elements, Holds(o, a, W),
           Occupied(inner[a]) # {}
    PROVE  Holds(o, Extreme(o, inner[a]), W)
<1> DEFINE n == inner[a]
           d == n.depth
           b == IF Backward(o) THEN Max(Occupied(n)) ELSE Min(Occupied(n))
           c == n.child[b]
<1>1. Occupied(n) \in SUBSET Byte
  BY DEF Occupied
<1>2. b \in Occupied(n) /\ \A x \in Occupied(n) \ {b} : IF Backward(o) THEN x < b ELSE b < x
  BY <1>1, FirstByte
<1>3. Extreme(o, n) = c
  BY DEF Extreme, Backward
<1>4. d \in Chunks /\ d \in Nat
  BY InnerTyped DEF Standing
<1>5. \A m \in Elements : /\ Within(m, a) <=> Agree(m, a.path, d)
                          /\ Agree(m, a.path, d) => m[d] \in Occupied(n)
                          /\ Within(m, c) <=> Agree(m, a.path, d) /\ m[d] = b
  BY <1>2, BelowNode
<1>6. Elements \subseteq Keys
  BY ElementFacts DEF Standing
<1> HIDE DEF c, b, n
<1>7. ASSUME NEW m \in Elements, Within(m, c)  PROVE m \in W
  BY <1>5, <1>7 DEF Holds
<1>8. ASSUME NEW l \in Elements, NEW m \in W, Within(l, c), ~ Within(m, c)
      PROVE  Ahead(o, l, m)
  <2>1. Within(l, a) /\ Agree(l, a.path, d) /\ l[d] = b
    BY <1>5, <1>8
  <2>2. CASE ~ Within(m, a)
    BY <2>1, <2>2 DEF Holds
  <2>3. CASE Within(m, a)
    <3>1. Agree(m, a.path, d) /\ m[d] \in Occupied(n) /\ m[d] # b
      BY <1>5, <1>8, <2>3
    <3>2. Agree(l, m, d)
      BY <2>1, <3>1 DEF Agree
    <3>3. IF Backward(o) THEN m[d] < l[d] ELSE l[d] < m[d]
      BY <1>2, <2>1, <3>1
    <3> QED
      BY <1>4, <1>6, <2>1, <3>1, <3>2, <3>3, AheadAt
  <2> QED
    BY <2>2, <2>3
<1>9. Holds(o, c, W)
  BY <1>7, <1>8 DEF Holds
<1> QED
  BY <1>3, <1>9 DEF n

\* A way down that ends at a leaf has found the first element.
LEMMA HoldsLeaf ==
    ASSUME TypeOK, NEW o, NEW k \in Elements, NEW W \in SUBSET Elements, Holds(o, LeafOf(k), W)
    PROVE  k \in W /\ FirstOf(o, W) = {k}
<1>1. \A m \in Elements : m \in Keys /\ (Within(m, LeafOf(k)) <=> m = k)
  BY ElementFacts DEF Within
<1>2. k \in W /\ \A m \in W \ {k} : Ahead(o, k, m)
  BY <1>1 DEF Holds
<1>3. \A m \in W \ {k} : ~ Ahead(o, m, k)
  BY <1>1, <1>2, AheadFacts
<1> QED
  BY <1>2, <1>3 DEF FirstOf

\* All the elements are below the root.
LEMMA HoldsAll ==
    ASSUME Standing, NEW o
    PROVE  Holds(o, root, Elements)
BY BelowRoot DEF Holds

\* What the climb sees from a node on the path of its key: an element below it
\* that it has not passed lies in another slot, on the side of its chunk.
LEMMA BesidePath ==
    ASSUME Standing, NEW o, NEW k \in Keys, NEW a \in DOMAIN inner,
           Agree(a.path, k, inner[a].depth), NEW m \in Elements,
           Agree(m, a.path, inner[a].depth), ~ Agree(k, m, inner[a].depth + 1)
    PROVE  LET n == inner[a]
               d == n.depth
           IN  /\ m[d] \in Occupied(n) /\ Agree(k, m, d)
               /\ Ahead(o, k, m) <=> m[d] \in Beyond(o, k[d], n)
               /\ m # k
<1> DEFINE n == inner[a]
           d == n.depth
<1>1. d \in Chunks /\ d \in Nat /\ m \in Keys
  BY InnerTyped, ElementFacts DEF Standing
<1>2. m[d] \in Occupied(n)
  BY BelowNode
<1> HIDE DEF n
<1>3. Agree(k, m, d)
  BY DEF Agree, n
<1>4. k[d] # m[d]
  BY <1>1, <1>3, AgreeMore DEF n
<1>5. Ahead(o, k, m) <=> m[d] \in Beyond(o, k[d], n)
  BY <1>1, <1>2, <1>3, <1>4, AheadAt DEF Beyond
<1> QED
  BY <1>2, <1>3, <1>4, <1>5 DEF n

\* The climb goes on to the parent: it has now passed the whole node.
LEMMA ClimbsOn ==
    ASSUME Standing, NEW o, NEW k \in Keys, NEW a \in DOMAIN inner,
           Agree(a.path, k, inner[a].depth),
           \A m \in Elements : Agree(k, m, inner[a].depth + 1) => m \notin Sought(o, k),
           Beyond(o, k[inner[a].depth], inner[a]) = {}
    PROVE  LET p == inner[a].parent
           IN  /\ p = Dummy \/ (p \in DOMAIN inner /\ Agree(p.path, k, inner[p].depth))
               /\ \A m \in Elements : Agree(k, m, Passed(p)) => m \notin Sought(o, k)
<1> DEFINE p == inner[a].parent
           d == inner[a].depth
<1>1. a \in Live /\ ParentOf(a) = p /\ a \notin DOMAIN leaf
  BY HeapsTyped, HeapFacts DEF Live, ParentOf, Standing
<1>2. /\ p = Dummy \/ (p \in DOMAIN inner /\ Agree(p.path, k, inner[p].depth))
      /\ Passed(p) = d
  <2>1. CASE a = root
    BY <1>1, <2>1, TopNode DEF Passed
  <2>2. CASE a # root
    <3>1. /\ p \in DOMAIN inner /\ inner[p].depth \in Nat /\ Agree(a.path, p.path, inner[p].depth)
          /\ d = inner[p].depth + 1
      BY <1>1, <2>2, Upward
    <3>2. p # Dummy
      BY <3>1, InnerTyped DEF Standing
    <3> HIDE DEF p
    <3>3. Agree(a.path, k, inner[p].depth)
      BY <3>1, AgreeLess
    <3>4. Agree(p.path, k, inner[p].depth)
      BY <3>1, <3>3 DEF Agree
    <3> QED
      BY <3>1, <3>2, <3>4 DEF Passed
  <2> QED
    BY <2>1, <2>2
<1>3. ASSUME NEW m \in Elements, Agree(k, m, d)  PROVE m \notin Sought(o, k)
  <2>1. CASE ~ Agree(k, m, d + 1)
    <3>1. Agree(m, a.path, d)
      BY <1>3 DEF Agree
    <3> QED
      BY <2>1, <3>1, BesidePath DEF Sought
  <2> QED
    BY <2>1
<1> QED
  BY <1>2, <1>3

\* The climb turns down: the child it goes to holds the first of those it
\* looks for.
LEMMA ClimbTurns ==
    ASSUME Standing, NEW o, NEW k \in Keys, NEW a \in DOMAIN inner,
           Agree(a.path, k, inner[a].depth),
           \A m \in Elements : Agree(k, m, inner[a].depth + 1) => m \notin Sought(o, k),
           NEW b, b = (IF Backward(o) THEN Max(Beyond(o, k[inner[a].depth], inner[a]))
                                      ELSE Min(Beyond(o, k[inner[a].depth], inner[a]))),
           Beyond(o, k[inner[a].depth], inner[a]) # {}
    PROVE  Holds(o, inner[a].child[b], Sought(o, k))
<1> DEFINE n == inner[a]
           d == n.depth
           B == Beyond(o, k[d], n)
           c == n.child[b]
<1>1. d \in Chunks /\ d \in Nat /\ d \in 0..KeyLen /\ Elements \subseteq Keys
  BY InnerTyped, ElementFacts, KeyChunks DEF Standing
<1>2. /\ B \in SUBSET Byte /\ B \subseteq Occupied(n)
      /\ \A x \in B : x # k[d]
  <2>1. \A x \in Occupied(n) : x \in Byte /\ x \in Nat
    BY SizesAssumption DEF Occupied, Byte
  <2>2. k[d] \in Nat
    BY <1>1, KeyChunks
  <2> QED
    BY <2>1, <2>2 DEF Beyond
<1>3. b \in B /\ \A x \in B \ {b} : IF Backward(o) THEN x < b ELSE b < x
  BY <1>2, FirstByte
<1>4. \A m \in Elements : Within(m, c) <=> Agree(m, a.path, d) /\ m[d] = b
  BY <1>2, <1>3, BelowNode
<1> HIDE DEF c
<1>5. ASSUME NEW m \in Elements, Agree(m, a.path, d), ~ Agree(k, m, d + 1)
      PROVE  Agree(k, m, d) /\ (Ahead(o, k, m) <=> m[d] \in B) /\ m # k
  BY <1>5, BesidePath
<1> HIDE DEF B
<1>6. ASSUME NEW l \in Elements, Within(l, c)
      PROVE  /\ Agree(l, a.path, d) /\ l[d] = b /\ Agree(k, l, d)
             /\ l \in Sought(o, k)
  <2>1. Agree(l, a.path, d) /\ l[d] = b
    BY <1>4, <1>6
  <2>2. ~ Agree(k, l, d + 1)
    <3>1. l[d] # k[d]
      BY <1>2, <1>3, <2>1
    <3> HIDE DEF d
    <3> QED
      BY <1>1, <3>1 DEF Agree
  <2> QED
    BY <1>3, <1>5, <2>1, <2>2 DEF Sought
<1>7. ASSUME NEW l \in Elements, NEW m \in Sought(o, k), Within(l, c), ~ Within(m, c)
      PROVE  Ahead(o, l, m)
  <2>1. m \in Elements /\ ~ Agree(k, m, d + 1) /\ (m = k \/ Ahead(o, k, m))
    BY <1>7 DEF Sought
  <2>2. /\ Agree(l, a.path, d) /\ l[d] = b /\ Agree(k, l, d)
        /\ l \in Keys /\ m \in Keys
    BY <1>1, <1>6, <1>7, <2>1
  <2>3. CASE Agree(m, a.path, d)
    <3>1. m[d] \in B /\ m[d] # b
      BY <1>4, <1>5, <1>7, <2>1, <2>3
    <3>2. IF Backward(o) THEN m[d] < l[d] ELSE l[d] < m[d]
      BY <1>3, <2>2, <3>1
    <3>3. Agree(l, m, d)
      BY <2>2, <2>3 DEF Agree
    <3> QED
      BY <1>1, <2>2, <3>1, <3>2, <3>3, AheadAt
  <2>4. CASE ~ Agree(m, a.path, d)
    <3>1. ~ Agree(k, m, d)
      BY <2>4 DEF Agree
    <3>2. m # k
      BY <3>1 DEF Agree
    <3> QED
      BY <1>1, <2>1, <2>2, <3>1, <3>2, AheadSide
  <2> QED
    BY <2>3, <2>4
<1> QED
  BY <1>6, <1>7 DEF Holds, c

-----------------------------------------------------------------------------
(* The walk.                                                               *)

\* Where no call changes links the tree stands.
LEMMA WalkStands ==
    ASSUME ShapeInv, Linked
    PROVE  Standing
BY LinkedWhole DEF Standing

\* The walk follows the path of its key to the leaf it has come to.
LEMMA WalkCur ==
    ASSUME ShapeInv, call.pc = "walk", call.cur \in DOMAIN leaf
    PROVE  Agree(call.key, call.cur.path, call.depth) /\ call.depth \in 0..KeyLen
<1> DEFINE a == call.prev
           d == call.depth - 1
           l == call.cur
<1>1. Standing
  BY WalkStands DEF Linked
<1>2. CASE call.depth = 0
  BY <1>2, KeyLenAssumption DEF Agree
<1>3. CASE call.depth \in 1..KeyLen /\ call.depth # 0
  <2>1. /\ a \in DOMAIN inner /\ inner[a].depth = d /\ Agree(a.path, call.key, d)
        /\ l = inner[a].child[call.key[d]]
    BY <1>3 DEF ShapeInv, WalkFits
  <2>2. /\ call.key \in Keys /\ d \in Chunks /\ d \in Nat
    <3>1. call \in WalkCall
      BY CallShape DEF ShapeInv, TypeOK
    <3>2. call.key \in Keys
      BY <3>1 DEF WalkCall
    <3>3. d \in 0..(KeyLen - 1)
      BY <1>3, KeyLenAssumption
    <3> QED
      BY <3>2, <3>3 DEF Chunks
  <2>3. call.key[d] \in Byte /\ l # Null
    BY <1>1, <2>2, KeyChunk, HeapsTyped, HeapFacts DEF Standing, Nodes
  <2>4. call.key[d] \in Occupied(inner[a])
    BY <2>1, <2>3 DEF Occupied
  <2>5. l.path \in Elements /\ Within(l.path, l)
    BY <1>1, ElementFacts DEF Within, Standing
  <2> HIDE DEF d
  <2>6. Agree(l.path, a.path, d) /\ l.path[d] = call.key[d]
    <3>1. Within(l.path, inner[a].child[call.key[d]])
      BY <2>1, <2>5
    <3> QED
      BY <1>1, <2>1, <2>4, <2>5, <3>1, BelowNode
  <2>7. Agree(call.key, l.path, d)
    BY <2>1, <2>6 DEF Agree
  <2> HIDE DEF l
  <2>8. Agree(call.key, l.path, d + 1)
    BY <2>2, <2>6, <2>7, AgreeMore
  <2>9. d + 1 = call.depth
    BY <1>3 DEF d
  <2> QED
    BY <1>3, <2>8, <2>9 DEF l
<1> QED
  BY <1>2, <1>3 DEF ShapeInv, WalkFits

\* A walk that has come to its end has found any element on its path.
LEMMA WalkFinds ==
    ASSUME ShapeInv, call.pc = "walk", call.cur \notin DOMAIN inner, NEW m \in Elements,
           Agree(call.key, m, call.depth)
    PROVE  call.cur = LeafOf(m)
<1> DEFINE a == call.prev
           d == call.depth - 1
<1>1. Standing
  BY WalkStands DEF Linked
<1>2. CASE call.depth = 0 /\ call.cur = root
  <2>1. LeafOf(m) \in DOMAIN leaf
    BY <1>1, ElementFacts DEF Standing
  <2> QED
    BY <1>1, <1>2, <2>1, RootKind
<1>3. CASE call.depth \in 1..KeyLen /\ call.depth # 0
  <2>1. /\ a \in DOMAIN inner /\ inner[a].depth = d /\ Agree(a.path, call.key, d)
        /\ call.cur = inner[a].child[call.key[d]]
    BY <1>3 DEF ShapeInv, WalkFits
  <2>2. d \in Nat /\ call.depth = d + 1
    BY <1>3
  <2> HIDE DEF d
  <2>3. Agree(m, a.path, d) /\ m[d] = call.key[d]
    BY <2>1, <2>2 DEF Agree
  <2>4. m[d] \in Occupied(inner[a]) /\ Within(m, inner[a].child[m[d]])
    BY <1>1, <2>1, <2>3, BelowNode
  <2> QED
    BY <2>1, <2>3, <2>4 DEF Within
<1> QED
  BY <1>2, <1>3 DEF ShapeInv, WalkFits

\* So it decides whether its key is stored.
LEMMA WalkDecides ==
    ASSUME ShapeInv, call.pc = "walk", call.cur \notin DOMAIN inner
    PROVE  /\ call.key \in Elements <=> Matches
           /\ call.key \in Keys
<1>1. call.key \in Elements => Matches
  <2>1. Agree(call.key, call.key, call.depth)
    BY DEF Agree
  <2> QED
    BY <2>1, WalkFinds DEF Matches
<1>2. call \in WalkCall /\ TypeOK
  BY CallShape DEF ShapeInv, TypeOK
<1>3. ASSUME Matches  PROVE call.key \in Elements
  <2>1. call.cur # Null
    BY <1>3 DEF Matches, LeafOf, Null
  <2>2. CASE call.depth = 0 /\ call.cur = root
    <3>1. root \in Live
      BY <2>1, <2>2, WalkStands, LiveNodes DEF Linked, Standing, Tree, RootFits
    <3> QED
      BY <1>2, <1>3, <2>2, <3>1, ElementFacts DEF Matches, Live
  <2>3. CASE call.depth \in 1..KeyLen /\ call.depth # 0
    <3> DEFINE a == call.prev
               d == call.depth - 1
    <3>1. a \in DOMAIN inner /\ call.cur = inner[a].child[call.key[d]]
      BY <2>3 DEF ShapeInv, WalkFits
    <3>2. d \in Chunks /\ call.key \in Keys
      <4>1. d \in 0..(KeyLen - 1)
        BY <2>3, KeyLenAssumption
      <4> QED
        BY <1>2, <4>1 DEF Chunks, WalkCall
    <3>3. call.key[d] \in Byte
      BY <3>2, KeyChunk
    <3>4. Belongs(inner, leaf, a, call.key[d], call.cur)
      BY <2>1, <3>1, <3>3, WalkStands, PlainSubst DEF Linked, Standing, Tree, Slots
    <3> QED
      BY <1>2, <1>3, <3>4, ElementFacts DEF Matches, Belongs, Nodes
  <2> QED
    BY <2>2, <2>3 DEF ShapeInv, WalkFits
<1> QED
  BY <1>1, <1>2, <1>3 DEF WalkCall

-----------------------------------------------------------------------------
(* What the searches know is kept.                                         *)

\* A step that only looks.
LEMMA LooksOnly ==
    ASSUME UNCHANGED treeVars
    PROVE  /\ inner' = inner /\ leaf' = leaf /\ root' = root /\ Elements' = Elements
           /\ \A o, k : Sought(o, k)' = Sought(o, k)
           /\ \A m, p : Within(m, p)' <=> Within(m, p)
           /\ \A p : Passed(p)' = Passed(p)
BY DEF treeVars, Elements, Sought, Within, Passed

\* Of the other calls there is nothing to know.
LEMMA NotSearching ==
    ASSUME call'.pc \notin {"climb", "down", "unlink"}
    PROVE  SearchKnows'
BY DEF SearchKnows, ClimbKnows, DownKnows, UnlinkKnows

\* A step to a climb.
LEMMA ToClimb ==
    ASSUME UNCHANGED treeVars, NEW o, NEW k, NEW p,
           call' = [pc |-> "climb", op |-> o, key |-> k, cur |-> p],
           \/ p = Null
           \/ k = NoPath /\ o = "prev" /\ p = Dummy /\ root # Null
           \/ /\ k \in Keys
              /\ o \in FromElement => k \in Elements
              /\ p = Dummy \/ (p \in DOMAIN inner /\ Agree(p.path, k, inner[p].depth))
              /\ \A m \in Elements : Agree(k, m, Passed(p)) => m \notin Sought(o, k)
    PROVE  SearchKnows'
<1>1. call'.pc = "climb" /\ call'.op = o /\ call'.key = k /\ call'.cur = p
  OBVIOUS
<1>2. ClimbKnows'
  BY <1>1, LooksOnly DEF ClimbKnows
<1> QED
  BY <1>1, <1>2 DEF SearchKnows, DownKnows, UnlinkKnows

\* A step of the way down.
LEMMA ToDown ==
    ASSUME UNCHANGED treeVars, NEW o, NEW k, NEW p,
           call' = [pc |-> "down", op |-> o, key |-> k, cur |-> p],
           o \in FromElement /\ k # NoPath => k \in Elements,
           \/ o \in ClimbOps /\ k \in Keys /\ Holds(o, p, Sought(o, k))
           \/ /\ Holds(o, p, Elements)
              /\ \/ k = NoPath /\ o \in {"begin", "prev"}
                 \/ k \in Keys /\ o = "prev" /\ Sought("prev", k) = {}
    PROVE  SearchKnows'
<1>1. call'.pc = "down" /\ call'.op = o /\ call'.key = k /\ call'.cur = p
  OBVIOUS
<1>2. \A W : Holds(o, p, W)' <=> Holds(o, p, W)
  BY LooksOnly DEF Holds
<1>3. Elements' = Elements /\ Sought(o, k)' = Sought(o, k) /\ Sought("prev", k)' = Sought("prev", k)
  BY LooksOnly
<1>4. DownKnows'
  BY <1>1, <1>2, <1>3, LooksOnly DEF DownKnows, Holds
<1> QED
  BY <1>1, <1>4 DEF SearchKnows, ClimbKnows, UnlinkKnows

\* A bound that is not where its key leads to: no element it looks for is in
\* the slot it comes from.
LEMMA BoundMissesKnows ==
    ASSUME ShapeInv, BoundMisses
    PROVE  SearchKnows'
<1> DEFINE k == call.key
           o == call.op
           p == call.prev
<1>1. /\ call.pc = "walk" /\ o \in {"lower", "upper"} /\ UNCHANGED treeVars
      /\ call' = [pc |-> "climb", op |-> o, key |-> k, cur |-> p]
  BY DEF BoundMisses, AtGap, AtLeaf, Walking
<1>2. Standing
  BY <1>1, WalkStands DEF Linked
<1>3. call.cur \notin DOMAIN inner
  BY <1>2, HeapsTyped, HeapFacts DEF BoundMisses, AtGap, AtLeaf, Standing, Nodes
<1>4. k \in Keys
  BY <1>1, <1>3, WalkDecides
<1>5. ASSUME NEW m \in Elements, Agree(k, m, call.depth)  PROVE m \notin Sought(o, k)
  <2>1. call.cur = LeafOf(m)
    BY <1>1, <1>3, <1>5, WalkFinds
  <2>2. call.cur # Null /\ call.cur.path = m
    BY <2>1 DEF LeafOf, Null
  <2>3. ~ (Less(k, m) \/ (o = "lower" /\ Matches))
    BY <2>2 DEF BoundMisses, AtGap, AtLeaf
  <2>4. m = k => Matches
    BY <2>1 DEF Matches
  <2> QED
    BY <1>1, <2>3, <2>4 DEF Sought, Ahead, Backward
<1>6. CASE call.depth = 0 /\ p \in {Null, Dummy}
  <2>1. p = Null \/ (p = Dummy /\ Passed(p) = call.depth)
    BY <1>6 DEF Passed
  <2>2. o \notin FromElement
    BY <1>1 DEF FromElement
  <2> HIDE DEF o, k, p
  <2> QED
    BY <1>1, <1>4, <1>5, <2>1, <2>2, ToClimb
<1>7. CASE call.depth \in 1..KeyLen
  <2>1. /\ p \in DOMAIN inner /\ inner[p].depth = call.depth - 1
        /\ Agree(p.path, k, call.depth - 1)
    BY <1>1, <1>7, KeyLenAssumption DEF ShapeInv, WalkFits
  <2>2. p # Dummy
    BY <1>2, <2>1, InnerTyped DEF Standing
  <2>3. Passed(p) = call.depth
    BY <1>7, <2>1, <2>2, KeyLenAssumption DEF Passed
  <2>4. o \notin FromElement
    BY <1>1 DEF FromElement
  <2>5. Agree(p.path, k, inner[p].depth)
    BY <2>1
  <2> HIDE DEF o, k, p
  <2> QED
    BY <1>1, <1>4, <1>5, <2>1, <2>3, <2>4, <2>5, ToClimb
<1> QED
  BY <1>1, <1>6, <1>7 DEF ShapeInv, WalkFits

\* An iterator starts at the parent of its leaf, which it has passed.
LEMMA MoveIteratorKnows ==
    ASSUME ShapeInv, NEW o \in FromElement, NEW k \in Keys, MoveIterator(o, k)
    PROVE  SearchKnows'
<1> DEFINE l == LeafOf(k)
           p == leaf[l].parent
<1>1. /\ call = Idle /\ l \in DOMAIN leaf /\ UNCHANGED treeVars
      /\ call' = [pc |-> "climb", op |-> o, key |-> k, cur |-> p]
  BY DEF MoveIterator
<1>2. Standing
  BY <1>1, WalkStands DEF Linked, Idle
<1>3. l \in Live /\ ParentOf(l) = p /\ l.path = k /\ k \in Elements /\ l \notin DOMAIN inner
  BY <1>1, <1>2, ElementFacts DEF Live, ParentOf, Standing
<1>4. ~ Ahead(o, k, k) /\ o # "lower"
  BY AheadFacts DEF FromElement
<1> SUFFICES /\ p = Dummy \/ (p \in DOMAIN inner /\ Agree(p.path, k, inner[p].depth))
             /\ \A m \in Elements : Agree(k, m, Passed(p)) => m = k
  <2> HIDE DEF p
  <2>1. \A m \in Elements : Agree(k, m, Passed(p)) => m \notin Sought(o, k)
    BY <1>4 DEF Sought
  <2> QED
    BY <1>1, <1>3, <2>1, ToClimb
<1>5. CASE l = root
  <2>1. p = Dummy /\ root \notin DOMAIN inner
    BY <1>2, <1>3, <1>5, TopNode
  <2>2. ASSUME NEW m \in Elements  PROVE m = k
    <3>1. LeafOf(m) = l
      BY <1>2, <1>5, <2>1, RootKind, ElementFacts DEF Standing
    <3> QED
      BY <1>2, <3>1, ElementFacts DEF Standing
  <2> QED
    BY <2>1, <2>2
<1>6. CASE l # root
  <2> DEFINE d == inner[p].depth
  <2>1. /\ p \in DOMAIN inner /\ d \in Nat /\ inner[p].child[k[d]] = l /\ k[d] \in Byte
        /\ Agree(k, p.path, d)
    BY <1>2, <1>3, <1>6, Upward
  <2>2. p # Dummy
    BY <1>2, <2>1, InnerTyped DEF Standing
  <2> HIDE DEF l, p
  <2>3. Passed(p) = d + 1
    BY <2>2 DEF Passed
  <2> HIDE DEF d
  <2>4. ASSUME NEW m \in Elements, Agree(k, m, d + 1)  PROVE m = k
    <3>1. Agree(m, p.path, d) /\ m[d] = k[d]
      BY <2>1, <2>4 DEF Agree
    <3>2. m[d] \in Occupied(inner[p]) /\ Within(m, inner[p].child[m[d]])
      BY <1>2, <2>1, <3>1, BelowNode DEF d
    <3>3. LeafOf(m) = l
      BY <1>3, <2>1, <3>1, <3>2 DEF Within
    <3> QED
      BY <1>2, <3>3, ElementFacts DEF Standing, l
  <2>5. Agree(p.path, k, d)
    BY <2>1, AgreeSides
  <2> QED
    BY <2>1, <2>3, <2>4, <2>5 DEF d
<1> QED
  BY <1>5, <1>6

\* All forward searches look for the same.
LEMMA Forward ==
    ASSUME NEW o, o # "prev"
    PROVE  /\ \A W : FirstOf(o, W) = FirstOf("next", W)
           /\ o # "lower" => \A k : Sought(o, k) = Sought("next", k)
BY DEF FirstOf, Sought, Ahead, Backward

\* One turn of the climb.
LEMMA ClimbKept ==
    ASSUME ShapeInv, SearchKnows, Climb
    PROVE  SearchKnows'
<1> DEFINE o == call.op
           k == call.key
           a == call.cur
           n == inner[a]
           B == Beyond(o, k[n.depth], n)
<1>1. call.pc = "climb" /\ a \in DOMAIN inner /\ UNCHANGED treeVars
  BY DEF Climb
<1>2. Standing
  BY <1>1, WalkStands DEF Linked
<1>3. a # Null /\ a # Dummy /\ n.depth + 1 = Passed(a)
  BY <1>1, <1>2, InnerTyped DEF Standing, Passed
<1>4. /\ k \in Keys /\ Agree(a.path, k, n.depth)
      /\ o \in FromElement => k \in Elements
      /\ \A m \in Elements : Agree(k, m, n.depth + 1) => m \notin Sought(o, k)
  BY <1>1, <1>3 DEF SearchKnows, ClimbKnows
<1>5. CASE B = {}
  <2>1. call \in ClimbCall
    BY <1>1, CallShape DEF ShapeInv, TypeOK
  <2>2. call' = [call EXCEPT !.cur = n.parent]
    BY <1>5 DEF Climb
  <2>3. call' = [pc |-> "climb", op |-> o, key |-> k, cur |-> n.parent]
    BY <2>1, <2>2 DEF ClimbCall
  <2>4. LET p == n.parent
        IN  /\ p = Dummy \/ (p \in DOMAIN inner /\ Agree(p.path, k, inner[p].depth))
            /\ \A m \in Elements : Agree(k, m, Passed(p)) => m \notin Sought(o, k)
    BY <1>1, <1>2, <1>4, <1>5, ClimbsOn
  <2> HIDE DEF o, k, n
  <2> QED
    BY <1>1, <1>4, <2>3, <2>4, ToClimb
<1>6. CASE B # {}
  <2> DEFINE b == IF Backward(o) THEN Max(B) ELSE Min(B)
  <2>1. call' = [pc |-> "down", op |-> o, key |-> k, cur |-> n.child[b]]
    BY <1>6 DEF Climb
  <2>2. Holds(o, n.child[b], Sought(o, k))
    BY <1>1, <1>2, <1>4, <1>6, ClimbTurns
  <2>3. o \in ClimbOps
    BY <1>1, CallShape DEF ShapeInv, TypeOK, ClimbCall
  <2> HIDE DEF o, k, n, b
  <2> QED
    BY <1>1, <1>4, <2>1, <2>2, <2>3, ToDown
<1> QED
  BY <1>5, <1>6

\* The climb has come to the dummy node: it has passed every element.
LEMMA PastTop ==
    ASSUME ShapeInv, SearchKnows, DummyTracksRoot, ClimbPastTop
    PROVE  LET o == call.op
               k == call.key
           IN  /\ Standing /\ UNCHANGED treeVars
               /\ \/ k = NoPath /\ o = "prev"
                  \/ k \in Keys /\ (o \in FromElement => k \in Elements) /\ Sought(o, k) = {}
               /\ o = "prev" => /\ dummyRoot = root
                                /\ call' = [pc |-> "down", op |-> o, key |-> k, cur |-> root]
               /\ o # "prev" => Arrive(o, k, {})
<1> DEFINE o == call.op
           k == call.key
<1>1. call.pc = "climb" /\ call.cur = Dummy /\ UNCHANGED treeVars
  BY DEF ClimbPastTop
<1>2. Standing
  BY <1>1, WalkStands DEF Linked
<1>3. Dummy # Null /\ Passed(Dummy) = 0
  BY PointerKinds DEF Passed
<1>4. \/ k = NoPath /\ o = "prev" /\ root # Null
      \/ /\ k \in Keys /\ (o \in FromElement => k \in Elements)
         /\ \A m \in Elements : Agree(k, m, 0) => m \notin Sought(o, k)
  BY <1>1, <1>3 DEF SearchKnows, ClimbKnows
<1>5. \A m \in Elements : Agree(k, m, 0)
  BY DEF Agree
<1>6. k \in Keys => Sought(o, k) = {}
  BY <1>4, <1>5, NoPathIsNoKey DEF Sought
<1>7. o = "prev" => root # Null /\ dummyRoot = root
  BY <1>2, <1>4, BelowRoot DEF FromElement, DummyTracksRoot
<1>8. o = "prev" => call' = [pc |-> "down", op |-> o, key |-> k, cur |-> root]
  BY <1>7 DEF ClimbPastTop, Backward
<1>9. o # "prev" => Arrive(o, k, {})
  BY DEF ClimbPastTop, Backward
<1> QED
  BY <1>1, <1>2, <1>4, <1>5, <1>6, <1>7, <1>8, <1>9

\* What a way down has found when it ends.
LEMMA Arrived ==
    ASSUME ShapeInv, SearchKnows, ArriveAtLeaf
    PROVE  LET o == call.op
               k == call.key
               c == call.cur.path
           IN  /\ Standing /\ UNCHANGED treeVars /\ Arrive(o, k, {c})
               /\ o \in FromElement /\ k # NoPath => k \in Elements
               /\ \/ o \in ClimbOps /\ k \in Keys /\ c \in Sought(o, k) /\ FirstOf(o, Sought(o, k)) = {c}
                  \/ /\ c \in Elements /\ FirstOf(o, Elements) = {c}
                     /\ \/ k = NoPath /\ o \in {"begin", "prev"}
                        \/ k \in Keys /\ o = "prev" /\ Sought("prev", k) = {}
<1> DEFINE o == call.op
           k == call.key
           c == call.cur.path
<1>1. /\ call.pc = "down" /\ call.cur \in DOMAIN leaf /\ UNCHANGED treeVars
      /\ Arrive(o, k, {c})
  BY DEF ArriveAtLeaf
<1>2. Standing
  BY <1>1, WalkStands DEF Linked
<1>3. c \in Elements /\ call.cur = LeafOf(c)
  BY <1>1, <1>2, ElementFacts DEF Standing
<1>4. ASSUME NEW W \in SUBSET Elements, Holds(o, call.cur, W)
      PROVE  c \in W /\ FirstOf(o, W) = {c}
  <2> HIDE DEF c
  <2> QED
    BY <1>2, <1>3, <1>4, HoldsLeaf DEF Standing
<1>5. Sought(o, k) \in SUBSET Elements /\ Elements \in SUBSET Elements
  BY DEF Sought
<1>6. /\ o \in FromElement /\ k # NoPath => k \in Elements
      /\ \/ o \in ClimbOps /\ k \in Keys /\ Holds(o, call.cur, Sought(o, k))
         \/ /\ Holds(o, call.cur, Elements)
            /\ \/ k = NoPath /\ o \in {"begin", "prev"}
               \/ k \in Keys /\ o = "prev" /\ Sought("prev", k) = {}
  BY <1>1 DEF SearchKnows, DownKnows
<1> HIDE DEF o, k, c
<1>7. \/ o \in ClimbOps /\ k \in Keys /\ c \in Sought(o, k) /\ FirstOf(o, Sought(o, k)) = {c}
      \/ /\ c \in Elements /\ FirstOf(o, Elements) = {c}
         /\ \/ k = NoPath /\ o \in {"begin", "prev"}
            \/ k \in Keys /\ o = "prev" /\ Sought("prev", k) = {}
  BY <1>4, <1>5, <1>6
<1> QED
  BY <1>1, <1>2, <1>6, <1>7 DEF o, k, c

\* erase(iterator) goes on with the position after its element.
LEMMA ToUnlink ==
    ASSUME UNCHANGED treeVars, NEW k \in Elements, NEW at, at = FirstOf("next", Sought("next", k)),
           call' = [pc |-> "unlink", key |-> k, at |-> at]
    PROVE  SearchKnows'
<1>1. call'.pc = "unlink" /\ call'.key = k /\ call'.at = at
  OBVIOUS
<1>2. Elements' = Elements /\ Sought("next", k)' = Sought("next", k)
  BY LooksOnly
<1>3. FirstOf("next", Sought("next", k))' = FirstOf("next", Sought("next", k))
  BY <1>2 DEF FirstOf, Ahead
<1>4. UnlinkKnows'
  BY <1>1, <1>2, <1>3 DEF UnlinkKnows, FirstOf, Ahead
<1> QED
  BY <1>1, <1>4 DEF SearchKnows, ClimbKnows, DownKnows

\* The other steps of the iterators.
LEMMA MoveKnows ==
    ASSUME ShapeInv, SearchKnows, DummyTracksRoot,
           ClimbPastTop \/ GoDown \/ ArriveAtLeaf \/ MoveEnd \/ Begin
    PROVE  SearchKnows'
<1>1. ASSUME NEW k, NEW at, Arrive(call.op, k, at), call.op = "erase_at" =>
                 /\ UNCHANGED treeVars /\ k \in Elements
                 /\ at = FirstOf("next", Sought("next", k))
      PROVE  SearchKnows'
  <2>1. CASE call.op = "erase_at"
    BY <1>1, <2>1, ToUnlink DEF Arrive
  <2>2. CASE call.op # "erase_at"
    BY <1>1, <2>2, NotSearching DEF Arrive, Return
  <2> QED
    BY <2>1, <2>2
<1>2. CASE ClimbPastTop
  <2> DEFINE o == call.op
             k == call.key
  <2>1. /\ Standing /\ UNCHANGED treeVars
        /\ \/ k = NoPath /\ o = "prev"
           \/ k \in Keys /\ (o \in FromElement => k \in Elements) /\ Sought(o, k) = {}
        /\ o = "prev" => call' = [pc |-> "down", op |-> o, key |-> k, cur |-> root]
        /\ o # "prev" => Arrive(o, k, {})
    BY <1>2, PastTop
  <2>2. CASE o = "prev"
    <3>1. Holds(o, root, Elements)
      BY <2>1, HoldsAll
    <3> HIDE DEF o, k
    <3>2. k \in Keys => Sought("prev", k) = {}
      BY <2>1, <2>2, NoPathIsNoKey
    <3>3. k # NoPath => k \in Keys /\ k \in Elements
      BY <2>1, <2>2 DEF FromElement
    <3> QED
      BY <2>1, <2>2, <3>1, <3>2, <3>3, ToDown
  <2>3. CASE o # "prev"
    <3>1. k \in Keys /\ Sought(o, k) = {} /\ (o \in FromElement => k \in Elements)
      BY <2>1, <2>3
    <3>2. o = "erase_at" => k \in Elements /\ Sought("next", k) = {}
      BY <3>1, Forward DEF FromElement
    <3>3. FirstOf("next", {}) = {}
      BY DEF FirstOf
    <3> QED
      BY <1>1, <2>1, <2>3, <3>2, <3>3
  <2> QED
    BY <2>2, <2>3
<1>3. CASE GoDown
  <2> DEFINE o == call.op
             k == call.key
             c == Extreme(o, inner[call.cur])
  <2>1. /\ call.pc = "down" /\ call.cur \in DOMAIN inner /\ Occupied(inner[call.cur]) # {}
        /\ call' = [call EXCEPT !.cur = c] /\ UNCHANGED treeVars
    BY <1>3 DEF GoDown
  <2>2. Standing /\ call \in DownCall
    BY <2>1, WalkStands, CallShape DEF Linked, ShapeInv, TypeOK
  <2>3. call' = [pc |-> "down", op |-> o, key |-> k, cur |-> c]
    BY <2>1, <2>2 DEF DownCall
  <2>4. \A W \in SUBSET Elements : Holds(o, call.cur, W) => Holds(o, c, W)
    BY <2>1, <2>2, HoldsBelow
  <2>5. Sought(o, k) \in SUBSET Elements /\ Elements \in SUBSET Elements
    BY DEF Sought
  <2>6. /\ o \in FromElement /\ k # NoPath => k \in Elements
        /\ \/ o \in ClimbOps /\ k \in Keys /\ Holds(o, c, Sought(o, k))
           \/ /\ Holds(o, c, Elements)
              /\ \/ k = NoPath /\ o \in {"begin", "prev"}
                 \/ k \in Keys /\ o = "prev" /\ Sought("prev", k) = {}
    <3> HIDE DEF c
    <3> QED
      BY <2>1, <2>4, <2>5 DEF SearchKnows, DownKnows
  <2> HIDE DEF o, k, c
  <2> QED
    BY <2>1, <2>3, <2>6, ToDown
<1>4. CASE ArriveAtLeaf
  <2> DEFINE o == call.op
             k == call.key
             c == call.cur.path
  <2>1. /\ UNCHANGED treeVars /\ Arrive(o, k, {c})
        /\ o \in FromElement /\ k # NoPath => k \in Elements
        /\ \/ o \in ClimbOps /\ k \in Keys /\ c \in Sought(o, k) /\ FirstOf(o, Sought(o, k)) = {c}
           \/ o \in {"begin", "prev"}
    BY <1>4, Arrived
  <2>2. o = "erase_at" => k \in Elements /\ FirstOf("next", Sought("next", k)) = {c}
    <3> SUFFICES ASSUME o = "erase_at"
                 PROVE  k \in Elements /\ FirstOf("next", Sought("next", k)) = {c}
      OBVIOUS
    <3> HIDE DEF c, k
    <3>1. k \in Elements /\ FirstOf(o, Sought(o, k)) = {c}
      BY <2>1, NoPathIsNoKey DEF FromElement
    <3> QED
      BY <3>1, Forward
  <2> QED
    BY <1>1, <2>1, <2>2
<1>5. CASE MoveEnd
  <2>1. /\ root # Null /\ UNCHANGED treeVars
        /\ call' = [pc |-> "climb", op |-> "prev", key |-> NoPath, cur |-> Dummy]
    BY <1>5 DEF MoveEnd
  <2> QED
    BY <2>1, ToClimb
<1>6. CASE Begin
  <2>1. /\ call = Idle /\ UNCHANGED treeVars
        /\ root = Null => call'.pc = "return"
        /\ root # Null => call' = [pc |-> "down", op |-> "begin", key |-> NoPath, cur |-> root]
    BY <1>6 DEF Begin, Return
  <2>2. Standing
    BY <2>1, WalkStands DEF Linked, Idle
  <2>3. Holds("begin", root, Elements)
    BY <2>2, HoldsAll
  <2>4. CASE root = Null
    BY <2>1, <2>4, NotSearching
  <2>5. CASE root # Null
    BY <2>1, <2>3, <2>5, ToDown
  <2> QED
    BY <2>4, <2>5
<1> QED
  BY <1>2, <1>3, <1>4, <1>5, <1>6

\* No other step goes to a search.
LEMMA OtherSteps ==
    ASSUME TypeOK,
           \/ Descend \/ FindEnds \/ BoundHits \/ InsertDuplicate \/ EraseMisses
           \/ SplitLeaf \/ ExtendTie \/ BreakTie \/ GrowNode \/ FillGap \/ LinkLeaf
           \/ EraseRoot \/ EraseLeaf \/ UnlinkRoot \/ UnlinkLeaf
           \/ ShrinkToNode \/ ShrinkToLeaf \/ KeepOneWay \/ ShrinkEnds
           \/ CompressAtTop \/ CompressRoot \/ CompressInner \/ CompressEnds \/ Relink
           \/ ClearChild \/ ClearNode \/ ClearEnds \/ CallClear \/ Resume
           \/ \E o, k, v : CallOnEmpty(o, k, v) \/ CallOnTree(o, k, v)
    PROVE  call'.pc \notin {"climb", "down", "unlink"}
<1>1. CASE Descend \/ GrowNode
  <2>1. call.pc = "walk" /\ call \in WalkCall
    BY <1>1, CallShape DEF Descend, GrowNode, AtGap, Walking, TypeOK
  <2> QED
    BY <1>1, <2>1 DEF Descend, GrowNode, WalkCall
<1>2. CASE FindEnds \/ BoundHits \/ InsertDuplicate \/ EraseMisses \/ EraseRoot
  BY <1>2 DEF FindEnds, BoundHits, InsertDuplicate, EraseMisses, EraseRoot, Return
<1>3. CASE SplitLeaf \/ BreakTie \/ FillGap \/ LinkLeaf
  BY <1>3 DEF SplitLeaf, BreakTie, FillGap, LinkLeaf, Return
<1>4. CASE ExtendTie
  <2>1. call \in TieCall
    BY <1>4, CallShape DEF ExtendTie, TypeOK
  <2> QED
    BY <1>4, <2>1 DEF ExtendTie, TieCall
<1>5. CASE EraseLeaf \/ UnlinkRoot \/ UnlinkLeaf
  <2>1. ASSUME NEW o, NEW n, NEW b, NEW k, NEW at, DropLeaf(o, n, b, k, at)
        PROVE  call'.pc = "shrink"
    BY <2>1 DEF DropLeaf
  <2>2. CASE EraseLeaf
    BY <2>1, <2>2 DEF EraseLeaf
  <2>3. CASE UnlinkRoot
    BY <2>3 DEF UnlinkRoot, Return
  <2>4. CASE UnlinkLeaf
    BY <2>1, <2>4 DEF UnlinkLeaf
  <2> QED
    BY <1>5, <2>2, <2>3, <2>4
<1>6. CASE ShrinkToNode
  <2>1. call.pc = "shrink" /\ call \in ShrinkCall
    BY <1>6, CallShape DEF ShrinkToNode, Underfull, TypeOK
  <2> QED
    BY <1>6, <2>1 DEF ShrinkToNode, ShrinkCall
<1>7. CASE ShrinkToLeaf \/ KeepOneWay \/ ShrinkEnds
  BY <1>7 DEF ShrinkToLeaf, KeepOneWay, ShrinkEnds, Return
<1>8. CASE CompressAtTop \/ CompressRoot \/ CompressEnds \/ Relink
  BY <1>8 DEF CompressAtTop, CompressRoot, CompressEnds, EndCompress, Relink, Return
<1>9. CASE CompressInner
  <2>1. call.pc = "compress" /\ call \in CompressCall
    BY <1>9, CallShape DEF CompressInner, OneWayAbove, TypeOK
  <2> QED
    BY <1>9, <2>1 DEF CompressInner, CompressCall
<1>10. CASE ClearChild \/ ClearNode
  <2>1. call.pc = "clear" /\ call \in ClearCall
    BY <1>10, CallShape DEF ClearChild, ClearNode, Clearing, TypeOK
  <2> QED
    BY <1>10, <2>1 DEF ClearChild, ClearNode, ClearCall
<1>11. CASE ClearEnds \/ CallClear \/ Resume
  BY <1>11 DEF ClearEnds, CallClear, Resume, Return, Idle
<1>12. ASSUME NEW o, NEW k, NEW v, CallOnEmpty(o, k, v) \/ CallOnTree(o, k, v)
       PROVE  call'.pc \notin {"climb", "down", "unlink"}
  BY <1>12 DEF CallOnEmpty, CallOnTree, Return
<1> QED
  BY <1>1, <1>2, <1>3, <1>4, <1>5, <1>6, <1>7, <1>8, <1>9, <1>10, <1>11, <1>12

\* Every step keeps what the searches know.
LEMMA SearchNext ==
    ASSUME ShapeInv, SearchKnows, DummyTracksRoot, [Next]_vars
    PROVE  SearchKnows'
<1>1. CASE \/ BoundMisses \/ Climb \/ ClimbPastTop \/ GoDown \/ ArriveAtLeaf \/ MoveEnd \/ Begin
           \/ \E o \in FromElement, k \in Keys : MoveIterator(o, k)
  BY <1>1, BoundMissesKnows, ClimbKept, MoveKnows, MoveIteratorKnows
<1>2. CASE \/ Descend \/ FindEnds \/ BoundHits \/ InsertDuplicate \/ EraseMisses
           \/ SplitLeaf \/ ExtendTie \/ BreakTie \/ GrowNode \/ FillGap \/ LinkLeaf
           \/ EraseRoot \/ EraseLeaf \/ UnlinkRoot \/ UnlinkLeaf
           \/ ShrinkToNode \/ ShrinkToLeaf \/ KeepOneWay \/ ShrinkEnds
           \/ CompressAtTop \/ CompressRoot \/ CompressInner \/ CompressEnds \/ Relink
           \/ ClearChild \/ ClearNode \/ ClearEnds \/ CallClear \/ Resume
           \/ \E o, k, v : CallOnEmpty(o, k, v) \/ CallOnTree(o, k, v)
  BY <1>2, OtherSteps, NotSearching DEF ShapeInv
<1>3. CASE UNCHANGED vars
  <2>1. UNCHANGED treeVars /\ call' = call
    BY <1>3 DEF vars, treeVars
  <2>2. \A o, p, W : Holds(o, p, W)' <=> Holds(o, p, W)
    BY <2>1, LooksOnly DEF Holds
  <2>3. ClimbKnows' /\ DownKnows' /\ UnlinkKnows'
    BY <2>1, <2>2, LooksOnly
       DEF SearchKnows, ClimbKnows, DownKnows, UnlinkKnows, FirstOf, Ahead, Holds
  <2> QED
    BY <2>3 DEF SearchKnows
<1> QED
  BY <1>1, <1>2, <1>3 DEF Next, Client, Running, FromElement

\* A search has left nothing behind that it looks for, in every step of every
\* call: the climb on the path of its key, the way down, and the position that
\* erase(iterator) keeps while it unlinks its element.
THEOREM SearchHolds == Spec => []SearchKnows
<1>1. Init => SearchKnows
  BY DEF Init, Idle, SearchKnows, ClimbKnows, DownKnows, UnlinkKnows
<1>2. ShapeInv /\ DummyTracksRoot /\ SearchKnows /\ [Next]_vars => SearchKnows'
  BY SearchNext
<1> QED
  BY <1>1, <1>2, ShapeHolds, DummyFollows, PTL DEF Spec

-----------------------------------------------------------------------------
(* The tree read as a map.                                                 *)

\* The calls whose effect is still to come: the map has no answer yet.
Open == call.pc \notin {"return", "shrink", "compress", "relink", "clear"}

\* The keys a call asks the map about.
AskedOf(k) == IF k = NoPath THEN {} ELSE {k}

\* The values of the elements.
LEMMA ContentIs ==
    /\ call.pc # "clear" => Content = [k \in Elements |-> leaf[LeafOf(k)].value]
    /\ call'.pc # "clear" => Content' = [k \in Elements' |-> leaf'[LeafOf(k)].value]
  BY DEF Content, Elements

\* What the map calls its elements, and its searches.
LEMMA Readings ==
    ASSUME call.pc # "clear"
    PROVE  /\ Map!Stored = Elements
           /\ \A W : Map!Smallest(W) = FirstOf("next", W) /\ Map!Largest(W) = FirstOf("prev", W)
           /\ \A k : /\ Map!Above(k) = Sought("next", k)
                     /\ Map!Below(k) = Sought("prev", k)
                     /\ (Map!Stored \cap {k}) \cup Map!Above(k) = Sought("lower", k)
<1>1. Map!Stored = Elements
  BY ContentIs DEF Map!Stored
<1>2. \A W : Map!Smallest(W) = FirstOf("next", W) /\ Map!Largest(W) = FirstOf("prev", W)
  BY DEF Map!Smallest, Map!Largest, FirstOf, Ahead, Backward
<1>3. \A k : /\ Map!Above(k) = Sought("next", k)
             /\ Map!Below(k) = Sought("prev", k)
             /\ (Map!Stored \cap {k}) \cup Map!Above(k) = Sought("lower", k)
  BY <1>1 DEF Map!Above, Map!Below, Sought, Ahead, Backward
<1> QED
  BY <1>1, <1>2, <1>3

\* Before its effect a call has no answer; when it returns it has.
LEMMA AnsweredIs ==
    /\ Open => Answered = Map!NoAnswer
    /\ Open' => Answered' = Map!NoAnswer
    /\ \A o, k, at, did : call' = Return(o, k, at, did) =>
           Answered' = Map!Answer(o, AskedOf(k), at, did)
<1>1. (Open => Answered = Map!NoAnswer) /\ (Open' => Answered' = Map!NoAnswer)
  BY DEF Open, Answered, Map!NoAnswer
<1>2. ASSUME NEW o, NEW k, NEW at, NEW did, call' = Return(o, k, at, did)
      PROVE  Answered' = Map!Answer(o, AskedOf(k), at, did)
  <2>1. call'.pc = "return" /\ call'.op = o /\ call'.key = k /\ call'.at = at /\ call'.did = did
    BY <1>2 DEF Return
  <2> QED
    BY <2>1 DEF Answered, Asked, AskedOf, Map!Answer
<1> QED
  BY <1>1, <1>2

\* An answer names its operation.
LEMMA IsAnswer ==
    ASSUME NEW o, NEW asked, NEW at, NEW did, o # "none"
    PROVE  Map!Answer(o, asked, at, did) # Map!NoAnswer
  BY DEF Map!Answer, Map!NoAnswer

\* Leaves that keep their values are the same elements.
LEMMA SameContent ==
    ASSUME Kept, DOMAIN leaf' = DOMAIN leaf, TypeOK, call.pc # "clear", call'.pc # "clear"
    PROVE  Content' = Content
<1>1. Elements' = Elements
  BY DEF Elements
<1>2. \A k \in Elements : leaf'[LeafOf(k)].value = leaf[LeafOf(k)].value
  BY ElementFacts DEF Kept
<1> QED
  BY <1>1, <1>2, ContentIs

\* A call that only looks.
LEMMA Looked ==
    ASSUME UNCHANGED treeVars, Open, NEW o, NEW k, NEW at, call' = Return(o, k, at, FALSE), o # "none"
    PROVE  /\ Answered = Map!NoAnswer /\ Answered' # Map!NoAnswer
           /\ Map!Look(o, AskedOf(k), at)
<1>1. call.pc # "clear" /\ call'.pc # "clear"
  BY DEF Open, Return
<1>2. Content' = Content
  BY <1>1, ContentIs, LooksOnly
<1>3. Answered = Map!NoAnswer /\ Answered' = Map!Answer(o, AskedOf(k), at, FALSE)
  BY AnsweredIs
<1>4. Answered' # Map!NoAnswer
  BY <1>3, IsAnswer
<1> QED
  BY <1>2, <1>3, <1>4 DEF Map!Look

\* A step in which the map does nothing, before the effect of the call.
LEMMA Waits ==
    ASSUME TypeOK, Open, Open',
           \/ leaf' = leaf
           \/ \E x, p : leaf' = [leaf EXCEPT ![x].parent = p]
           \/ \E S, p : leaf' = Adopt(leaf, S, p)
    PROVE  UNCHANGED <<Content, Answered>>
<1>1. Kept
  BY KeptBy
<1>2. DOMAIN leaf' = DOMAIN leaf
  BY DEF Adopt
<1>3. call.pc # "clear" /\ call'.pc # "clear"
  BY DEF Open
<1>4. Content' = Content
  BY <1>1, <1>2, <1>3, SameContent
<1>5. Answered = Map!NoAnswer /\ Answered' = Map!NoAnswer
  BY AnsweredIs
<1> QED
  BY <1>4, <1>5

\* Until its effect a call goes on without the map.
LEMMA OpenSteps ==
    ASSUME ShapeInv,
           \/ Descend \/ BoundMisses \/ SplitLeaf \/ ExtendTie \/ GrowNode
           \/ MoveEnd \/ Climb \/ GoDown
           \/ (Begin /\ root # Null)
           \/ \E o, k, v : CallOnTree(o, k, v) \/ MoveIterator(o, k)
    PROVE  UNCHANGED <<Content, Answered>>
<1>1. TypeOK
  BY DEF ShapeInv
<1>2. CASE Descend \/ GrowNode
  <2>1. call.pc = "walk" /\ call \in WalkCall
    BY <1>1, <1>2, CallShape DEF Descend, GrowNode, AtGap, Walking, TypeOK
  <2>2. call'.pc = "walk"
    BY <1>2, <2>1 DEF Descend, GrowNode, WalkCall
  <2>3. leaf' = leaf \/ \E S, p : leaf' = Adopt(leaf, S, p)
    BY <1>2 DEF Descend, GrowNode, treeVars
  <2> QED
    BY <1>1, <2>1, <2>2, <2>3, Waits DEF Open
<1>3. CASE ExtendTie
  <2>1. call.pc = "tie" /\ call \in TieCall
    BY <1>1, <1>3, CallShape DEF ExtendTie, TypeOK
  <2>2. call'.pc = "tie"
    BY <1>3, <2>1 DEF ExtendTie, TieCall
  <2>3. \E x, p : leaf' = [leaf EXCEPT ![x].parent = p]
    BY <1>3 DEF ExtendTie
  <2> QED
    BY <1>1, <2>1, <2>2, <2>3, Waits DEF Open
<1>4. CASE SplitLeaf
  <2>1. call.pc = "walk" /\ call'.pc = "tie"
    BY <1>4 DEF SplitLeaf, AtLeaf, Walking
  <2>2. \E x, p : leaf' = [leaf EXCEPT ![x].parent = p]
    BY <1>4 DEF SplitLeaf
  <2> QED
    BY <1>1, <2>1, <2>2, Waits DEF Open
<1>5. CASE BoundMisses
  <2>1. call.pc = "walk" /\ call'.pc = "climb" /\ leaf' = leaf
    BY <1>5 DEF BoundMisses, AtLeaf, AtGap, Walking, treeVars
  <2> QED
    BY <1>1, <2>1, Waits DEF Open
<1>6. CASE Climb
  <2>1. call.pc = "climb" /\ call \in ClimbCall
    BY <1>1, <1>6, CallShape DEF Climb, TypeOK
  <2>2. call'.pc \in {"climb", "down"} /\ leaf' = leaf
    BY <1>6, <2>1 DEF Climb, ClimbCall, treeVars
  <2> QED
    BY <1>1, <2>1, <2>2, Waits DEF Open
<1>7. CASE GoDown
  <2>1. call.pc = "down" /\ call \in DownCall
    BY <1>1, <1>7, CallShape DEF GoDown, TypeOK
  <2>2. call'.pc = "down" /\ leaf' = leaf
    BY <1>7, <2>1 DEF GoDown, DownCall, treeVars
  <2> QED
    BY <1>1, <2>1, <2>2, Waits DEF Open
<1>8. CASE MoveEnd \/ (Begin /\ root # Null)
  <2>1. call = Idle /\ UNCHANGED treeVars
    BY <1>8 DEF MoveEnd, Begin
  <2>2. call.pc = "idle" /\ leaf' = leaf
    BY <2>1 DEF Idle, treeVars
  <2>3. ASSUME MoveEnd  PROVE call'.pc = "climb"
    BY <2>3 DEF MoveEnd
  <2>4. ASSUME Begin, root # Null  PROVE call'.pc = "down"
    BY <2>4 DEF Begin
  <2> QED
    BY <1>1, <1>8, <2>2, <2>3, <2>4, Waits DEF Open
<1>9. ASSUME NEW o, NEW k, NEW v, CallOnTree(o, k, v) \/ MoveIterator(o, k)
      PROVE  UNCHANGED <<Content, Answered>>
  <2>1. call.pc = "idle" /\ call'.pc \in {"walk", "climb"} /\ leaf' = leaf
    BY <1>9 DEF CallOnTree, MoveIterator, Idle, treeVars
  <2> QED
    BY <1>1, <2>1, Waits DEF Open
<1> QED
  BY <1>2, <1>3, <1>4, <1>5, <1>6, <1>7, <1>8, <1>9

\* After the effect of an erasure fix_after_erase goes on without the map.
LEMMA FixingSteps ==
    ASSUME ShapeInv,
           \/ ShrinkToNode \/ ShrinkToLeaf \/ KeepOneWay \/ ShrinkEnds
           \/ CompressAtTop \/ CompressRoot \/ CompressInner \/ CompressEnds \/ Relink
    PROVE  UNCHANGED <<Content, Answered>>
<1>1. TypeOK
  BY DEF ShapeInv
<1>2. ASSUME \/ leaf' = leaf
             \/ \E x, p : leaf' = [leaf EXCEPT ![x].parent = p]
             \/ \E S, p : leaf' = Adopt(leaf, S, p),
             call.pc \in Replacing, call'.pc \in Replacing \/ (call'.pc = "return" /\ call'.did = TRUE),
             call'.op = call.op, call'.key = call.key, call'.at = call.at
      PROVE  UNCHANGED <<Content, Answered>>
  <2>1. Kept
    BY <1>1, <1>2, KeptBy
  <2>2. DOMAIN leaf' = DOMAIN leaf
    BY <1>2 DEF Adopt
  <2>3. call.pc # "clear" /\ call'.pc # "clear"
    BY <1>2 DEF Replacing
  <2>4. Content' = Content
    BY <1>1, <2>1, <2>2, <2>3, SameContent
  <2>5. Asked' = Asked
    BY <1>2 DEF Asked
  <2>6. Answered = [op |-> call.op, asked |-> Asked, at |-> call.at, did |-> TRUE]
    BY <1>2 DEF Answered, Replacing
  <2>7. Answered' = [op |-> call'.op, asked |-> Asked', at |-> call'.at, did |-> TRUE]
    BY <1>2 DEF Answered, Replacing
  <2> QED
    BY <1>2, <2>4, <2>5, <2>6, <2>7
<1>3. CASE ShrinkToNode
  <2>1. call.pc = "shrink" /\ call \in ShrinkCall
    BY <1>1, <1>3, CallShape DEF ShrinkToNode, Underfull, TypeOK
  <2>2. call'.pc = "shrink" /\ call'.op = call.op /\ call'.key = call.key /\ call'.at = call.at
    BY <1>3, <2>1 DEF ShrinkToNode, ShrinkCall
  <2>3. \E S, p : leaf' = Adopt(leaf, S, p)
    BY <1>3 DEF ShrinkToNode
  <2> QED
    BY <1>2, <2>1, <2>2, <2>3 DEF Replacing
<1>4. CASE ShrinkToLeaf
  <2>1. call.pc = "shrink"
    BY <1>4 DEF ShrinkToLeaf, Underfull
  <2>2. call'.pc = "compress" /\ call'.op = call.op /\ call'.key = call.key /\ call'.at = call.at
    BY <1>4 DEF ShrinkToLeaf
  <2>3. \E x, p : leaf' = [leaf EXCEPT ![x].parent = p]
    BY <1>4 DEF ShrinkToLeaf
  <2> QED
    BY <1>2, <2>1, <2>2, <2>3 DEF Replacing
<1>5. CASE KeepOneWay \/ ShrinkEnds
  <2>1. call.pc = "shrink" /\ leaf' = leaf
    BY <1>5 DEF KeepOneWay, ShrinkEnds, Underfull, treeVars
  <2>2. /\ call'.pc = "relink" \/ (call'.pc = "return" /\ call'.did = TRUE)
        /\ call'.op = call.op /\ call'.key = call.key /\ call'.at = call.at
    BY <1>5 DEF KeepOneWay, ShrinkEnds, Return
  <2> QED
    BY <1>2, <2>1, <2>2 DEF Replacing
<1>6. CASE CompressAtTop \/ CompressRoot \/ CompressEnds
  <2>1. call.pc = "compress" /\ EndCompress
    BY <1>6 DEF CompressAtTop, CompressRoot, CompressEnds, OneWayAbove
  <2>2. call'.pc = "relink" /\ call'.op = call.op /\ call'.key = call.key /\ call'.at = call.at
    BY <2>1 DEF EndCompress
  <2>3. leaf' = leaf \/ \E x, p : leaf' = [leaf EXCEPT ![x].parent = p]
    BY <1>6 DEF CompressAtTop, CompressRoot, CompressEnds, treeVars
  <2> QED
    BY <1>2, <2>1, <2>2, <2>3 DEF Replacing
<1>7. CASE CompressInner
  <2>1. call.pc = "compress" /\ call \in CompressCall
    BY <1>1, <1>7, CallShape DEF CompressInner, OneWayAbove, TypeOK
  <2>2. call'.pc = "compress" /\ call'.op = call.op /\ call'.key = call.key /\ call'.at = call.at
    BY <1>7, <2>1 DEF CompressInner, CompressCall
  <2>3. \E x, p : leaf' = [leaf EXCEPT ![x].parent = p]
    BY <1>7 DEF CompressInner
  <2> QED
    BY <1>2, <2>1, <2>2, <2>3 DEF Replacing
<1>8. CASE Relink
  <2>1. call.pc = "relink" /\ leaf' = leaf
    BY <1>8 DEF Relink
  <2>2. /\ call'.pc = "return" /\ call'.did = TRUE
        /\ call'.op = call.op /\ call'.key = call.key /\ call'.at = call.at
    BY <1>8 DEF Relink, Return
  <2> QED
    BY <1>2, <2>1, <2>2 DEF Replacing
<1> QED
  BY <1>3, <1>4, <1>5, <1>6, <1>7, <1>8

-----------------------------------------------------------------------------
(* The operations.                                                         *)

\* A call that has no answer yet and gets one is an operation of the map.
LEMMA Operates ==
    ASSUME Answered = Map!NoAnswer, Answered' # Map!NoAnswer, Map!Operation
    PROVE  Map!Next
  BY DEF Map!Next

\* insert and emplace link a leaf: the map puts its value.
LEMMA LinkPuts ==
    ASSUME TypeOK, Open, NEW o \in InsertOps, NEW k \in Keys, NEW v \in Values, NEW p,
           LeafOf(k) \notin DOMAIN leaf,
           leaf' = Allocate(leaf, LeafOf(k), [parent |-> p, value |-> v]),
           call' = Return(o, k, {k}, TRUE)
    PROVE  Map!Next
<1>1. call.pc # "clear" /\ call'.pc # "clear"
  BY DEF Open, Return
<1>2. Map!Stored = Elements
  BY <1>1, Readings
<1>3. DOMAIN leaf' = DOMAIN leaf \cup {LeafOf(k)}
  BY DEF Allocate
<1>4. Elements' = Elements \cup {k} /\ k \notin Elements
  BY <1>3, ElementFacts DEF Elements
<1>5. \A j \in Elements' : leaf'[LeafOf(j)].value = IF j \in Elements THEN Content[j] ELSE v
  <2>1. leaf'[LeafOf(k)].value = v
    BY DEF Allocate
  <2>2. ASSUME NEW j \in Elements  PROVE leaf'[LeafOf(j)].value = Content[j]
    <3>1. LeafOf(j) \in DOMAIN leaf /\ LeafOf(j) # LeafOf(k)
      BY ElementFacts
    <3>2. leaf'[LeafOf(j)] = leaf[LeafOf(j)]
      BY <3>1 DEF Allocate
    <3> QED
      BY <1>1, <3>2, ContentIs
  <2> QED
    BY <1>4, <2>1, <2>2
<1>6. Content' = [j \in Elements \cup {k} |-> IF j \in Elements THEN Content[j] ELSE v]
  BY <1>1, <1>4, <1>5, ContentIs
<1>7. Answered = Map!NoAnswer /\ Answered' = Map!Answer(o, {k}, {k}, TRUE) /\ o # "none"
  BY AnsweredIs, NoPathIsNoKey DEF AskedOf, InsertOps
<1>8. Map!Put(o, k, v)
  <2>1. Content' = [j \in Map!Stored \cup {k} |-> IF j \in Map!Stored THEN Content[j] ELSE v]
    BY <1>2, <1>6
  <2>2. Answered' = Map!Answer(o, {k}, {k}, k \notin Map!Stored)
    BY <1>2, <1>4, <1>7
  <2> QED
    BY <2>1, <2>2 DEF Map!Put
<1>9. Map!Operation
  BY <1>8 DEF Map!Operation, InsertOps
<1>10. Answered' # Map!NoAnswer
  BY <1>7, IsAnswer
<1> QED
  BY <1>7, <1>9, <1>10, Operates

\* insert and emplace find the key: it keeps its value.
LEMMA DuplicatePuts ==
    ASSUME ShapeInv, InsertDuplicate
    PROVE  Map!Next
<1> DEFINE o == call.op
           k == call.key
           v == call.value
<1>1. /\ call.pc = "walk" /\ o \in InsertOps /\ UNCHANGED treeVars /\ Matches
      /\ call' = Return(o, k, {k}, FALSE)
  BY DEF InsertDuplicate, AtLeaf, Walking
<1>2. call \in WalkCall
  BY <1>1, CallShape DEF ShapeInv, TypeOK
<1>3. k \in Keys /\ v \in Values
  BY <1>2 DEF WalkCall
<1>4. k \in Elements
  <2>1. call.cur = LeafOf(k) /\ call.cur \in DOMAIN leaf
    BY <1>1 DEF InsertDuplicate, AtLeaf, Matches
  <2> QED
    BY <2>1, ElementFacts DEF ShapeInv
<1>5. call.pc # "clear" /\ call'.pc # "clear" /\ Open
  BY <1>1 DEF Open, Return
<1> HIDE DEF o, k, v
<1>6. Map!Stored = Elements
  BY <1>5, Readings
<1>7. Content' = Content /\ Content = [j \in Elements |-> Content[j]]
  BY <1>1, <1>5, ContentIs, LooksOnly
<1>8. Answered = Map!NoAnswer /\ Answered' = Map!Answer(o, {k}, {k}, FALSE) /\ o # "none"
  BY <1>1, <1>3, <1>5, AnsweredIs, NoPathIsNoKey DEF AskedOf, InsertOps
<1>9. Map!Put(o, k, v)
  <2>1. Elements \cup {k} = Elements
    BY <1>4
  <2>2. [j \in Elements |-> Content[j]] =
          [j \in Elements |-> IF j \in Elements THEN Content[j] ELSE v]
    OBVIOUS
  <2>3. Content' = [j \in Map!Stored \cup {k} |-> IF j \in Map!Stored THEN Content[j] ELSE v]
    BY <1>6, <1>7, <2>1, <2>2
  <2>4. Answered' = Map!Answer(o, {k}, {k}, k \notin Map!Stored)
    BY <1>4, <1>6, <1>8
  <2> QED
    BY <2>3, <2>4 DEF Map!Put
<1>10. Map!Operation
  BY <1>1, <1>3, <1>9 DEF Map!Operation, InsertOps
<1>11. Answered' # Map!NoAnswer
  BY <1>8, IsAnswer
<1> QED
  BY <1>8, <1>10, <1>11, Operates

\* The steps of insert and emplace that link their leaf, or find that an empty
\* slot is for it.
LEMMA InsertSteps ==
    ASSUME ShapeInv,
           \/ BreakTie \/ FillGap \/ LinkLeaf
           \/ \E o \in InsertOps, k \in Keys : \E v \in Given[k] : CallOnEmpty(o, k, v)
    PROVE  Map!Next \/ UNCHANGED <<Content, Answered>>
<1>1. TypeOK
  BY DEF ShapeInv
<1>2. ASSUME NEW n, NEW b, NEW k \in Keys, NEW v \in Values, InsertLeaf(n, b, k, v),
             NEW o \in InsertOps, call' = Return(o, k, {k}, TRUE), Open
      PROVE  Map!Next
  <2>1. LeafOf(k) \notin DOMAIN leaf /\ leaf' = Allocate(leaf, LeafOf(k), [parent |-> n, value |-> v])
    BY <1>2 DEF InsertLeaf
  <2> QED
    BY <1>1, <1>2, <2>1, LinkPuts
<1>3. CASE BreakTie
  <2>1. call.pc = "tie" /\ call \in TieCall /\ Open
    BY <1>1, <1>3, CallShape DEF BreakTie, TypeOK, Open
  <2>2. call.key \in Keys /\ call.value \in Values
    BY <2>1 DEF TieCall
  <2>3. CASE call.op = "insert"
    BY <1>2, <1>3, <2>1, <2>2, <2>3 DEF BreakTie, InsertOps
  <2>4. CASE call.op = "emplace"
    <3>1. call'.pc = "link" /\ leaf' = leaf
      BY <1>3, <2>4 DEF BreakTie, treeVars
    <3> QED
      BY <1>1, <2>1, <3>1, Waits DEF Open
  <2> QED
    BY <1>3, <2>3, <2>4 DEF BreakTie
<1>4. CASE FillGap
  <2>1. call.pc = "walk" /\ call \in WalkCall /\ Open
    BY <1>1, <1>4, CallShape DEF FillGap, AtGap, Walking, TypeOK, Open
  <2>2. call.key \in Keys /\ call.value \in Values
    BY <2>1 DEF WalkCall
  <2>3. CASE call.op = "insert"
    BY <1>2, <1>4, <2>1, <2>2, <2>3 DEF FillGap, InsertOps
  <2>4. CASE call.op = "emplace"
    <3>1. call'.pc = "link" /\ leaf' = leaf
      BY <1>4, <2>4 DEF FillGap, treeVars
    <3> QED
      BY <1>1, <2>1, <3>1, Waits DEF Open
  <2> QED
    BY <1>4, <2>3, <2>4 DEF FillGap
<1>5. CASE LinkLeaf
  <2>1. call.pc = "link" /\ call \in LinkCall /\ Open
    BY <1>1, <1>5, CallShape DEF LinkLeaf, TypeOK, Open
  <2>2. call.key \in Keys /\ call.value \in Values
    BY <2>1 DEF LinkCall
  <2>3. call' = Return("emplace", call.key, {call.key}, TRUE) /\ "emplace" \in InsertOps
    BY <1>5 DEF LinkLeaf, InsertOps
  <2>4. CASE \E n, b : InsertLeaf(n, b, call.key, call.value)
    BY <1>2, <2>1, <2>2, <2>3, <2>4
  <2>5. CASE /\ LeafOf(call.key) \notin DOMAIN leaf
             /\ leaf' = Allocate(leaf, LeafOf(call.key), [parent |-> Dummy, value |-> call.value])
    BY <1>1, <2>1, <2>2, <2>3, <2>5, LinkPuts
  <2> QED
    BY <1>5, <2>4, <2>5 DEF LinkLeaf
<1>6. ASSUME NEW o \in InsertOps, NEW k \in Keys, NEW v \in Given[k], CallOnEmpty(o, k, v)
      PROVE  Map!Next \/ UNCHANGED <<Content, Answered>>
  <2>1. call.pc = "idle" /\ Open
    BY <1>6 DEF CallOnEmpty, Idle, Open
  <2>2. v \in Values
    BY GivenAssumption
  <2>3. CASE o = "insert"
    <3>1. /\ LeafOf(k) \notin DOMAIN leaf
          /\ leaf' = Allocate(leaf, LeafOf(k), [parent |-> Dummy, value |-> v])
          /\ call' = Return(o, k, {k}, TRUE)
      BY <1>6, <2>3 DEF CallOnEmpty
    <3> QED
      BY <1>1, <2>1, <2>2, <3>1, LinkPuts
  <2>4. CASE o = "emplace"
    <3>1. call'.pc = "link" /\ leaf' = leaf
      BY <1>6, <2>4 DEF CallOnEmpty, treeVars
    <3> QED
      BY <1>1, <2>1, <3>1, Waits DEF Open
  <2> QED
    BY <2>3, <2>4 DEF InsertOps
<1> QED
  BY <1>3, <1>4, <1>5, <1>6

\* An erasure deletes the leaf of its key: the map removes it.
LEMMA FreeRemoves ==
    ASSUME TypeOK, call.pc # "clear", call'.pc # "clear", NEW k, leaf' = Free(leaf, LeafOf(k)),
           NEW o, NEW at, NEW did, Answered' = Map!Answer(o, {k}, at, did)
    PROVE  Map!Remove(k, o, at, did)
<1>1. Map!Stored = Elements
  BY Readings
<1>2. Elements' = Elements \ {k}
  BY ElementFacts DEF Elements, Free
<1>3. ASSUME NEW j \in Elements \ {k}  PROVE leaf'[LeafOf(j)].value = Content[j]
  <2>1. LeafOf(j) \in DOMAIN leaf /\ LeafOf(j) # LeafOf(k)
    BY ElementFacts
  <2>2. leaf'[LeafOf(j)] = leaf[LeafOf(j)]
    BY <2>1 DEF Free
  <2> QED
    BY <2>2, ContentIs
<1>4. Content' = [j \in Elements \ {k} |-> Content[j]]
  BY <1>2, <1>3, ContentIs
<1> QED
  BY <1>1, <1>4 DEF Map!Remove

\* An empty tree has no elements.
LEMMA RootlessIsEmpty == Standing /\ root = Null => Elements = {}
  BY BelowRoot

\* An erasure that does not find its key.
LEMMA ErasesNothing ==
    ASSUME Open, UNCHANGED treeVars, NEW k \in Keys, k \notin Elements,
           call' = Return("erase", k, {}, FALSE)
    PROVE  Map!Next
<1>1. call.pc # "clear" /\ call'.pc # "clear"
  BY DEF Open, Return
<1>2. Map!Stored = Elements
  BY <1>1, Readings
<1>3. Content' = Content /\ Content = [j \in Elements |-> Content[j]]
  BY <1>1, ContentIs, LooksOnly
<1>4. Answered = Map!NoAnswer /\ Answered' = Map!Answer("erase", {k}, {}, FALSE)
  BY AnsweredIs, NoPathIsNoKey DEF AskedOf
<1>5. Map!Erase(k)
  <2>1. Elements \ {k} = Elements
    OBVIOUS
  <2>2. Content' = [j \in Map!Stored \ {k} |-> Content[j]]
    BY <1>2, <1>3, <2>1
  <2>3. (k \in Map!Stored) = FALSE
    BY <1>2
  <2>4. Answered' = Map!Answer("erase", {k}, {}, k \in Map!Stored)
    BY <1>4, <2>3
  <2> QED
    BY <2>2, <2>4 DEF Map!Erase, Map!Remove
<1>6. Map!Operation
  BY <1>5 DEF Map!Operation
<1>7. Answered' # Map!NoAnswer
  BY <1>4, IsAnswer
<1> QED
  BY <1>4, <1>6, <1>7, Operates

\* The step of erase_unique in which it deletes its leaf.
LEMMA EraseTakes ==
    ASSUME ShapeInv, EraseRoot \/ EraseLeaf
    PROVE  Map!Next
<1> DEFINE k == call.key
<1>1. /\ TypeOK /\ call.pc = "walk" /\ Matches /\ call.cur \in DOMAIN leaf
  BY DEF ShapeInv, EraseRoot, EraseLeaf, AtLeaf, Walking
<1>2. call \in WalkCall /\ Open
  BY <1>1, CallShape DEF TypeOK, Open
<1>3. k \in Keys /\ k \in Elements
  BY <1>1, <1>2, ElementFacts DEF WalkCall, Matches
<1>4. leaf' = Free(leaf, LeafOf(k))
  <2>1. CASE EraseRoot
    BY <2>1 DEF EraseRoot, DropRoot, Matches
  <2>2. CASE EraseLeaf
    BY <2>2, ErasedLeaf
  <2> QED
    BY <2>1, <2>2
<1>5. Answered' = Map!Answer("erase", {k}, {}, TRUE) /\ call'.pc # "clear"
  <2>1. CASE EraseRoot
    <3>1. call' = Return("erase", k, {}, TRUE)
      BY <2>1 DEF EraseRoot
    <3> QED
      BY <1>3, <3>1, AnsweredIs, NoPathIsNoKey DEF AskedOf, Return
  <2>2. CASE EraseLeaf
    <3>1. \E n, b : DropLeaf("erase", n, b, k, {})
      BY <2>2 DEF EraseLeaf
    <3>2. call'.pc = "shrink" /\ call'.op = "erase" /\ call'.key = k /\ call'.at = {}
      BY <3>1 DEF DropLeaf
    <3> QED
      BY <1>3, <3>2, NoPathIsNoKey DEF Answered, Asked, Map!Answer
  <2> QED
    BY <2>1, <2>2
<1> HIDE DEF k
<1>6. call.pc # "clear"
  BY <1>1
<1>7. Map!Stored = Elements
  BY <1>6, Readings
<1>8. Map!Remove(k, "erase", {}, TRUE)
  BY <1>1, <1>4, <1>5, <1>6, FreeRemoves
<1>9. Map!Erase(k)
  BY <1>3, <1>7, <1>8 DEF Map!Erase
<1>10. Map!Operation
  BY <1>3, <1>9 DEF Map!Operation
<1>11. Answered = Map!NoAnswer /\ Answered' # Map!NoAnswer
  BY <1>2, <1>5, AnsweredIs, IsAnswer
<1> QED
  BY <1>10, <1>11, Operates

\* The step of erase(iterator) in which it deletes its leaf: it will answer with
\* the element that came after it.
LEMMA UnlinkTakes ==
    ASSUME ShapeInv, SearchKnows, UnlinkRoot \/ UnlinkLeaf
    PROVE  Map!Next
<1> DEFINE k  == call.key
           at == call.at
<1>1. TypeOK /\ call.pc = "unlink" /\ Open /\ call.pc # "clear"
  BY DEF ShapeInv, UnlinkRoot, UnlinkLeaf, Open
<1>2. k \in Elements /\ k \in Keys /\ at = FirstOf("next", Sought("next", k))
  BY <1>1, ElementFacts DEF SearchKnows, UnlinkKnows
<1>3. leaf' = Free(leaf, LeafOf(k))
  <2>1. CASE UnlinkRoot
    BY <2>1 DEF UnlinkRoot, DropRoot
  <2>2. CASE UnlinkLeaf
    BY <2>2, UnlinkedLeaf
  <2> QED
    BY <2>1, <2>2
<1>4. Answered' = Map!Answer("erase_at", {k}, at, TRUE) /\ call'.pc # "clear"
  <2>1. CASE UnlinkRoot
    <3>1. call' = Return("erase_at", k, at, TRUE)
      BY <2>1 DEF UnlinkRoot
    <3> QED
      BY <1>2, <3>1, AnsweredIs, NoPathIsNoKey DEF AskedOf, Return
  <2>2. CASE UnlinkLeaf
    <3>1. \E n, b : DropLeaf("erase_at", n, b, k, at)
      BY <2>2 DEF UnlinkLeaf
    <3>2. call'.pc = "shrink" /\ call'.op = "erase_at" /\ call'.key = k /\ call'.at = at
      BY <3>1 DEF DropLeaf
    <3> QED
      BY <1>2, <3>2, NoPathIsNoKey DEF Answered, Asked, Map!Answer
  <2> QED
    BY <2>1, <2>2
<1> HIDE DEF k, at
<1>5. Map!Stored = Elements /\ Map!Smallest(Map!Above(k)) = at
  BY <1>1, <1>2, Readings
<1>6. Map!Remove(k, "erase_at", at, TRUE)
  BY <1>1, <1>3, <1>4, FreeRemoves
<1>7. Map!EraseAt(k)
  BY <1>2, <1>5, <1>6 DEF Map!EraseAt
<1>8. Map!Operation
  BY <1>2, <1>7 DEF Map!Operation
<1>9. Answered = Map!NoAnswer /\ Answered' # Map!NoAnswer
  BY <1>1, <1>4, AnsweredIs, IsAnswer
<1> QED
  BY <1>8, <1>9, Operates

\* clear() empties the map when it begins; the deletions that follow are not
\* seen any more.
LEMMA ClearSteps ==
    ASSUME ShapeInv, ShapeInv', CallClear \/ ClearChild \/ ClearNode \/ ClearEnds
    PROVE  Map!Next \/ UNCHANGED <<Content, Answered>>
<1>1. TypeOK
  BY DEF ShapeInv
<1>2. CASE CallClear
  <2>1. call.pc = "idle" /\ call'.pc = "clear" /\ Open
    BY <1>2 DEF CallClear, Idle, Open
  <2>2. Content' = [k \in {} |-> 0]
    BY <2>1 DEF Content
  <2>3. Map!Stored = Elements
    BY <2>1, Readings
  <2>4. Content' = [j \in {} |-> Content[j]]
    BY <2>2
  <2>5. Answered' = Map!Answer("clear", {}, {}, TRUE)
    BY <2>1 DEF Answered, Map!Answer
  <2>6. Map!Clear
    BY <2>4, <2>5 DEF Map!Clear
  <2>7. Map!Operation
    BY <2>6 DEF Map!Operation
  <2>8. Answered = Map!NoAnswer /\ Answered' # Map!NoAnswer
    <3>1. Map!Answer("clear", {}, {}, TRUE) # Map!NoAnswer
      BY IsAnswer
    <3> QED
      BY <2>1, <2>5, <3>1, AnsweredIs
  <2> QED
    BY <2>7, <2>8, Operates
<1>3. CASE ClearChild \/ ClearNode
  <2>1. call.pc = "clear" /\ call \in ClearCall
    BY <1>1, <1>3, CallShape DEF ClearChild, ClearNode, Clearing, TypeOK
  <2>2. call'.pc = "clear"
    BY <1>3, <2>1 DEF ClearChild, ClearNode, ClearCall
  <2> QED
    BY <2>1, <2>2 DEF Content, Answered
<1>4. CASE ClearEnds
  <2>1. /\ call.pc = "clear" /\ root' = Null
        /\ call' = Return("clear", NoPath, {}, TRUE)
    BY <1>4 DEF ClearEnds
  <2>2. call'.pc = "return"
    BY <2>1 DEF Return
  <2>3. Elements' = {}
    <3>1. Whole' /\ TypeOK'
      BY <2>2 DEF ShapeInv
    <3>2. PlainWhole'
      BY <2>2, <3>1, WholeIsPlainNext DEF Replacing
    <3>3. Tree(inner', leaf', root', Null, Null)
      BY <3>2 DEF PlainWhole
    <3>4. (Standing /\ root = Null => Elements = {})'
      BY RootlessIsEmpty, PTL
    <3> QED
      BY <2>1, <3>1, <3>3, <3>4 DEF Standing
  <2>4. Content' = [k \in {} |-> leaf'[LeafOf(k)].value]
    BY <2>2, <2>3, ContentIs
  <2>5. Content = [k \in {} |-> 0]
    BY <2>1 DEF Content
  <2>6. Content' = Content
    BY <2>4, <2>5
  <2>7. Answered' = Map!Answer("clear", {}, {}, TRUE)
    BY <2>1, AnsweredIs DEF AskedOf
  <2>8. Answered = [op |-> "clear", asked |-> {}, at |-> {}, did |-> TRUE]
    BY <2>1 DEF Answered
  <2> QED
    BY <2>6, <2>7, <2>8 DEF Map!Answer
<1> QED
  BY <1>2, <1>3, <1>4

-----------------------------------------------------------------------------
(* The searches.                                                           *)

\* What a bound answers.
LEMMA BoundAnswers ==
    ASSUME Open, UNCHANGED treeVars, NEW o \in {"lower", "upper"}, NEW k \in Keys,
           NEW at, at = FirstOf(o, Sought(o, k)), call' = Return(o, k, at, FALSE)
    PROVE  Map!Next
<1>1. /\ Answered = Map!NoAnswer /\ Answered' # Map!NoAnswer
      /\ Map!Look(o, {k}, at)
  BY Looked, NoPathIsNoKey DEF AskedOf
<1>2. call.pc # "clear"
  BY DEF Open
<1>3. at = FirstOf("next", Sought(o, k))
  BY Forward
<1>4. CASE o = "lower"
  <2>1. at = Map!Smallest((Map!Stored \cap {k}) \cup Map!Above(k))
    BY <1>2, <1>3, <1>4, Readings
  <2>2. Map!Lower(k)
    BY <1>1, <1>4, <2>1 DEF Map!Lower
  <2> QED
    BY <1>1, <2>2, Operates DEF Map!Operation
<1>5. CASE o = "upper"
  <2>1. at = FirstOf("next", Sought("next", k))
    BY <1>3, <1>5, Forward
  <2>2. at = Map!Smallest(Map!Above(k))
    BY <1>2, <2>1, Readings
  <2>3. Map!Upper(k)
    BY <1>1, <1>5, <2>2 DEF Map!Upper
  <2> QED
    BY <1>1, <2>3, Operates DEF Map!Operation
<1> QED
  BY <1>4, <1>5

\* find() and the bounds accept the leaf the walk has come to.
LEMMA WalkAnswers ==
    ASSUME ShapeInv, FindEnds \/ BoundHits
    PROVE  Map!Next
<1>1. /\ call.pc = "walk" /\ Open /\ UNCHANGED treeVars
      /\ call.cur \in DOMAIN leaf \/ call.cur = Null
  BY DEF FindEnds, BoundHits, AtLeaf, AtGap, Walking, Open
<1>2. TypeOK /\ call.cur \notin DOMAIN inner /\ call.pc # "clear"
  BY <1>1, HeapsTyped, HeapFacts DEF ShapeInv, Nodes
<1>3. call.key \in Keys /\ (call.key \in Elements <=> Matches)
  BY <1>1, <1>2, WalkDecides
<1>4. CASE FindEnds
  <2> DEFINE k  == call.key
             at == IF Matches THEN {k} ELSE {}
  <2>1. call' = Return("find", k, at, FALSE)
    BY <1>4 DEF FindEnds
  <2>2. at = Elements \cap {k}
    BY <1>3
  <2> HIDE DEF k, at
  <2>3. /\ Answered = Map!NoAnswer /\ Answered' # Map!NoAnswer
        /\ Map!Look("find", AskedOf(k), at)
    BY <1>1, <2>1, Looked
  <2>4. AskedOf(k) = {k} /\ at = Map!Stored \cap {k}
    BY <1>2, <1>3, <2>2, Readings, NoPathIsNoKey DEF AskedOf, k
  <2>5. Map!Find(k)
    BY <2>3, <2>4 DEF Map!Find
  <2> QED
    BY <1>3, <2>3, <2>5, Operates DEF Map!Operation, k
<1>5. CASE BoundHits
  <2> DEFINE o == call.op
             k == call.key
             c == call.cur.path
  <2>1. /\ o \in {"lower", "upper"} /\ call.cur \in DOMAIN leaf
        /\ Less(k, c) \/ (o = "lower" /\ Matches)
        /\ call' = Return(o, k, {c}, FALSE)
    BY <1>5 DEF BoundHits, AtLeaf, Walking
  <2>2. c \in Elements /\ c \in Keys /\ call.cur = LeafOf(c)
    BY <1>2, <2>1, ElementFacts
  <2>3. Agree(k, c, call.depth) /\ call.depth \in 0..KeyLen
    BY <1>1, <2>1, WalkCur
  <2>4. \A m \in Elements : Agree(k, m, call.depth) => m = c
    BY <1>1, <1>2, <2>2, WalkFinds, ElementFacts
  <2>5. Matches => c = k
    BY <1>2, <2>2, ElementFacts DEF Matches
  <2>6. k \in Keys
    BY <1>3
  <2> HIDE DEF o, k, c
  <2>7. c \in Sought(o, k)
    BY <2>1, <2>2, <2>5 DEF Sought, Ahead, Backward
  <2>8. ASSUME NEW m \in Sought(o, k), m # c
        PROVE  Less(c, m)
    <3>1. m \in Elements /\ m \in Keys
      BY <1>2, ElementFacts DEF Sought
    <3>2. m = k \/ Less(k, m)
      BY <2>1 DEF Sought, Ahead, Backward
    <3>3. ~ Less(m, c)
      <4>1. SUFFICES ASSUME Less(m, c)  PROVE FALSE
        OBVIOUS
      <4>2. Agree(k, m, call.depth)
        <5>1. CASE m = k
          BY <5>1 DEF Agree
        <5>2. CASE Less(k, m)
          BY <2>2, <2>3, <2>6, <3>1, <4>1, <5>2, Between
        <5> QED
          BY <3>2, <5>1, <5>2
      <4> QED
        BY <2>4, <2>8, <3>1, <4>2
    <3> QED
      BY <2>2, <2>8, <3>1, <3>3, LessIsTotal
  <2>9. FirstOf(o, Sought(o, k)) = {c}
    <3>1. \A m \in Sought(o, k) : m \in Keys
      BY <1>2, ElementFacts DEF Sought
    <3>2. \A m \in Sought(o, k) \ {c} : Ahead(o, c, m) /\ ~ Ahead(o, m, c)
      BY <2>1, <2>2, <2>8, <3>1, LessIsTotal DEF Ahead, Backward
    <3> QED
      BY <2>7, <3>2 DEF FirstOf
  <2> QED
    BY <1>1, <2>1, <2>6, <2>9, BoundAnswers
<1> QED
  BY <1>4, <1>5

\* Lookups in an empty tree.
LEMMA EmptyAnswers ==
    ASSUME ShapeInv, NEW o \in {"erase", "find", "lower", "upper"}, NEW k \in Keys, NEW v,
           CallOnEmpty(o, k, v)
    PROVE  Map!Next
<1>1. /\ call.pc = "idle" /\ Open /\ root = Null /\ UNCHANGED treeVars
      /\ call' = Return(o, k, {}, FALSE)
  BY DEF CallOnEmpty, Idle, Open
<1>2. Elements = {}
  BY <1>1, WalkStands, RootlessIsEmpty DEF Linked
<1>3. CASE o = "erase"
  BY <1>1, <1>2, <1>3, ErasesNothing
<1>4. CASE o = "find"
  <2>1. /\ Answered = Map!NoAnswer /\ Answered' # Map!NoAnswer
        /\ Map!Look("find", {k}, {})
    BY <1>1, <1>4, Looked, NoPathIsNoKey DEF AskedOf
  <2>2. Map!Stored = {}
    BY <1>1, <1>2, Readings
  <2>3. Map!Find(k)
    BY <2>1, <2>2 DEF Map!Find
  <2> QED
    BY <2>1, <2>3, Operates DEF Map!Operation
<1>5. CASE o \in {"lower", "upper"}
  <2>1. FirstOf(o, Sought(o, k)) = {}
    BY <1>2 DEF FirstOf, Sought
  <2> QED
    BY <1>1, <1>5, <2>1, BoundAnswers
<1> QED
  BY <1>3, <1>4, <1>5

\* What an increment answers.
LEMMA NextAnswers ==
    ASSUME Open, UNCHANGED treeVars, NEW k \in Keys, k \in Elements,
           NEW at, at = FirstOf("next", Sought("next", k)), call' = Return("next", k, at, FALSE)
    PROVE  Map!Next
<1>1. /\ Answered = Map!NoAnswer /\ Answered' # Map!NoAnswer
      /\ Map!Look("next", {k}, at)
  BY Looked, NoPathIsNoKey DEF AskedOf
<1>2. at = Map!Smallest(Map!Above(k)) /\ k \in Map!Stored
  BY Readings DEF Open
<1>3. Map!Successor(k)
  BY <1>1, <1>2 DEF Map!Successor
<1> QED
  BY <1>1, <1>3, Operates DEF Map!Operation

\* What a decrement answers: the last of those before, or the last of all.
LEMMA PrevAnswers ==
    ASSUME Open, UNCHANGED treeVars, NEW k \in Keys, k \in Elements, NEW at,
           \/ Sought("prev", k) # {} /\ at = FirstOf("prev", Sought("prev", k))
           \/ Sought("prev", k) = {} /\ at = FirstOf("prev", Elements),
           call' = Return("prev", k, at, FALSE)
    PROVE  Map!Next
<1>1. /\ Answered = Map!NoAnswer /\ Answered' # Map!NoAnswer
      /\ Map!Look("prev", {k}, at)
  BY Looked, NoPathIsNoKey DEF AskedOf
<1>2. /\ Map!Below(k) = Sought("prev", k) /\ k \in Map!Stored /\ Map!Stored = Elements
      /\ \A W : Map!Largest(W) = FirstOf("prev", W)
  BY Readings DEF Open
<1>3. at = IF Map!Below(k) = {} THEN Map!Largest(Map!Stored) ELSE Map!Largest(Map!Below(k))
  BY <1>2
<1>4. Map!Predecessor(k)
  BY <1>1, <1>2, <1>3 DEF Map!Predecessor
<1> QED
  BY <1>1, <1>4, Operates DEF Map!Operation

\* A search that is over answers, or lets erase(iterator) go on.
LEMMA ArriveSteps ==
    ASSUME TypeOK, Open, UNCHANGED treeVars, NEW k, NEW at, Arrive("erase_at", k, at)
    PROVE  UNCHANGED <<Content, Answered>>
<1>1. call'.pc = "unlink" /\ leaf' = leaf
  BY DEF Arrive, treeVars
<1> QED
  BY <1>1, Waits DEF Open

\* The climb has passed every element: end(), or around to the last element.
LEMMA PastTopSteps ==
    ASSUME ShapeInv, SearchKnows, DummyTracksRoot, ClimbPastTop
    PROVE  Map!Next \/ UNCHANGED <<Content, Answered>>
<1> DEFINE o == call.op
           k == call.key
<1>1. /\ UNCHANGED treeVars
      /\ \/ k = NoPath /\ o = "prev"
         \/ k \in Keys /\ (o \in FromElement => k \in Elements) /\ Sought(o, k) = {}
      /\ o = "prev" => call' = [pc |-> "down", op |-> o, key |-> k, cur |-> root]
      /\ o # "prev" => Arrive(o, k, {})
  BY PastTop
<1>2. TypeOK /\ call.pc = "climb" /\ Open
  BY DEF ShapeInv, ClimbPastTop, Open
<1>3. o \in ClimbOps
  BY <1>2, CallShape DEF TypeOK, ClimbCall
<1> HIDE DEF o, k
<1>4. CASE o = "prev"
  <2>1. call'.pc = "down" /\ leaf' = leaf
    BY <1>1, <1>4 DEF treeVars
  <2> QED
    BY <1>2, <2>1, Waits DEF Open
<1>5. CASE o = "erase_at"
  BY <1>1, <1>2, <1>5, ArriveSteps
<1>6. CASE o \in {"lower", "upper", "next"}
  <2>1. k \in Keys /\ Sought(o, k) = {} /\ call' = Return(o, k, {}, FALSE)
    BY <1>1, <1>6 DEF Arrive
  <2>2. {} = FirstOf(o, Sought(o, k))
    BY <2>1 DEF FirstOf
  <2>3. CASE o = "next"
    <3>1. k \in Elements
      BY <1>1, <2>3 DEF FromElement
    <3> QED
      BY <1>1, <1>2, <2>1, <2>2, <2>3, <3>1, NextAnswers
  <2>4. CASE o \in {"lower", "upper"}
    BY <1>1, <1>2, <2>1, <2>2, <2>4, BoundAnswers
  <2> QED
    BY <1>6, <2>3, <2>4
<1> QED
  BY <1>3, <1>4, <1>5, <1>6 DEF ClimbOps

\* A way down has come to the leaf that is searched for.
LEMMA ArriveAnswers ==
    ASSUME ShapeInv, SearchKnows, ArriveAtLeaf
    PROVE  Map!Next \/ UNCHANGED <<Content, Answered>>
<1> DEFINE o == call.op
           k == call.key
           c == call.cur.path
<1>1. /\ UNCHANGED treeVars /\ Arrive(o, k, {c})
      /\ o \in FromElement /\ k # NoPath => k \in Elements
      /\ \/ /\ o \in ClimbOps /\ k \in Keys
            /\ c \in Sought(o, k) /\ FirstOf(o, Sought(o, k)) = {c}
         \/ /\ c \in Elements /\ FirstOf(o, Elements) = {c}
            /\ \/ k = NoPath /\ o \in {"begin", "prev"}
               \/ k \in Keys /\ o = "prev" /\ Sought("prev", k) = {}
  BY Arrived
<1>2. TypeOK /\ call.pc = "down" /\ Open
  BY DEF ShapeInv, ArriveAtLeaf, Open
<1> HIDE DEF o, k, c
<1>3. CASE o = "erase_at"
  BY <1>1, <1>2, <1>3, ArriveSteps
<1>4. CASE o # "erase_at"
  <2>1. call' = Return(o, k, {c}, FALSE)
    BY <1>1, <1>4 DEF Arrive
  <2>2. CASE o \in {"lower", "upper"}
    <3>1. k \in Keys /\ {c} = FirstOf(o, Sought(o, k))
      BY <1>1, <2>2
    <3> QED
      BY <1>1, <1>2, <2>1, <2>2, <3>1, BoundAnswers
  <2>3. CASE o = "next"
    <3>1. k \in Keys /\ k \in Elements /\ {c} = FirstOf(o, Sought(o, k))
      BY <1>1, <2>3, NoPathIsNoKey DEF FromElement
    <3> QED
      BY <1>1, <1>2, <2>1, <2>3, <3>1, NextAnswers
  <2>4. CASE o = "prev" /\ k \in Keys
    <3>1. k \in Elements
      BY <1>1, <2>4, NoPathIsNoKey DEF FromElement
    <3>2. \/ Sought("prev", k) # {} /\ {c} = FirstOf("prev", Sought("prev", k))
          \/ Sought("prev", k) = {} /\ {c} = FirstOf("prev", Elements)
      BY <1>1, <2>4, NoPathIsNoKey
    <3> QED
      BY <1>1, <1>2, <2>1, <2>4, <3>1, <3>2, PrevAnswers
  <2>5. CASE k = NoPath /\ o \in {"begin", "prev"}
    <3>1. c \in Elements /\ FirstOf(o, Elements) = {c}
      BY <1>1, <2>5, NoPathIsNoKey
    <3>2. /\ Answered = Map!NoAnswer /\ Answered' # Map!NoAnswer
          /\ Map!Look(o, {}, {c})
      BY <1>1, <1>2, <2>1, <2>5, Looked DEF AskedOf
    <3>3. /\ Map!Stored = Elements
          /\ \A W : Map!Smallest(W) = FirstOf("next", W) /\ Map!Largest(W) = FirstOf("prev", W)
      BY <1>2, Readings DEF Open
    <3>4. CASE o = "begin"
      <4>1. {c} = Map!Smallest(Map!Stored)
        BY <3>1, <3>3, <3>4, Forward
      <4>2. Map!Begin
        BY <3>2, <3>4, <4>1 DEF Map!Begin
      <4> QED
        BY <3>2, <4>2, Operates DEF Map!Operation
    <3>5. CASE o = "prev"
      <4>1. {c} = Map!Largest(Map!Stored) /\ Map!Stored # {}
        BY <3>1, <3>3, <3>5
      <4>2. Map!PrevEnd
        BY <3>2, <3>5, <4>1 DEF Map!PrevEnd
      <4> QED
        BY <3>2, <4>2, Operates DEF Map!Operation
    <3> QED
      BY <2>5, <3>4, <3>5
  <2> QED
    BY <1>1, <1>4, <2>2, <2>3, <2>4, <2>5 DEF ClimbOps
<1> QED
  BY <1>3, <1>4

\* begin() of an empty tree is end().
LEMMA BeginAnswers ==
    ASSUME ShapeInv, Begin, root = Null
    PROVE  Map!Next
<1>1. /\ call.pc = "idle" /\ Open /\ UNCHANGED treeVars
      /\ call' = Return("begin", NoPath, {}, FALSE)
  BY DEF Begin, Idle, Open
<1>2. Elements = {}
  BY <1>1, WalkStands, RootlessIsEmpty DEF Linked
<1>3. /\ Answered = Map!NoAnswer /\ Answered' # Map!NoAnswer
      /\ Map!Look("begin", {}, {})
  BY <1>1, Looked DEF AskedOf
<1>4. {} = Map!Smallest(Map!Stored)
  BY <1>1, <1>2, Readings DEF FirstOf
<1>5. Map!Begin
  BY <1>3, <1>4 DEF Map!Begin
<1> QED
  BY <1>3, <1>5, Operates DEF Map!Operation

\* The client reads its answer.
LEMMA ResumeReads ==
    ASSUME TypeOK, Resume
    PROVE  Map!Next
<1>1. call.pc = "return" /\ call' = Idle /\ UNCHANGED treeVars
  BY DEF Resume
<1>2. call.op \in Ops
  BY <1>1, CallShape DEF TypeOK, ReturnCall
<1>3. call.op # "none"
  BY <1>2 DEF Ops, WalkOps, DownOps, ClimbOps
<1>4. Answered # Map!NoAnswer
  BY <1>1, <1>3 DEF Answered, Map!NoAnswer
<1>5. Open' /\ call'.pc # "clear"
  BY <1>1 DEF Open, Idle
<1>6. Content' = Content
  BY <1>1, <1>5, ContentIs, LooksOnly
<1>7. Map!Read
  BY <1>4, <1>5, <1>6, AnsweredIs DEF Map!Read
<1> QED
  BY <1>7 DEF Map!Next

-----------------------------------------------------------------------------

\* Every step of the tree is an operation of the map or none.
LEMMA NextMaps ==
    ASSUME ShapeInv, ShapeInv', SearchKnows, DummyTracksRoot, [Next]_vars
    PROVE  [Map!Next]_<<Content, Answered>>
<1>1. CASE Client
  <2>1. ASSUME NEW o \in WalkOps, NEW k \in Keys, NEW v \in Given[k], CallOnEmpty(o, k, v)
        PROVE  Map!Next \/ UNCHANGED <<Content, Answered>>
    <3>1. o \in InsertOps \/ o \in {"erase", "find", "lower", "upper"}
      BY DEF WalkOps, InsertOps
    <3> QED
      BY <2>1, <3>1, InsertSteps, EmptyAnswers
  <2>2. ASSUME NEW o, NEW k, NEW v, CallOnTree(o, k, v) \/ MoveIterator(o, k)
        PROVE  UNCHANGED <<Content, Answered>>
    BY <2>2, OpenSteps
  <2>3. CASE MoveEnd \/ Begin \/ CallClear
    BY <2>3, OpenSteps, BeginAnswers, ClearSteps
  <2> QED
    BY <1>1, <2>1, <2>2, <2>3 DEF Client
<1>2. CASE \/ Descend \/ BoundMisses \/ SplitLeaf \/ ExtendTie \/ GrowNode \/ Climb \/ GoDown
  BY <1>2, OpenSteps
<1>3. CASE FindEnds \/ BoundHits
  BY <1>3, WalkAnswers
<1>4. CASE InsertDuplicate \/ BreakTie \/ FillGap \/ LinkLeaf
  BY <1>4, DuplicatePuts, InsertSteps
<1>5. CASE EraseMisses
  <2>1. /\ call.pc = "walk" /\ Open /\ UNCHANGED treeVars
        /\ call.cur = Null \/ (call.cur \in DOMAIN leaf /\ ~ Matches)
        /\ call' = Return("erase", call.key, {}, FALSE)
    BY <1>5 DEF EraseMisses, AtLeaf, AtGap, Walking, Open
  <2>2. call.cur \notin DOMAIN inner
    BY <2>1, HeapsTyped, HeapFacts DEF ShapeInv, Nodes
  <2>3. ~ Matches
    BY <2>1 DEF Matches, LeafOf, Null
  <2>4. call.key \in Keys /\ call.key \notin Elements
    BY <2>1, <2>2, <2>3, WalkDecides
  <2> QED
    BY <2>1, <2>4, ErasesNothing
<1>6. CASE EraseRoot \/ EraseLeaf \/ UnlinkRoot \/ UnlinkLeaf
  BY <1>6, EraseTakes, UnlinkTakes
<1>7. CASE \/ ShrinkToNode \/ ShrinkToLeaf \/ KeepOneWay \/ ShrinkEnds
           \/ CompressAtTop \/ CompressRoot \/ CompressInner \/ CompressEnds \/ Relink
  BY <1>7, FixingSteps
<1>8. CASE ClimbPastTop \/ ArriveAtLeaf
  BY <1>8, PastTopSteps, ArriveAnswers
<1>9. CASE ClearChild \/ ClearNode \/ ClearEnds
  BY <1>9, ClearSteps
<1>10. CASE Resume
  BY <1>10, ResumeReads DEF ShapeInv
<1>11. CASE UNCHANGED vars
  BY <1>11 DEF vars, Content, Answered, Asked
<1> QED
  BY <1>1, <1>2, <1>3, <1>4, <1>5, <1>6, <1>7, <1>8, <1>9, <1>10, <1>11 DEF Next, Running

\* ArTree is an ordered map, for every key length, chunk size, set of keys and
\* choice of capacities.
THEOREM Implements == Spec => ImplementsMap
<1>1. Init => Map!Init
  <2>1. SUFFICES ASSUME Init  PROVE Map!Init
    OBVIOUS
  <2>2. call = Idle /\ leaf = [a \in {} |-> Null]
    BY <2>1 DEF Init
  <2>3. call.pc = "idle" /\ DOMAIN leaf = {}
    BY <2>2 DEF Idle
  <2>4. Elements = {}
    BY <2>3 DEF Elements
  <2>5. Content = [k \in {} |-> leaf[LeafOf(k)].value]
    BY <2>3, <2>4, ContentIs
  <2>6. Answered = Map!NoAnswer
    BY <2>3, AnsweredIs DEF Open
  <2> QED
    BY <2>5, <2>6 DEF Map!Init
<1>2. ShapeInv /\ ShapeInv' /\ SearchKnows /\ DummyTracksRoot /\ [Next]_vars
          => [Map!Next]_<<Content, Answered>>
  BY NextMaps
<1> QED
  BY <1>1, <1>2, ShapeHolds, SearchHolds, DummyFollows, PTL DEF Spec, ImplementsMap, Map!Spec

=============================================================================
