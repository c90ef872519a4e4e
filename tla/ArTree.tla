------------------------------- MODULE ArTree -------------------------------
(***************************************************************************)
(* ar_tree (include/art/ar_tree.h): the radix tree without path            *)
(* compression that backs containers whose transformed key is at most six  *)
(* bytes long.                                                             *)
(*                                                                         *)
(* A call of the client runs in steps: one for each turn of a loop of the  *)
(* code, each recursive call and each replacement of a node.  The library  *)
(* is single threaded, so a call that has begun runs to its end before the *)
(* next one; what the steps add is every half-built tree on the way, and   *)
(* the question whether the loop ends.  A pointer is followed only if it   *)
(* points to a live node and a chunk is read only inside the key: a call   *)
(* that would do otherwise has no step left and is found as a deadlock.    *)
(***************************************************************************)
EXTENDS ArNode, Sequences

CONSTANT
    LoneLeafBounds  \* may the client ask for a bound that lies beyond the
                    \* only element of the container?

ASSUME LoneLeafAssumption == LoneLeafBounds \in BOOLEAN

VARIABLES
    inner,      \* live inner nodes, by address
    leaf,       \* live leaves that have been linked into the tree
    root,       \* _M_root
    dummyRoot,  \* _M_dummy_node->_root
    count,      \* _M_count
    call        \* where the running call is, and its local variables

treeVars == <<inner, leaf, root, dummyRoot, count>>

vars == <<inner, leaf, root, dummyRoot, count, call>>

-----------------------------------------------------------------------------
(* The calls.                                                              *)

Idle == [pc |-> "idle"]

WalkOps  == {"insert", "emplace", "erase", "find", "lower", "upper"}
ClimbOps == {"lower", "upper", "next", "prev", "erase_at"}
DownOps  == ClimbOps \cup {"begin"}
EraseOps == {"erase", "erase_at"}
Ops      == WalkOps \cup DownOps \cup {"clear"}

KeyArg == Keys \cup {NoPath}

\* A position an iterator can have: one key, or none for end().
Position == {{}} \cup {{k} : k \in Keys}

Frame == [node : Ptr, from : 0..Cap256]

\* Where a call can be, one record shape for each kind of step.
WalkCall == [pc : {"walk"}, op : WalkOps, key : Keys, value : Values,
             cur : Ptr, prev : Ptr, depth : 0..KeyLen]
TieCall == [pc : {"tie"}, op : WalkOps, key : Keys, value : Values,
            node : Ptr, old : LeafAddr, depth : Chunks]
LinkCall == [pc : {"link"}, key : Keys, value : Values, node : Ptr]
ClimbCall == [pc : {"climb"}, op : ClimbOps, key : KeyArg, cur : Ptr]
DownCall == [pc : {"down"}, op : DownOps, key : KeyArg, cur : Ptr]
UnlinkCall == [pc : {"unlink"}, key : KeyArg, at : Position]
ShrinkCall == [pc : {"shrink", "relink"}, op : EraseOps, key : KeyArg, at : Position,
               node : Ptr, first : Ptr]
CompressCall == [pc : {"compress"}, op : EraseOps, key : KeyArg, at : Position,
                 node : Ptr, first : Ptr, depth : Chunks, j : Nat]
ClearCall == [pc : {"clear"}, stack : Seq(Frame)]
ReturnCall == [pc : {"return"}, op : Ops, key : KeyArg, at : Position, did : BOOLEAN]

Call == {Idle} \cup WalkCall \cup TieCall \cup LinkCall \cup ClimbCall \cup DownCall
          \cup UnlinkCall \cup ShrinkCall \cup CompressCall \cup ClearCall \cup ReturnCall

TypeOK ==
    /\ IsHeap(inner, InnerAddr, InnerNode)
    /\ IsHeap(leaf, LeafAddr, LeafNode)
    /\ root \in Ptr
    /\ dummyRoot \in Ptr
    /\ count \in Int
    /\ call \in Call

Return(o, k, at, did) ==
    [pc |-> "return", op |-> o, key |-> k, at |-> at, did |-> did]

Init ==
    /\ inner = [a \in {} |-> Null]
    /\ leaf = [a \in {} |-> Null]
    /\ root = Null
    /\ dummyRoot = Null
    /\ count = 0
    /\ call = Idle

-----------------------------------------------------------------------------
(* Nodes.                                                                  *)

\* size() of any node.
Size(p) == IF p \in DOMAIN inner THEN inner[p].count ELSE 1

\* A plausible slip: replace_root leaves the dummy node behind.
PointToRootOnly(heap, parent, k, child) ==
    /\ inner' = IF parent = Dummy THEN heap
                ELSE [heap EXCEPT ![parent] = UpdateChild(@, k[@.depth], child)]
    /\ root' = IF parent = Dummy THEN child ELSE root
    /\ dummyRoot' = dummyRoot

\* The tree after `parent->update_child_ptr(byte, child)', or after
\* replace_root(child) if the parent is the dummy node.
PointTo(heap, parent, k, child) ==
    /\ inner' = IF parent = Dummy THEN heap
                ELSE [heap EXCEPT ![parent] = UpdateChild(@, k[@.depth], child)]
    /\ root' = IF parent = Dummy THEN child ELSE root
    /\ dummyRoot' = IF parent = Dummy THEN child ELSE dummyRoot

\* A parent update_child_ptr can be called on.
Writable(heap, parent) == parent = Dummy \/ parent \in DOMAIN heap

\* minimum() or maximum() of an inner node goes on with this child.
Extreme(o, n) == n.child[IF o = "prev" THEN Max(Occupied(n)) ELSE Min(Occupied(n))]

\* Does the iterator move of call o run towards smaller keys?
Backward(o) == o = "prev"

\* A plausible slip: the scan stops at the slot it comes from.
BeyondOrAt(o, b, n) ==
    {c \in Occupied(n) : IF Backward(o) THEN c <= b ELSE c >= b}

Beyond(o, b, n) ==
    {c \in Occupied(n) : IF Backward(o) THEN c < b ELSE c > b}

-----------------------------------------------------------------------------
(* Calls that walk down from the root with a key.                          *)

\* The lookups and erase_unique do nothing on an empty tree; get_insert_
\* unique_pos answers with the dummy node.
CallOnEmpty(o, k, v) ==
    /\ call = Idle /\ root = Null
    /\ \/ /\ o = "insert"
          /\ LeafOf(k) \notin DOMAIN leaf
          /\ leaf' = Allocate(leaf, LeafOf(k), [parent |-> Dummy, value |-> v])
          /\ root' = LeafOf(k) /\ dummyRoot' = LeafOf(k)
          /\ count' = count + 1
          /\ call' = Return(o, k, {k}, TRUE)
          /\ UNCHANGED inner
       \/ /\ o = "emplace"
          /\ call' = [pc |-> "link", key |-> k, value |-> v, node |-> Dummy]
          /\ UNCHANGED treeVars
       \/ /\ o \in {"erase", "find", "lower", "upper"}
          /\ call' = Return(o, k, {}, FALSE)
          /\ UNCHANGED treeVars

\* A bound beyond the only element: there is no previous node to ask.
BeyondLoneLeaf(o, k) ==
    /\ root \in DOMAIN leaf
    /\ \/ o \in {"lower", "upper"} /\ Less(root.path, k)
       \/ o = "upper" /\ root = LeafOf(k)

CallOnTree(o, k, v) ==
    /\ call = Idle /\ root # Null
    /\ BeyondLoneLeaf(o, k) => LoneLeafBounds
    /\ call' = [pc |-> "walk", op |-> o, key |-> k, value |-> v, cur |-> root,
                prev |-> IF o \in {"lower", "upper"} THEN Null ELSE Dummy,
                depth |-> 0]
    /\ UNCHANGED treeVars

Walking(ops) == call.pc = "walk" /\ call.op \in ops

\* One turn of the loop at an inner node.
Descend ==
    /\ Walking(WalkOps)
    /\ call.cur \in DOMAIN inner
    /\ call.depth \in Chunks
    /\ call' = [call EXCEPT !.prev = call.cur, !.depth = @ + 1,
                            !.cur = inner[call.cur].child[call.key[call.depth]]]
    /\ UNCHANGED treeVars

AtLeaf(ops) == Walking(ops) /\ call.cur \in DOMAIN leaf
AtGap(ops)  == Walking(ops) /\ call.cur = Null

\* A plausible slip: a leaf is taken for the key without the last comparison.
MatchesAnyLeaf == call.cur # Null

Matches == call.cur = LeafOf(call.key)

\* A lookup stops at the first leaf or empty slot.
FindEnds ==
    /\ AtLeaf({"find"}) \/ AtGap({"find"})
    /\ call' = Return("find", call.key, IF Matches THEN {call.key} ELSE {}, FALSE)
    /\ UNCHANGED treeVars

\* lower_bound and upper_bound accept the leaf they hit, or look for the
\* successor of the key from the last inner node they passed.
BoundHits ==
    /\ AtLeaf({"lower", "upper"})
    /\ Less(call.key, call.cur.path) \/ (call.op = "lower" /\ Matches)
    /\ call' = Return(call.op, call.key, {call.cur.path}, FALSE)
    /\ UNCHANGED treeVars

BoundMisses ==
    /\ \/ AtGap({"lower", "upper"})
       \/ /\ AtLeaf({"lower", "upper"})
          /\ ~ (Less(call.key, call.cur.path) \/ (call.op = "lower" /\ Matches))
    /\ call' = [pc |-> "climb", op |-> call.op, key |-> call.key, cur |-> call.prev]
    /\ UNCHANGED treeVars

-----------------------------------------------------------------------------
(* insert_unique, emplace_unique.                                          *)

InsertOps == {"insert", "emplace"}

\* The key is there already: emplace deletes the leaf it made beforehand.
InsertDuplicate ==
    /\ AtLeaf(InsertOps) /\ Matches
    /\ call' = Return(call.op, call.key, {call.key}, FALSE)
    /\ UNCHANGED treeVars

\* Another leaf is in the way: a node with that leaf as its only child takes
\* its place, at the depth the loop has reached.
SplitLeaf ==
    /\ AtLeaf(InsertOps) /\ ~ Matches
    /\ call.depth \in Chunks
    /\ LET old    == call.cur
           node   == NodeAt("node_4", old.path, call.depth)
           parent == leaf[old].parent
           made   == OneWay(parent, call.depth, old.path[call.depth], old)
       IN  /\ node \notin DOMAIN inner
           /\ Writable(inner, parent)
           /\ PointTo(Allocate(inner, node, made), parent, old.path, node)
           /\ leaf' = [leaf EXCEPT ![old].parent = node]
           /\ call' = [pc |-> "tie", op |-> call.op, key |-> call.key,
                       value |-> call.value, node |-> node, old |-> old,
                       depth |-> call.depth]
    /\ UNCHANGED count

\* While the two keys agree, another one-way node is put below.
ExtendTie ==
    /\ call.pc = "tie"
    /\ call.old.path[call.depth] = call.key[call.depth]
    /\ call.depth + 1 \in Chunks
    /\ call.node \in DOMAIN inner /\ call.old \in DOMAIN leaf
    /\ LET d     == call.depth + 1
           child == NodeAt("node_4", call.old.path, d)
           made  == OneWay(leaf[call.old].parent, d, call.old.path[d], call.old)
       IN  /\ child \notin DOMAIN inner
           /\ inner' = [Allocate(inner, child, made) EXCEPT ![call.node] =
                           UpdateChild(@, call.key[call.depth], child)]
           /\ leaf' = [leaf EXCEPT ![call.old].parent = child]
           /\ call' = [call EXCEPT !.node = child, !.depth = d]
    /\ UNCHANGED <<root, dummyRoot, count>>

\* new _Leaf(value, n); n->insert(byte, leaf).
InsertLeaf(n, b, k, v) ==
    /\ n \in DOMAIN inner
    /\ inner[n].count < MaxSize(n.type)
    /\ LeafOf(k) \notin DOMAIN leaf
    /\ leaf' = Allocate(leaf, LeafOf(k), [parent |-> n, value |-> v])
    /\ inner' = [inner EXCEPT ![n] = InsertChild(@, b, LeafOf(k))]
    /\ count' = count + 1
    /\ UNCHANGED <<root, dummyRoot>>

\* The first chunk in which the keys differ: the new leaf goes beside the old.
BreakTie ==
    /\ call.pc = "tie"
    /\ call.old.path[call.depth] # call.key[call.depth]
    /\ \/ /\ call.op = "insert"
          /\ InsertLeaf(call.node, call.key[call.depth], call.key, call.value)
          /\ call' = Return("insert", call.key, {call.key}, TRUE)
       \/ /\ call.op = "emplace"
          /\ call' = [pc |-> "link", key |-> call.key, value |-> call.value,
                      node |-> call.node]
          /\ UNCHANGED treeVars

\* An empty slot in a full node: the node is replaced by the next layout.
GrowNode ==
    /\ AtGap(InsertOps)
    /\ call.prev \in DOMAIN inner
    /\ call.prev.type # "node_256"
    /\ inner[call.prev].count = MaxSize(call.prev.type)
    /\ LET old   == call.prev
           new   == [old EXCEPT !.type = Grown(old.type)]
           kids  == Children(inner[old])
           moved == Adopt(Free(Allocate(inner, new, inner[old]), old), kids, new)
       IN  /\ new \notin DOMAIN inner
           /\ Writable(moved, inner[old].parent)
           /\ PointTo(moved, inner[old].parent, call.key, new)
           /\ leaf' = Adopt(leaf, kids, new)
           /\ call' = [call EXCEPT !.prev = new]
    /\ UNCHANGED count

\* An empty slot in a node with room.
FillGap ==
    /\ AtGap(InsertOps)
    /\ call.prev \in DOMAIN inner
    /\ inner[call.prev].count # MaxSize(call.prev.type)
    /\ call.depth - 1 \in Chunks
    /\ \/ /\ call.op = "insert"
          /\ InsertLeaf(call.prev, call.key[call.depth - 1], call.key, call.value)
          /\ call' = Return("insert", call.key, {call.key}, TRUE)
       \/ /\ call.op = "emplace"
          /\ call' = [pc |-> "link", key |-> call.key, value |-> call.value,
                      node |-> call.prev]
          /\ UNCHANGED treeVars

\* insert_leaf: the leaf emplace_unique made at its start joins the tree.
LinkLeaf ==
    /\ call.pc = "link"
    /\ \/ /\ call.node = Dummy
          /\ LeafOf(call.key) \notin DOMAIN leaf
          /\ leaf' = Allocate(leaf, LeafOf(call.key),
                              [parent |-> Dummy, value |-> call.value])
          /\ root' = LeafOf(call.key) /\ dummyRoot' = LeafOf(call.key)
          /\ count' = count + 1
          /\ UNCHANGED inner
       \/ /\ call.node \in DOMAIN inner
          /\ InsertLeaf(call.node, call.key[inner[call.node].depth],
                        call.key, call.value)
    /\ call' = Return("emplace", call.key, {call.key}, TRUE)

-----------------------------------------------------------------------------
(* erase_unique(key) and erase(iterator).                                  *)

EraseMisses ==
    /\ AtGap({"erase"}) \/ (AtLeaf({"erase"}) /\ ~ Matches)
    /\ call' = Return("erase", call.key, {}, FALSE)
    /\ UNCHANGED treeVars

\* The only element: the dummy node keeps pointing to the leaf that was.
DropRoot ==
    /\ root \in DOMAIN leaf
    /\ leaf' = Free(leaf, root)
    /\ root' = Null
    /\ count' = count - 1
    /\ UNCHANGED <<inner, dummyRoot>>

\* n->erase(byte) deletes the leaf in that slot; fix_after_erase follows.
DropLeaf(o, n, b, k, at) ==
    /\ n \in DOMAIN inner
    /\ inner[n].child[b] \in DOMAIN leaf
    /\ leaf' = Free(leaf, inner[n].child[b])
    /\ inner' = [inner EXCEPT ![n] = EraseChild(@, b)]
    /\ count' = count - 1
    /\ call' = [pc |-> "shrink", op |-> o, key |-> k, at |-> at,
                node |-> n, first |-> n]
    /\ UNCHANGED <<root, dummyRoot>>

EraseRoot ==
    /\ AtLeaf({"erase"}) /\ Matches /\ call.cur = root
    /\ DropRoot
    /\ call' = Return("erase", call.key, {}, TRUE)

EraseLeaf ==
    /\ AtLeaf({"erase"}) /\ Matches /\ call.cur # root
    /\ call.depth - 1 \in Chunks
    /\ DropLeaf("erase", call.prev, call.key[call.depth - 1], call.key, {})

\* erase(iterator) has moved a copy of the iterator on; now it erases.
UnlinkRoot ==
    /\ call.pc = "unlink" /\ LeafOf(call.key) = root
    /\ DropRoot
    /\ call' = Return("erase_at", call.key, call.at, TRUE)

UnlinkLeaf ==
    /\ call.pc = "unlink" /\ LeafOf(call.key) # root
    /\ LeafOf(call.key) \in DOMAIN leaf
    /\ LET n == leaf[LeafOf(call.key)].parent
       IN  /\ n \in DOMAIN inner
           /\ DropLeaf("erase_at", n, call.key[inner[n].depth], call.key, call.at)

\* shrink_after_erase: a node below its minimum is replaced by the next
\* smaller layout, or, if it is a node 4 with a leaf, by that leaf.
Underfull == /\ call.pc = "shrink"
             /\ call.node \in DOMAIN inner
             /\ inner[call.node].count < MinSize(call.node.type)

ShrinkToNode ==
    /\ Underfull
    /\ call.node.type # "node_4"
    /\ LET old  == call.node
           new  == [old EXCEPT !.type = Shrunk(old.type)]
           kids == Children(inner[old])
           made == [inner[old] EXCEPT !.count = MaxSize(Shrunk(old.type))]
       IN  /\ new \notin DOMAIN inner
           /\ inner' = Adopt(Free(Allocate(inner, new, made), old), kids, new)
           /\ leaf' = Adopt(leaf, kids, new)
           /\ call' = [call EXCEPT !.node = new]
    /\ UNCHANGED <<root, dummyRoot, count>>

\* children[0] of a node 4.
OnlyChild(n) == n.child[Min(Occupied(n))]

ShrinkToLeaf ==
    /\ Underfull
    /\ call.node.type = "node_4"
    /\ Occupied(inner[call.node]) # {}
    /\ LET old  == call.node
           kid  == OnlyChild(inner[old])
       IN  /\ kid \in DOMAIN leaf
           /\ leaf' = [leaf EXCEPT ![kid].parent = inner[old].parent]
           /\ inner' = Free(inner, old)
           /\ call' = [pc |-> "compress", op |-> call.op, key |-> call.key,
                       at |-> call.at, node |-> kid, first |-> call.first,
                       depth |-> inner[old].depth, j |-> 1]
    /\ UNCHANGED <<root, dummyRoot, count>>

\* The last child is an inner node: the one-way node stays.
KeepOneWay ==
    /\ Underfull
    /\ call.node.type = "node_4"
    /\ Occupied(inner[call.node]) # {}
    /\ OnlyChild(inner[call.node]) \in DOMAIN inner
    /\ call' = Return(call.op, call.key, call.at, TRUE)
    /\ UNCHANGED treeVars

\* No (more) shrinking.  fix_after_erase returns if the node is unchanged.
ShrinkEnds ==
    /\ call.pc = "shrink"
    /\ call.node \in DOMAIN inner
    /\ inner[call.node].count >= MinSize(call.node.type)
    /\ call' = IF call.node = call.first THEN Return(call.op, call.key, call.at, TRUE)
               ELSE [pc |-> "relink", op |-> call.op, key |-> call.key,
                     at |-> call.at, node |-> call.node, first |-> call.first]
    /\ UNCHANGED treeVars

\* The inner loop of shrink_after_erase: one-way nodes above the leaf go.
OneWayAbove ==
    /\ call.pc = "compress"
    /\ call.node \in DOMAIN leaf
    /\ Size(leaf[call.node].parent) <= 1
    /\ call.depth - call.j >= -1

EndCompress ==
    call' = [pc |-> "relink", op |-> call.op, key |-> call.key, at |-> call.at,
             node |-> call.node, first |-> call.first]

CompressAtTop ==
    /\ OneWayAbove
    /\ leaf[call.node].parent = Dummy
    /\ EndCompress
    /\ UNCHANGED treeVars

CompressRoot ==
    /\ OneWayAbove
    /\ leaf[call.node].parent \in DOMAIN inner
    /\ LET parent == leaf[call.node].parent
       IN  /\ inner[parent].parent = Dummy
           /\ leaf' = [leaf EXCEPT ![call.node].parent = Dummy]
           /\ inner' = Free(inner, parent)
    /\ EndCompress
    /\ UNCHANGED <<root, dummyRoot, count>>

CompressInner ==
    /\ OneWayAbove
    /\ leaf[call.node].parent \in DOMAIN inner
    /\ LET parent == leaf[call.node].parent
           grand  == inner[parent].parent
           d      == call.depth - call.j - 1
       IN  /\ grand \in DOMAIN inner \ {parent}
           /\ d \in Chunks
           /\ inner' = [Free(inner, parent) EXCEPT ![grand] =
                           UpdateChild(@, call.key[d], call.node)]
           /\ leaf' = [leaf EXCEPT ![call.node].parent = grand]
           /\ call' = [call EXCEPT !.j = @ + 1]
    /\ UNCHANGED <<root, dummyRoot, count>>

CompressEnds ==
    /\ call.pc = "compress"
    /\ call.node \in DOMAIN leaf
    /\ Writable(inner, leaf[call.node].parent)
    /\ ~ (Size(leaf[call.node].parent) <= 1 /\ call.depth - call.j >= -1)
    /\ EndCompress
    /\ UNCHANGED treeVars

ParentOf(p) == IF p \in DOMAIN leaf THEN leaf[p].parent ELSE inner[p].parent

\* update_child_ptr(shrunk_node->_parent, shrunk_node, key).
Relink ==
    /\ call.pc = "relink"
    /\ call.node \in DOMAIN inner \cup DOMAIN leaf
    /\ Writable(inner, ParentOf(call.node))
    /\ PointTo(inner, ParentOf(call.node), call.key, call.node)
    /\ call' = Return(call.op, call.key, call.at, TRUE)
    /\ UNCHANGED <<leaf, count>>

-----------------------------------------------------------------------------
(* successor(), predecessor(), minimum(), maximum(): the climb from a node *)
(* to its parent and the way down that follows it.                         *)

\* ++it and --it ask the parent of the leaf; erase(iterator) begins with ++it.
MoveIterator(o, k) ==
    /\ call = Idle
    /\ LeafOf(k) \in DOMAIN leaf
    /\ call' = [pc |-> "climb", op |-> o, key |-> k, cur |-> leaf[LeafOf(k)].parent]
    /\ UNCHANGED treeVars

\* --end() of a container that is not empty.
MoveEnd ==
    /\ call = Idle
    /\ root # Null
    /\ call' = [pc |-> "climb", op |-> "prev", key |-> NoPath, cur |-> Dummy]
    /\ UNCHANGED treeVars

\* begin(): minimum() of the tree, or the end leaf.
Begin ==
    /\ call = Idle
    /\ call' = IF root = Null THEN Return("begin", NoPath, {}, FALSE)
               ELSE [pc |-> "down", op |-> "begin", key |-> NoPath, cur |-> root]
    /\ UNCHANGED treeVars

\* A move that ends at a leaf answers, or lets erase(iterator) go on.
Arrive(o, k, at) ==
    call' = IF o = "erase_at" THEN [pc |-> "unlink", key |-> k, at |-> at]
            ELSE Return(o, k, at, FALSE)

\* A plausible slip: a node asks itself again instead of its parent.
ClimbInPlace ==
    /\ call.pc = "climb"
    /\ call.cur \in DOMAIN inner
    /\ LET n    == inner[call.cur]
           next == Beyond(call.op, call.key[n.depth], n)
       IN  call' = IF next = {} THEN call
                   ELSE [pc |-> "down", op |-> call.op, key |-> call.key,
                         cur |-> n.child[IF Backward(call.op) THEN Max(next)
                                                              ELSE Min(next)]]
    /\ UNCHANGED treeVars

Climb ==
    /\ call.pc = "climb"
    /\ call.cur \in DOMAIN inner
    /\ LET n    == inner[call.cur]
           next == Beyond(call.op, call.key[n.depth], n)
       IN  call' = IF next = {} THEN [call EXCEPT !.cur = n.parent]
                   ELSE [pc |-> "down", op |-> call.op, key |-> call.key,
                         cur |-> n.child[IF Backward(call.op) THEN Max(next)
                                                              ELSE Min(next)]]
    /\ UNCHANGED treeVars

\* The dummy node: its leaf is the successor of everything, and it wraps
\* around to the last element on the way back.
ClimbPastTop ==
    /\ call.pc = "climb"
    /\ call.cur = Dummy
    /\ IF Backward(call.op) /\ dummyRoot # Null
       THEN call' = [pc |-> "down", op |-> call.op, key |-> call.key, cur |-> dummyRoot]
       ELSE Arrive(call.op, call.key, {})
    /\ UNCHANGED treeVars

GoDown ==
    /\ call.pc = "down"
    /\ call.cur \in DOMAIN inner
    /\ Occupied(inner[call.cur]) # {}
    /\ call' = [call EXCEPT !.cur = Extreme(call.op, inner[call.cur])]
    /\ UNCHANGED treeVars

ArriveAtLeaf ==
    /\ call.pc = "down"
    /\ call.cur \in DOMAIN leaf
    /\ Arrive(call.op, call.key, {call.cur.path})
    /\ UNCHANGED treeVars

-----------------------------------------------------------------------------
(* clear(): children first, from the smallest to the largest chunk.  The   *)
(* stack is the recursion: a node and the chunk its loop goes on from.     *)

CallClear ==
    /\ call = Idle
    /\ call' = [pc |-> "clear",
                stack |-> IF root = Null THEN <<>> ELSE <<[node |-> root, from |-> 0]>>]
    /\ UNCHANGED treeVars

Clearing == call.pc = "clear" /\ call.stack # <<>>

Top == Head(call.stack)

\* A plausible slip: the loop starts past the first chunk.
LeftPast(f) == {b \in Occupied(inner[f.node]) : b > f.from}

Left(f) == {b \in Occupied(inner[f.node]) : b >= f.from}

ClearChild ==
    /\ Clearing
    /\ Top.node \in DOMAIN inner
    /\ Left(Top) # {}
    /\ LET b == Min(Left(Top))
       IN  call' = [call EXCEPT !.stack =
                       <<[node |-> inner[Top.node].child[b], from |-> 0],
                         [Top EXCEPT !.from = b + 1]>> \o Tail(@)]
    /\ UNCHANGED treeVars

ClearNode ==
    /\ Clearing
    /\ \/ Top.node \in DOMAIN leaf
       \/ Top.node \in DOMAIN inner /\ Left(Top) = {}
    /\ inner' = Free(inner, Top.node)
    /\ leaf' = Free(leaf, Top.node)
    /\ call' = [call EXCEPT !.stack = Tail(@)]
    /\ UNCHANGED <<root, dummyRoot, count>>

\* A plausible slip: clear() forgets the count.
ClearEndsCountKept ==
    /\ call.pc = "clear" /\ call.stack = <<>>
    /\ root' = Null
    /\ call' = Return("clear", NoPath, {}, TRUE)
    /\ UNCHANGED <<inner, leaf, dummyRoot, count>>

ClearEnds ==
    /\ call.pc = "clear" /\ call.stack = <<>>
    /\ root' = Null
    /\ count' = 0
    /\ call' = Return("clear", NoPath, {}, TRUE)
    /\ UNCHANGED <<inner, leaf, dummyRoot>>

-----------------------------------------------------------------------------

\* The client has its result and may call again.
Resume == call.pc = "return" /\ call' = Idle /\ UNCHANGED treeVars

Client ==
    \/ \E o \in WalkOps, k \in Keys : \E v \in Given[k] :
          CallOnEmpty(o, k, v) \/ CallOnTree(o, k, v)
    \/ \E o \in {"next", "prev", "erase_at"}, k \in Keys : MoveIterator(o, k)
    \/ MoveEnd \/ Begin \/ CallClear

Running ==
    \/ Descend \/ FindEnds \/ BoundHits \/ BoundMisses
    \/ InsertDuplicate \/ SplitLeaf \/ ExtendTie \/ BreakTie
    \/ GrowNode \/ FillGap \/ LinkLeaf
    \/ EraseMisses \/ EraseRoot \/ EraseLeaf \/ UnlinkRoot \/ UnlinkLeaf
    \/ ShrinkToNode \/ ShrinkToLeaf \/ KeepOneWay \/ ShrinkEnds
    \/ CompressAtTop \/ CompressRoot \/ CompressInner \/ CompressEnds \/ Relink
    \/ Climb \/ ClimbPastTop \/ GoDown \/ ArriveAtLeaf
    \/ ClearChild \/ ClearNode \/ ClearEnds
    \/ Resume

Next == Client \/ Running

Spec == Init /\ [][Next]_vars

\* A call that has begun goes on: nothing else runs in between.
FairSpec == Spec /\ WF_vars(Running)
-----------------------------------------------------------------------------
(* What must hold.                                                         *)

Live == DOMAIN inner \cup DOMAIN leaf

\* No call is in the middle of changing the links of the tree.
Linked == call.pc \notin {"shrink", "compress", "relink", "clear"}

\* No call is in the middle of changing the tree at all.
Settled == Linked /\ call.pc \notin {"walk", "tie", "link"}

\* Every slot in use holds a live node whose parent pointer leads back and
\* whose keys all have the chunks that lead to the slot; the root hangs from
\* the dummy node.  A search that follows the chunks of a key can therefore
\* not miss it.  The pointer updates of split, grow, shrink and compress
\* (update_child_ptr and every assignment to _parent) have to agree for this.
SlotsFollowKeys ==
    Linked =>
        /\ \A a \in DOMAIN inner : \A b \in Occupied(inner[a]) :
              LET d == inner[a].depth
                  c == inner[a].child[b]
              IN  /\ c \in Live
                  /\ ParentOf(c) = a
                  /\ Prefix(c.path, d) = a.path /\ c.path[d] = b
                  /\ c \in DOMAIN inner => inner[c].depth = d + 1
        /\ root # Null => /\ root \in Live
                          /\ ParentOf(root) = Dummy
                          /\ root \in DOMAIN inner => inner[root].depth = 0

\* No node is leaked: every live node but the root sits in the slot of its
\* parent that its chunks name.  A node that a grow, a shrink or a path
\* compression forgot to delete, or a subtree it forgot to hang up again,
\* would be live and in no slot; so would whatever clear() left behind.
NothingLost ==
    Linked =>
        \A a \in Live :
            \/ a = root
            \/ LET p == ParentOf(a)
               IN  p \in DOMAIN inner /\ inner[p].child[a.path[inner[p].depth]] = a

\* Between operations every node counts its children and has the layout for
\* that many, so that the array copies of the next grow or shrink, which
\* assume an exactly full node, are right.  The one exception is a node 4
\* that is kept with a single inner node below it; it never has a single leaf.
LayoutFitsSize ==
    Settled =>
        \A a \in DOMAIN inner :
            LET n == inner[a]
            IN  /\ n.count = Cardinality(Occupied(n))
                /\ \/ n.count \in MinSize(a.type)..MaxSize(a.type)
                   \/ /\ a.type = "node_4" /\ n.count = 1
                      /\ Children(n) \subseteq DOMAIN inner

\* size() is the number of elements that can be reached, after any mix of
\* insertions, erasures and clears.
CountIsSize == call.pc # "clear" => count = Cardinality(DOMAIN leaf)

\* The dummy node's copy of the root, from which --end() starts, follows the
\* root through every replacement while there is one.
DummyTracksRoot == root # Null => dummyRoot = root

\* Iterators and references stay valid: an element is only removed by an
\* erasure of its own key or by clear(), and no other step touches its value.
ElementsStay ==
    [][\A a \in DOMAIN leaf :
          \/ a \in DOMAIN leaf' /\ leaf'[a].value = leaf[a].value
          \/ call.pc = "walk" /\ call.op = "erase" /\ a = LeafOf(call.key)
          \/ call.pc = "unlink" /\ a = LeafOf(call.key)
          \/ call.pc = "clear"]_vars

\* Every call comes back: no walk, climb or compression runs for ever or
\* stops at a pointer that leads nowhere.
CallsReturn == (call # Idle) ~> (call = Idle)

\* The tree is an ordered map.  A call takes effect when it links or unlinks
\* its leaf, a clear() when it begins.
Content ==
    IF call.pc = "clear" THEN [k \in {} |-> 0]
    ELSE [k \in {a.path : a \in DOMAIN leaf} |-> leaf[LeafOf(k)].value]

Asked == IF call.key = NoPath THEN {} ELSE {call.key}

Answered ==
    CASE call.pc = "return" ->
             [op |-> call.op, asked |-> Asked, at |-> call.at, did |-> call.did]
      [] call.pc \in {"shrink", "compress", "relink"} ->
             [op |-> call.op, asked |-> Asked, at |-> call.at, did |-> TRUE]
      [] call.pc = "clear" -> [op |-> "clear", asked |-> {}, at |-> {}, did |-> TRUE]
      [] OTHER -> [op |-> "none", asked |-> {}, at |-> {}, did |-> FALSE]

Map == INSTANCE OrderedMap WITH content <- Content, answer <- Answered, Before <- Less

\* Every operation of ar_tree does to the elements, and answers, what the
\* same operation of an ordered map does: insert_unique and emplace_unique
\* keep a value that is there, find and the bounds answer with the right
\* element, iterators visit the elements in order, erase(iterator) answers
\* with the next one, whatever the shape the tree has got into.
ImplementsMap == Map!Spec

\* A bound of a key always has a previous node to climb from.  This is what
\* the documentation of lower_bound and upper_bound (radix_map.h) needs: they
\* promise an iterator for every key.
BoundHasParent == call.pc = "climb" => call.cur # Null
=============================================================================
