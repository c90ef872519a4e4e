---------------------------- MODULE ArPrefixTree ----------------------------
(***************************************************************************)
(* ar_prefix_tree (include/art/ar_prefix_tree.h): the radix tree with path *)
(* compression that backs containers whose transformed key is longer than  *)
(* six bytes.  No node has a single child here: the chunks that all keys   *)
(* below a node share are its prefix.  A node keeps the length of its      *)
(* prefix and its first MaxPrefix chunks; what is cut off has to be loaded *)
(* from a leaf.                                                            *)
(*                                                                         *)
(* A call runs in steps as in ArTree, and is found as a deadlock if it     *)
(* follows a pointer to no live node, reads past the end of a key or       *)
(* reaches a `throw; // unreachable'.  The chunks in the address of a node *)
(* are those down to the place where its children part, which splits and   *)
(* compressions do not move.                                               *)
(***************************************************************************)
EXTENDS ArNode, Sequences

CONSTANTS
    MaxPrefix,       \* MAX_PREFIX_LENGTH: the chunks of a prefix a node keeps
    LoneLeafBounds,  \* may the client ask for a bound that lies beyond the
                     \* only element of the container?
    HiddenBounds     \* may the client ask for a bound that exists, of a key
                     \* that parts from the stored ones inside a prefix?

ASSUME MaxPrefixAssumption == MaxPrefix \in Nat \ {0}

ASSUME BoundsAssumption == LoneLeafBounds \in BOOLEAN /\ HiddenBounds \in BOOLEAN

VARIABLES
    inner,      \* live inner nodes, by address
    leaf,       \* live leaves that have been linked into the tree
    root,       \* _M_root
    dummyRoot,  \* _M_dummy_node->_root
    count,      \* _M_count
    call        \* where the running call is, and its local variables

treeVars == <<inner, leaf, root, dummyRoot, count>>

vars == <<inner, leaf, root, dummyRoot, count, call>>

-----------------------------------------------------------------------------
(* Nodes and their prefixes.                                               *)

PrefixSlots == 0..(MaxPrefix - 1)

PrefixNode == [parent : Ptr, depth : Chunks, plen : Chunks,
               prefix : [PrefixSlots -> Byte], count : Int, child : [Byte -> Ptr]]

\* The chunk by which the children of a node are told apart.
Branch(n) == n.depth + n.plen

\* How many chunks of the prefix are in the node.
StoredLength(n) == Min({n.plen, MaxPrefix})

\* A _Node_4 with one child, a prefix of length l and the bytes of it that f
\* gives for the first s slots; the others keep the initial zero.
OneChild(parent, d, l, f, s, b, c) ==
    [parent |-> parent, depth |-> d, plen |-> l,
     prefix |-> [q \in PrefixSlots |-> IF q < s THEN f[q] ELSE 0],
     count |-> 1, child |-> [NoChildren EXCEPT ![b] = c]]

-----------------------------------------------------------------------------
(* The calls.                                                              *)

Idle == [pc |-> "idle"]

InsertOps == {"insert", "emplace"}
BoundOps  == {"lower", "upper"}
WalkOps   == InsertOps \cup BoundOps \cup {"erase", "find"}
EraseOps  == {"erase", "erase_at"}
ClimbOps  == BoundOps \cup {"next", "prev", "erase_at"}
DownOps   == ClimbOps \cup {"begin"}
Ops       == WalkOps \cup DownOps \cup {"clear"}

KeyArg == Keys \cup {NoPath}

\* A position an iterator can have: one key, or none for end().
Position == {{}} \cup {{k} : k \in Keys}

Frame == [node : Ptr, from : 0..Cap256]

\* Where a call can be, one record shape for each kind of step.  A walk that
\* needs the chunks cut off from a prefix looks for a leaf below: low.
WalkCall == [pc : {"walk"}, op : WalkOps, key : Keys, value : Values,
             cur : Ptr, prev : Ptr, depth : 0..KeyLen, low : Ptr]
LinkCall == [pc : {"link"}, op : InsertOps, key : Keys, value : Values,
             node : Ptr, chunk : Chunks]
ClimbCall == [pc : {"climb"}, op : ClimbOps, key : KeyArg, cur : Ptr]
DownCall == [pc : {"down"}, op : DownOps, key : KeyArg, cur : Ptr]
UnlinkCall == [pc : {"unlink"}, key : KeyArg, at : Position]
FixCall == [pc : {"shrink", "compress"}, op : EraseOps, key : KeyArg,
            at : Position, node : Ptr]
ClearCall == [pc : {"clear"}, stack : Seq(Frame)]
ReturnCall == [pc : {"return"}, op : Ops, key : KeyArg, at : Position, did : BOOLEAN]

Call == {Idle} \cup WalkCall \cup LinkCall \cup ClimbCall \cup DownCall
          \cup UnlinkCall \cup FixCall \cup ClearCall \cup ReturnCall

\* The types of the variables; no node branches past the end of the keys.
TypeOK ==
    /\ IsHeap(inner, InnerAddr, PrefixNode)
    /\ IsHeap(leaf, LeafAddr, LeafNode)
    /\ \A a \in DOMAIN inner : Branch(inner[a]) \in Chunks
    /\ root \in Ptr
    /\ dummyRoot \in Ptr
    /\ count \in Int
    /\ call \in Call

Return(o, k, at, did) ==
    [pc |-> "return", op |-> o, key |-> k, at |-> at, did |-> did]

Init ==
    /\ inner = [a \in {} |-> Null]
    /\ leaf = [a \in {} |-> Null]
    /\ root = Null
    /\ dummyRoot = Null
    /\ count = 0
    /\ call = Idle

-----------------------------------------------------------------------------
(* What several operations use.                                            *)

ParentOf(p) == IF p \in DOMAIN leaf THEN leaf[p].parent ELSE inner[p].parent

\* A parent update_child_ptr can be called on.
Writable(heap, parent) == parent = Dummy \/ parent \in DOMAIN heap

\* A plausible slip: the chunk is taken at the depth of the parent, without
\* its prefix.
PointToAtDepth(heap, parent, k, child) ==
    /\ inner' = IF parent = Dummy THEN heap
                ELSE [heap EXCEPT ![parent] = UpdateChild(@, k[@.depth], child)]
    /\ root' = IF parent = Dummy THEN child ELSE root
    /\ dummyRoot' = IF parent = Dummy THEN child ELSE dummyRoot

\* A plausible slip: replace_root leaves the dummy node behind.
PointToRootOnly(heap, parent, k, child) ==
    /\ inner' = IF parent = Dummy THEN heap
                ELSE [heap EXCEPT ![parent] = UpdateChild(@, k[Branch(@)], child)]
    /\ root' = IF parent = Dummy THEN child ELSE root
    /\ dummyRoot' = dummyRoot

\* The tree after update_child_ptr(parent, child, key).
PointTo(heap, parent, k, child) ==
    /\ inner' = IF parent = Dummy THEN heap
                ELSE [heap EXCEPT ![parent] = UpdateChild(@, k[Branch(@)], child)]
    /\ root' = IF parent = Dummy THEN child ELSE root
    /\ dummyRoot' = IF parent = Dummy THEN child ELSE dummyRoot

Backward(o) == o = "prev"

\* minimum() or maximum() of an inner node goes on with this child.
Extreme(o, n) == n.child[IF Backward(o) THEN Max(Occupied(n)) ELSE Min(Occupied(n))]

Beyond(o, b, n) ==
    {c \in Occupied(n) : IF Backward(o) THEN c < b ELSE c > b}

-----------------------------------------------------------------------------
(* Calls that walk down from the root with a key.                          *)

\* A bound beyond the only element: there is no previous node to ask.
BeyondLoneLeaf(o, k) ==
    /\ root \in DOMAIN leaf
    /\ \/ o \in BoundOps /\ Less(root.path, k)
       \/ o = "upper" /\ root = LeafOf(k)

\* The leaves a bound of k may answer with.
Candidates(o, k) ==
    {a \in DOMAIN leaf : Less(k, a.path) \/ (o = "lower" /\ a.path = k)}

\* The walk for k ends in the middle of a prefix, and yet there is an answer.
HiddenByPrefix(o, k) ==
    /\ o \in BoundOps
    /\ Candidates(o, k) # {}
    /\ \E a \in DOMAIN inner :
          LET n == inner[a]
          IN  /\ Prefix(k, n.depth) = Prefix(a.path, n.depth)
              /\ Prefix(k, Branch(n)) # a.path

CallOnEmpty(o, k, v) ==
    /\ call = Idle /\ root = Null
    /\ call' = IF o \in InsertOps
               THEN [pc |-> "link", op |-> o, key |-> k, value |-> v,
                     node |-> Dummy, chunk |-> 0]
               ELSE Return(o, k, {}, FALSE)
    /\ UNCHANGED treeVars

CallOnTree(o, k, v) ==
    /\ call = Idle /\ root # Null
    /\ BeyondLoneLeaf(o, k) => LoneLeafBounds
    /\ HiddenByPrefix(o, k) => HiddenBounds
    /\ call' = [pc |-> "walk", op |-> o, key |-> k, value |-> v, cur |-> root,
                prev |-> IF o \in BoundOps THEN Null ELSE Dummy,
                depth |-> 0, low |-> Null]
    /\ UNCHANGED treeVars

Walking(ops) == call.pc = "walk" /\ call.op \in ops

AtNode(ops) == Walking(ops) /\ call.cur \in DOMAIN inner
AtLeaf(ops) == Walking(ops) /\ call.cur \in DOMAIN leaf
AtGap(ops)  == Walking(ops) /\ call.cur = Null

Here == inner[call.cur]

\* The chunk of the prefix at position p, which comes from a loaded leaf if
\* the node does not keep it.
PrefixChunk(p) ==
    IF p < MaxPrefix THEN Here.prefix[p] ELSE call.low.path[Here.depth + p]

\* The positions where the key differs from the part of the prefix at hand.
Differing ==
    {p \in 0..((IF call.low \in DOMAIN leaf THEN Here.plen ELSE StoredLength(Here)) - 1) :
        call.key[Here.depth + p] # PrefixChunk(p)}

\* prefix_mismatch_pos loads a key if the kept part matches and there is more;
\* pes_prefix_mismatch_pos, for find, never does.  A split needs one if the
\* prefix fills the slots.
LoadsKey ==
    IF Differing = {} THEN call.op # "find" /\ Here.plen > MaxPrefix
    ELSE call.op \in InsertOps /\ Here.plen >= MaxPrefix

\* minimum() of the node, one level down.
LoadDown ==
    /\ AtNode(WalkOps)
    /\ call.low \notin DOMAIN leaf
    /\ LoadsKey
    /\ LET at == IF call.low = Null THEN call.cur ELSE call.low
       IN  /\ at \in DOMAIN inner
           /\ Occupied(inner[at]) # {}
           /\ call' = [call EXCEPT !.low = Extreme("begin", inner[at])]
    /\ UNCHANGED treeVars

\* The comparison with the prefix is over.
Compared == call.low \in DOMAIN leaf \/ (call.low = Null /\ ~ LoadsKey)

\* The prefix matches, as far as it is looked at: on to the child.
PassPrefix ==
    /\ AtNode(WalkOps)
    /\ Compared /\ Differing = {}
    /\ LET d == call.depth + Here.plen
       IN  /\ d \in Chunks
           /\ call' = [call EXCEPT !.prev = call.cur, !.depth = d + 1, !.low = Null,
                                   !.cur = Here.child[call.key[d]]]
    /\ UNCHANGED treeVars

\* The prefix does not match: the key is not there, and a bound gives up.
PrefixDiffers ==
    /\ AtNode(WalkOps \ InsertOps)
    /\ Compared /\ Differing # {}
    /\ call' = Return(call.op, call.key, {}, FALSE)
    /\ UNCHANGED treeVars

Matches == call.cur = LeafOf(call.key)

\* A lookup stops at the first leaf or empty slot.
FindEnds ==
    /\ AtLeaf({"find"}) \/ AtGap({"find"})
    /\ call' = Return("find", call.key, IF Matches THEN {call.key} ELSE {}, FALSE)
    /\ UNCHANGED treeVars

\* lower_bound and upper_bound accept the leaf they hit, or look for the
\* successor of the key from the last inner node they passed.
LeafIsBound == call.cur \in Candidates(call.op, call.key)

BoundHits ==
    /\ AtLeaf(BoundOps) /\ LeafIsBound
    /\ call' = Return(call.op, call.key, {call.cur.path}, FALSE)
    /\ UNCHANGED treeVars

BoundMisses ==
    /\ AtGap(BoundOps) \/ (AtLeaf(BoundOps) /\ ~ LeafIsBound)
    /\ call' = [pc |-> "climb", op |-> call.op, key |-> call.key, cur |-> call.prev]
    /\ UNCHANGED treeVars

-----------------------------------------------------------------------------
(* insert_unique, emplace_unique.                                          *)

\* A plausible slip: the prefix keeps its length.
RemainderLengthKept(n, parent, pos, rest) ==
    [n EXCEPT !.parent = parent, !.depth = @ + pos + 1, !.prefix = rest]

\* The old node after a split: it keeps the prefix past position pos.
Remainder(n, parent, pos, rest) ==
    [n EXCEPT !.parent = parent, !.depth = @ + pos + 1,
              !.plen = @ - (pos + 1), !.prefix = rest]

\* split_prefix_into_parent at position pos: a new node takes the prefix up
\* to there (f, of which s slots are written) and has the old node as its
\* only child, under the chunk b; the old node keeps the rest.
SplitAt(pos, f, s, b, rest) ==
    LET old  == call.cur
        n    == inner[old]
        new  == NodeAt("node_4", old.path, n.depth + pos)
        made == OneChild(n.parent, n.depth, pos, f, s, b, old)
    IN  /\ new \notin DOMAIN inner
        /\ Writable(inner, n.parent)
        /\ PointTo([Allocate(inner, new, made) EXCEPT ![old] = Remainder(n, new, pos, rest)],
                   n.parent, call.key, new)
        /\ call' = [call EXCEPT !.prev = new, !.depth = @ + pos + 1, !.low = Null,
                                !.cur = made.child[call.key[call.depth + pos]]]
        /\ UNCHANGED <<leaf, count>>

\* std::move of what follows position pos to the front; the tail is stale.
ShiftedPast(f, pos) ==
    [q \in PrefixSlots |-> IF q + pos + 1 < MaxPrefix THEN f[q + pos + 1] ELSE f[q]]

\* The node keeps its whole prefix.
SplitStored ==
    /\ AtNode(InsertOps)
    /\ Compared /\ Differing # {} /\ Here.plen < MaxPrefix
    /\ LET pos == Min(Differing)
       IN  SplitAt(pos, Here.prefix, pos, Here.prefix[pos], ShiftedPast(Here.prefix, pos))

\* A plausible slip: the reload begins with the chunk of the split.
ReloadedEarly(n, key, pos) ==
    [q \in PrefixSlots |->
        IF q < n.plen - (pos + 1) THEN key[n.depth + pos + q] ELSE n.prefix[q]]

\* The chunks past position pos, as many as there are, copied from a key.
Reloaded(n, key, pos) ==
    [q \in PrefixSlots |->
        IF q < n.plen - (pos + 1) THEN key[n.depth + pos + 1 + q] ELSE n.prefix[q]]

\* The chunk of the child and what follows in its prefix come from a leaf.
SplitLoaded ==
    /\ AtNode(InsertOps)
    /\ Compared /\ Differing # {} /\ Here.plen >= MaxPrefix
    /\ LET pos == Min(Differing)
           key == call.low.path
       IN  SplitAt(pos, Here.prefix, MaxPrefix, key[Here.depth + pos],
                   Reloaded(Here, key, pos))

\* The key is there already: emplace deletes the leaf it made beforehand.
InsertDuplicate ==
    /\ AtLeaf(InsertOps) /\ Matches
    /\ call' = Return(call.op, call.key, {call.key}, FALSE)
    /\ UNCHANGED treeVars

\* The new leaf goes into the slot of a node that the chunk at j of its key
\* names.
ThenLink(n, j) ==
    call' = [pc |-> "link", op |-> call.op, key |-> call.key, value |-> call.value,
             node |-> n, chunk |-> j]

\* Another leaf is in the way: a node with that leaf as its only child takes
\* its place, and the chunks the keys share become its prefix.
SplitLeaf ==
    /\ AtLeaf(InsertOps) /\ ~ Matches
    /\ LET old     == call.cur
           parting == {i \in call.depth..(KeyLen - 1) : call.key[i] # old.path[i]}
           j       == Min(parting)
           node    == NodeAt("node_4", old.path, j)
           parent  == leaf[old].parent
           shared  == [i \in 0..(j - call.depth) |-> call.key[call.depth + i]]
           made    == OneChild(parent, call.depth, j - call.depth, shared,
                               j - call.depth, old.path[j], old)
       IN  /\ parting # {}
           /\ node \notin DOMAIN inner
           /\ Writable(inner, parent)
           /\ PointTo(Allocate(inner, node, made), parent, old.path, node)
           /\ leaf' = [leaf EXCEPT ![old].parent = node]
           /\ ThenLink(node, j)
    /\ UNCHANGED count

\* An empty slot in a full node: the node is replaced by the next layout.
GrowNode ==
    /\ AtGap(InsertOps)
    /\ call.prev \in DOMAIN inner
    /\ call.prev.type # "node_256"
    /\ inner[call.prev].count = MaxSize(call.prev.type)
    /\ LET old   == call.prev
           new   == [old EXCEPT !.type = Grown(old.type)]
           kids  == Children(inner[old])
           moved == Adopt(Free(Allocate(inner, new, inner[old]), old), kids, new)
       IN  /\ new \notin DOMAIN inner
           /\ Writable(moved, inner[old].parent)
           /\ PointTo(moved, inner[old].parent, call.key, new)
           /\ leaf' = Adopt(leaf, kids, new)
           /\ call' = [call EXCEPT !.prev = new]
    /\ UNCHANGED count

\* An empty slot in a node with room.
FillGap ==
    /\ AtGap(InsertOps)
    /\ call.prev \in DOMAIN inner
    /\ inner[call.prev].count # MaxSize(call.prev.type)
    /\ call.depth - 1 \in Chunks
    /\ ThenLink(call.prev, call.depth - 1)
    /\ UNCHANGED treeVars

\* The new leaf joins the tree.  insert_unique knows the chunk from its walk;
\* emplace_unique, which uses insert_leaf, takes it from the parent.
LinkLeaf ==
    /\ call.pc = "link"
    /\ LeafOf(call.key) \notin DOMAIN leaf
    /\ leaf' = Allocate(leaf, LeafOf(call.key),
                        [parent |-> call.node, value |-> call.value])
    /\ \/ /\ call.node = Dummy
          /\ root' = LeafOf(call.key) /\ dummyRoot' = LeafOf(call.key)
          /\ UNCHANGED inner
       \/ /\ call.node \in DOMAIN inner
          /\ inner[call.node].count < MaxSize(call.node.type)
          /\ LET j == IF call.op = "insert" THEN call.chunk ELSE Branch(inner[call.node])
             IN  inner' = [inner EXCEPT ![call.node] =
                              InsertChild(@, call.key[j], LeafOf(call.key))]
          /\ UNCHANGED <<root, dummyRoot>>
    /\ count' = count + 1
    /\ call' = Return(call.op, call.key, {call.key}, TRUE)

-----------------------------------------------------------------------------
(* erase_unique(key) and erase(iterator).                                  *)

EraseMisses ==
    /\ AtGap({"erase"}) \/ (AtLeaf({"erase"}) /\ ~ Matches)
    /\ call' = Return("erase", call.key, {}, FALSE)
    /\ UNCHANGED treeVars

\* The only element: the dummy node keeps pointing to the leaf that was.
DropRoot ==
    /\ root \in DOMAIN leaf
    /\ leaf' = Free(leaf, root)
    /\ root' = Null
    /\ count' = count - 1
    /\ UNCHANGED <<inner, dummyRoot>>

\* n->erase(byte) deletes the leaf in that slot; fix_after_erase follows.
DropLeaf(o, n, j, k, at) ==
    /\ n \in DOMAIN inner
    /\ j \in Chunks
    /\ inner[n].child[k[j]] \in DOMAIN leaf
    /\ leaf' = Free(leaf, inner[n].child[k[j]])
    /\ inner' = [inner EXCEPT ![n] = EraseChild(@, k[j])]
    /\ count' = count - 1
    /\ call' = [pc |-> "shrink", op |-> o, key |-> k, at |-> at, node |-> n]
    /\ UNCHANGED <<root, dummyRoot>>

EraseRoot ==
    /\ AtLeaf({"erase"}) /\ Matches /\ call.cur = root
    /\ DropRoot
    /\ call' = Return("erase", call.key, {}, TRUE)

EraseLeaf ==
    /\ AtLeaf({"erase"}) /\ Matches /\ call.cur # root
    /\ DropLeaf("erase", call.prev, call.depth - 1, call.key, {})

\* erase(iterator) has moved a copy of the iterator on; now it erases.
UnlinkRoot ==
    /\ call.pc = "unlink" /\ LeafOf(call.key) = root
    /\ DropRoot
    /\ call' = Return("erase_at", call.key, call.at, TRUE)

UnlinkLeaf ==
    /\ call.pc = "unlink" /\ LeafOf(call.key) # root
    /\ LeafOf(call.key) \in DOMAIN leaf
    /\ LET n == leaf[LeafOf(call.key)].parent
       IN  /\ n \in DOMAIN inner
           /\ DropLeaf("erase_at", n, Branch(inner[n]), call.key, call.at)

\* fix_after_erase, first half: shrink() of a node below its minimum.
Fixing(pc) == call.pc = pc /\ call.node \in DOMAIN inner

Underfull == Fixing("shrink") /\ inner[call.node].count < MinSize(call.node.type)

ThenCompress(n) == call' = [call EXCEPT !.pc = "compress", !.node = n]

FixEnds == call' = Return(call.op, call.key, call.at, TRUE)

ShrinkToNode ==
    /\ Underfull
    /\ call.node.type # "node_4"
    /\ LET old  == call.node
           new  == [old EXCEPT !.type = Shrunk(old.type)]
           kids == Children(inner[old])
           made == [inner[old] EXCEPT !.count = MaxSize(Shrunk(old.type))]
           heap == Adopt(Free(Allocate(inner, new, made), old), kids, new)
       IN  /\ new \notin DOMAIN inner
           /\ Writable(heap, made.parent)
           /\ PointTo(heap, made.parent, call.key, new)
           /\ leaf' = Adopt(leaf, kids, new)
           /\ ThenCompress(new)
    /\ UNCHANGED count

\* keys[0] and children[0] of a node 4.
FirstByte(n) == Min(Occupied(n))
FirstChild(n) == n.child[FirstByte(n)]

\* A node 4 whose last child is a leaf is replaced by that leaf.
ShrinkToLeaf ==
    /\ Underfull
    /\ call.node.type = "node_4"
    /\ Occupied(inner[call.node]) # {}
    /\ LET old == inner[call.node]
           kid == FirstChild(old)
       IN  /\ kid \in DOMAIN leaf
           /\ leaf' = [leaf EXCEPT ![kid].parent = old.parent]
           /\ Writable(Free(inner, call.node), old.parent)
           /\ PointTo(Free(inner, call.node), old.parent, call.key, kid)
    /\ FixEnds
    /\ UNCHANGED count

\* shrink() returns any other node 4 unchanged.
ShrinkNothing ==
    /\ Fixing("shrink")
    /\ \/ UNCHANGED treeVars /\ ~ Underfull
       \/ /\ Underfull
          /\ call.node.type = "node_4"
          /\ Occupied(inner[call.node]) # {}
          /\ FirstChild(inner[call.node]) \in DOMAIN inner
          /\ Writable(inner, inner[call.node].parent)
          /\ PointTo(inner, inner[call.node].parent, call.key, call.node)
          /\ UNCHANGED <<leaf, count>>
    /\ ThenCompress(call.node)

\* A plausible slip: the root is not merged into its child.
OneWay4BelowRoot == /\ call.node.type = "node_4" /\ inner[call.node].count = 1
                    /\ inner[call.node].parent # Dummy

\* fix_after_erase, second half: a node 4 with one child is merged into it.
OneWay4 == call.node.type = "node_4" /\ inner[call.node].count = 1

\* A plausible slip: the chunk that led to the child gets lost.
JoinedWithoutByte(n, c) ==
    [q \in PrefixSlots |->
        IF n.plen >= MaxPrefix \/ q < n.plen THEN n.prefix[q]
        ELSE c.prefix[q - n.plen]]

\* compress_node_into_child: the prefix of the node, the chunk that led to
\* the child, and as much of the prefix of the child as still fits.
JoinedPrefix(n, c) ==
    [q \in PrefixSlots |->
        IF n.plen >= MaxPrefix \/ q < n.plen THEN n.prefix[q]
        ELSE IF q = n.plen THEN FirstByte(n)
        ELSE c.prefix[q - n.plen - 1]]

\* Its branch for a leaf is left out: shrink() has replaced such a node.
Compress ==
    /\ Fixing("compress") /\ OneWay4
    /\ Occupied(inner[call.node]) # {}
    /\ LET n    == inner[call.node]
           kid  == FirstChild(n)
           c    == inner[kid]
           made == [c EXCEPT !.parent = n.parent, !.depth = n.depth,
                             !.plen = @ + n.plen + 1, !.prefix = JoinedPrefix(n, c)]
           heap == [Free(inner, call.node) EXCEPT ![kid] = made]
       IN  /\ kid \in DOMAIN inner
           /\ Writable(heap, n.parent)
           /\ PointTo(heap, n.parent, call.key, kid)
    /\ FixEnds
    /\ UNCHANGED <<leaf, count>>

CompressNothing ==
    /\ Fixing("compress") /\ ~ OneWay4
    /\ FixEnds
    /\ UNCHANGED treeVars

-----------------------------------------------------------------------------
(* successor(), predecessor(), minimum(), maximum(): the climb from a node *)
(* to its parent and the way down that follows it.                         *)

\* ++it and --it ask the parent of the leaf; erase(iterator) begins with ++it.
MoveIterator(o, k) ==
    /\ call = Idle
    /\ LeafOf(k) \in DOMAIN leaf
    /\ call' = [pc |-> "climb", op |-> o, key |-> k, cur |-> leaf[LeafOf(k)].parent]
    /\ UNCHANGED treeVars

\* --end() of a container that is not empty.
MoveEnd ==
    /\ call = Idle
    /\ root # Null
    /\ call' = [pc |-> "climb", op |-> "prev", key |-> NoPath, cur |-> Dummy]
    /\ UNCHANGED treeVars

\* begin(): minimum() of the tree, or the end leaf.
Begin ==
    /\ call = Idle
    /\ call' = IF root = Null THEN Return("begin", NoPath, {}, FALSE)
               ELSE [pc |-> "down", op |-> "begin", key |-> NoPath, cur |-> root]
    /\ UNCHANGED treeVars

\* A move that ends at a leaf answers, or lets erase(iterator) go on.
Arrive(o, k, at) ==
    call' = IF o = "erase_at" THEN [pc |-> "unlink", key |-> k, at |-> at]
            ELSE Return(o, k, at, FALSE)

\* A plausible slip: a node asks itself again instead of its parent.
ClimbInPlace ==
    /\ call.pc = "climb"
    /\ call.cur \in DOMAIN inner
    /\ LET n    == inner[call.cur]
           next == Beyond(call.op, call.key[Branch(n)], n)
       IN  call' = IF next = {} THEN call
                   ELSE [pc |-> "down", op |-> call.op, key |-> call.key,
                         cur |-> n.child[IF Backward(call.op) THEN Max(next)
                                                              ELSE Min(next)]]
    /\ UNCHANGED treeVars

Climb ==
    /\ call.pc = "climb"
    /\ call.cur \in DOMAIN inner
    /\ LET n    == inner[call.cur]
           next == Beyond(call.op, call.key[Branch(n)], n)
       IN  call' = IF next = {} THEN [call EXCEPT !.cur = n.parent]
                   ELSE [pc |-> "down", op |-> call.op, key |-> call.key,
                         cur |-> n.child[IF Backward(call.op) THEN Max(next)
                                                              ELSE Min(next)]]
    /\ UNCHANGED treeVars

\* The dummy node: its leaf is the successor of everything, and it wraps
\* around to the last element on the way back.
ClimbPastTop ==
    /\ call.pc = "climb"
    /\ call.cur = Dummy
    /\ IF Backward(call.op) /\ dummyRoot # Null
       THEN call' = [pc |-> "down", op |-> call.op, key |-> call.key, cur |-> dummyRoot]
       ELSE Arrive(call.op, call.key, {})
    /\ UNCHANGED treeVars

GoDown ==
    /\ call.pc = "down"
    /\ call.cur \in DOMAIN inner
    /\ Occupied(inner[call.cur]) # {}
    /\ call' = [call EXCEPT !.cur = Extreme(call.op, inner[call.cur])]
    /\ UNCHANGED treeVars

ArriveAtLeaf ==
    /\ call.pc = "down"
    /\ call.cur \in DOMAIN leaf
    /\ Arrive(call.op, call.key, {call.cur.path})
    /\ UNCHANGED treeVars

-----------------------------------------------------------------------------
(* clear(): children first, from the smallest to the largest chunk.  The   *)
(* stack is the recursion: a node and the chunk its loop goes on from.     *)

CallClear ==
    /\ call = Idle
    /\ call' = [pc |-> "clear",
                stack |-> IF root = Null THEN <<>> ELSE <<[node |-> root, from |-> 0]>>]
    /\ UNCHANGED treeVars

Clearing == call.pc = "clear" /\ call.stack # <<>>

Top == Head(call.stack)

\* A plausible slip: the loop starts past the first chunk.
LeftPast(f) == {b \in Occupied(inner[f.node]) : b > f.from}

Left(f) == {b \in Occupied(inner[f.node]) : b >= f.from}

ClearChild ==
    /\ Clearing
    /\ Top.node \in DOMAIN inner
    /\ Left(Top) # {}
    /\ LET b == Min(Left(Top))
       IN  call' = [call EXCEPT !.stack =
                       <<[node |-> inner[Top.node].child[b], from |-> 0],
                         [Top EXCEPT !.from = b + 1]>> \o Tail(@)]
    /\ UNCHANGED treeVars

ClearNode ==
    /\ Clearing
    /\ \/ Top.node \in DOMAIN leaf
       \/ Top.node \in DOMAIN inner /\ Left(Top) = {}
    /\ inner' = Free(inner, Top.node)
    /\ leaf' = Free(leaf, Top.node)
    /\ call' = [call EXCEPT !.stack = Tail(@)]
    /\ UNCHANGED <<root, dummyRoot, count>>

ClearEnds ==
    /\ call.pc = "clear" /\ call.stack = <<>>
    /\ root' = Null
    /\ count' = 0
    /\ call' = Return("clear", NoPath, {}, TRUE)
    /\ UNCHANGED <<inner, leaf, dummyRoot>>

-----------------------------------------------------------------------------

\* The client has its result and may call again.
Resume == call.pc = "return" /\ call' = Idle /\ UNCHANGED treeVars

Client ==
    \/ \E o \in WalkOps, k \in Keys : \E v \in Given[k] :
          CallOnEmpty(o, k, v) \/ CallOnTree(o, k, v)
    \/ \E o \in {"next", "prev", "erase_at"}, k \in Keys : MoveIterator(o, k)
    \/ MoveEnd \/ Begin \/ CallClear

Running ==
    \/ LoadDown \/ PassPrefix \/ PrefixDiffers \/ FindEnds \/ BoundHits \/ BoundMisses
    \/ InsertDuplicate \/ SplitStored \/ SplitLoaded \/ SplitLeaf
    \/ GrowNode \/ FillGap \/ LinkLeaf
    \/ EraseMisses \/ EraseRoot \/ EraseLeaf \/ UnlinkRoot \/ UnlinkLeaf
    \/ ShrinkToNode \/ ShrinkToLeaf \/ ShrinkNothing \/ Compress \/ CompressNothing
    \/ Climb \/ ClimbPastTop \/ GoDown \/ ArriveAtLeaf
    \/ ClearChild \/ ClearNode \/ ClearEnds
    \/ Resume

Next == Client \/ Running

Spec == Init /\ [][Next]_vars

\* A call that has begun goes on: nothing else runs in between.
FairSpec == Spec /\ WF_vars(Running)

-----------------------------------------------------------------------------
(* What must hold.                                                         *)

Live == DOMAIN inner \cup DOMAIN leaf

\* No call is in the middle of changing the tree.
Settled == call.pc \notin {"walk", "link", "shrink", "compress", "clear"}

\* Every slot in use holds a live node whose parent pointer leads back, whose
\* depth continues where the prefix and the slot of the parent end, and whose
\* keys have the chunks that lead there; the root hangs from the dummy node.
\* Splits and compressions move depths, lengths and links of three nodes at
\* once, and must agree on them at every step, also in the middle of a call.
SlotsFollowKeys ==
    call.pc # "clear" =>
        /\ \A a \in DOMAIN inner : \A b \in Occupied(inner[a]) :
              LET d == Branch(inner[a])
                  c == inner[a].child[b]
              IN  /\ c \in Live
                  /\ ParentOf(c) = a
                  /\ Prefix(c.path, d) = a.path /\ c.path[d] = b
                  /\ c \in DOMAIN inner => inner[c].depth = d + 1
        /\ root # Null => /\ root \in Live
                          /\ ParentOf(root) = Dummy
                          /\ root \in DOMAIN inner => inner[root].depth = 0

\* The prefix of a node is what all keys below it share: its length reaches
\* from its depth to the chunk where its children part, and the kept chunks
\* are those of the keys.  Splitting shifts them, or reloads them from a leaf
\* if the prefix was cut off; compressing joins two prefixes and a chunk of
\* which only the first MaxPrefix survive.  Stale chunks must never count.
PrefixIsShared ==
    call.pc # "clear" =>
        \A a \in DOMAIN inner :
            LET n == inner[a]
            IN  /\ DOMAIN a.path = 0..(Branch(n) - 1)
                /\ \A q \in 0..(StoredLength(n) - 1) : n.prefix[q] = a.path[n.depth + q]

\* No node is leaked: every live node but the root sits in the slot of its
\* parent that its chunks name.  clear() and every replacement of a node must
\* delete exactly what they unhang.
NothingLost ==
    call.pc # "clear" =>
        \A a \in Live :
            \/ a = root
            \/ LET p == ParentOf(a)
               IN  p \in DOMAIN inner /\ inner[p].child[a.path[Branch(inner[p])]] = a

\* Between operations every node counts its children and has the layout for
\* that many; no node has a single child, which is what path compression is.
LayoutFitsSize ==
    Settled =>
        \A a \in DOMAIN inner :
            /\ inner[a].count = Cardinality(Occupied(inner[a]))
            /\ inner[a].count \in MinSize(a.type)..MaxSize(a.type)

\* The dummy node's copy of the root, from which --end() starts, follows the
\* root through every replacement while there is one.
DummyTracksRoot == root # Null => dummyRoot = root

\* Every call comes back: no walk, load or climb runs for ever or stops at a
\* pointer that leads nowhere.
CallsReturn == (call # Idle) ~> (call = Idle)

\* The tree is an ordered map.  A call takes effect when it links or unlinks
\* its leaf, a clear() when it begins.
Content ==
    IF call.pc = "clear" THEN [k \in {} |-> 0]
    ELSE [k \in {a.path : a \in DOMAIN leaf} |-> leaf[LeafOf(k)].value]

Asked == IF call.key = NoPath THEN {} ELSE {call.key}

Answered ==
    CASE call.pc = "return" ->
             [op |-> call.op, asked |-> Asked, at |-> call.at, did |-> call.did]
      [] call.pc \in {"shrink", "compress"} ->
             [op |-> call.op, asked |-> Asked, at |-> call.at, did |-> TRUE]
      [] call.pc = "clear" -> [op |-> "clear", asked |-> {}, at |-> {}, did |-> TRUE]
      [] OTHER -> [op |-> "none", asked |-> {}, at |-> {}, did |-> FALSE]

Map == INSTANCE OrderedMap WITH content <- Content, answer <- Answered, Before <- Less

\* Every operation of ar_prefix_tree does to the elements, and answers, what
\* the same operation of an ordered map does, although find looks only at the
\* kept part of a prefix and bounds climb from a node whose prefix was split
\* or joined by earlier calls.
ImplementsMap == Map!Spec

\* A bound answers end() only if no element is left that it could answer
\* with, as the documentation of lower_bound and upper_bound (radix_map.h) says.
EndIsBeyond ==
    call.pc = "return" /\ call.op \in BoundOps /\ call.at = {} =>
        Candidates(call.op, call.key) = {}
=============================================================================
