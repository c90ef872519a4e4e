------------------------------- MODULE ArNode -------------------------------
(***************************************************************************)
(* What a radix tree of this library is built from: transformed keys cut   *)
(* into byte chunks, pointers, and a heap that maps the address of each    *)
(* live node to its fields.  A node is seen here as what its layout        *)
(* represents, a child for some of the byte values; InnerNode is about the *)
(* layouts themselves.  The module has no state; the trees extend it.      *)
(*                                                                         *)
(* The address of a node carries the layout of the node and the chunks     *)
(* that lead to the place it was created for.  The allocator is free to    *)
(* return any address, and the code never looks at one except to compare   *)
(* it with another, so a canonical choice loses no behaviour as long as no *)
(* two live nodes get the same one; every allocation checks that.          *)
(***************************************************************************)
EXTENDS Layout, FiniteSetsExt

CONSTANTS
    KeyLen,   \* sizeof(transformed_key_type): chunks of a key
    Keys,     \* the transformed keys a client may use
    Values,   \* the mapped values
    Given     \* those a client may give with a key

Chunks == 0..(KeyLen - 1)

ASSUME KeyLenAssumption == KeyLen \in Nat \ {0}

ASSUME KeysAssumption == Keys \subseteq [Chunks -> Byte]

ASSUME GivenAssumption == Given \in [Keys -> SUBSET Values]

-----------------------------------------------------------------------------
(* Keys and pointers.                                                      *)

\* The first d chunks of a key.
Prefix(k, d) == [i \in 0..(d - 1) |-> k[i]]

\* std::memcmp over the chunks: the order the container promises.
Less(a, b) ==
    \E i \in Chunks : a[i] < b[i] /\ \A j \in 0..(i - 1) : a[j] = b[j]

NoPath == <<>>

Paths == UNION {[0..(d - 1) -> Byte] : d \in Chunks}

InnerAddr == [type : InnerTypes, path : Paths]
LeafAddr  == [type : {"leaf"}, path : Keys]

Null    == [type |-> "null",  path |-> NoPath]   \* nullptr
Dummy   == [type |-> "dummy", path |-> NoPath]   \* _M_dummy_node
EndLeaf == [type |-> "end",   path |-> NoPath]   \* _M_dummy_node->_leaf

Ptr == InnerAddr \cup LeafAddr \cup {Null, Dummy, EndLeaf}

LeafOf(k)       == [type |-> "leaf", path |-> k]
NodeAt(t, k, d) == [type |-> t, path |-> Prefix(k, d)]

-----------------------------------------------------------------------------
(* Live nodes.  A heap is a function from the addresses of live nodes.     *)

InnerNode == [parent : Ptr, depth : Chunks, count : Int, child : [Byte -> Ptr]]
LeafNode  == [parent : Ptr, value : Values]

IsHeap(heap, A, N) == heap \in [DOMAIN heap -> N] /\ DOMAIN heap \subseteq A

NoChildren == [b \in Byte |-> Null]

Occupied(n) == {b \in Byte : n.child[b] # Null}

Children(n) == {n.child[b] : b \in Occupied(n)}

Allocate(heap, a, n) == [x \in DOMAIN heap \cup {a} |-> IF x = a THEN n ELSE heap[x]]

Free(heap, a) == [x \in DOMAIN heap \ {a} |-> heap[x]]

\* A plausible slip: the copied children keep their old parent.
AdoptNone(heap, S, p) == heap

\* children[i]->_parent = p for every i that is copied.
Adopt(heap, S, p) ==
    [x \in DOMAIN heap |-> IF x \in S THEN [heap[x] EXCEPT !.parent = p] ELSE heap[x]]

\* insert(key_byte, node) of a layout that has room for it.
InsertChild(n, b, c) == [n EXCEPT !.child[b] = c, !.count = @ + 1]

\* erase(key_byte): the slot is emptied and the others close up.
EraseChild(n, b) == [n EXCEPT !.child[b] = Null, !.count = @ - 1]

\* update_child_ptr(key_byte, node): only an occupied slot is written.
UpdateChild(n, b, c) == IF n.child[b] # Null THEN [n EXCEPT !.child[b] = c] ELSE n

\* A plausible slip: the node gets the depth of its child.
OneWayTooDeep(parent, d, b, c) ==
    [parent |-> parent, depth |-> d + 1, count |-> 1, child |-> [NoChildren EXCEPT ![b] = c]]

\* _Node_4(leaf, key_byte, depth): a node with the leaf as its only child.
OneWay(parent, d, b, c) ==
    [parent |-> parent, depth |-> d, count |-> 1, child |-> [NoChildren EXCEPT ![b] = c]]
=============================================================================
