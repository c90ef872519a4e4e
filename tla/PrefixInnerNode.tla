--------------------------- MODULE PrefixInnerNode ---------------------------
(***************************************************************************)
(* The life of one inner node of ar_prefix_tree in its physical layout.    *)
(* On top of the arrays of ar_tree's layouts it carries a head: its depth  *)
(* and the prefix its keys share.  Every change of layout makes a new node *)
(* that has to take the head along, or the scans look at a wrong chunk.    *)
(*                                                                         *)
(* The node is born with one child and a second one on the way, and it     *)
(* dies when it is left with one, which takes its place in the tree.  One  *)
(* method or constructor is one step here; the loops inside them are those *)
(* of InnerNode.                                                           *)
(***************************************************************************)
EXTENDS NodeLayouts

CONSTANTS
    KeyLen,         \* chunks of a key
    Keys,           \* keys the client asks about
    Heads,          \* heads a node may be born with
    MaxPrefix,      \* MAX_PREFIX_LENGTH
    CopyAnyNode48   \* may the client copy a container with a _Node_48 that
                    \* has a prefix, or children not in the slots of their bytes?

Chunks == 0..(KeyLen - 1)

ASSUME KeyAssumption ==
    KeyLen \in Nat \ {0} /\ MaxPrefix \in Nat \ {0} /\ Keys \subseteq [Chunks -> Byte]

ASSUME CopyAssumption == CopyAnyNode48 \in BOOLEAN

VARIABLES
    node,   \* the node as it is
    next    \* what the tree does to it next

vars == <<node, next>>

-----------------------------------------------------------------------------
(* The head of a node.                                                     *)

PrefixSlots == 0..(MaxPrefix - 1)

HeadShape == [depth : Chunks, plen : Chunks, prefix : [PrefixSlots -> Byte]]

ASSUME HeadsAssumption ==
    Heads \subseteq HeadShape /\ \A h \in Heads : h.depth + h.plen \in Chunks

\* A node with the head of another.
Headed(n, h) ==
    [type |-> n.type, count |-> n.count, keys |-> n.keys, index |-> n.index,
     slots |-> n.slots, depth |-> h.depth, plen |-> h.plen, prefix |-> h.prefix]

NoPrefix == [q \in PrefixSlots |-> 0]

\* _Inner_Node(parent, count, depth).
Bare(d) == [depth |-> d, plen |-> 0, prefix |-> NoPrefix]

\* What counts of a head: bytes of the prefix past its length do not.
Head(n) == [depth |-> n.depth, plen |-> n.plen,
            kept |-> [q \in 0..(Min({n.plen, MaxPrefix}) - 1) |-> n.prefix[q]]]

\* A plausible slip: the chunk at which the prefix begins.
BranchAtDepth(n) == n.depth

\* The chunk by which the children of the node are told apart.
Branch(n) == n.depth + n.plen

-----------------------------------------------------------------------------
(* minimum(), maximum() and, for a whole key, successor(), predecessor():  *)
(* the child to go on with, or Nil for the parent.                         *)

MinimumSorted(n)  == n.slots[0]
MinimumIndexed(n) == n.slots[n.index[Min(InUse(n))]]
MinimumDirect(n)  == n.slots[Min(InUse(n))]

MaximumSorted(n)  == n.slots[n.count - 1]
MaximumIndexed(n) == n.slots[n.index[Max(InUse(n))]]
MaximumDirect(n)  == n.slots[Max(InUse(n))]

SuccessorSorted(n, k) ==
    LET p == UpperBound(n, k[Branch(n)]) IN IF p < n.count THEN n.slots[p] ELSE Nil

PredecessorSorted(n, k) ==
    LET S == {p \in 0..(n.count - 1) : n.keys[p] < k[Branch(n)]}
    IN  IF S = {} THEN Nil ELSE n.slots[Max(S)]

\* The slot of the first or the last used byte beyond the chunk of the key.
SuccessorIndexed(n, k) ==
    LET S == {b \in (k[Branch(n)] + 1)..MaxByte : n.index[b] # EmptyMarker}
    IN  IF S = {} THEN Nil ELSE n.slots[n.index[Min(S)]]

PredecessorIndexed(n, k) ==
    LET S == {b \in 0..(k[Branch(n)] - 1) : n.index[b] # EmptyMarker}
    IN  IF S = {} THEN Nil ELSE n.slots[n.index[Max(S)]]

SuccessorDirect(n, k) ==
    LET S == {b \in (k[Branch(n)] + 1)..MaxByte : n.slots[b] # Nil}
    IN  IF S = {} THEN Nil ELSE n.slots[Min(S)]

PredecessorDirect(n, k) ==
    LET S == {b \in 0..(k[Branch(n)] - 1) : n.slots[b] # Nil}
    IN  IF S = {} THEN Nil ELSE n.slots[Max(S)]

-----------------------------------------------------------------------------
(* The constructors that change the layout.  The count of the new node is  *)
(* written down, not counted, and the head is that of the old node.        *)

\* The used byte with p smaller ones before it.
Ranked(n, p) == CHOOSE b \in InUse(n) : Cardinality({c \in InUse(n) : c < b}) = p

Rank(n, b) == Cardinality({c \in InUse(n) : c < b})

\* _Node_16(_Node_4 *).
Node16Of4(n) ==
    Headed(Node("node_16", Cap4,
                [p \in Places("node_16") |-> IF p < Cap4 THEN n.keys[p] ELSE 0], Unused,
                [p \in Places("node_16") |-> IF p < Cap4 THEN n.slots[p] ELSE Nil]), n)

\* _Node_48(_Node_16 *).
Node48Of16(n) ==
    Headed(Node("node_48", Cap16, Unused,
                [b \in Byte |-> IF \E p \in 0..(Cap16 - 1) : n.keys[p] = b
                                THEN Max({p \in 0..(Cap16 - 1) : n.keys[p] = b})
                                ELSE EmptyMarker],
                [p \in Places("node_48") |-> IF p < Cap16 THEN n.slots[p] ELSE Nil]), n)

\* _Node_256(_Node_48 *).
Children256Of48(n) == [b \in Byte |-> IF b \in InUse(n) THEN ChildAt(n, b) ELSE Nil]

\* A plausible slip: the base class is given the depth only.
Node256Of48Bare(n) ==
    Headed(Node("node_256", Cap48, Unused, Unused, Children256Of48(n)), Bare(n.depth))

Node256Of48(n) == Headed(Node("node_256", Cap48, Unused, Unused, Children256Of48(n)), n)

\* A plausible slip: the position of the loop is taken for the byte.
Node48Of256ByByte(n) ==
    Headed(Node("node_48", Cap48, Unused,
                [b \in Byte |-> IF b \in InUse(n) THEN b ELSE EmptyMarker],
                [p \in Places("node_48") |->
                    IF p < Cardinality(InUse(n)) THEN n.slots[Ranked(n, p)] ELSE Nil]), n)

\* _Node_48(_Node_256 *).
Node48Of256(n) ==
    Headed(Node("node_48", Cap48, Unused,
                [b \in Byte |-> IF b \in InUse(n) THEN Rank(n, b) ELSE EmptyMarker],
                [p \in Places("node_48") |->
                    IF p < Cardinality(InUse(n)) THEN n.slots[Ranked(n, p)] ELSE Nil]), n)

\* _Node_16(_Node_48 *).
Node16Of48(n) ==
    LET used == 0..(Cardinality(InUse(n)) - 1)
    IN  Headed(Node("node_16", Cap16,
                    [p \in Places("node_16") |-> IF p \in used THEN Ranked(n, p) ELSE 0],
                    Unused,
                    [p \in Places("node_16") |->
                        IF p \in used THEN ChildAt(n, Ranked(n, p)) ELSE Nil]), n)

\* _Node_4(_Node_16 *).
Node4Of16(n) ==
    Headed(Node("node_4", Cap4, [p \in Places("node_4") |-> n.keys[p]], Unused,
                [p \in Places("node_4") |-> n.slots[p]]), n)

-----------------------------------------------------------------------------
(* The copy constructors.  That of _Node_48 leaves the prefix out and      *)
(* takes the child of a byte from the slot with the number of the byte.    *)

Copy4(n)  == [n EXCEPT !.slots =
                 [p \in Places("node_4") |-> IF p < n.count THEN n.slots[p] ELSE Nil]]

Copy16(n) == [n EXCEPT !.slots =
                 [p \in Places("node_16") |-> IF p < n.count THEN n.slots[p] ELSE Nil]]

CopiedFrom(n) == [p \in {n.index[b] : b \in InUse(n)} |->
                     n.slots[CHOOSE b \in InUse(n) : n.index[b] = p]]

Copy48(n) == Headed(Node("node_48", n.count, Unused, n.index,
                         [p \in Places("node_48") |->
                             IF p \in DOMAIN CopiedFrom(n) THEN CopiedFrom(n)[p] ELSE Nil]),
                    Bare(n.depth))

\* Does the copy read only slots that are there and have a child?
Copy48Reads(n) == \A b \in InUse(n) : b \in Places("node_48") /\ n.slots[b] # Nil

\* A plausible slip: the last byte is left out.
Copy256ButLast(n) == [n EXCEPT !.slots[MaxByte] = Nil]

Copy256(n) == n

-----------------------------------------------------------------------------
(* The steps.                                                              *)

Growable == node.count = MaxSize(node.type) /\ node.type # "node_256"

\* _Node_4 with one child, made for a leaf (no prefix or one that follows)
\* or by a split of a prefix.  The tree inserts a second child at once.
Init ==
    /\ \E b \in Byte, c \in Kids, h \in Heads : node = Headed(NewNode4(b, c), h)
    /\ next = "insert"

\* A byte that may be given a child now.
Open(b) == next \in {"any", "insert"} /\ Find(node, b) = Nil

InsertIntoSorted(b, c) ==
    /\ Sorted(node.type) /\ Open(b) /\ node.count < MaxSize(node.type)
    /\ node' = InsertSorted(node, b, c) /\ next' = "any"

InsertIntoIndexed(b, c) ==
    /\ Indexed(node.type) /\ Open(b) /\ node.count < Cap48
    /\ node' = InsertIndexed(node, b, c) /\ next' = "any"

InsertIntoDirect(b, c) ==
    /\ Direct(node.type) /\ Open(b)
    /\ node' = InsertDirect(node, b, c) /\ next' = "any"

\* What the tree does to a node that has lost a child.
AfterErase(n) == IF n.count - 1 >= MinSize(n.type) THEN "any"
                 ELSE IF n.type = "node_4" THEN "gone" ELSE "shrink"

EraseFromSorted(b) ==
    /\ Sorted(node.type) /\ next = "any" /\ Find(node, b) # Nil
    /\ node' = EraseSorted(node, b) /\ next' = AfterErase(node)

EraseFromIndexed(b) ==
    /\ Indexed(node.type) /\ next = "any" /\ Find(node, b) # Nil
    /\ node' = EraseIndexed(node, b) /\ next' = AfterErase(node)

EraseFromDirect(b) ==
    /\ Direct(node.type) /\ next = "any" /\ Find(node, b) # Nil
    /\ node' = EraseDirect(node, b) /\ next' = AfterErase(node)

UpdateInSorted(b, c) ==
    /\ Sorted(node.type) /\ next = "any" /\ Find(node, b) # Nil
    /\ node' = UpdateSorted(node, b, c) /\ UNCHANGED next

UpdateInIndexed(b, c) ==
    /\ Indexed(node.type) /\ next = "any" /\ Find(node, b) # Nil
    /\ node' = UpdateIndexed(node, b, c) /\ UNCHANGED next

UpdateInDirect(b, c) ==
    /\ Direct(node.type) /\ next = "any" /\ Find(node, b) # Nil
    /\ node' = UpdateDirect(node, b, c) /\ UNCHANGED next

Grow ==
    /\ next = "any" /\ Growable
    /\ node' = CASE node.type = "node_4"  -> Node16Of4(node)
                 [] node.type = "node_16" -> Node48Of16(node)
                 [] OTHER                 -> Node256Of48(node)
    /\ next' = "insert"

Shrink ==
    /\ next = "shrink"
    /\ node' = CASE node.type = "node_16" -> Node4Of16(node)
                 [] node.type = "node_48" -> Node16Of48(node)
                 [] OTHER                 -> Node48Of256(node)
    /\ next' = "any"

\* The container is copied; what follows is the life of the copy.
CopyNode ==
    /\ next = "any"
    /\ Indexed(node.type) => /\ Copy48Reads(node)
                             /\ CopyAnyNode48 \/ (IndexIsByte(node) /\ node.plen = 0)
    /\ node' = CASE node.type = "node_4"  -> Copy4(node)
                 [] node.type = "node_16" -> Copy16(node)
                 [] node.type = "node_48" -> Copy48(node)
                 [] OTHER                 -> Copy256(node)
    /\ UNCHANGED next

Next ==
    \/ \E b \in Byte :
          \/ EraseFromSorted(b) \/ EraseFromIndexed(b) \/ EraseFromDirect(b)
          \/ \E c \in Kids :
                \/ InsertIntoSorted(b, c) \/ InsertIntoIndexed(b, c) \/ InsertIntoDirect(b, c)
                \/ UpdateInSorted(b, c) \/ UpdateInIndexed(b, c) \/ UpdateInDirect(b, c)
    \/ Grow \/ Shrink \/ CopyNode

Spec == Init /\ [][Next]_vars

-----------------------------------------------------------------------------
(* What must hold.                                                         *)

TypeOK ==
    /\ node.type \in InnerTypes
    /\ Node(node.type, node.count, node.keys, node.index, node.slots) \in NodeShape(node.type)
    /\ [depth |-> node.depth, plen |-> node.plen, prefix |-> node.prefix] \in HeadShape
    /\ Branch(node) \in Chunks
    /\ next \in {"any", "insert", "shrink", "gone"}

\* The count is the number of children, although no constructor counts them,
\* and outside of a call it lies within the bounds of the layout.
CountExact ==
    /\ node.count = Cardinality(Taken(node))
    /\ next = "any" => node.count \in MinSize(node.type)..MaxSize(node.type)

\* A step that leaves the head as it was.
Kept == Head(node') = Head(node)

\* No method, no change of layout and no copy touches the head of a node: its
\* depth, the length of its prefix and the prefix bytes that are kept.
HeadStays == [][Kept]_vars

Answers(n, min, max, suc(_), pre(_)) ==
    LET T == Taken(n)
        at(S, b) == IF S = {} THEN Nil ELSE Find(n, b)
    IN  /\ min = Find(n, Min(T)) /\ max = Find(n, Max(T))
        /\ \A k \in Keys :
              LET byte == k[n.depth + n.plen]
                  more == {c \in T : c > byte}
                  less == {c \in T : c < byte}
              IN  suc(k) = at(more, Min(more)) /\ pre(k) = at(less, Max(less))

\* For every key, the scans of each layout go on with the child next to the
\* chunk that follows the prefix, and turn to the parent if there is none.
ScansFollowKeys ==
    CASE Sorted(node.type) ->
           Answers(node, MinimumSorted(node), MaximumSorted(node),
                   LAMBDA k : SuccessorSorted(node, k), LAMBDA k : PredecessorSorted(node, k))
      [] Indexed(node.type) ->
           Answers(node, MinimumIndexed(node), MaximumIndexed(node),
                   LAMBDA k : SuccessorIndexed(node, k), LAMBDA k : PredecessorIndexed(node, k))
      [] OTHER ->
           Answers(node, MinimumDirect(node), MaximumDirect(node),
                   LAMBDA k : SuccessorDirect(node, k), LAMBDA k : PredecessorDirect(node, k))

Children == INSTANCE ChildMap WITH Bytes <- Byte, kids <- Represents(node)

\* What each step is for the map of children: the operation of that name, or
\* nothing.
StepsLikeChildMap ==
    /\ \A b \in Byte, c \in Kids :
          /\ InsertIntoSorted(b, c) \/ InsertIntoIndexed(b, c) \/ InsertIntoDirect(b, c)
                => Children!Put(b, c)
          /\ UpdateInSorted(b, c) \/ UpdateInIndexed(b, c) \/ UpdateInDirect(b, c)
                => Children!Redirect(b, c)
    /\ \A b \in Byte :
          EraseFromSorted(b) \/ EraseFromIndexed(b) \/ EraseFromDirect(b) => Children!Remove(b)
    /\ Grow \/ Shrink \/ CopyNode => UNCHANGED Represents(node)

\* In every layout an insertion, an erasure and an update are those of a map
\* from bytes to children, and a change of layout or a copy changes nothing.
ImplementsChildMap == Children!Init /\ [][StepsLikeChildMap]_vars

\* A copy of a node has the head of the node, as the tests that compare a
\* copied container with its source expect.
CopyKeepsHead == [][CopyNode => Kept]_vars
=============================================================================
