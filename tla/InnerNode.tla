------------------------------ MODULE InnerNode ------------------------------
(***************************************************************************)
(* The life of one inner node of ar_tree in its physical layout, arrays    *)
(* and stale slots included.  It follows the tree: a full node grows       *)
(* before it gets a child, a node below its minimum shrinks after it lost  *)
(* one, and at any time the container may be copied.                       *)
(*                                                                         *)
(* ArTree takes a node as the map from byte values to children that        *)
(* ChildMap describes; this module shows that the layouts represent it.    *)
(***************************************************************************)
EXTENDS NodeLayouts

CONSTANT
    CopyAnyNode48  \* may the client copy a container with a _Node_48 whose
                   \* children do not lie in the slots of their bytes?

ASSUME CopyAssumption == CopyAnyNode48 \in BOOLEAN

VARIABLES
    node,    \* the node as it is
    next,    \* what the tree does to it next
    made,    \* the node a constructor is filling
    i, pos   \* the variables of the loop in that constructor

vars == <<node, next, made, i, pos>>

-----------------------------------------------------------------------------

NoNode == Node("none", 0, Unused, Unused, Unused)

TypeOK ==
    /\ node.type \in InnerTypes /\ node \in NodeShape(node.type)
    /\ next \in {"any", "insert", "shrink", "copy", "clone"}
    /\ CASE next = "copy" -> /\ made \in NodeShape(Shrunk(node.type))
                             /\ node.type \in {"node_48", "node_256"}
         [] next = "clone" -> made \in NodeShape(node.type)
         [] OTHER -> made = NoNode
    /\ i \in 0..Cap256
    /\ pos \in Nat

Idle == made' = NoNode /\ i' = 0 /\ pos' = 0

Init == /\ \E b \in Byte, c \in Kids : node = NewNode4(b, c)
        /\ next = "any"
        /\ made = NoNode /\ i = 0 /\ pos = 0

\* A plausible slip: a child is inserted without a look at the capacity.
InsertChildUnbounded(b, c) ==
    /\ next \in {"any", "insert"}
    /\ Find(node, b) = Nil
    /\ node' = Insert(node, b, c)
    /\ next' = "any"
    /\ UNCHANGED <<made, i, pos>>

InsertChild(b, c) ==
    /\ next \in {"any", "insert"}
    /\ Find(node, b) = Nil
    /\ node.count < MaxSize(node.type)
    /\ node' = Insert(node, b, c)
    /\ next' = "any"
    /\ UNCHANGED <<made, i, pos>>

\* A parent is told that a child has moved in memory.
UpdateChildPtr(b, c) ==
    /\ next = "any"
    /\ Find(node, b) # Nil
    /\ node' = Update(node, b, c)
    /\ UNCHANGED <<next, made, i, pos>>

\* grow(): the tree calls it with a child in hand and inserts that next.
Grow ==
    /\ next = "any"
    /\ node.count = MaxSize(node.type) /\ node.type # "node_256"
    /\ node' = GrownNode(node)
    /\ next' = "insert"
    /\ UNCHANGED <<made, i, pos>>

\* A node 4 left with one child is dropped or kept by the tree, which erases
\* nothing from it before another child has come.
EraseChild(b) ==
    /\ next = "any"
    /\ Find(node, b) # Nil
    /\ node.count >= 2
    /\ node' = Erase(node, b)
    /\ next' = IF node.type # "node_4" /\ node.count - 1 < MinSize(node.type)
               THEN "shrink" ELSE "any"
    /\ UNCHANGED <<made, i, pos>>

ShrinkTo4 ==
    /\ next = "shrink" /\ node.type = "node_16"
    /\ node' = Shrink16(node)
    /\ next' = "any"
    /\ UNCHANGED <<made, i, pos>>

ShrinkBegins ==
    /\ next = "shrink" /\ node.type # "node_16"
    /\ made' = IF node.type = "node_48" THEN Shrink48Begins ELSE Shrink256Begins
    /\ next' = "copy"
    /\ UNCHANGED <<node, i, pos>>

ShrinkSkips ==
    /\ next = "copy" /\ i \in Byte
    /\ i \notin InUse(node)
    /\ i' = i + 1
    /\ UNCHANGED <<node, next, made, pos>>

ShrinkCopies ==
    /\ next = "copy" /\ i \in Byte
    /\ i \in InUse(node)
    /\ pos \in Places(made.type)
    /\ made' = IF node.type = "node_48" THEN Shrink48Copies(made, node, i, pos)
                                        ELSE Shrink256Copies(made, node, i, pos)
    /\ i' = i + 1 /\ pos' = pos + 1
    /\ UNCHANGED <<node, next>>

ShrinkEnds ==
    /\ next = "copy" /\ i = Cap256
    /\ node' = made
    /\ next' = "any"
    /\ Idle

\* The copy constructor; the children are copied one by one...
CopyNode ==
    /\ next = "any"
    /\ Indexed(node.type) => CopyAnyNode48 \/ IndexIsByte(node)
    /\ made' = CopyBegins(node)
    /\ next' = "clone"
    /\ UNCHANGED <<node, i, pos>>

CopyChild ==
    /\ next = "clone" /\ i \in CopyTurns(node)
    /\ CopyReads(node, i)
    /\ made' = Copied(made, node, i)
    /\ i' = i + 1
    /\ UNCHANGED <<node, next, pos>>

\* ... and what follows is the life of the copy.
CopyEnds ==
    /\ next = "clone" /\ i \notin CopyTurns(node)
    /\ node' = made
    /\ next' = "any"
    /\ Idle

Next ==
    \/ CopyNode \/ CopyChild \/ CopyEnds
    \/ \E b \in Byte : EraseChild(b) \/ \E c \in Kids : InsertChild(b, c) \/ UpdateChildPtr(b, c)
    \/ Grow \/ ShrinkTo4 \/ ShrinkBegins \/ ShrinkSkips \/ ShrinkCopies \/ ShrinkEnds

Spec == Init /\ [][Next]_vars

-----------------------------------------------------------------------------
(* What must hold.                                                         *)

\* The arrays of _Node_4 and _Node_16 hold ascending keys with a child each;
\* what lies past count is never looked at.  In _Node_48 no two bytes share a
\* slot and a slot is null exactly if no byte leads to it.  The scans rely on
\* both, and the search of insert() for a null slot, which has no bound, ends
\* at a slot that is really free.
ArraysExact ==
    /\ Sorted(node.type) => Ascending(node)
    /\ Indexed(node.type) => ExactIndex(node)

\* The count is the number of children, although the constructors do not
\* count them; a node is below its minimum only while it waits to shrink or,
\* just grown, to get its next child.
CountExact ==
    /\ node.count = Cardinality(Taken(node))
    /\ next = "any" => \/ node.count \in MinSize(node.type)..MaxSize(node.type)
                       \/ node.type = "node_4" /\ node.count = 1

\* A shrink constructor fills its arrays exactly: the running position never
\* leaves them and ends at the count that was written down in advance.
ShrinkFills ==
    next = "copy" => /\ pos = Cardinality({b \in Taken(node) : b < i})
                     /\ i = Cap256 => pos = made.count
                     /\ i < Cap256 /\ i \in InUse(node) => pos < made.count

\* The scans over the slots answer with the child at the next byte in order,
\* in every layout.
ScansFollowOrder ==
    LET T == Taken(node)
        at(S, b) == IF S = {} THEN Nil ELSE Find(node, b)
    IN  /\ First(node) = Find(node, Min(T)) /\ Last(node) = Find(node, Max(T))
        /\ \A b \in Byte :
              LET more == {c \in T : c > b}
                  less == {c \in T : c < b}
              IN  /\ After(node, b) = at(more, Min(more))
                  /\ Before(node, b) = at(less, Max(less))

\* A copy has a copy of each child at the byte of that child, as the tests of
\* the containers expect of it.
CopyIsFaithful ==
    next = "clone" /\ i \notin CopyTurns(node) => Represents(made) = Represents(node)

Children == INSTANCE ChildMap WITH Bytes <- Byte, kids <- Represents(node)

Rebuild == \/ Grow \/ ShrinkTo4 \/ ShrinkBegins \/ ShrinkSkips \/ ShrinkCopies \/ ShrinkEnds
           \/ CopyNode \/ CopyChild \/ CopyEnds

\* What each step is for the map of children: the operation of the same name,
\* or nothing.
StepsLikeChildMap ==
    /\ \A b \in Byte, c \in Kids : /\ InsertChild(b, c) => Children!Put(b, c)
                                   /\ UpdateChildPtr(b, c) => Children!Redirect(b, c)
    /\ \A b \in Byte : EraseChild(b) => Children!Remove(b)
    /\ Rebuild => UNCHANGED Represents(node)

\* In every layout an operation does to the children what the same operation
\* with the same byte does to a map, and neither a change of layout, stale
\* slots or not, nor going on with a copy changes anything.
ImplementsChildMap == Children!Init /\ [][StepsLikeChildMap]_vars
=============================================================================
