----------------------------- MODULE Containers ------------------------------
(***************************************************************************)
(* Several containers whose trees lie in one heap: construction, copy,     *)
(* move, assignment, swap, clear and destruction.  The text of these       *)
(* operations is the same in ar_tree and ar_prefix_tree; the trees differ  *)
(* in shape (PathCompression).                                             *)
(*                                                                         *)
(* Copying a tree is a recursion with an allocation, and a call of the     *)
(* value's copy constructor, per node.  It runs step by step here, and any *)
(* of its steps may throw.  Every other operation is one step: none of     *)
(* them calls anything of the client's, and ArTree and ArPrefixTree follow *)
(* the calls on one container in detail.                                   *)
(*                                                                         *)
(* Trees are built by insertion of a range and have nodes without a        *)
(* layout: what becomes of a layout in a copy is the subject of InnerNode  *)
(* and PrefixInnerNode.                                                    *)
(***************************************************************************)
EXTENDS Integers, FiniteSetsExt, SequencesExt

CONSTANTS
    Containers,       \* the container objects of the client
    Byte,             \* values of a chunk
    Keys,             \* transformed keys, sequences of chunks of one length
    Values,           \* mapped values
    PathCompression,  \* is it ar_prefix_tree?
    MayThrow,         \* can an allocation or a copied value throw?
    Ranges,           \* what the client inserts, functions from keys to values
    Trees,            \* numbers for the trees in the heap: a bound on how many,
    Dummies           \* leaked ones included; the same for the dummy nodes

ASSUME ShapeAssumption ==
    /\ Byte \subseteq Nat /\ IsFiniteSet(Byte)
    /\ Keys # {} /\ IsFiniteSet(Keys) /\ Keys \subseteq Seq(Byte)
    /\ \A k, l \in Keys : Len(k) = Len(l) /\ k # <<>>
    /\ \A R \in Ranges : DOMAIN R \subseteq Keys /\ DOMAIN R # {}
                           /\ R \in [DOMAIN R -> Values]
    /\ Trees \subseteq Nat /\ Dummies \subseteq Nat
    /\ PathCompression \in BOOLEAN /\ MayThrow \in BOOLEAN

KeyLen == Len(CHOOSE k \in Keys : TRUE)

VARIABLES
    alive,      \* the containers that are constructed
    root,       \* _M_root of each
    size,       \* _M_count of each
    dummy,      \* _M_dummy_node of each
    inner,      \* live inner nodes, by address
    leaf,       \* live leaves, by address
    dummyRoot,  \* _root of the live dummy nodes
    job         \* the copy that is going on

vars == <<alive, root, size, dummy, inner, leaf, dummyRoot, job>>

-----------------------------------------------------------------------------
(* Addresses and shapes.                                                   *)

Null      == [kind |-> "null", tree |-> 0, path |-> <<>>]
DummyAt(d) == [kind |-> "dummy", tree |-> d, path |-> <<>>]

\* The node that tree t keeps at path p; a whole key leads to a leaf.
NodeAt(t, p) == [kind |-> IF p \in Keys THEN "leaf" ELSE "inner", tree |-> t, path |-> p]

Under(S, p) == {k \in S : IsPrefix(p, k)}

Branching(S, p) == {b \in Byte : Under(S, Append(p, b)) # {}}

\* The paths of the inner nodes a tree with keys S consists of: wherever two
\* keys go together, or with path compression only where they part.
InnerPaths(S) ==
    {p \in UNION {{SubSeq(k, 1, d) : d \in 0..(Len(k) - 1)} : k \in S} :
        IF PathCompression THEN Cardinality(Branching(S, p)) > 1
                           ELSE Cardinality(Under(S, p)) > 1}

\* The path of the node that holds the keys of S below p.
Top(S, p) ==
    IF Cardinality(Under(S, p)) = 1 THEN CHOOSE k \in S : IsPrefix(p, k)
    ELSE CHOOSE q \in InnerPaths(S) :
            /\ IsPrefix(p, q)
            /\ \A r \in InnerPaths(S) : IsPrefix(p, r) => Len(q) <= Len(r)

\* The nodes of tree t with keys S whose root hangs from node up.
BuiltInner(t, S, up) ==
    LET paths == InnerPaths(S)
        above(p) == {q \in paths : IsStrictPrefix(q, p)}
        parent(p) == IF above(p) = {} THEN up
                     ELSE NodeAt(t, CHOOSE q \in above(p) : \A r \in above(p) : Len(r) <= Len(q))
    IN  [a \in {NodeAt(t, p) : p \in paths} |->
            [parent |-> parent(a.path),
             child |-> [b \in Byte |-> IF b \in Branching(S, a.path)
                                       THEN NodeAt(t, Top(S, Append(a.path, b))) ELSE Null]]]

BuiltLeaves(t, R, up) ==
    LET above(k) == {q \in InnerPaths(DOMAIN R) : IsPrefix(q, k)}
        parent(k) == IF above(k) = {} THEN up
                     ELSE NodeAt(t, CHOOSE q \in above(k) : \A r \in above(k) : Len(r) <= Len(q))
    IN  [a \in {NodeAt(t, k) : k \in DOMAIN R} |->
            [parent |-> parent(a.path), value |-> R[a.path]]]

-----------------------------------------------------------------------------
(* The heap.                                                               *)

Nodes == DOMAIN inner \cup DOMAIN leaf

Kids(S) == (UNION {Range(inner[x].child) : x \in S \cap DOMAIN inner}) \ {Null}

\* The nodes a traversal from node a comes to, live or not.
Reach(a) ==
    LET reach[d \in 0..KeyLen] == IF d = 0 THEN {a} ELSE reach[d - 1] \cup Kids(reach[d - 1])
    IN  reach[KeyLen] \ {Null}

Tree(c) == Reach(root[c])

\* A tree number and a dummy node that are free, if there are any.  They only
\* tell the trees apart, so that it does not matter which.
Lowest(S)  == {i \in S : \A j \in S : i <= j}
FreshTree(live) == Lowest({t \in Trees : \A a \in live : a.tree # t})
FreshDummy      == Lowest({d \in Dummies : DummyAt(d) \notin DOMAIN dummyRoot})

Without(f, S) == [x \in DOMAIN f \ S |-> f[x]]
With(f, g)    == [x \in DOMAIN f \cup DOMAIN g |-> IF x \in DOMAIN g THEN g[x] ELSE f[x]]

\* _parent of a node, if there is one.
Hang(f, a, p) == [x \in DOMAIN f |-> IF x = a THEN [f[x] EXCEPT !.parent = p] ELSE f[x]]

Idle == job = [op |-> "none"]

-----------------------------------------------------------------------------
(* Construction, destruction and contents.                                 *)

Init ==
    /\ alive = {} /\ job = [op |-> "none"]
    /\ root = [c \in Containers |-> Null] /\ size = [c \in Containers |-> 0]
    /\ dummy = [c \in Containers |-> Null]
    /\ inner = [a \in {} |-> Null] /\ leaf = [a \in {} |-> Null]
    /\ dummyRoot = [a \in {} |-> Null]

\* init(): an empty container with a new dummy node.
InitContainer(c, d) ==
    /\ root' = [root EXCEPT ![c] = Null]
    /\ size' = [size EXCEPT ![c] = 0]
    /\ dummy' = [dummy EXCEPT ![c] = DummyAt(d)]
    /\ dummyRoot' = With(dummyRoot, [x \in {DummyAt(d)} |-> Null])

Construct(c) ==
    /\ Idle /\ c \notin alive
    /\ \E d \in FreshDummy : InitContainer(c, d)
    /\ alive' = alive \cup {c}
    /\ UNCHANGED <<inner, leaf, job>>

\* insert_unique(first, last) into an empty container.
InsertRange(c, R) ==
    /\ Idle /\ c \in alive /\ root[c] = Null
    /\ size' = [size EXCEPT ![c] = Cardinality(DOMAIN R)]
    /\ UNCHANGED <<alive, dummy, job>>
    /\ \E t \in FreshTree(Nodes) :
       LET r == NodeAt(t, Top(DOMAIN R, <<>>))
       IN  /\ inner' = With(inner, BuiltInner(t, DOMAIN R, dummy[c]))
           /\ leaf' = With(leaf, BuiltLeaves(t, R, dummy[c]))
           /\ root' = [root EXCEPT ![c] = r]
           /\ dummyRoot' = [dummyRoot EXCEPT ![dummy[c]] = r]

\* A plausible slip: the pointer to the deleted root is kept.
EmptiedRootKept(c) ==
    /\ root' = root /\ size' = [size EXCEPT ![c] = 0]
    /\ inner' = Without(inner, Tree(c)) /\ leaf' = Without(leaf, Tree(c))

\* clear(): every node below the root and the root are deleted.
Emptied(c) ==
    /\ root' = [root EXCEPT ![c] = Null] /\ size' = [size EXCEPT ![c] = 0]
    /\ inner' = Without(inner, Tree(c)) /\ leaf' = Without(leaf, Tree(c))

Clear(c) ==
    /\ Idle /\ c \in alive /\ root[c] # Null
    /\ UNCHANGED <<alive, dummy, dummyRoot, job>>
    /\ Emptied(c)

Destroy(c) ==
    /\ Idle /\ c \in alive
    /\ alive' = alive \ {c}
    /\ Emptied(c)
    /\ dummyRoot' = Without(dummyRoot, {dummy[c]})
    /\ dummy' = [dummy EXCEPT ![c] = Null]
    /\ UNCHANGED job

-----------------------------------------------------------------------------
(* Moves and swap.                                                         *)

\* A plausible slip: the source keeps its root.
TakeSourceKept(c, x, d) ==
    /\ root' = [root EXCEPT ![c] = root[x]]
    /\ size' = [size EXCEPT ![c] = size[x], ![x] = 0]
    /\ inner' = Hang(inner, root[x], d) /\ leaf' = Hang(leaf, root[x], d)
    /\ dummyRoot' = IF root[x] = Null THEN dummyRoot
                    ELSE With(dummyRoot, [y \in {d} |-> root[x]])

\* The root and the count of x go to c, whose dummy node is d.
Take(c, x, d) ==
    /\ root' = [root EXCEPT ![c] = root[x], ![x] = Null]
    /\ size' = [size EXCEPT ![c] = size[x], ![x] = 0]
    /\ inner' = Hang(inner, root[x], d) /\ leaf' = Hang(leaf, root[x], d)
    /\ dummyRoot' = IF root[x] = Null THEN dummyRoot
                    ELSE With(dummyRoot, [y \in {d} |-> root[x]])

\* Of an empty container nothing is moved; the new one is empty, too.
MoveEmpty(c, x) ==
    /\ Idle /\ c \notin alive /\ x \in alive /\ root[x] = Null
    /\ \E d \in FreshDummy : InitContainer(c, d)
    /\ alive' = alive \cup {c}
    /\ UNCHANGED <<inner, leaf, job>>

MoveConstruct(c, x) ==
    /\ Idle /\ c \notin alive /\ x \in alive /\ root[x] # Null
    /\ \E d \in FreshDummy : /\ Take(c, x, DummyAt(d))
                            /\ dummy' = [dummy EXCEPT ![c] = DummyAt(d)]
    /\ alive' = alive \cup {c}
    /\ UNCHANGED job

\* The contents of c are not deleted, and c may be x.
MoveAssign(c, x) ==
    /\ Idle /\ c \in alive /\ x \in alive
    /\ UNCHANGED <<alive, dummy, job>>
    /\ Take(c, x, dummy[c])

Swap(c, x) ==
    /\ Idle /\ c \in alive /\ x \in alive /\ c # x
    /\ root' = [root EXCEPT ![c] = root[x], ![x] = root[c]]
    /\ size' = [size EXCEPT ![c] = size[x], ![x] = size[c]]
    /\ dummy' = [dummy EXCEPT ![c] = dummy[x], ![x] = dummy[c]]
    /\ UNCHANGED <<alive, inner, leaf, dummyRoot, job>>

-----------------------------------------------------------------------------
(* Copies.                                                                 *)

\* Of an empty container nothing is copied.
CopyEmpty(c, x) ==
    /\ Idle /\ c \notin alive /\ x \in alive /\ root[x] = Null
    /\ \E d \in FreshDummy : InitContainer(c, d)
    /\ alive' = alive \cup {c}
    /\ UNCHANGED <<inner, leaf, job>>

\* A plausible slip: the assignment of an empty container does not clear.
AssignEmptyUncleared(c, x) ==
    /\ Idle /\ c \in alive /\ x \in alive /\ c # x /\ root[x] = Null
    /\ \E d \in FreshDummy : InitContainer(c, d)
    /\ UNCHANGED <<alive, inner, leaf, job>>

\* Assignment of an empty container clears and then makes a new dummy node.
AssignEmpty(c, x) ==
    /\ Idle /\ c \in alive /\ x \in alive /\ c # x /\ root[x] = Null
    /\ \E d \in FreshDummy : InitContainer(c, d)
    /\ inner' = Without(inner, Tree(c)) /\ leaf' = Without(leaf, Tree(c))
    /\ UNCHANGED <<alive, job>>

Frame(a) == [src |-> a, todo |-> IF a \in DOMAIN inner
                                 THEN {b \in Byte : inner[a].child[b] # Null} ELSE {}]

Copying(o, c, x, t, stack) == [op |-> o, to |-> c, from |-> x, tree |-> t, stack |-> stack]

\* The copy constructor of a node before its children: it keeps the parent of
\* the node it copies until the caller sets the right one.
CopiedInner(a) == [parent |-> inner[a].parent, child |-> [b \in Byte |-> Null]]
CopiedLeaf(a)  == [parent |-> Null, value |-> leaf[a].value]

New(t, a) == NodeAt(t, a.path)

\* copy_node(root) starts.
CopyRoot(o, c, x, t) ==
    LET a == root[x]
    IN  /\ job' = Copying(o, c, x, t, <<Frame(a)>>)
        /\ inner' = IF a \in DOMAIN inner
                    THEN With(Without(inner, Tree(c)), [y \in {New(t, a)} |-> CopiedInner(a)])
                    ELSE Without(inner, Tree(c))
        /\ leaf' = IF a \in DOMAIN leaf
                   THEN With(Without(leaf, Tree(c)), [y \in {New(t, a)} |-> CopiedLeaf(a)])
                   ELSE Without(leaf, Tree(c))

CopyConstruct(c, x) ==
    /\ Idle /\ c \notin alive /\ x \in alive /\ root[x] # Null
    /\ FreshDummy # {}
    /\ \E t \in FreshTree(Nodes) : CopyRoot("construct", c, x, t)
    /\ UNCHANGED <<alive, root, size, dummy, dummyRoot>>

\* The target is cleared before anything is copied, so that the copy may lie
\* where its nodes lay.
CopyAssign(c, x) ==
    /\ Idle /\ c \in alive /\ x \in alive /\ c # x /\ root[x] # Null
    /\ \E t \in FreshTree(Nodes \ Tree(c)) : CopyRoot("assign", c, x, t)
    /\ root' = [root EXCEPT ![c] = Null] /\ size' = [size EXCEPT ![c] = 0]
    /\ UNCHANGED <<alive, dummy, dummyRoot>>

\* The first allocation of an assignment throws: the target stays cleared.
AssignThrows(c, x) ==
    /\ Idle /\ MayThrow /\ c \in alive /\ x \in alive /\ c # x
    /\ UNCHANGED <<alive, dummy, dummyRoot, job>>
    /\ Emptied(c)

OnTop == Last(job.stack)

\* A plausible slip: the loop does not move on.
CopyChildLeafAgain ==
    /\ ~Idle /\ job.stack # <<>> /\ OnTop.todo # {}
    /\ LET b == Min(OnTop.todo)
           a == inner[OnTop.src].child[b]
           this == New(job.tree, OnTop.src)
       IN  /\ a \in DOMAIN leaf
           /\ leaf' = With(leaf, [y \in {New(job.tree, a)} |-> [CopiedLeaf(a) EXCEPT !.parent = this]])
           /\ inner' = [inner EXCEPT ![this].child[b] = New(job.tree, a)]
    /\ UNCHANGED <<alive, root, size, dummy, dummyRoot, job>>

\* copy_children: the next child is a leaf, which is copied and linked.
CopyChildLeaf ==
    /\ ~Idle /\ job.stack # <<>> /\ OnTop.todo # {}
    /\ LET b == Min(OnTop.todo)
           a == inner[OnTop.src].child[b]
           this == New(job.tree, OnTop.src)
       IN  /\ a \in DOMAIN leaf
           /\ leaf' = With(leaf, [y \in {New(job.tree, a)} |-> [CopiedLeaf(a) EXCEPT !.parent = this]])
           /\ inner' = [inner EXCEPT ![this].child[b] = New(job.tree, a)]
           /\ job' = [job EXCEPT !.stack[Len(job.stack)].todo = @ \ {b}]
    /\ UNCHANGED <<alive, root, size, dummy, dummyRoot>>

\* copy_children: the next child is an inner node, whose copy is begun.
CopyChildInner ==
    /\ ~Idle /\ job.stack # <<>> /\ OnTop.todo # {}
    /\ LET b == Min(OnTop.todo)
           a == inner[OnTop.src].child[b]
       IN  /\ a \in DOMAIN inner
           /\ inner' = With(inner, [y \in {New(job.tree, a)} |-> CopiedInner(a)])
           /\ job' = [job EXCEPT !.stack = Append([job.stack EXCEPT ![Len(job.stack)].todo = @ \ {b}],
                                               Frame(a))]
    /\ UNCHANGED <<alive, root, size, dummy, leaf, dummyRoot>>

\* A plausible slip: the copied child keeps the parent it was copied with.
ChildCopiedUnhung ==
    /\ ~Idle /\ Len(job.stack) > 1 /\ OnTop.todo = {}
    /\ LET below == job.stack[Len(job.stack) - 1]
           a == New(job.tree, OnTop.src)
           b == CHOOSE y \in Byte : inner[below.src].child[y] = OnTop.src
           this == New(job.tree, below.src)
       IN  inner' = [inner EXCEPT ![this].child[b] = a]
    /\ job' = [job EXCEPT !.stack = Front(@)]
    /\ UNCHANGED <<alive, root, size, dummy, leaf, dummyRoot>>

\* The copy of an inner child is complete and linked.
ChildCopied ==
    /\ ~Idle /\ Len(job.stack) > 1 /\ OnTop.todo = {}
    /\ LET below == job.stack[Len(job.stack) - 1]
           a == New(job.tree, OnTop.src)
           b == CHOOSE y \in Byte : inner[below.src].child[y] = OnTop.src
           this == New(job.tree, below.src)
       IN  inner' = [inner EXCEPT ![this].child[b] = a, ![a].parent = this]
    /\ job' = [job EXCEPT !.stack = Front(@)]
    /\ UNCHANGED <<alive, root, size, dummy, leaf, dummyRoot>>

\* The whole tree is copied; the container takes it, and one that is just
\* constructed gets its dummy node.
CopyEnds ==
    /\ ~Idle /\ Len(job.stack) = 1 /\ OnTop.todo = {}
    /\ LET c == job.to
           r == New(job.tree, OnTop.src)
       IN  \E d \in IF job.op = "assign" THEN {dummy[c]} ELSE {DummyAt(e) : e \in FreshDummy} :
           /\ root' = [root EXCEPT ![c] = r]
           /\ size' = [size EXCEPT ![c] = size[job.from]]
           /\ dummy' = [dummy EXCEPT ![c] = d]
           /\ inner' = Hang(inner, r, d) /\ leaf' = Hang(leaf, r, d)
           /\ dummyRoot' = With(dummyRoot, [y \in {d} |-> r])
           /\ alive' = alive \cup {c}
    /\ job' = [op |-> "none"]

\* An allocation or the copy of a value throws.  The nodes whose constructors
\* are running are given back, those that were complete are not.
CopyThrows ==
    /\ ~Idle /\ MayThrow /\ job.stack # <<>>
    /\ OnTop.todo # {} \/ (job.op = "construct" /\ Len(job.stack) = 1)
    /\ job' = [op |-> "none"]
    /\ UNCHANGED <<alive, root, size, dummy, leaf, dummyRoot>>
    /\ inner' = IF OnTop.todo = {} THEN inner
                ELSE Without(inner, {New(job.tree, f.src) : f \in Range(job.stack)})

Next ==
    \/ \E c \in Containers :
          \/ Construct(c) \/ Clear(c) \/ Destroy(c)
          \/ \E R \in Ranges : InsertRange(c, R)
          \/ \E x \in Containers :
                \/ MoveEmpty(c, x) \/ MoveConstruct(c, x) \/ MoveAssign(c, x) \/ Swap(c, x)
                \/ CopyEmpty(c, x) \/ AssignEmpty(c, x)
                \/ CopyConstruct(c, x) \/ CopyAssign(c, x) \/ AssignThrows(c, x)
    \/ CopyChildLeaf \/ CopyChildInner \/ ChildCopied \/ CopyEnds \/ CopyThrows

\* A copy that is going on comes to its next step.
Fairness == WF_vars(CopyChildLeaf \/ CopyChildInner \/ ChildCopied \/ CopyEnds)

Spec == Init /\ [][Next]_vars /\ Fairness

-----------------------------------------------------------------------------
(* What must hold.                                                         *)

TypeOK ==
    /\ alive \subseteq Containers
    /\ \A c \in Containers : /\ root[c] \in Nodes \cup {Null}
                             /\ size[c] \in 0..Cardinality(Keys)
                             /\ dummy[c] # Null <=> c \in alive
    /\ \A c \in alive : dummy[c] \in DOMAIN dummyRoot
    /\ \A a \in DOMAIN inner : a.kind = "inner" /\ inner[a].child \in [Byte -> Nodes \cup {Null}]
    /\ \A a \in DOMAIN leaf : a.kind = "leaf" /\ leaf[a].value \in Values

ParentOf(a) == IF a \in DOMAIN inner THEN inner[a].parent ELSE leaf[a].parent

\* Whatever was copied, moved, swapped or destroyed before, also while a copy
\* is under way: the tree of a container consists of live nodes that belong to
\* no other container, every node in it hangs from the node that leads to it,
\* the root from the dummy node of this container, which knows the root, and
\* the count that was carried along is the number of its leaves.
OwnTrees ==
    /\ \A c, x \in alive : c # x => Tree(c) \cap Tree(x) = {} /\ dummy[c] # dummy[x]
    /\ \A c \in alive :
          LET tree == Tree(c)
          IN  /\ tree \subseteq Nodes
              /\ size[c] = Cardinality(tree \cap DOMAIN leaf)
              /\ root[c] # Null => ParentOf(root[c]) = dummy[c] /\ dummyRoot[dummy[c]] = root[c]
              /\ \A a \in tree \cap DOMAIN inner, b \in Byte :
                    inner[a].child[b] # Null => ParentOf(inner[a].child[b]) = a

\* What no container and no running copy can get at any more.
Leaked ==
    LET kept == (UNION {Tree(c) : c \in alive})
                  \cup {a \in Nodes : ~Idle /\ a.tree = job.tree}
    IN  (Nodes \ kept) \cup (DOMAIN dummyRoot \ {dummy[c] : c \in alive})

\* The nodes of a running copy whose constructors have returned, in the order
\* in which copy_node makes them: all but those on the stack, and these too
\* once there is nothing left to be copied.
Complete ==
    {a \in Nodes : /\ a.tree = job.tree
                   /\ OnTop.todo # {} =>
                         \A i \in DOMAIN job.stack : a # New(job.tree, job.stack[i].src)}

OnlyThereLost ==
    \/ Leaked' = Leaked
    \/ CopyThrows /\ Leaked' = Leaked \cup Complete
    \/ \E c, x \in Containers :
          \/ AssignEmpty(c, x) /\ Leaked' = Leaked \cup {dummy[c]}
          \/ MoveAssign(c, x) /\ Leaked' = Leaked \cup Tree(c)

\* Memory is lost in three places only and nothing else is lost there: a move
\* assignment loses what the target held, an assignment from an empty
\* container the dummy node of the target but none of its elements, and a
\* copy that throws the nodes it had completed but none that was begun.
LeaksAreKnown == [][OnlyThereLost]_vars

\* All elements a container had before a move assignment are gone after it,
\* as the requirements of a container demand, which the documentation of the
\* maps and sets says they meet.
MoveLosesNothing ==
    [][\A c, x \in Containers : c # x /\ MoveAssign(c, x) => Leaked' = Leaked]_vars

Contents(c) ==
    LET leaves == Tree(c) \cap DOMAIN leaf
    IN  [k \in {a.path : a \in leaves} |-> leaf[CHOOSE a \in leaves : a.path = k].value]

AllContents == [c \in alive |-> Contents(c)]

M == INSTANCE Maps WITH maps <- AllContents

DoesAsMaps ==
    /\ \A c \in Containers :
          /\ Construct(c) => M!Create(c)
          /\ Clear(c) => M!Clear(c)
          /\ Destroy(c) => M!Destroy(c)
          /\ \A R \in Ranges : InsertRange(c, R) => M!Fill(c, R)
          /\ \A x \in Containers :
                /\ MoveEmpty(c, x) \/ MoveConstruct(c, x) \/ MoveAssign(c, x) => M!Move(c, x)
                /\ Swap(c, x) => M!Swap(c, x)
                /\ CopyEmpty(c, x) \/ AssignEmpty(c, x) => M!Copy(c, x)
                /\ CopyAssign(c, x) \/ AssignThrows(c, x) => M!Clear(c)
                /\ CopyConstruct(c, x) => UNCHANGED AllContents
    /\ CopyChildLeaf \/ CopyChildInner \/ ChildCopied \/ CopyThrows => UNCHANGED AllContents
    /\ CopyEnds => M!Copy(job.to, job.from)

\* Every operation does to the contents of all containers what the same
\* operation does to maps; a copy takes effect when it ends, except that the
\* target of an assignment is cleared first and stays so if the copy throws.
ImplementsMaps == M!Init /\ [][DoesAsMaps]_vars

\* A copy returns or throws.
CopiesReturn == [](~Idle => <>Idle)
=============================================================================
