------------------------ MODULE ArPrefixTreeProofs -------------------------
(***************************************************************************)
(* Theorems about ArPrefixTree, for every key length, number of kept       *)
(* prefix chunks, chunk size, set of keys and choice of capacities that    *)
(* the assumptions allow: the types, the dummy node, and the shape of the  *)
(* tree in every step of every call, on which SlotsFollowKeys,             *)
(* PrefixIsShared, NothingLost and LayoutFitsSize rest.                    *)
(*                                                                         *)
(* None of those four is inductive, and neither are the types: a split or  *)
(* a compression computes depths and prefix lengths from those of two      *)
(* other nodes.  ShapeInv adds what the local variables of the running     *)
(* call know of the tree: that a walk which has compared whole prefixes    *)
(* agrees with the path of the node it is at, that a leaf loaded for a     *)
(* prefix lies below the node the prefix belongs to, which node is one     *)
(* child short, and what a clear() has still before it.                    *)
(*                                                                         *)
(* The second half is about answers.  Where HiddenBounds is FALSE, that    *)
(* is, for calls of lower_bound and upper_bound whose key has no stored    *)
(* prefix to get past, SearchHolds says where the element a call looks for *)
(* still is, in every step, and Implements that each answer is the one of  *)
(* the ordered map OrderedContents.                                        *)
(***************************************************************************)
EXTENDS ArPrefixTree, TreeLemmas, SequenceTheorems

-----------------------------------------------------------------------------
(* A well-formed tree, as a predicate of its heaps and its root.           *)

PrefixHeaps(in, lf) == IsHeap(in, InnerAddr, PrefixNode) /\ IsHeap(lf, LeafAddr, LeafNode)

\* The address of a node holds the chunks down to where its children part.
Addressed(in, a) == /\ Branch(in[a]) \in Chunks
                    /\ a.path \in [0..(Branch(in[a]) - 1) -> Byte]

\* Where the prefix of a node that hangs from p begins.
Start(in, p) == IF p = Dummy THEN 0 ELSE Branch(in[p]) + 1

\* Node c is what slot b of node a should hold.
Holds(in, lf, a, b, c) ==
    /\ c \in Nodes(in, lf)
    /\ Par(in, lf, c) = a
    /\ Agree(c.path, a.path, Branch(in[a]))
    /\ c.path[Branch(in[a])] = b

\* Node c is in a slot of its parent.
InSlot(in, lf, c) ==
    /\ Par(in, lf, c) \in DOMAIN in
    /\ \E b \in Byte : in[Par(in, lf, c)].child[b] = c

Trie(in, lf, r) ==
    /\ \A a \in DOMAIN in : Addressed(in, a) /\ in[a].depth = Start(in, in[a].parent)
    /\ \A a \in DOMAIN in : \A b \in Byte :
           in[a].child[b] # Null => Holds(in, lf, a, b, in[a].child[b])
    /\ \A c \in Nodes(in, lf) : c = r \/ InSlot(in, lf, c)
    /\ r # Null => r \in Nodes(in, lf) /\ Par(in, lf, r) = Dummy

\* The kept chunks of a prefix are those of the address.
Kept(n, p) == \A q \in 0..(StoredLength(n) - 1) : n.prefix[q] = p[n.depth + q]

Kepts(in) == \A a \in DOMAIN in : Kept(in[a], a.path)

-----------------------------------------------------------------------------
(* What the running call knows of the tree.                                *)

\* Compared with the whole of every prefix it has passed.
WalkFits ==
    call.pc = "walk" =>
        /\ root # Null /\ call.cur \in Live \cup {Null}
        /\ \/ call.prev \in {Dummy, Null} /\ call.depth = 0 /\ call.cur = root
           \/ /\ call.prev \in DOMAIN inner
              /\ call.depth = Branch(inner[call.prev]) + 1
              /\ call.cur = inner[call.prev].child[call.key[call.depth - 1]]
              /\ call.op # "find" => Agree(call.key, call.prev.path, call.depth - 1)
        /\ \/ call.low = Null
           \/ /\ call.cur \in DOMAIN inner /\ call.low \in Live
              /\ Agree(call.low.path, call.cur.path, Branch(inner[call.cur]))
              /\ call.low \in DOMAIN inner =>
                     Branch(inner[call.cur]) =< Branch(inner[call.low])

\* The slot for the new leaf is empty and the key leads to it.
LinkFits ==
    call.pc = "link" =>
        \/ call.node = Dummy /\ root = Null
        \/ /\ call.node \in DOMAIN inner
           /\ call.chunk = Branch(inner[call.node])
           /\ Agree(call.key, call.node.path, call.chunk)
           /\ inner[call.node].child[call.key[call.chunk]] = Null

\* The erased key led to the node that is looked at.
FixFits ==
    call.pc \in {"shrink", "compress"} =>
        /\ call.node \in DOMAIN inner /\ call.key \in Keys
        /\ Agree(call.key, call.node.path, Branch(inner[call.node]))

\* The node that may be a child short: it is about to get a leaf, or has just
\* lost one.
Short ==
    CASE call.pc = "walk" /\ call.op \in InsertOps /\ call.cur = Null -> {call.prev}
      [] call.pc \in {"link", "shrink", "compress"}                   -> {call.node}
      [] OTHER                                                        -> {}

SizeFits(in, a)  == in[a].count \in MinSize(a.type)..MaxSize(a.type)
OneShort(in, a)  == in[a].count = MinSize(a.type) - 1

Sized ==
    \A a \in DOMAIN inner :
        \/ SizeFits(inner, a)
        \/ /\ a \in Short /\ OneShort(inner, a)
           /\ call.pc = "compress" => a.type = "node_4"

\* What clear() has not yet deleted: the nodes of the recursion, and those
\* that a loop of the recursion has still before it.
ToClear(in, lf, stack, a) ==
    \/ \E i \in DOMAIN stack : stack[i].node = a
    \/ LET p == Par(in, lf, a)
       IN  /\ p \in DOMAIN in
           /\ a \in DOMAIN in => Branch(in[p]) < Branch(in[a])
           /\ \E b \in Byte : /\ in[p].child[b] = a
                              /\ \A i \in DOMAIN stack :
                                     stack[i].node = p => stack[i].from =< b

ClearFits ==
    call.pc = "clear" => \A a \in Live : ToClear(inner, leaf, call.stack, a)

Whole == /\ Trie(inner, leaf, root)
         /\ Kepts(inner)
         /\ Counted(inner)
         /\ Sized

ShapeInv ==
    /\ TypeOK
    /\ call.pc # "clear" => Whole
    /\ WalkFits /\ LinkFits /\ FixFits /\ ClearFits

-----------------------------------------------------------------------------
(* Nodes with a prefix.                                                    *)

LEMMA PrefixNodeFacts ==
    ASSUME NEW n \in PrefixNode
    PROVE  /\ n.parent \in Ptr /\ n.count \in Int /\ n.child \in [Byte -> Ptr]
           /\ n.depth \in Nat /\ n.plen \in Nat /\ n.depth \in Chunks /\ n.plen \in Chunks
           /\ Branch(n) \in Nat /\ n.depth =< Branch(n) /\ Branch(n) = n.depth + n.plen
           /\ n.prefix \in [PrefixSlots -> Byte]
<1>1. /\ n.parent \in Ptr /\ n.count \in Int /\ n.child \in [Byte -> Ptr]
      /\ n.depth \in Chunks /\ n.plen \in Chunks /\ n.prefix \in [PrefixSlots -> Byte]
  BY DEF PrefixNode
<1>2. n.depth \in Nat /\ n.plen \in Nat
  BY <1>1, KeyLenAssumption DEF Chunks
<1> QED
  BY <1>1, <1>2 DEF Branch

\* How much of its prefix a node keeps.
LEMMA StoredFacts ==
    ASSUME NEW n \in PrefixNode
    PROVE  /\ StoredLength(n) \in Nat
           /\ StoredLength(n) = IF n.plen =< MaxPrefix THEN n.plen ELSE MaxPrefix
<1>1. n.plen \in Nat /\ MaxPrefix \in Nat
  BY PrefixNodeFacts, MaxPrefixAssumption
<1>2. {n.plen, MaxPrefix} \in SUBSET Nat /\ {n.plen, MaxPrefix} # {}
  BY <1>1
<1>3. /\ StoredLength(n) \in {n.plen, MaxPrefix}
      /\ \A x \in {n.plen, MaxPrefix} : StoredLength(n) =< x
  BY <1>2, MinOfBytes DEF StoredLength
<1> QED
  BY <1>1, <1>3

\* Addresses of inner nodes, leaves and null pointers are told apart, and the
\* fields of a live node are in their domains.
LEMMA PrefixHeapFacts ==
    ASSUME NEW in, NEW lf, PrefixHeaps(in, lf)
    PROVE  /\ DOMAIN in \cap DOMAIN lf = {}
           /\ Null \notin Nodes(in, lf) /\ Dummy \notin Nodes(in, lf)
           /\ DOMAIN in \subseteq InnerAddr /\ DOMAIN lf \subseteq LeafAddr
           /\ Nodes(in, lf) \subseteq Ptr
           /\ \A a \in DOMAIN in : in[a] \in PrefixNode
           /\ \A l \in DOMAIN lf : /\ lf[l] \in LeafNode /\ lf[l].parent \in Ptr
                                   /\ lf[l].value \in Values
                                   /\ l.path \in Keys /\ l = LeafOf(l.path)
<1>1. /\ in \in [DOMAIN in -> PrefixNode] /\ DOMAIN in \subseteq InnerAddr
      /\ lf \in [DOMAIN lf -> LeafNode] /\ DOMAIN lf \subseteq LeafAddr
  BY DEF PrefixHeaps, IsHeap
<1>2. \A l \in DOMAIN lf : lf[l] \in LeafNode /\ l \in LeafAddr
  BY <1>1
<1> QED
  BY <1>1, <1>2, PointerKinds, LeafPath DEF Nodes, LeafNode

\* The first s slots of f, as far as a prefix has them, are bytes.
Gives(f, s) == \A q \in PrefixSlots : q < s => f[q] \in Byte

\* The only child of a new node.
LEMMA OneChildFacts ==
    ASSUME NEW p, NEW d, NEW l, NEW f, NEW s, NEW b, NEW c,
           p \in Ptr, d \in Chunks, l \in Chunks, b \in Byte, c \in Ptr, Gives(f, s)
    PROVE  LET n == OneChild(p, d, l, f, s, b, c)
           IN  /\ n \in PrefixNode /\ n.parent = p /\ n.depth = d /\ n.plen = l /\ n.count = 1
               /\ \A e \in Byte : n.child[e] = IF e = b THEN c ELSE Null
               /\ \A q \in PrefixSlots : n.prefix[q] = IF q < s THEN f[q] ELSE 0
<1> USE DEF Gives
<1> DEFINE n == OneChild(p, d, l, f, s, b, c)
<1>1. 0 \in Byte /\ Null \in Ptr
  BY SizesAssumption, PointerKinds DEF Byte
<1>2. [NoChildren EXCEPT ![b] = c] \in [Byte -> Ptr]
  BY <1>1 DEF NoChildren
<1>3. [q \in PrefixSlots |-> IF q < s THEN f[q] ELSE 0] \in [PrefixSlots -> Byte]
  BY <1>1
<1>4. n \in PrefixNode
  BY <1>2, <1>3 DEF OneChild, PrefixNode
<1> QED
  BY <1>4 DEF OneChild, NoChildren

-----------------------------------------------------------------------------
(* Where a node hangs.                                                     *)

\* A live node is the root, below the dummy node, or has a live parent.
LEMMA AboveNode ==
    ASSUME NEW in, NEW lf, NEW r, PrefixHeaps(in, lf), Trie(in, lf, r), NEW x \in Nodes(in, lf)
    PROVE  /\ x # Null /\ x # Dummy /\ x \in Ptr /\ Par(in, lf, x) \in Ptr
           /\ Par(in, lf, x) # Null
           /\ x = r <=> Par(in, lf, x) = Dummy
           /\ x # r => InSlot(in, lf, x) /\ Par(in, lf, x) \in DOMAIN in
<1>1. x # Null /\ x # Dummy /\ x \in Ptr /\ Dummy \notin DOMAIN in /\ Null \notin DOMAIN in
  BY PrefixHeapFacts DEF Nodes
<1>2. x # r => InSlot(in, lf, x) /\ Par(in, lf, x) \in DOMAIN in
  BY DEF Trie, InSlot
<1>3. x = r => Par(in, lf, x) = Dummy
  BY <1>1 DEF Trie
<1> QED
  BY <1>1, <1>2, <1>3, PrefixHeapFacts, PointerKinds DEF Nodes

\* A node is in the slot of its parent that its chunks name, and in no other.
LEMMA OnlySlot ==
    ASSUME NEW in, NEW lf, NEW r, PrefixHeaps(in, lf), Trie(in, lf, r), NEW x \in Nodes(in, lf)
    PROVE  /\ \A a \in DOMAIN in, b \in Byte :
                  in[a].child[b] = x => a = Par(in, lf, x) /\ b = x.path[Branch(in[a])]
           /\ x # r => LET p == Par(in, lf, x)
                       IN  /\ p \in DOMAIN in /\ x.path[Branch(in[p])] \in Byte
                           /\ in[p].child[x.path[Branch(in[p])]] = x
                           /\ Agree(x.path, p.path, Branch(in[p]))
<1>1. ASSUME NEW a \in DOMAIN in, NEW b \in Byte, in[a].child[b] = x
      PROVE  /\ a = Par(in, lf, x) /\ b = x.path[Branch(in[a])]
             /\ Agree(x.path, a.path, Branch(in[a]))
  <2>1. Holds(in, lf, a, b, x)
    BY <1>1, AboveNode DEF Trie
  <2> QED
    BY <2>1 DEF Holds
<1>2. ASSUME x # r
      PROVE  LET p == Par(in, lf, x)
             IN  /\ p \in DOMAIN in /\ x.path[Branch(in[p])] \in Byte
                 /\ in[p].child[x.path[Branch(in[p])]] = x
                 /\ Agree(x.path, p.path, Branch(in[p]))
  <2>1. InSlot(in, lf, x)
    BY <1>2, AboveNode
  <2> DEFINE p == Par(in, lf, x)
  <2>2. PICK b \in Byte : p \in DOMAIN in /\ in[p].child[b] = x
    BY <2>1 DEF InSlot
  <2>3. b = x.path[Branch(in[p])] /\ Agree(x.path, p.path, Branch(in[p]))
    BY <1>1, <2>2
  <2> QED
    BY <2>2, <2>3
<1> QED
  BY <1>1, <1>2

\* The prefix of a node begins where the slot of its parent ends.
LEMMA NodeBelow ==
    ASSUME NEW in, NEW lf, NEW r, PrefixHeaps(in, lf), Trie(in, lf, r), NEW x \in DOMAIN in
    PROVE  /\ in[x] \in PrefixNode
           /\ Branch(in[x]) \in Chunks /\ Branch(in[x]) \in Nat
           /\ x.path \in [0..(Branch(in[x]) - 1) -> Byte]
           /\ in[x].depth = Start(in, Par(in, lf, x))
           /\ in[x].depth =< Branch(in[x])
           /\ Par(in, lf, x) \in DOMAIN in =>
                  /\ Branch(in[Par(in, lf, x)]) \in Nat
                  /\ in[x].depth = Branch(in[Par(in, lf, x)]) + 1
                  /\ Branch(in[Par(in, lf, x)]) < Branch(in[x])
<1>1. Par(in, lf, x) = in[x].parent /\ in[x] \in PrefixNode /\ Dummy \notin DOMAIN in
  BY PrefixHeapFacts DEF Par, Nodes
<1>2. /\ Branch(in[x]) \in Chunks /\ x.path \in [0..(Branch(in[x]) - 1) -> Byte]
      /\ in[x].depth = Start(in, in[x].parent)
  BY DEF Trie, Addressed
<1>3. Branch(in[x]) \in Nat /\ in[x].depth =< Branch(in[x]) /\ in[x].depth \in Nat
  BY <1>1, PrefixNodeFacts
<1>4. ASSUME in[x].parent \in DOMAIN in
      PROVE  /\ Branch(in[in[x].parent]) \in Nat
             /\ in[x].depth = Branch(in[in[x].parent]) + 1
  <2>1. in[in[x].parent] \in PrefixNode
    BY <1>4, PrefixHeapFacts
  <2> QED
    BY <1>1, <1>2, <1>4, <2>1, PrefixNodeFacts DEF Start
<1> QED
  BY <1>1, <1>2, <1>3, <1>4

-----------------------------------------------------------------------------
(* The three changes that operations are made of: a node with one child is *)
(* put above a node, such a node is taken away, a node is replaced by one  *)
(* with another layout.                                                    *)

\* Node m is node n with y in the slot that held x.
SameNode(n, m, x, y) ==
    /\ m.depth = n.depth /\ m.plen = n.plen /\ m.prefix = n.prefix /\ m.count = n.count
    /\ \A b \in Byte : m.child[b] = Subst(n.child[b], x, y)

LEMMA SameFacts ==
    ASSUME NEW n, NEW m, NEW x, NEW y, SameNode(n, m, x, y), x # Null, y # Null
    PROVE  /\ Branch(m) = Branch(n) /\ StoredLength(m) = StoredLength(n)
           /\ Occupied(m) = Occupied(n) /\ m.count = n.count /\ m.depth = n.depth
           /\ \A p : Kept(n, p) => Kept(m, p)
<1>1. Branch(m) = Branch(n) /\ StoredLength(m) = StoredLength(n)
  BY DEF SameNode, Branch, StoredLength
<1>2. Occupied(m) = Occupied(n)
  BY DEF SameNode, Occupied, Subst
<1> QED
  BY <1>1, <1>2 DEF SameNode, Kept

\* Split: node new takes the beginning of the prefix, or of the chunks two
\* keys share, and has old as its only child.
PutAbove(in, lf, in2, lf2, old, new) ==
    /\ old \in Nodes(in, lf) /\ new \notin Nodes(in, lf)
    /\ DOMAIN in2 = DOMAIN in \cup {new} /\ DOMAIN lf2 = DOMAIN lf
    /\ \A a \in DOMAIN in : a # old => SameNode(in[a], in2[a], old, new)
    /\ old \in DOMAIN in => /\ in2[old].depth = Branch(in2[new]) + 1
                            /\ Branch(in2[old]) = Branch(in[old])
                            /\ \A b \in Byte : in2[old].child[b] = in[old].child[b]
    /\ \A c \in Nodes(in, lf) : c # old => Par(in2, lf2, c) = Par(in, lf, c)
    /\ Par(in2, lf2, new) = Par(in, lf, old) /\ Par(in2, lf2, old) = new
    /\ Addressed(in2, new) /\ in2[new].depth = Start(in, Par(in, lf, old))
    /\ Agree(new.path, old.path, Branch(in2[new])) /\ old.path[Branch(in2[new])] \in Byte
    /\ \A b \in Byte : in2[new].child[b] = IF b = old.path[Branch(in2[new])] THEN old ELSE Null

LEMMA NodePut ==
    ASSUME NEW in, NEW lf, NEW r, PrefixHeaps(in, lf), Trie(in, lf, r),
           NEW in2, NEW lf2, PrefixHeaps(in2, lf2),
           NEW old, NEW new, PutAbove(in, lf, in2, lf2, old, new)
    PROVE  Trie(in2, lf2, Subst(r, old, new))
<1>1. /\ old \in Nodes(in, lf) /\ new \notin Nodes(in, lf)
      /\ DOMAIN in2 = DOMAIN in \cup {new} /\ DOMAIN lf2 = DOMAIN lf
      /\ \A a \in DOMAIN in : a # old => SameNode(in[a], in2[a], old, new)
      /\ old \in DOMAIN in => /\ in2[old].depth = Branch(in2[new]) + 1
                              /\ Branch(in2[old]) = Branch(in[old])
                              /\ \A b \in Byte : in2[old].child[b] = in[old].child[b]
  BY DEF PutAbove
<1>2. /\ \A c \in Nodes(in, lf) : c # old => Par(in2, lf2, c) = Par(in, lf, c)
      /\ Par(in2, lf2, new) = Par(in, lf, old) /\ Par(in2, lf2, old) = new
  BY DEF PutAbove
<1>3. /\ Addressed(in2, new) /\ in2[new].depth = Start(in, Par(in, lf, old))
      /\ Agree(new.path, old.path, Branch(in2[new])) /\ old.path[Branch(in2[new])] \in Byte
      /\ \A b \in Byte : in2[new].child[b] = IF b = old.path[Branch(in2[new])] THEN old ELSE Null
  BY DEF PutAbove
<1>4. /\ old # Null /\ new # Null /\ new # Dummy /\ old # new
      /\ Nodes(in2, lf2) = Nodes(in, lf) \cup {new} /\ new \in DOMAIN in2
      /\ Null \notin Nodes(in, lf) /\ Dummy \notin Nodes(in, lf)
      /\ new \in Nodes(in2, lf2) /\ Dummy \notin DOMAIN in
  <2>1. Nodes(in2, lf2) = Nodes(in, lf) \cup {new} /\ new \in DOMAIN in2
    BY <1>1 DEF Nodes
  <2>2. Null \notin Nodes(in2, lf2) /\ Dummy \notin Nodes(in2, lf2)
    BY PrefixHeapFacts
  <2> QED
    BY <1>1, <2>1, <2>2 DEF Nodes
\* What is as it was.
<1>5. ASSUME NEW a \in DOMAIN in
      PROVE  /\ Branch(in2[a]) = Branch(in[a])
             /\ a # old => in2[a].depth = in[a].depth
             /\ \A b \in Byte : in2[a].child[b] = Subst(in[a].child[b], old, new)
  <2>1. CASE a # old
    <3>1. SameNode(in[a], in2[a], old, new)
      BY <1>1, <2>1
    <3> QED
      BY <1>4, <3>1, SameFacts DEF SameNode
  <2>2. CASE a = old
    <3>1. Branch(in2[a]) = Branch(in[a]) /\ \A b \in Byte : in2[a].child[b] = in[a].child[b]
      BY <1>1, <2>2
    <3>2. ASSUME NEW b \in Byte, in[a].child[b] = old  PROVE FALSE
      <4>1. a = Par(in, lf, old)
        BY <1>1, <3>2, OnlySlot
      <4>2. Branch(in[a]) < Branch(in[a]) /\ Branch(in[a]) \in Nat
        BY <2>2, <4>1, NodeBelow
      <4> QED
        BY <4>2
    <3> QED
      BY <2>2, <3>1, <3>2 DEF Subst
  <2> QED
    BY <2>1, <2>2
<1>6. \A p : p = Dummy \/ p \in DOMAIN in => Start(in2, p) = Start(in, p)
  BY <1>5 DEF Start
<1>7. \A a \in DOMAIN in : Addressed(in, a) => Addressed(in2, a)
  BY <1>5 DEF Addressed
<1>8. ASSUME NEW c \in Nodes(in, lf)
      PROVE  Par(in, lf, c) = Dummy \/ Par(in, lf, c) \in DOMAIN in
  BY AboveNode
<1>9. ASSUME NEW a \in DOMAIN in2
      PROVE  Addressed(in2, a) /\ in2[a].depth = Start(in2, in2[a].parent)
  <2>1. Par(in2, lf2, a) = in2[a].parent
    BY PrefixHeapFacts DEF Par
  <2>2. CASE a = new
    <3>1. in2[a].depth = Start(in, Par(in, lf, old)) /\ in2[a].parent = Par(in, lf, old)
      BY <1>2, <1>3, <2>1, <2>2
    <3> QED
      BY <1>1, <1>3, <1>6, <1>8, <2>2, <3>1
  <2>3. CASE a # new /\ a = old
    <3>1. in2[a].parent = new /\ in2[a].depth = Branch(in2[new]) + 1 /\ Start(in2, new) = Branch(in2[new]) + 1
      BY <1>1, <1>2, <1>4, <2>1, <2>3 DEF Start
    <3> QED
      BY <1>1, <1>7, <2>3, <3>1 DEF Trie
  <2>4. CASE a # new /\ a # old
    <3>1. a \in DOMAIN in /\ a \in Nodes(in, lf)
      BY <1>1, <2>4 DEF Nodes
    <3>2. in2[a].parent = Par(in, lf, a) /\ in2[a].depth = in[a].depth
      BY <1>2, <1>5, <2>1, <2>4, <3>1
    <3>3. in[a].depth = Start(in, Par(in, lf, a)) /\ Addressed(in, a)
      BY <3>1, NodeBelow DEF Trie
    <3> QED
      BY <1>6, <1>7, <1>8, <3>1, <3>2, <3>3
  <2> QED
    BY <2>2, <2>3, <2>4
<1>10. ASSUME NEW a \in DOMAIN in2, NEW b \in Byte, in2[a].child[b] # Null
       PROVE  Holds(in2, lf2, a, b, in2[a].child[b])
  <2>1. CASE a = new
    <3>1. b = old.path[Branch(in2[new])] /\ in2[a].child[b] = old
      BY <1>3, <1>10, <2>1
    <3>2. Agree(old.path, new.path, Branch(in2[new]))
      BY <1>3 DEF Agree
    <3> QED
      BY <1>1, <1>2, <1>4, <2>1, <3>1, <3>2 DEF Holds
  <2>2. CASE a # new
    <3>1. a \in DOMAIN in /\ in2[a].child[b] = Subst(in[a].child[b], old, new)
          /\ Branch(in2[a]) = Branch(in[a])
      BY <1>1, <1>5, <2>2
    <3> DEFINE c == in[a].child[b]
    <3>2. c # Null /\ Holds(in, lf, a, b, c)
      <4>1. c # Null
        BY <1>4, <1>10, <3>1 DEF Subst
      <4> QED
        BY <3>1, <4>1 DEF Trie
    <3>3. /\ c \in Nodes(in, lf) /\ Par(in, lf, c) = a
          /\ Agree(c.path, a.path, Branch(in[a])) /\ c.path[Branch(in[a])] = b
      BY <3>2 DEF Holds
    <3> HIDE DEF c
    <3>4. CASE c # old
      BY <1>2, <1>4, <3>1, <3>3, <3>4 DEF Holds, Subst, c
    <3>5. CASE c = old
      <4>1. in2[a].child[b] = new /\ Par(in2, lf2, new) = a
        BY <1>2, <3>1, <3>3, <3>5 DEF Subst, c
      <4>2. in2[new].depth = Branch(in[a]) + 1
        BY <1>3, <1>4, <3>1, <3>3, <3>5 DEF Start
      <4>3. in2[new] \in PrefixNode /\ in[a] \in PrefixNode
        BY <1>4, <3>1, PrefixHeapFacts
      <4>4. Branch(in[a]) \in Nat /\ Branch(in2[new]) \in Nat /\ Branch(in[a]) < Branch(in2[new])
        BY <4>2, <4>3, PrefixNodeFacts
      <4>5. /\ \A i \in 0..(Branch(in[a]) - 1) : new.path[i] = old.path[i] /\ old.path[i] = a.path[i]
            /\ new.path[Branch(in[a])] = old.path[Branch(in[a])]
        BY <1>3, <3>3, <3>5, <4>4 DEF Agree
      <4>6. Agree(new.path, a.path, Branch(in[a])) /\ new.path[Branch(in[a])] = b
        BY <3>3, <3>5, <4>5 DEF Agree
      <4> QED
        BY <1>4, <3>1, <4>1, <4>6 DEF Holds
    <3> QED
      BY <3>4, <3>5
  <2> QED
    BY <2>1, <2>2
<1>11. ASSUME NEW c \in Nodes(in2, lf2)
       PROVE  c = Subst(r, old, new) \/ InSlot(in2, lf2, c)
  <2>1. CASE c = new
    <3>1. CASE r = old
      BY <2>1, <3>1 DEF Subst
    <3>2. CASE r # old
      <4>1. InSlot(in, lf, old)
        BY <1>1, <3>2, AboveNode
      <4>2. PICK b \in Byte : in[Par(in, lf, old)].child[b] = old
        BY <4>1 DEF InSlot
      <4>3. Par(in, lf, old) \in DOMAIN in
        BY <4>1 DEF InSlot
      <4>4. in2[Par(in, lf, old)].child[b] = new
        BY <1>5, <4>2, <4>3 DEF Subst
      <4> QED
        BY <1>1, <1>2, <2>1, <4>3, <4>4 DEF InSlot
    <3> QED
      BY <3>1, <3>2
  <2>2. CASE c = old
    <3>1. in2[new].child[old.path[Branch(in2[new])]] = old
      BY <1>3
    <3> QED
      BY <1>2, <1>3, <1>4, <2>2, <3>1 DEF InSlot
  <2>3. CASE c # old /\ c # new
    <3>1. c \in Nodes(in, lf)
      BY <1>4, <2>3
    <3>2. CASE c = r
      BY <2>3, <3>2 DEF Subst
    <3>3. CASE c # r
      <4>1. InSlot(in, lf, c)
        BY <3>1, <3>3, AboveNode
      <4>2. PICK b \in Byte : in[Par(in, lf, c)].child[b] = c
        BY <4>1 DEF InSlot
      <4>3. Par(in, lf, c) \in DOMAIN in
        BY <4>1 DEF InSlot
      <4>4. in2[Par(in, lf, c)].child[b] = c
        BY <1>5, <2>3, <4>2, <4>3 DEF Subst
      <4> QED
        BY <1>1, <1>2, <2>3, <3>1, <4>3, <4>4 DEF InSlot
    <3> QED
      BY <3>2, <3>3
  <2> QED
    BY <2>1, <2>2, <2>3
<1>12. ASSUME Subst(r, old, new) # Null
       PROVE  Subst(r, old, new) \in Nodes(in2, lf2) /\ Par(in2, lf2, Subst(r, old, new)) = Dummy
  <2>1. CASE r = old
    <3>1. Par(in, lf, old) = Dummy
      BY <1>1, <2>1, AboveNode
    <3> QED
      BY <1>2, <1>4, <2>1, <3>1 DEF Subst
  <2>2. CASE r # old
    <3>1. r \in Nodes(in, lf) /\ Par(in, lf, r) = Dummy
      BY <1>12, <2>2 DEF Trie, Subst
    <3> QED
      BY <1>2, <1>4, <2>2, <3>1 DEF Subst
  <2> QED
    BY <2>1, <2>2
<1> QED
  BY <1>9, <1>10, <1>11, <1>12 DEF Trie

\* Shrink and compression: kid, the only child of node mid, takes the place of
\* mid, and its prefix begins where that of mid began.
TakenAway(in, lf, in2, lf2, mid, kid) ==
    /\ mid \in DOMAIN in /\ kid \in Nodes(in, lf) /\ Par(in, lf, kid) = mid
    /\ \A b \in Byte : in[mid].child[b] \in {Null, kid}
    /\ DOMAIN in2 = DOMAIN in \ {mid} /\ DOMAIN lf2 = DOMAIN lf
    /\ \A a \in DOMAIN in : a # mid /\ a # kid => SameNode(in[a], in2[a], mid, kid)
    /\ kid \in DOMAIN in => /\ in2[kid].depth = in[mid].depth
                            /\ Branch(in2[kid]) = Branch(in[kid])
                            /\ \A b \in Byte : in2[kid].child[b] = in[kid].child[b]
    /\ \A c \in Nodes(in, lf) : c # mid /\ c # kid => Par(in2, lf2, c) = Par(in, lf, c)
    /\ Par(in2, lf2, kid) = Par(in, lf, mid)

LEMMA NodeGone ==
    ASSUME NEW in, NEW lf, NEW r, PrefixHeaps(in, lf), Trie(in, lf, r),
           NEW in2, NEW lf2, PrefixHeaps(in2, lf2),
           NEW mid, NEW kid, TakenAway(in, lf, in2, lf2, mid, kid)
    PROVE  Trie(in2, lf2, Subst(r, mid, kid))
<1>1. /\ mid \in DOMAIN in /\ kid \in Nodes(in, lf) /\ Par(in, lf, kid) = mid
      /\ \A b \in Byte : in[mid].child[b] \in {Null, kid}
      /\ DOMAIN in2 = DOMAIN in \ {mid} /\ DOMAIN lf2 = DOMAIN lf
      /\ \A a \in DOMAIN in : a # mid /\ a # kid => SameNode(in[a], in2[a], mid, kid)
      /\ kid \in DOMAIN in => /\ in2[kid].depth = in[mid].depth
                              /\ Branch(in2[kid]) = Branch(in[kid])
                              /\ \A b \in Byte : in2[kid].child[b] = in[kid].child[b]
  BY DEF TakenAway
<1>2. /\ \A c \in Nodes(in, lf) : c # mid /\ c # kid => Par(in2, lf2, c) = Par(in, lf, c)
      /\ Par(in2, lf2, kid) = Par(in, lf, mid)
  BY DEF TakenAway
<1>3. /\ mid \in Nodes(in, lf) /\ mid # Null /\ kid # Null /\ mid \notin DOMAIN lf
      /\ Nodes(in2, lf2) = Nodes(in, lf) \ {mid}
      /\ Null \notin Nodes(in, lf) /\ Dummy \notin DOMAIN in
  <2>1. DOMAIN in \cap DOMAIN lf = {} /\ Null \notin Nodes(in, lf) /\ Dummy \notin Nodes(in, lf)
    BY PrefixHeapFacts
  <2> QED
    BY <1>1, <2>1 DEF Nodes
<1>4. kid # mid /\ Par(in, lf, mid) # mid /\ Par(in, lf, mid) # kid
  <2>1. ASSUME Par(in, lf, mid) = mid  PROVE FALSE
    BY <1>1, <2>1, NodeBelow
  <2>2. ASSUME Par(in, lf, mid) = kid  PROVE FALSE
    <3>1. kid \in DOMAIN in
      BY <1>1, <1>3, <2>2, AboveNode, PrefixHeapFacts DEF Nodes
    <3>2. Branch(in[kid]) < Branch(in[mid]) /\ Branch(in[mid]) < Branch(in[kid])
          /\ Branch(in[kid]) \in Nat /\ Branch(in[mid]) \in Nat
      BY <1>1, <2>2, <3>1, NodeBelow
    <3> QED
      BY <3>2
  <2> QED
    BY <1>1, <2>1, <2>2
\* What is as it was.
<1>5. ASSUME NEW a \in DOMAIN in, a # mid
      PROVE  /\ Branch(in2[a]) = Branch(in[a])
             /\ a # kid => in2[a].depth = in[a].depth
             /\ \A b \in Byte : in2[a].child[b] = Subst(in[a].child[b], mid, kid)
  <2>1. CASE a # kid
    <3>1. SameNode(in[a], in2[a], mid, kid)
      BY <1>1, <1>5, <2>1
    <3> QED
      BY <1>3, <3>1, SameFacts DEF SameNode
  <2>2. CASE a = kid
    <3>1. Branch(in2[a]) = Branch(in[a]) /\ \A b \in Byte : in2[a].child[b] = in[a].child[b]
      BY <1>1, <2>2
    <3>2. ASSUME NEW b \in Byte, in[a].child[b] = mid  PROVE FALSE
      BY <1>3, <1>4, <2>2, <3>2, OnlySlot
    <3> QED
      BY <2>2, <3>1, <3>2 DEF Subst
  <2> QED
    BY <2>1, <2>2
<1>6. \A p : p = Dummy \/ (p \in DOMAIN in /\ p # mid) => Start(in2, p) = Start(in, p)
  BY <1>5 DEF Start
<1>7. \A a \in DOMAIN in : a # mid /\ Addressed(in, a) => Addressed(in2, a)
  BY <1>5 DEF Addressed
\* Nothing but kid hangs from mid.
<1>8. ASSUME NEW c \in Nodes(in, lf), c # kid
      PROVE  /\ Par(in, lf, c) # mid
             /\ Par(in, lf, c) = Dummy \/ Par(in, lf, c) \in DOMAIN in
  <2>1. Par(in, lf, c) = Dummy \/ Par(in, lf, c) \in DOMAIN in
    BY AboveNode
  <2>2. ASSUME Par(in, lf, c) = mid  PROVE FALSE
    <3>1. InSlot(in, lf, c)
      BY <1>1, <1>3, <2>2, AboveNode
    <3>2. PICK b \in Byte : in[mid].child[b] = c
      BY <2>2, <3>1 DEF InSlot
    <3>3. c = Null \/ c = kid
      BY <1>1, <3>2
    <3> QED
      BY <1>3, <1>8, <3>3
  <2> QED
    BY <2>1, <2>2
<1>9. ASSUME NEW a \in DOMAIN in2
      PROVE  Addressed(in2, a) /\ in2[a].depth = Start(in2, in2[a].parent)
  <2>1. Par(in2, lf2, a) = in2[a].parent /\ a \in DOMAIN in /\ a # mid /\ a \in Nodes(in, lf)
    BY <1>1, PrefixHeapFacts DEF Par, Nodes
  <2>2. Addressed(in2, a)
    BY <1>7, <2>1 DEF Trie
  <2>3. CASE a = kid
    <3>1. in2[a].parent = Par(in, lf, mid) /\ in2[a].depth = in[mid].depth
      BY <1>1, <1>2, <2>1, <2>3
    <3>2. in[mid].depth = Start(in, Par(in, lf, mid))
      BY <1>1, NodeBelow
    <3> QED
      BY <1>3, <1>4, <1>6, <1>8, <2>2, <3>1, <3>2
  <2>4. CASE a # kid
    <3>1. in2[a].parent = Par(in, lf, a) /\ in2[a].depth = in[a].depth
      BY <1>2, <1>5, <2>1, <2>4
    <3>2. in[a].depth = Start(in, Par(in, lf, a))
      BY <2>1, NodeBelow
    <3> QED
      BY <1>6, <1>8, <2>1, <2>2, <2>4, <3>1, <3>2
  <2> QED
    BY <2>3, <2>4
<1>10. ASSUME NEW a \in DOMAIN in2, NEW b \in Byte, in2[a].child[b] # Null
       PROVE  Holds(in2, lf2, a, b, in2[a].child[b])
  <2> DEFINE c == in[a].child[b]
  <2>1. a \in DOMAIN in /\ a # mid /\ in2[a].child[b] = Subst(c, mid, kid)
        /\ Branch(in2[a]) = Branch(in[a])
    BY <1>1, <1>5
  <2>2. c # Null
    BY <1>3, <1>10, <2>1 DEF Subst
  <2>3. Holds(in, lf, a, b, c)
    BY <2>1, <2>2 DEF Trie
  <2>4. /\ c \in Nodes(in, lf) /\ Par(in, lf, c) = a
        /\ Agree(c.path, a.path, Branch(in[a])) /\ c.path[Branch(in[a])] = b
    BY <2>3 DEF Holds
  <2> HIDE DEF c
  <2>5. CASE c # mid
    <3>1. c # kid
      BY <1>1, <2>1, <2>4
    <3> QED
      BY <1>2, <1>3, <2>1, <2>4, <2>5, <3>1 DEF Holds, Subst
  <2>6. CASE c = mid
    <3>1. in2[a].child[b] = kid /\ Par(in2, lf2, kid) = a
      BY <1>2, <2>1, <2>4, <2>6 DEF Subst
    <3>2. Branch(in[a]) \in Nat /\ Branch(in[mid]) \in Nat /\ Branch(in[a]) < Branch(in[mid])
      BY <1>1, <2>1, <2>4, <2>6, NodeBelow
    <3>3. Agree(kid.path, mid.path, Branch(in[mid]))
      <4>1. kid # r
        BY <1>1, <1>3, AboveNode
      <4> QED
        BY <1>1, <4>1, OnlySlot
    <3>4. /\ \A i \in 0..(Branch(in[a]) - 1) : kid.path[i] = mid.path[i] /\ mid.path[i] = a.path[i]
          /\ kid.path[Branch(in[a])] = mid.path[Branch(in[a])]
      BY <2>4, <2>6, <3>2, <3>3 DEF Agree
    <3>5. Agree(kid.path, a.path, Branch(in[a])) /\ kid.path[Branch(in[a])] = b
      BY <2>4, <2>6, <3>4 DEF Agree
    <3> QED
      BY <1>1, <1>3, <1>4, <2>1, <3>1, <3>5 DEF Holds
  <2> QED
    BY <2>5, <2>6
<1>11. ASSUME NEW c \in Nodes(in2, lf2)
       PROVE  c = Subst(r, mid, kid) \/ InSlot(in2, lf2, c)
  <2>1. c \in Nodes(in, lf) /\ c # mid
    BY <1>3
  <2>2. CASE c = kid
    <3>1. CASE r = mid
      BY <2>2, <3>1 DEF Subst
    <3>2. CASE r # mid
      <4>1. InSlot(in, lf, mid)
        BY <1>3, <3>2, AboveNode
      <4>2. PICK b \in Byte : in[Par(in, lf, mid)].child[b] = mid
        BY <4>1 DEF InSlot
      <4>3. Par(in, lf, mid) \in DOMAIN in
        BY <4>1 DEF InSlot
      <4>4. in2[Par(in, lf, mid)].child[b] = kid
        BY <1>4, <1>5, <4>2, <4>3 DEF Subst
      <4> QED
        BY <1>1, <1>2, <1>4, <2>2, <4>3, <4>4 DEF InSlot
    <3> QED
      BY <3>1, <3>2
  <2>3. CASE c # kid
    <3>1. CASE c = r
      BY <2>1, <3>1 DEF Subst
    <3>2. CASE c # r
      <4>1. InSlot(in, lf, c)
        BY <2>1, <3>2, AboveNode
      <4>2. PICK b \in Byte : in[Par(in, lf, c)].child[b] = c
        BY <4>1 DEF InSlot
      <4>3. Par(in, lf, c) \in DOMAIN in /\ Par(in, lf, c) # mid
        BY <1>8, <2>1, <2>3, <4>1 DEF InSlot
      <4>4. in2[Par(in, lf, c)].child[b] = c
        BY <1>5, <2>1, <4>2, <4>3 DEF Subst
      <4> QED
        BY <1>1, <1>2, <2>1, <2>3, <4>3, <4>4 DEF InSlot
    <3> QED
      BY <3>1, <3>2
  <2> QED
    BY <2>2, <2>3
<1>12. ASSUME Subst(r, mid, kid) # Null
       PROVE  Subst(r, mid, kid) \in Nodes(in2, lf2) /\ Par(in2, lf2, Subst(r, mid, kid)) = Dummy
  <2>1. CASE r = mid
    <3>1. Par(in, lf, mid) = Dummy
      BY <1>3, <2>1, AboveNode
    <3> QED
      BY <1>1, <1>2, <1>3, <1>4, <2>1, <3>1 DEF Subst
  <2>2. CASE r # mid
    <3>1. r \in Nodes(in, lf) /\ Par(in, lf, r) = Dummy
      BY <1>12, <2>2 DEF Trie, Subst
    <3>2. r # kid
      BY <1>1, <1>3, <3>1
    <3> QED
      BY <1>2, <1>3, <2>2, <3>1, <3>2 DEF Subst
  <2> QED
    BY <2>1, <2>2
<1> QED
  BY <1>9, <1>10, <1>11, <1>12 DEF Trie

\* grow() and shrink(): new, with the path of old, adopts its children.
Replaced(in, lf, in2, lf2, old, new) ==
    /\ old \in DOMAIN in /\ new \notin Nodes(in, lf) /\ new.path = old.path
    /\ DOMAIN in2 = (DOMAIN in \ {old}) \cup {new} /\ DOMAIN lf2 = DOMAIN lf
    /\ \A a \in DOMAIN in : a # old => SameNode(in[a], in2[a], old, new)
    /\ in2[new].depth = in[old].depth /\ Branch(in2[new]) = Branch(in[old])
    /\ \A b \in Byte : in2[new].child[b] = in[old].child[b]
    /\ \A c \in Nodes(in, lf) : c # old => Par(in2, lf2, c) = Subst(Par(in, lf, c), old, new)
    /\ Par(in2, lf2, new) = Par(in, lf, old)

LEMMA NodeReplaced ==
    ASSUME NEW in, NEW lf, NEW r, PrefixHeaps(in, lf), Trie(in, lf, r),
           NEW in2, NEW lf2, PrefixHeaps(in2, lf2),
           NEW old, NEW new, Replaced(in, lf, in2, lf2, old, new)
    PROVE  Trie(in2, lf2, Subst(r, old, new))
<1>1. /\ old \in DOMAIN in /\ new \notin Nodes(in, lf) /\ new.path = old.path
      /\ DOMAIN in2 = (DOMAIN in \ {old}) \cup {new} /\ DOMAIN lf2 = DOMAIN lf
      /\ \A a \in DOMAIN in : a # old => SameNode(in[a], in2[a], old, new)
      /\ in2[new].depth = in[old].depth /\ Branch(in2[new]) = Branch(in[old])
      /\ \A b \in Byte : in2[new].child[b] = in[old].child[b]
  BY DEF Replaced
<1>2. /\ \A c \in Nodes(in, lf) : c # old => Par(in2, lf2, c) = Subst(Par(in, lf, c), old, new)
      /\ Par(in2, lf2, new) = Par(in, lf, old)
  BY DEF Replaced
<1>3. /\ old \in Nodes(in, lf) /\ old # Null /\ new # Null /\ new # Dummy /\ old # new
      /\ Nodes(in2, lf2) = (Nodes(in, lf) \ {old}) \cup {new}
      /\ Dummy \notin DOMAIN in /\ new \in DOMAIN in2 /\ new \notin DOMAIN in
  <2>1. DOMAIN in \cap DOMAIN lf = {} /\ Null \notin Nodes(in, lf) /\ Dummy \notin Nodes(in, lf)
        /\ Null \notin Nodes(in2, lf2) /\ Dummy \notin Nodes(in2, lf2)
    BY PrefixHeapFacts
  <2> QED
    BY <1>1, <2>1 DEF Nodes
<1>4. Par(in, lf, old) # old
  BY <1>1, NodeBelow
<1>5. ASSUME NEW a \in DOMAIN in, a # old
      PROVE  /\ Branch(in2[a]) = Branch(in[a]) /\ in2[a].depth = in[a].depth
             /\ \A b \in Byte : in2[a].child[b] = Subst(in[a].child[b], old, new)
  <2>1. SameNode(in[a], in2[a], old, new)
    BY <1>1, <1>5
  <2> QED
    BY <1>3, <2>1, SameFacts DEF SameNode
<1>6. ASSUME NEW p, p = Dummy \/ p \in DOMAIN in
      PROVE  Start(in2, Subst(p, old, new)) = Start(in, p)
  BY <1>1, <1>3, <1>5, <1>6 DEF Start, Subst
<1>7. ASSUME NEW c \in Nodes(in, lf)
      PROVE  Par(in, lf, c) = Dummy \/ Par(in, lf, c) \in DOMAIN in
  BY AboveNode
<1>8. \A b \in Byte : in[old].child[b] # old
  BY <1>1, <1>3, <1>4, OnlySlot
<1>9. ASSUME NEW a \in DOMAIN in2
      PROVE  Addressed(in2, a) /\ in2[a].depth = Start(in2, in2[a].parent)
  <2>1. Par(in2, lf2, a) = in2[a].parent
    BY PrefixHeapFacts DEF Par
  <2>2. CASE a = new
    <3>1. in2[a].parent = Par(in, lf, old) /\ in2[a].depth = in[old].depth
      BY <1>1, <1>2, <2>1, <2>2
    <3>2. in[old].depth = Start(in, Par(in, lf, old))
      BY <1>1, NodeBelow
    <3>3. Addressed(in2, new)
      <4>1. Addressed(in, old)
        BY <1>1 DEF Trie
      <4> QED
        BY <1>1, <4>1 DEF Addressed
    <3>4. Start(in2, Par(in, lf, old)) = Start(in, Par(in, lf, old))
      BY <1>3, <1>4, <1>6, <1>7 DEF Subst
    <3> QED
      BY <2>2, <3>1, <3>2, <3>3, <3>4
  <2>3. CASE a # new
    <3>1. a \in DOMAIN in /\ a # old /\ a \in Nodes(in, lf)
      BY <1>1, <2>3 DEF Nodes
    <3>2. in2[a].parent = Subst(Par(in, lf, a), old, new) /\ in2[a].depth = in[a].depth
      BY <1>2, <1>5, <2>1, <3>1
    <3>3. in[a].depth = Start(in, Par(in, lf, a)) /\ Addressed(in, a)
      BY <3>1, NodeBelow DEF Trie
    <3>4. Addressed(in2, a)
      BY <1>5, <3>1, <3>3 DEF Addressed
    <3> QED
      BY <1>6, <1>7, <3>1, <3>2, <3>3, <3>4
  <2> QED
    BY <2>2, <2>3
<1>10. ASSUME NEW a \in DOMAIN in2, NEW b \in Byte, in2[a].child[b] # Null
       PROVE  Holds(in2, lf2, a, b, in2[a].child[b])
  <2>1. CASE a = new
    <3> DEFINE c == in[old].child[b]
    <3>1. in2[a].child[b] = c /\ c # Null /\ c # old
      BY <1>1, <1>8, <1>10, <2>1
    <3>2. Holds(in, lf, old, b, c)
      BY <1>1, <3>1 DEF Trie
    <3> HIDE DEF c
    <3>3. Par(in2, lf2, c) = new /\ c \in Nodes(in2, lf2)
      BY <1>2, <1>3, <3>1, <3>2 DEF Holds, Subst
    <3> QED
      BY <1>1, <2>1, <3>1, <3>2, <3>3 DEF Holds
  <2>2. CASE a # new
    <3> DEFINE c == in[a].child[b]
    <3>1. a \in DOMAIN in /\ a # old /\ in2[a].child[b] = Subst(c, old, new)
          /\ Branch(in2[a]) = Branch(in[a])
      BY <1>1, <1>5, <2>2
    <3>2. c # Null
      BY <1>3, <1>10, <3>1 DEF Subst
    <3>3. Holds(in, lf, a, b, c)
      BY <3>1, <3>2 DEF Trie
    <3>4. /\ c \in Nodes(in, lf) /\ Par(in, lf, c) = a
          /\ Agree(c.path, a.path, Branch(in[a])) /\ c.path[Branch(in[a])] = b
      BY <3>3 DEF Holds
    <3> HIDE DEF c
    <3>5. CASE c # old
      BY <1>2, <1>3, <3>1, <3>4, <3>5 DEF Holds, Subst
    <3>6. CASE c = old
      BY <1>1, <1>2, <1>3, <3>1, <3>4, <3>6 DEF Holds, Subst
    <3> QED
      BY <3>5, <3>6
  <2> QED
    BY <2>1, <2>2
<1>11. ASSUME NEW c \in Nodes(in2, lf2)
       PROVE  c = Subst(r, old, new) \/ InSlot(in2, lf2, c)
  <2>1. CASE c = new
    <3>1. CASE r = old
      BY <2>1, <3>1 DEF Subst
    <3>2. CASE r # old
      <4>1. InSlot(in, lf, old)
        BY <1>3, <3>2, AboveNode
      <4>2. PICK b \in Byte : in[Par(in, lf, old)].child[b] = old
        BY <4>1 DEF InSlot
      <4>3. Par(in, lf, old) \in DOMAIN in
        BY <4>1 DEF InSlot
      <4>4. in2[Par(in, lf, old)].child[b] = new
        BY <1>4, <1>5, <4>2, <4>3 DEF Subst
      <4> QED
        BY <1>1, <1>2, <1>4, <2>1, <4>3, <4>4 DEF InSlot
    <3> QED
      BY <3>1, <3>2
  <2>2. CASE c # new
    <3>1. c \in Nodes(in, lf) /\ c # old
      BY <1>3, <2>2
    <3>2. CASE c = r
      BY <3>1, <3>2 DEF Subst
    <3>3. CASE c # r
      <4> DEFINE p == Par(in, lf, c)
      <4>1. InSlot(in, lf, c)
        BY <3>1, <3>3, AboveNode
      <4>2. PICK b \in Byte : in[p].child[b] = c
        BY <4>1 DEF InSlot
      <4>3. p \in DOMAIN in
        BY <4>1 DEF InSlot
      <4>4. Par(in2, lf2, c) = Subst(p, old, new)
        BY <1>2, <3>1
      <4> HIDE DEF p
      <4>5. CASE p = old
        BY <1>1, <1>3, <4>2, <4>4, <4>5 DEF InSlot, Subst
      <4>6. CASE p # old
        <5>1. in2[p].child[b] = c /\ p \in DOMAIN in2 /\ Par(in2, lf2, c) = p
          BY <1>1, <1>5, <3>1, <4>2, <4>3, <4>4, <4>6 DEF Subst
        <5> QED
          BY <5>1 DEF InSlot
      <4> QED
        BY <4>5, <4>6
    <3> QED
      BY <3>2, <3>3
  <2> QED
    BY <2>1, <2>2
<1>12. ASSUME Subst(r, old, new) # Null
       PROVE  Subst(r, old, new) \in Nodes(in2, lf2) /\ Par(in2, lf2, Subst(r, old, new)) = Dummy
  <2>1. CASE r = old
    <3>1. Par(in, lf, old) = Dummy
      BY <1>3, <2>1, AboveNode
    <3> QED
      BY <1>2, <1>3, <2>1, <3>1 DEF Subst
  <2>2. CASE r # old
    <3>1. r \in Nodes(in, lf) /\ Par(in, lf, r) = Dummy
      BY <1>12, <2>2 DEF Trie, Subst
    <3>2. Par(in2, lf2, r) = Dummy
      BY <1>1, <1>2, <1>3, <2>2, <3>1 DEF Subst
    <3> QED
      BY <1>3, <2>2, <3>1, <3>2 DEF Subst
  <2> QED
    BY <2>1, <2>2
<1> QED
  BY <1>9, <1>10, <1>11, <1>12 DEF Trie

-----------------------------------------------------------------------------
(* Slots filled and emptied, and how many there are.                       *)

\* What a node has in common with one that has no prefix.
Plain(n) == [parent |-> n.parent, depth |-> n.depth, count |-> n.count, child |-> n.child]

LEMMA PlainNode ==
    ASSUME NEW n \in PrefixNode
    PROVE  Plain(n) \in InnerNode /\ Occupied(Plain(n)) = Occupied(n)
BY PrefixNodeFacts DEF Plain, InnerNode, Occupied

\* A node has finitely many children.
LEMMA PrefixOccupied ==
    ASSUME NEW n \in PrefixNode
    PROVE  /\ IsFiniteSet(Occupied(n)) /\ Cardinality(Occupied(n)) \in Nat
           /\ Occupied(n) \in SUBSET Byte /\ Occupied(n) \in SUBSET Nat
           /\ Cardinality(Occupied(n)) = 0 <=> Occupied(n) = {}
           /\ Cardinality(Occupied(n)) = 1 <=> \E b : Occupied(n) = {b}
<1>1. Occupied(n) \in SUBSET Byte /\ Occupied(n) \in SUBSET Nat
  BY SizesAssumption DEF Occupied, Byte
<1> QED
  BY <1>1, PlainNode, OccupiedFinite

\* The slot at byte b holds c, and everything else is as it was.
LEMMA Inserted ==
    ASSUME NEW n \in PrefixNode, NEW b \in Byte, NEW c \in Ptr, c # Null, n.child[b] = Null
    PROVE  LET m == InsertChild(n, b, c)
           IN  /\ m \in PrefixNode /\ m.parent = n.parent /\ m.depth = n.depth
               /\ m.plen = n.plen /\ m.prefix = n.prefix /\ m.count = n.count + 1
               /\ Branch(m) = Branch(n) /\ StoredLength(m) = StoredLength(n)
               /\ \A e \in Byte : m.child[e] = IF e = b THEN c ELSE n.child[e]
               /\ Cardinality(Occupied(m)) = Cardinality(Occupied(n)) + 1
<1> DEFINE m == InsertChild(n, b, c)
<1>1. n.child \in [Byte -> Ptr] /\ n.count \in Int
  BY PrefixNodeFacts
<1>2. [n.child EXCEPT ![b] = c] \in [Byte -> Ptr] /\ n.count + 1 \in Int
  BY <1>1
<1>3. /\ m \in PrefixNode /\ m.parent = n.parent /\ m.depth = n.depth
      /\ m.plen = n.plen /\ m.prefix = n.prefix /\ m.count = n.count + 1
      /\ m.child = [n.child EXCEPT ![b] = c]
  BY <1>2 DEF InsertChild, PrefixNode
<1>4. \A e \in Byte : m.child[e] = IF e = b THEN c ELSE n.child[e]
  BY <1>1, <1>3
<1>5. Cardinality(Occupied(m)) = Cardinality(Occupied(n)) + 1
  <2>1. Plain(n) \in InnerNode /\ Occupied(Plain(n)) = Occupied(n) /\ Plain(n).child[b] = Null
    BY PlainNode DEF Plain
  <2>2. Cardinality(Occupied(InsertChild(Plain(n), b, c))) = Cardinality(Occupied(Plain(n))) + 1
    BY <2>1, InsertCounts
  <2>3. InsertChild(Plain(n), b, c).child = [n.child EXCEPT ![b] = c]
    BY DEF InsertChild, Plain
  <2>4. Occupied(InsertChild(Plain(n), b, c)) = Occupied(m)
    BY <1>3, <2>3 DEF Occupied
  <2> QED
    BY <2>1, <2>2, <2>4
<1> QED
  BY <1>3, <1>4, <1>5 DEF Branch, StoredLength

LEMMA Emptied ==
    ASSUME NEW n \in PrefixNode, NEW b \in Byte, n.child[b] # Null
    PROVE  LET m == EraseChild(n, b)
           IN  /\ m \in PrefixNode /\ m.parent = n.parent /\ m.depth = n.depth
               /\ m.plen = n.plen /\ m.prefix = n.prefix /\ m.count = n.count - 1
               /\ Branch(m) = Branch(n) /\ StoredLength(m) = StoredLength(n)
               /\ \A e \in Byte : m.child[e] = IF e = b THEN Null ELSE n.child[e]
               /\ Cardinality(Occupied(m)) = Cardinality(Occupied(n)) - 1
<1> DEFINE m == EraseChild(n, b)
<1>1. n.child \in [Byte -> Ptr] /\ n.count \in Int
  BY PrefixNodeFacts
<1>2. [n.child EXCEPT ![b] = Null] \in [Byte -> Ptr] /\ n.count - 1 \in Int
  BY <1>1, PointerKinds
<1>3. /\ m \in PrefixNode /\ m.parent = n.parent /\ m.depth = n.depth
      /\ m.plen = n.plen /\ m.prefix = n.prefix /\ m.count = n.count - 1
      /\ m.child = [n.child EXCEPT ![b] = Null]
  BY <1>2 DEF EraseChild, PrefixNode
<1>4. \A e \in Byte : m.child[e] = IF e = b THEN Null ELSE n.child[e]
  BY <1>1, <1>3
<1>5. Cardinality(Occupied(m)) = Cardinality(Occupied(n)) - 1
  <2>1. Plain(n) \in InnerNode /\ Occupied(Plain(n)) = Occupied(n) /\ Plain(n).child[b] # Null
    BY PlainNode DEF Plain
  <2>2. Cardinality(Occupied(EraseChild(Plain(n), b))) = Cardinality(Occupied(Plain(n))) - 1
    BY <2>1, EraseCounts
  <2>3. EraseChild(Plain(n), b).child = [n.child EXCEPT ![b] = Null]
    BY DEF EraseChild, Plain
  <2>4. Occupied(EraseChild(Plain(n), b)) = Occupied(m)
    BY <1>3, <2>3 DEF Occupied
  <2> QED
    BY <2>1, <2>2, <2>4
<1> QED
  BY <1>3, <1>4, <1>5 DEF Branch, StoredLength

\* n->insert(byte, leaf) into an empty slot to which the key leads.
LEMMA TrieLeafAdded ==
    ASSUME NEW in, NEW lf, NEW r, PrefixHeaps(in, lf), Trie(in, lf, r),
           NEW n \in DOMAIN in, NEW k \in Keys, LeafOf(k) \notin DOMAIN lf,
           Agree(k, n.path, Branch(in[n])), in[n].child[k[Branch(in[n])]] = Null, NEW v
    PROVE  Trie([in EXCEPT ![n] = InsertChild(in[n], k[Branch(in[n])], LeafOf(k))],
                Allocate(lf, LeafOf(k), [parent |-> n, value |-> v]), r)
<1> DEFINE l   == LeafOf(k)
           b0  == k[Branch(in[n])]
           in2 == [in EXCEPT ![n] = InsertChild(in[n], b0, l)]
           lf2 == Allocate(lf, l, [parent |-> n, value |-> v])
<1>1. /\ l \in LeafAddr /\ l \in Ptr /\ l # Null /\ l \notin DOMAIN in /\ l.path = k
      /\ l \notin Nodes(in, lf) /\ Dummy \notin DOMAIN in
  BY LeafOfType, PointerKinds, PrefixHeapFacts DEF Nodes, LeafOf
<1>2. in[n] \in PrefixNode /\ Branch(in[n]) \in Chunks /\ b0 \in Byte
  BY NodeBelow, KeyChunk
<1>3. DOMAIN in2 = DOMAIN in /\ DOMAIN lf2 = DOMAIN lf \cup {l}
      /\ Nodes(in2, lf2) = Nodes(in, lf) \cup {l}
  BY DEF Allocate, Nodes
<1>4. ASSUME NEW a \in DOMAIN in
      PROVE  /\ Branch(in2[a]) = Branch(in[a]) /\ in2[a].depth = in[a].depth
             /\ in2[a].parent = in[a].parent
             /\ \A b \in Byte : in2[a].child[b] = IF a = n /\ b = b0 THEN l ELSE in[a].child[b]
  <2>1. CASE a = n
    <3>1. in2[a] = InsertChild(in[n], b0, l)
      BY <2>1
    <3> HIDE DEF in2, l, b0
    <3> QED
      BY <1>1, <1>2, <2>1, <3>1, Inserted DEF b0
  <2>2. CASE a # n
    BY <2>2
  <2> QED
    BY <2>1, <2>2
<1>5. /\ \A c \in Nodes(in, lf) : Par(in2, lf2, c) = Par(in, lf, c)
      /\ Par(in2, lf2, l) = n
  <2>1. \A x \in DOMAIN lf : lf2[x] = lf[x]
    BY <1>1 DEF Allocate, Nodes
  <2>2. lf2[l].parent = n /\ l \in DOMAIN lf2
    BY DEF Allocate
  <2> HIDE DEF in2, lf2, l
  <2>3. ASSUME NEW c \in Nodes(in, lf)  PROVE Par(in2, lf2, c) = Par(in, lf, c)
    <3>1. c # l
      BY <1>1
    <3>2. CASE c \in DOMAIN lf
      BY <1>3, <2>1, <3>2 DEF Par
    <3>3. CASE c \notin DOMAIN lf
      BY <1>3, <1>4, <3>1, <3>3 DEF Par, Nodes
    <3> QED
      BY <3>2, <3>3
  <2> QED
    BY <2>2, <2>3 DEF Par
<1> HIDE DEF in2, lf2, l
<1>6. ASSUME NEW a \in DOMAIN in2
      PROVE  Addressed(in2, a) /\ in2[a].depth = Start(in2, in2[a].parent)
  <2>1. a \in DOMAIN in /\ Addressed(in, a) /\ in[a].depth = Start(in, in[a].parent)
    BY <1>3 DEF Trie
  <2>2. in[a].parent = Dummy \/ in[a].parent \in DOMAIN in
    <3>1. Par(in, lf, a) = in[a].parent /\ a \in Nodes(in, lf)
      BY <2>1, PrefixHeapFacts DEF Par, Nodes
    <3> QED
      BY <3>1, AboveNode
  <2>3. Start(in2, in[a].parent) = Start(in, in[a].parent)
    BY <1>4, <2>2 DEF Start
  <2> QED
    BY <1>4, <2>1, <2>3 DEF Addressed
<1>7. ASSUME NEW a \in DOMAIN in2, NEW b \in Byte, in2[a].child[b] # Null
      PROVE  Holds(in2, lf2, a, b, in2[a].child[b])
  <2>1. CASE a = n /\ b = b0
    BY <1>1, <1>3, <1>4, <1>5, <2>1 DEF Holds
  <2>2. CASE ~ (a = n /\ b = b0)
    <3> DEFINE c == in[a].child[b]
    <3>1. a \in DOMAIN in /\ in2[a].child[b] = c /\ Branch(in2[a]) = Branch(in[a])
      BY <1>3, <1>4, <2>2
    <3>2. Holds(in, lf, a, b, c)
      BY <1>7, <3>1 DEF Trie
    <3> HIDE DEF c
    <3> QED
      BY <1>3, <1>5, <3>1, <3>2 DEF Holds
  <2> QED
    BY <2>1, <2>2
<1>8. ASSUME NEW c \in Nodes(in2, lf2)  PROVE c = r \/ InSlot(in2, lf2, c)
  <2>1. CASE c = l
    <3>1. in2[n].child[b0] = l
      BY <1>2, <1>4
    <3> QED
      BY <1>2, <1>3, <1>5, <2>1, <3>1 DEF InSlot
  <2>2. CASE c # l
    <3>1. c \in Nodes(in, lf)
      BY <1>3, <2>2
    <3>2. SUFFICES ASSUME c # r  PROVE InSlot(in2, lf2, c)
      OBVIOUS
    <3>3. InSlot(in, lf, c)
      BY <3>1, <3>2, AboveNode
    <3> DEFINE p == Par(in, lf, c)
    <3>4. PICK b \in Byte : in[p].child[b] = c
      BY <3>3 DEF InSlot
    <3>5. p \in DOMAIN in /\ c # Null
      BY <3>1, <3>3, AboveNode DEF InSlot
    <3>6. ~ (p = n /\ b = b0)
      BY <3>4, <3>5
    <3>7. in2[p].child[b] = c
      BY <1>4, <3>4, <3>5, <3>6
    <3> QED
      BY <1>3, <1>5, <3>1, <3>5, <3>7 DEF InSlot
  <2> QED
    BY <2>1, <2>2
<1>9. r # Null => r \in Nodes(in2, lf2) /\ Par(in2, lf2, r) = Dummy
  BY <1>3, <1>5 DEF Trie
<1>10. Trie(in2, lf2, r)
  BY <1>6, <1>7, <1>8, <1>9 DEF Trie
<1> QED
  BY <1>10 DEF in2, lf2, l

\* The first leaf of an empty tree is its root.
LEMMA TrieRootAdded ==
    ASSUME NEW in, NEW lf, PrefixHeaps(in, lf), Trie(in, lf, Null),
           NEW k \in Keys, LeafOf(k) \notin DOMAIN lf, NEW v
    PROVE  Trie(in, Allocate(lf, LeafOf(k), [parent |-> Dummy, value |-> v]), LeafOf(k))
<1> DEFINE l   == LeafOf(k)
           lf2 == Allocate(lf, l, [parent |-> Dummy, value |-> v])
<1>1. l \notin Nodes(in, lf) /\ l # Null
  BY LeafOfType, PointerKinds, PrefixHeapFacts DEF Nodes
<1>2. Nodes(in, lf2) = Nodes(in, lf) \cup {l} /\ l \in DOMAIN lf2
  BY DEF Allocate, Nodes
<1>3. /\ \A c \in Nodes(in, lf) : Par(in, lf2, c) = Par(in, lf, c)
      /\ Par(in, lf2, l) = Dummy
  BY <1>1 DEF Allocate, Nodes, Par
<1> HIDE DEF lf2, l
<1>4. ASSUME NEW a \in DOMAIN in, NEW b \in Byte, in[a].child[b] # Null
      PROVE  Holds(in, lf2, a, b, in[a].child[b])
  <2>1. Holds(in, lf, a, b, in[a].child[b])
    BY <1>4 DEF Trie
  <2> QED
    BY <1>2, <1>3, <2>1 DEF Holds
<1>5. ASSUME NEW c \in Nodes(in, lf2)  PROVE c = l \/ InSlot(in, lf2, c)
  <2> SUFFICES ASSUME c # l  PROVE InSlot(in, lf2, c)
    OBVIOUS
  <2>1. c \in Nodes(in, lf) /\ c # Null
    BY <1>2, AboveNode
  <2>2. InSlot(in, lf, c)
    BY <2>1, AboveNode
  <2> QED
    BY <1>3, <2>1, <2>2 DEF InSlot
<1>6. Trie(in, lf2, l)
  BY <1>2, <1>3, <1>4, <1>5 DEF Trie
<1> QED
  BY <1>6 DEF lf2, l

\* n->erase(byte) of a slot that holds a leaf.
LEMMA TrieLeafDropped ==
    ASSUME NEW in, NEW lf, NEW r, PrefixHeaps(in, lf), Trie(in, lf, r),
           NEW n \in DOMAIN in, NEW b0 \in Byte, in[n].child[b0] \in DOMAIN lf
    PROVE  Trie([in EXCEPT ![n] = EraseChild(in[n], b0)], Free(lf, in[n].child[b0]), r)
<1> DEFINE l   == in[n].child[b0]
           in2 == [in EXCEPT ![n] = EraseChild(in[n], b0)]
           lf2 == Free(lf, l)
<1>1. /\ l \in Nodes(in, lf) /\ l # Null /\ l \notin DOMAIN in /\ Dummy \notin DOMAIN in
      /\ in[n] \in PrefixNode
  BY PrefixHeapFacts DEF Nodes
<1>2. DOMAIN in2 = DOMAIN in /\ DOMAIN lf2 = DOMAIN lf \ {l}
      /\ Nodes(in2, lf2) = Nodes(in, lf) \ {l}
  BY <1>1 DEF Free, Nodes
<1>3. ASSUME NEW a \in DOMAIN in
      PROVE  /\ Branch(in2[a]) = Branch(in[a]) /\ in2[a].depth = in[a].depth
             /\ in2[a].parent = in[a].parent
             /\ \A b \in Byte : in2[a].child[b] = IF a = n /\ b = b0 THEN Null ELSE in[a].child[b]
  <2>1. CASE a = n
    <3>1. in2[a] = EraseChild(in[n], b0)
      BY <2>1
    <3> HIDE DEF in2
    <3> QED
      BY <1>1, <2>1, <3>1, Emptied
  <2>2. CASE a # n
    BY <2>2
  <2> QED
    BY <2>1, <2>2
<1>4. /\ Par(in, lf, l) = n /\ l # r
      /\ \A a \in DOMAIN in, b \in Byte : in[a].child[b] = l => a = n /\ b = b0
  <2>1. Par(in, lf, l) = n /\ b0 = l.path[Branch(in[n])]
    BY <1>1, OnlySlot
  <2>2. \A a \in DOMAIN in, b \in Byte : in[a].child[b] = l => a = n /\ b = b0
    <3> HIDE DEF l
    <3> QED
      BY <1>1, <2>1, OnlySlot
  <2>3. l # r
    <3> HIDE DEF l
    <3> QED
      BY <1>1, <2>1, AboveNode
  <2> QED
    BY <2>1, <2>2, <2>3
<1>5. \A c \in Nodes(in, lf) : c # l => Par(in2, lf2, c) = Par(in, lf, c)
  <2>1. \A x \in DOMAIN lf : x # l => lf2[x] = lf[x]
    BY DEF Free
  <2> HIDE DEF in2, lf2, l
  <2> QED
    BY <1>2, <1>3, <2>1 DEF Par, Nodes
<1> HIDE DEF in2, lf2, l
<1>6. ASSUME NEW a \in DOMAIN in2
      PROVE  Addressed(in2, a) /\ in2[a].depth = Start(in2, in2[a].parent)
  <2>1. a \in DOMAIN in /\ Addressed(in, a) /\ in[a].depth = Start(in, in[a].parent)
    BY <1>2 DEF Trie
  <2>2. in[a].parent = Dummy \/ in[a].parent \in DOMAIN in
    <3>1. Par(in, lf, a) = in[a].parent /\ a \in Nodes(in, lf)
      BY <2>1, PrefixHeapFacts DEF Par, Nodes
    <3> QED
      BY <3>1, AboveNode
  <2>3. Start(in2, in[a].parent) = Start(in, in[a].parent)
    BY <1>3, <2>2 DEF Start
  <2> QED
    BY <1>3, <2>1, <2>3 DEF Addressed
<1>7. ASSUME NEW a \in DOMAIN in2, NEW b \in Byte, in2[a].child[b] # Null
      PROVE  Holds(in2, lf2, a, b, in2[a].child[b])
  <2> DEFINE c == in[a].child[b]
  <2>1. a \in DOMAIN in /\ in2[a].child[b] = c /\ Branch(in2[a]) = Branch(in[a])
        /\ ~ (a = n /\ b = b0)
    BY <1>2, <1>3, <1>7
  <2>2. Holds(in, lf, a, b, c) /\ c # l
    BY <1>4, <1>7, <2>1 DEF Trie
  <2> HIDE DEF c
  <2> QED
    BY <1>2, <1>5, <2>1, <2>2 DEF Holds
<1>8. ASSUME NEW c \in Nodes(in2, lf2)  PROVE c = r \/ InSlot(in2, lf2, c)
  <2> SUFFICES ASSUME c # r  PROVE InSlot(in2, lf2, c)
    OBVIOUS
  <2>1. c \in Nodes(in, lf) /\ c # l
    BY <1>2
  <2>2. InSlot(in, lf, c)
    BY <2>1, AboveNode
  <2> DEFINE p == Par(in, lf, c)
  <2>3. PICK b \in Byte : in[p].child[b] = c
    BY <2>2 DEF InSlot
  <2>4. p \in DOMAIN in
    BY <2>2 DEF InSlot
  <2>5. ~ (p = n /\ b = b0)
    BY <2>1, <2>3 DEF l
  <2>6. in2[p].child[b] = c
    BY <1>3, <2>3, <2>4, <2>5
  <2> QED
    BY <1>2, <1>5, <2>1, <2>4, <2>6 DEF InSlot
<1>9. r # Null => r \in Nodes(in2, lf2) /\ Par(in2, lf2, r) = Dummy
  BY <1>2, <1>4, <1>5 DEF Trie
<1>10. Trie(in2, lf2, r)
  BY <1>6, <1>7, <1>8, <1>9 DEF Trie
<1> QED
  BY <1>10 DEF in2, lf2, l

\* The last leaf goes.
LEMMA TrieRootDropped ==
    ASSUME NEW in, NEW lf, NEW r, PrefixHeaps(in, lf), Trie(in, lf, r), r \in DOMAIN lf
    PROVE  Trie(in, Free(lf, r), Null)
<1> DEFINE lf2 == Free(lf, r)
<1>1. r \in Nodes(in, lf) /\ r \notin DOMAIN in /\ Par(in, lf, r) = Dummy /\ Dummy \notin DOMAIN in
  BY PrefixHeapFacts, AboveNode DEF Nodes
<1>2. Nodes(in, lf2) = Nodes(in, lf) \ {r}
  BY <1>1 DEF Free, Nodes
<1>3. \A c \in Nodes(in, lf) : c # r => Par(in, lf2, c) = Par(in, lf, c)
  BY DEF Free, Nodes, Par
<1> HIDE DEF lf2
<1>4. ASSUME NEW a \in DOMAIN in, NEW b \in Byte, in[a].child[b] # Null
      PROVE  Holds(in, lf2, a, b, in[a].child[b])
  <2>1. Holds(in, lf, a, b, in[a].child[b])
    BY <1>4 DEF Trie
  <2>2. in[a].child[b] # r
    BY <1>1, <2>1 DEF Holds
  <2> QED
    BY <1>2, <1>3, <2>1, <2>2 DEF Holds
<1>5. ASSUME NEW c \in Nodes(in, lf2)  PROVE InSlot(in, lf2, c)
  <2>1. c \in Nodes(in, lf) /\ c # r
    BY <1>2
  <2>2. InSlot(in, lf, c)
    BY <2>1, AboveNode
  <2> QED
    BY <1>3, <2>1, <2>2 DEF InSlot
<1>6. Trie(in, lf2, Null)
  BY <1>2, <1>3, <1>4, <1>5 DEF Trie
<1> QED
  BY <1>6 DEF lf2

-----------------------------------------------------------------------------
(* The kind of step a call is at determines its fields.                    *)

LEMMA CallShape ==
    ASSUME call \in Call
    PROVE  /\ call.pc = "walk" => call \in WalkCall
           /\ call.pc = "link" => call \in LinkCall
           /\ call.pc = "climb" => call \in ClimbCall
           /\ call.pc = "down" => call \in DownCall
           /\ call.pc = "unlink" => call \in UnlinkCall
           /\ call.pc \in {"shrink", "compress"} => call \in FixCall
           /\ call.pc = "clear" => call \in ClearCall
           /\ call.pc = "return" => call \in ReturnCall
BY DEF Call, Idle, WalkCall, LinkCall, ClimbCall, DownCall, UnlinkCall, FixCall, ClearCall,
       ReturnCall

LEMMA CallParts ==
    /\ Idle \in Call
    /\ WalkCall \subseteq Call /\ LinkCall \subseteq Call /\ ClimbCall \subseteq Call
    /\ DownCall \subseteq Call /\ UnlinkCall \subseteq Call /\ FixCall \subseteq Call
    /\ ClearCall \subseteq Call /\ ReturnCall \subseteq Call
BY DEF Call

LEMMA ReturnType ==
    ASSUME NEW o \in Ops, NEW k \in KeyArg, NEW at \in Position, NEW did \in BOOLEAN
    PROVE  Return(o, k, at, did) \in Call /\ Return(o, k, at, did).pc = "return"
<1>1. Return(o, k, at, did) \in ReturnCall
  BY DEF Return, ReturnCall
<1> QED
  BY <1>1, CallParts DEF Return

LEMMA ArgTypes ==
    /\ NoPath \in KeyArg /\ Keys \subseteq KeyArg
    /\ {} \in Position /\ \A k \in Keys : {k} \in Position
BY DEF KeyArg, Position

LEMMA OpTypes ==
    /\ WalkOps \subseteq Ops /\ ClimbOps \subseteq Ops /\ DownOps \subseteq Ops
    /\ EraseOps \subseteq Ops /\ ClimbOps \subseteq DownOps /\ BoundOps \subseteq ClimbOps
    /\ InsertOps \subseteq WalkOps /\ BoundOps \subseteq WalkOps
    /\ {"erase", "find", "lower", "upper", "insert", "emplace", "clear", "begin",
        "erase_at"} \subseteq Ops
    /\ {"lower", "upper", "next", "prev", "erase_at"} \subseteq ClimbOps
    /\ {"erase", "erase_at"} \subseteq EraseOps
    /\ "find" \notin InsertOps /\ "erase" \notin InsertOps /\ BoundOps \cap InsertOps = {}
BY DEF Ops, WalkOps, ClimbOps, DownOps, EraseOps, BoundOps, InsertOps

LEMMA TypedHeaps ==
    ASSUME TypeOK
    PROVE  /\ PrefixHeaps(inner, leaf) /\ Live = Nodes(inner, leaf)
           /\ \A c : ParentOf(c) = Par(inner, leaf, c)
BY DEF TypeOK, PrefixHeaps, Live, Nodes, ParentOf, Par

\* The shape of the tree that a step changes or leaves alone.
LEMMA ShapeBefore ==
    ASSUME ShapeInv, call.pc # "clear"
    PROVE  /\ TypeOK /\ PrefixHeaps(inner, leaf) /\ Live = Nodes(inner, leaf)
           /\ Trie(inner, leaf, root) /\ Kepts(inner) /\ Counted(inner) /\ Sized
BY TypedHeaps DEF ShapeInv, Whole

-----------------------------------------------------------------------------
(* Steps that leave the tree alone.                                        *)

PlainPcs == {"idle", "return", "climb", "down", "unlink"}

\* What the locals of other kinds of calls know does not matter.
LEMMA OtherCallsNext ==
    /\ call'.pc # "walk" => WalkFits'
    /\ call'.pc # "link" => LinkFits'
    /\ call'.pc \notin {"shrink", "compress"} => FixFits'
    /\ call'.pc # "clear" => ClearFits'
BY DEF WalkFits, LinkFits, FixFits, ClearFits

LEMMA TypeKept ==
    ASSUME TypeOK, UNCHANGED treeVars, call' \in Call
    PROVE  TypeOK'
BY DEF TypeOK, treeVars, IsHeap

LEMMA ShapeKept ==
    ASSUME ShapeInv, call.pc # "clear", UNCHANGED treeVars, call' \in Call, Sized'
    PROVE  TypeOK' /\ Whole'
<1>1. TypeOK' /\ Whole
  BY TypeKept DEF ShapeInv
<1>2. inner' = inner /\ leaf' = leaf /\ root' = root
  BY DEF treeVars
<1> QED
  BY <1>1, <1>2 DEF Whole

LEMMA NotShort ==
    ASSUME call.pc \notin {"walk", "link", "shrink", "compress"}
    PROVE  Short = {}
BY DEF Short

\* Every node keeps a layout that fits.
LEMMA SizesKept ==
    ASSUME Sized, inner' = inner, Short \subseteq Short', call'.pc # "compress"
    PROVE  Sized'
BY DEF Sized, SizeFits, OneShort

\* A step to a call that has no node of the tree in its hands.
LEMMA ToPlainCall ==
    ASSUME ShapeInv, call.pc # "clear", UNCHANGED treeVars, call' \in Call,
           call'.pc \in PlainPcs, Short = {}
    PROVE  ShapeInv'
<1>1. inner' = inner /\ Sized
  BY ShapeBefore DEF treeVars
<1>2. Sized'
  BY <1>1, SizesKept DEF PlainPcs
<1>3. TypeOK' /\ Whole'
  BY <1>2, ShapeKept
<1>4. WalkFits' /\ LinkFits' /\ FixFits' /\ ClearFits'
  BY OtherCallsNext DEF PlainPcs
<1> QED
  BY <1>3, <1>4 DEF ShapeInv

-----------------------------------------------------------------------------
(* Where a walk is.                                                        *)

\* The walk is at the node whose prefix begins at its depth, and unless it is
\* a lookup the key agrees with the path of the node up to there.
LEMMA WalkKnows ==
    ASSUME ShapeInv, call.pc = "walk", call.cur \in Live
    PROVE  /\ call \in WalkCall /\ call.key \in Keys
           /\ call.cur \in Nodes(inner, leaf)
           /\ call.depth \in Nat /\ call.depth = Start(inner, Par(inner, leaf, call.cur))
           /\ call.op # "find" => Agree(call.key, call.cur.path, call.depth)
           /\ call.cur \in DOMAIN inner =>
                  /\ Here \in PrefixNode /\ Here.depth = call.depth
                  /\ Branch(Here) \in Chunks /\ Branch(Here) = call.depth + Here.plen
                  /\ Kept(Here, call.cur.path)
           /\ Par(inner, leaf, call.cur) \in DOMAIN inner =>
                  /\ Par(inner, leaf, call.cur) = call.prev
                  /\ Branch(inner[call.prev]) \in Chunks
                  /\ call.depth = Branch(inner[call.prev]) + 1
                  /\ call.key[call.depth - 1] = call.cur.path[call.depth - 1]
           /\ call.cur # root => call.prev \in DOMAIN inner
                                 /\ call.prev = Par(inner, leaf, call.cur)
<1> DEFINE cur  == call.cur
           prev == call.prev
           p    == Par(inner, leaf, cur)
<1>1. /\ TypeOK /\ PrefixHeaps(inner, leaf) /\ Live = Nodes(inner, leaf)
      /\ Trie(inner, leaf, root) /\ Kepts(inner)
  BY ShapeBefore
<1>2. call \in WalkCall
  BY <1>1, CallShape DEF TypeOK
<1>3. call.key \in Keys /\ call.depth \in 0..KeyLen /\ call.depth \in Nat
  BY <1>2, KeyLenAssumption DEF WalkCall
<1>4. \/ prev \in {Dummy, Null} /\ call.depth = 0 /\ cur = root
      \/ /\ prev \in DOMAIN inner
         /\ call.depth = Branch(inner[prev]) + 1
         /\ cur = inner[prev].child[call.key[call.depth - 1]]
         /\ call.op # "find" => Agree(call.key, prev.path, call.depth - 1)
  BY DEF ShapeInv, WalkFits
<1>5. cur \in Nodes(inner, leaf) /\ cur # Null /\ (cur = root <=> p = Dummy)
      /\ Dummy \notin DOMAIN inner
  BY <1>1, AboveNode, PrefixHeapFacts DEF Nodes
<1>6. CASE prev \in {Dummy, Null} /\ call.depth = 0 /\ cur = root
  <2>1. p = Dummy /\ call.depth = Start(inner, p)
    BY <1>5, <1>6 DEF Start
  <2>2. Agree(call.key, cur.path, call.depth)
    BY <1>6 DEF Agree
  <2>3. cur \in DOMAIN inner => Here \in PrefixNode /\ Here.depth = Start(inner, p)
                                /\ Branch(Here) \in Chunks /\ Kept(Here, cur.path)
    BY <1>1, NodeBelow DEF Here, Kepts
  <2>4. cur \in DOMAIN inner => Branch(Here) = Here.depth + Here.plen
    BY DEF Branch
  <2> QED
    BY <1>2, <1>3, <1>5, <1>6, <2>1, <2>2, <2>3, <2>4
<1>7. CASE /\ prev \in DOMAIN inner
           /\ call.depth = Branch(inner[prev]) + 1
           /\ cur = inner[prev].child[call.key[call.depth - 1]]
           /\ call.op # "find" => Agree(call.key, prev.path, call.depth - 1)
  <2> DEFINE d == Branch(inner[prev])
             b == call.key[d]
  <2>1. d \in Chunks /\ d \in Nat /\ call.depth - 1 = d
    BY <1>1, <1>7, NodeBelow
  <2>2. b \in Byte /\ inner[prev].child[b] = cur
    BY <1>3, <1>7, <2>1, KeyChunk
  <2> HIDE DEF b, d
  <2>3. Holds(inner, leaf, prev, b, cur)
    BY <1>1, <1>5, <1>7, <2>2 DEF Trie
  <2>4. p = prev /\ Agree(cur.path, prev.path, d) /\ cur.path[d] = call.key[d]
    BY <2>3 DEF Holds, b, d
  <2>5. call.op # "find" => Agree(call.key, cur.path, call.depth)
    <3> SUFFICES ASSUME call.op # "find"  PROVE Agree(call.key, cur.path, call.depth)
      OBVIOUS
    <3>1. Agree(call.key, prev.path, d)
      BY <1>7, <2>1
    <3>2. Agree(call.key, cur.path, d)
      BY <2>4, <3>1 DEF Agree
    <3>3. Agree(call.key, cur.path, d + 1)
      BY <2>1, <2>4, <3>2, AgreeMore
    <3> QED
      BY <1>3, <2>1, <3>3
  <2>6. call.depth = Start(inner, p)
    BY <1>5, <1>7, <2>4 DEF Start
  <2>7. cur \in DOMAIN inner => Here \in PrefixNode /\ Here.depth = Start(inner, p)
                                /\ Branch(Here) \in Chunks /\ Kept(Here, cur.path)
    BY <1>1, NodeBelow DEF Here, Kepts
  <2>8. cur \in DOMAIN inner => Branch(Here) = Here.depth + Here.plen
    BY DEF Branch
  <2> QED
    BY <1>2, <1>3, <1>5, <1>7, <2>1, <2>4, <2>5, <2>6, <2>7, <2>8 DEF d
<1> QED
  BY <1>4, <1>6, <1>7

\* Once a prefix is compared, a mismatch is one between the key and the path,
\* and what is not one agrees.
LEMMA Comparison ==
    ASSUME ShapeInv, AtNode(WalkOps), Compared
    PROVE  /\ Differing \in SUBSET (0..(Here.plen - 1)) /\ Differing \in SUBSET Nat
           /\ \A p \in Differing :
                  call.key[call.depth + p] # call.cur.path[call.depth + p]
           /\ call.op # "find" /\ Differing = {} => Agree(call.key, call.cur.path, Branch(Here))
           /\ call.op # "find" /\ Differing # {} =>
                  /\ Min(Differing) \in 0..(Here.plen - 1)
                  /\ call.key[call.depth + Min(Differing)]
                         # call.cur.path[call.depth + Min(Differing)]
                  /\ Agree(call.key, call.cur.path, call.depth + Min(Differing))
           /\ call.op \in InsertOps /\ Differing # {} /\ Here.plen >= MaxPrefix =>
                  /\ call.low \in DOMAIN leaf
                  /\ Agree(call.low.path, call.cur.path, Branch(Here))
<1> DEFINE n   == Here
           d   == call.depth
           lim == IF call.low \in DOMAIN leaf THEN n.plen ELSE StoredLength(n)
<1>1. call.pc = "walk" /\ call.op \in WalkOps /\ call.cur \in DOMAIN inner /\ call.cur \in Live
  BY DEF AtNode, Walking, Live
<1>2. /\ n \in PrefixNode /\ n.depth = d /\ d \in Nat
      /\ Branch(n) = d + n.plen /\ Kept(n, call.cur.path)
      /\ call.op # "find" => Agree(call.key, call.cur.path, d)
  BY <1>1, WalkKnows
<1>3. /\ n.plen \in Nat /\ StoredLength(n) \in Nat /\ MaxPrefix \in Nat \ {0}
      /\ StoredLength(n) = IF n.plen =< MaxPrefix THEN n.plen ELSE MaxPrefix
  BY <1>2, PrefixNodeFacts, StoredFacts, MaxPrefixAssumption
<1>4. lim \in Nat /\ lim =< n.plen
  BY <1>3
<1>5. call.low \in DOMAIN leaf => Agree(call.low.path, call.cur.path, Branch(n))
  <2>1. call.low \in DOMAIN leaf => call.low # Null
    BY ShapeBefore, PrefixHeapFacts, <1>1 DEF Nodes
  <2> QED
    BY <1>1, <2>1 DEF ShapeInv, WalkFits, Here
<1>6. \A p \in 0..(lim - 1) : PrefixChunk(p) = call.cur.path[d + p]
  <2> SUFFICES ASSUME NEW p \in 0..(lim - 1)  PROVE PrefixChunk(p) = call.cur.path[d + p]
    OBVIOUS
  <2>0. p \in Nat /\ p < lim
    BY <1>4
  <2>1. CASE p < MaxPrefix
    <3>1. p < StoredLength(n)
      BY <1>3, <2>0, <2>1
    <3>2. p \in 0..(StoredLength(n) - 1)
      BY <1>3, <2>0, <3>1
    <3>3. n.prefix[p] = call.cur.path[d + p]
      BY <1>2, <3>2 DEF Kept
    <3> QED
      BY <2>1, <3>3 DEF PrefixChunk
  <2>2. CASE ~ (p < MaxPrefix)
    <3>1. call.low \in DOMAIN leaf /\ p < n.plen
      BY <1>3, <2>0, <2>2
    <3>2. d + p \in 0..(Branch(n) - 1)
      BY <1>2, <1>3, <2>0, <3>1
    <3>3. call.low.path[d + p] = call.cur.path[d + p]
      BY <1>5, <3>1, <3>2 DEF Agree
    <3> QED
      BY <1>2, <2>2, <3>3 DEF PrefixChunk
  <2> QED
    BY <2>1, <2>2
<1>7. Differing = {p \in 0..(lim - 1) : call.key[d + p] # call.cur.path[d + p]}
  BY <1>2, <1>6 DEF Differing
<1>8. Differing \in SUBSET (0..(n.plen - 1)) /\ Differing \in SUBSET Nat
  <2>1. 0..(lim - 1) \subseteq 0..(n.plen - 1) /\ 0..(lim - 1) \subseteq Nat
    BY <1>3, <1>4
  <2> QED
    BY <1>7, <2>1
<1>9. ASSUME call.op # "find", Differing = {}  PROVE Agree(call.key, call.cur.path, Branch(n))
  <2>1. lim = n.plen
    <3>1. call.low \in DOMAIN leaf \/ ~ (n.plen > MaxPrefix)
      BY <1>9 DEF Compared, LoadsKey
    <3> QED
      BY <1>3, <3>1
  <2> SUFFICES ASSUME NEW i \in 0..(Branch(n) - 1)  PROVE call.key[i] = call.cur.path[i]
    BY DEF Agree
  <2>2. CASE i < d
    BY <1>2, <1>9, <2>2 DEF Agree
  <2>3. CASE ~ (i < d)
    <3>1. i - d \in 0..(lim - 1) /\ d + (i - d) = i
      BY <1>2, <1>3, <2>1, <2>3
    <3>2. call.key[d + (i - d)] = call.cur.path[d + (i - d)]
      BY <1>7, <1>9, <3>1
    <3> QED
      BY <3>1, <3>2
  <2> QED
    BY <2>2, <2>3
<1>10. ASSUME call.op # "find", Differing # {}
       PROVE  /\ Min(Differing) \in 0..(n.plen - 1)
              /\ call.key[d + Min(Differing)] # call.cur.path[d + Min(Differing)]
              /\ Agree(call.key, call.cur.path, d + Min(Differing))
  <2> DEFINE m == Min(Differing)
  <2>1. m \in Differing /\ \A x \in Differing : m =< x
    BY <1>8, <1>10, MinOfBytes
  <2>2. m \in 0..(n.plen - 1) /\ call.key[d + m] # call.cur.path[d + m] /\ m \in 0..(lim - 1)
    BY <1>7, <1>8, <2>1
  <2> HIDE DEF m
  <2>3. ASSUME NEW i \in 0..((d + m) - 1)  PROVE call.key[i] = call.cur.path[i]
    <3>1. CASE i < d
      BY <1>2, <1>10, <3>1 DEF Agree
    <3>2. CASE ~ (i < d)
      <4>1. i - d \in 0..(lim - 1) /\ d + (i - d) = i /\ i - d < m
        BY <1>2, <1>3, <1>4, <2>2, <3>2
      <4>2. i - d \notin Differing
        <5>1. i - d \in Nat /\ m \in Nat /\ ~ (m =< i - d)
          BY <2>2, <4>1
        <5> QED
          BY <2>1, <5>1
      <4>3. call.key[d + (i - d)] = call.cur.path[d + (i - d)]
        BY <1>7, <4>1, <4>2
      <4> QED
        BY <4>1, <4>3
    <3> QED
      BY <3>1, <3>2
  <2>4. Agree(call.key, call.cur.path, d + m)
    BY <2>3 DEF Agree
  <2> HIDE DEF d, n
  <2> QED
    BY <2>2, <2>4 DEF m
<1>11. ASSUME call.op \in InsertOps, Differing # {}, n.plen >= MaxPrefix
       PROVE  call.low \in DOMAIN leaf
  BY <1>11 DEF Compared, LoadsKey
<1>12. \A p \in Differing : call.key[d + p] # call.cur.path[d + p]
  BY <1>7
<1> QED
  BY <1>5, <1>8, <1>12, <1>9, <1>10, <1>11

-----------------------------------------------------------------------------
(* Calls that begin.                                                       *)

LEMMA ClientShape == ASSUME ShapeInv, Client  PROVE ShapeInv'
<1>1. call = Idle /\ call.pc = "idle" /\ Short = {} /\ UNCHANGED treeVars
  <2>1. call = Idle /\ UNCHANGED treeVars
    BY DEF Client, CallOnEmpty, CallOnTree, MoveIterator, MoveEnd, Begin, CallClear
  <2>2. call.pc = "idle"
    BY <2>1 DEF Idle
  <2> QED
    BY <2>1, <2>2, NotShort
<1>2. /\ TypeOK /\ PrefixHeaps(inner, leaf) /\ Live = Nodes(inner, leaf)
      /\ Trie(inner, leaf, root) /\ Sized
  BY <1>1, ShapeBefore
<1>3. inner' = inner /\ leaf' = leaf /\ root' = root /\ dummyRoot' = dummyRoot
  BY <1>1 DEF treeVars
<1>4. ASSUME NEW o \in WalkOps, NEW k \in Keys, NEW v \in Given[k], CallOnEmpty(o, k, v)
      PROVE  ShapeInv'
  <2>1. CASE o \in InsertOps
    <3>1. call' = [pc |-> "link", op |-> o, key |-> k, value |-> v, node |-> Dummy, chunk |-> 0]
          /\ root = Null
      BY <1>4, <2>1 DEF CallOnEmpty
    <3>2. v \in Values /\ Dummy \in Ptr /\ 0 \in Chunks
      BY GivenAssumption, PointerKinds, KeyLenAssumption DEF Chunks
    <3>3. call' \in LinkCall
      BY <2>1, <3>1, <3>2 DEF LinkCall
    <3>4. call'.pc = "link" /\ call'.node = Dummy
      BY <3>1
    <3>5. Sized'
      BY <1>1, <1>2, <1>3, <3>4, SizesKept
    <3>6. TypeOK' /\ Whole'
      BY <1>1, <3>3, <3>5, CallParts, ShapeKept
    <3>7. LinkFits'
      BY <1>3, <3>1, <3>4 DEF LinkFits
    <3> QED
      BY <3>4, <3>6, <3>7, OtherCallsNext DEF ShapeInv
  <2>2. CASE o \notin InsertOps
    <3>1. call' = Return(o, k, {}, FALSE)
      BY <1>4, <2>2 DEF CallOnEmpty
    <3>2. call' \in Call /\ call'.pc = "return"
      BY <3>1, ReturnType, ArgTypes, OpTypes
    <3> QED
      BY <1>1, <3>2, ToPlainCall DEF PlainPcs
  <2> QED
    BY <2>1, <2>2
<1>5. ASSUME NEW o \in WalkOps, NEW k \in Keys, NEW v \in Given[k], CallOnTree(o, k, v)
      PROVE  ShapeInv'
  <2>1. /\ root # Null
        /\ call' = [pc |-> "walk", op |-> o, key |-> k, value |-> v, cur |-> root,
                    prev |-> IF o \in BoundOps THEN Null ELSE Dummy, depth |-> 0, low |-> Null]
    BY <1>5 DEF CallOnTree
  <2>2. v \in Values /\ Dummy \in Ptr /\ Null \in Ptr /\ 0 \in 0..KeyLen /\ root \in Ptr
    BY <1>2, GivenAssumption, PointerKinds, KeyLenAssumption DEF TypeOK
  <2>3. call' \in WalkCall
    BY <2>1, <2>2 DEF WalkCall
  <2>4. /\ call'.pc = "walk" /\ call'.cur = root /\ call'.prev \in {Dummy, Null}
        /\ call'.depth = 0 /\ call'.low = Null
    BY <2>1
  <2>5. Sized'
    BY <1>1, <1>2, <1>3, <2>4, SizesKept
  <2>6. TypeOK' /\ Whole'
    BY <1>1, <2>3, <2>5, CallParts, ShapeKept
  <2>7. root \in Live
    BY <1>2, <2>1 DEF Trie
  <2>8. WalkFits'
    <3>1. root' # Null /\ call'.cur \in Live' \cup {Null}
      BY <1>3, <2>1, <2>4, <2>7 DEF Live
    <3> QED
      BY <1>3, <2>4, <3>1 DEF WalkFits
  <2> QED
    BY <2>4, <2>6, <2>8, OtherCallsNext DEF ShapeInv
<1>6. ASSUME NEW o \in {"next", "prev", "erase_at"}, NEW k \in Keys, MoveIterator(o, k)
      PROVE  ShapeInv'
  <2>1. /\ LeafOf(k) \in DOMAIN leaf
        /\ call' = [pc |-> "climb", op |-> o, key |-> k, cur |-> leaf[LeafOf(k)].parent]
    BY <1>6 DEF MoveIterator
  <2>2. leaf[LeafOf(k)].parent \in Ptr
    BY <1>2, <2>1, PrefixHeapFacts
  <2>3. call' \in ClimbCall /\ call'.pc = "climb"
    BY <2>1, <2>2, OpTypes, ArgTypes DEF ClimbCall
  <2> QED
    BY <1>1, <2>3, CallParts, ToPlainCall DEF PlainPcs
<1>7. CASE MoveEnd
  <2>1. call' = [pc |-> "climb", op |-> "prev", key |-> NoPath, cur |-> Dummy]
    BY <1>7 DEF MoveEnd
  <2>2. call' \in ClimbCall /\ call'.pc = "climb"
    BY <2>1, OpTypes, ArgTypes, PointerKinds DEF ClimbCall
  <2> QED
    BY <1>1, <2>2, CallParts, ToPlainCall DEF PlainPcs
<1>8. CASE Begin
  <2>1. CASE root = Null
    <3>1. call' = Return("begin", NoPath, {}, FALSE)
      BY <1>8, <2>1 DEF Begin
    <3>2. call' \in Call /\ call'.pc = "return"
      BY <3>1, ReturnType, ArgTypes, OpTypes
    <3> QED
      BY <1>1, <3>2, ToPlainCall DEF PlainPcs
  <2>2. CASE root # Null
    <3>1. call' = [pc |-> "down", op |-> "begin", key |-> NoPath, cur |-> root]
      BY <1>8, <2>2 DEF Begin
    <3>2. call' \in DownCall /\ call'.pc = "down"
      BY <1>2, <3>1, ArgTypes DEF DownCall, DownOps, TypeOK
    <3> QED
      BY <1>1, <3>2, CallParts, ToPlainCall DEF PlainPcs
  <2> QED
    BY <2>1, <2>2
<1>9. CASE CallClear
  <2> DEFINE s == IF root = Null THEN <<>> ELSE <<[node |-> root, from |-> 0]>>
  <2>1. call' = [pc |-> "clear", stack |-> s]
    BY <1>9 DEF CallClear
  <2>2. s \in Seq(Frame)
    <3>1. [node |-> root, from |-> 0] \in Frame
      BY <1>2, SizesAssumption DEF TypeOK, Frame, Cap256
    <3> QED
      BY <3>1
  <2>3. call' \in ClearCall /\ call'.pc = "clear" /\ call'.stack = s
    BY <2>1, <2>2 DEF ClearCall
  <2>4. TypeOK'
    BY <1>1, <1>2, <2>3, CallParts, TypeKept
  <2>5. /\ root = Null => DOMAIN s = {}
        /\ root # Null => DOMAIN s = {1} /\ s[1].node = root /\ s[1].from = 0
    OBVIOUS
  <2>6. ASSUME NEW a \in Live  PROVE ToClear(inner, leaf, s, a)
    <3>1. CASE a = root
      <4>1. a # Null
        BY <1>2, AboveNode
      <4> QED
        BY <2>5, <3>1, <4>1 DEF ToClear
    <3>2. CASE a # root
      <4> DEFINE p == Par(inner, leaf, a)
      <4>1. InSlot(inner, leaf, a)
        BY <1>2, <3>2, AboveNode
      <4>2. PICK b \in Byte : inner[p].child[b] = a
        BY <4>1 DEF InSlot
      <4>3. p \in DOMAIN inner
        BY <4>1 DEF InSlot
      <4>4. a \in DOMAIN inner => Branch(inner[p]) < Branch(inner[a])
        BY <1>2, <4>3, NodeBelow
      <4>5. 0 =< b
        BY SizesAssumption DEF Byte
      <4>6. \A i \in DOMAIN s : s[i].node = p => s[i].from =< b
        BY <2>5, <4>5
      <4> HIDE DEF s, p
      <4>7. inner[p].child[b] = a /\ \A i \in DOMAIN s : s[i].node = p => s[i].from =< b
        BY <4>2, <4>6
      <4> QED
        BY <4>3, <4>4, <4>7 DEF ToClear, p
    <3> QED
      BY <3>1, <3>2
  <2>7. ClearFits'
    <3>1. Live' = Live
      BY <1>3 DEF Live
    <3> HIDE DEF s
    <3> QED
      BY <1>3, <2>3, <2>6, <3>1 DEF ClearFits
  <2> QED
    BY <2>3, <2>4, <2>7, OtherCallsNext DEF ShapeInv
<1> QED
  BY <1>4, <1>5, <1>6, <1>7, <1>8, <1>9 DEF Client

-----------------------------------------------------------------------------
(* Calls that walk down.                                                   *)

\* A leaf loaded for a prefix lies below the node the prefix belongs to.
LEMMA LoadDownShape == ASSUME ShapeInv, LoadDown  PROVE ShapeInv'
<1> DEFINE at == IF call.low = Null THEN call.cur ELSE call.low
           c  == Extreme("begin", inner[at])
<1>1. /\ call.pc = "walk" /\ call.cur \in DOMAIN inner /\ call.low \notin DOMAIN leaf
      /\ at \in DOMAIN inner /\ Occupied(inner[at]) # {}
      /\ call' = [call EXCEPT !.low = c] /\ UNCHANGED treeVars
  BY DEF LoadDown, AtNode, Walking
<1>2. /\ TypeOK /\ PrefixHeaps(inner, leaf) /\ Live = Nodes(inner, leaf)
      /\ Trie(inner, leaf, root) /\ Sized /\ WalkFits
  BY <1>1, ShapeBefore DEF ShapeInv
<1>3. call \in WalkCall /\ call.cur \in Live
  BY <1>1, WalkKnows DEF Live
<1>4. /\ Agree(at.path, call.cur.path, Branch(inner[call.cur]))
      /\ Branch(inner[call.cur]) =< Branch(inner[at])
      /\ Branch(inner[call.cur]) \in Nat /\ Branch(inner[at]) \in Nat
  <2>1. Branch(inner[call.cur]) \in Nat /\ Branch(inner[at]) \in Nat
    BY <1>1, <1>2, NodeBelow
  <2>2. CASE call.low = Null
    BY <2>1, <2>2 DEF Agree
  <2>3. CASE call.low # Null
    BY <1>1, <1>2, <2>1, <2>3 DEF WalkFits
  <2> QED
    BY <2>2, <2>3
<1> HIDE DEF at
<1>5. PICK b \in Byte : c = inner[at].child[b] /\ c # Null
  <2>1. inner[at] \in PrefixNode
    BY <1>1, <1>2, PrefixHeapFacts
  <2>2. Occupied(inner[at]) \in SUBSET Nat
    BY <2>1, PrefixOccupied
  <2>3. Min(Occupied(inner[at])) \in Occupied(inner[at])
    BY <1>1, <2>2, MinOfBytes
  <2>4. c = inner[at].child[Min(Occupied(inner[at]))]
    BY DEF Extreme, Backward
  <2> QED
    BY <2>3, <2>4 DEF Occupied
<1>6. Holds(inner, leaf, at, b, c)
  <2> HIDE DEF c
  <2> QED
    BY <1>1, <1>2, <1>5 DEF Trie
<1> HIDE DEF c
<1>7. c \in Live /\ Par(inner, leaf, c) = at /\ Agree(c.path, at.path, Branch(inner[at]))
  BY <1>2, <1>6 DEF Holds
<1>8. Agree(c.path, call.cur.path, Branch(inner[call.cur]))
  <2>1. Agree(c.path, at.path, Branch(inner[call.cur]))
    BY <1>4, <1>7, AgreeLess
  <2> QED
    BY <1>4, <2>1, AgreeTrans
<1>9. c \in DOMAIN inner => Branch(inner[call.cur]) =< Branch(inner[c])
  <2> SUFFICES ASSUME c \in DOMAIN inner  PROVE Branch(inner[call.cur]) =< Branch(inner[c])
    OBVIOUS
  <2>1. Branch(inner[at]) < Branch(inner[c]) /\ Branch(inner[c]) \in Nat
    BY <1>1, <1>2, <1>7, NodeBelow
  <2> QED
    BY <1>4, <2>1
<1>10. c \in Ptr
  BY <1>2, <1>7, AboveNode
<1>11. call' \in WalkCall
  BY <1>1, <1>3, <1>10 DEF WalkCall
<1>12. /\ call'.pc = "walk" /\ call'.low = c /\ call'.cur = call.cur /\ call'.prev = call.prev
       /\ call'.depth = call.depth /\ call'.key = call.key /\ call'.op = call.op
  BY <1>1, <1>3 DEF WalkCall
<1>13. inner' = inner /\ leaf' = leaf /\ root' = root /\ Live' = Live
  BY <1>1 DEF treeVars, Live
<1>14. Sized'
  <2>1. Short' = Short
    BY <1>1, <1>12 DEF Short
  <2> QED
    BY <1>2, <1>12, <1>13, <2>1, SizesKept
<1>15. TypeOK' /\ Whole'
  BY <1>1, <1>11, <1>14, CallParts, ShapeKept
<1>16. WalkFits'
  BY <1>1, <1>2, <1>7, <1>8, <1>9, <1>12, <1>13 DEF WalkFits
<1> QED
  BY <1>12, <1>15, <1>16, OtherCallsNext DEF ShapeInv

LEMMA PassPrefixShape == ASSUME ShapeInv, PassPrefix  PROVE ShapeInv'
<1> DEFINE d == call.depth + Here.plen
           c == Here.child[call.key[d]]
<1>1. /\ call.pc = "walk" /\ call.cur \in DOMAIN inner /\ AtNode(WalkOps) /\ Compared
      /\ Differing = {} /\ d \in Chunks
      /\ call' = [call EXCEPT !.prev = call.cur, !.depth = d + 1, !.low = Null, !.cur = c]
      /\ UNCHANGED treeVars
  BY DEF PassPrefix, AtNode, Walking
<1>2. /\ TypeOK /\ PrefixHeaps(inner, leaf) /\ Live = Nodes(inner, leaf)
      /\ Trie(inner, leaf, root) /\ Sized /\ root # Null
  BY <1>1, ShapeBefore DEF ShapeInv, WalkFits
<1>3. /\ call \in WalkCall /\ call.key \in Keys /\ call.cur \in Live /\ d = Branch(Here)
      /\ Here \in PrefixNode
  BY <1>1, WalkKnows DEF Live
<1>4. call.op # "find" => Agree(call.key, call.cur.path, d)
  BY <1>1, <1>3, Comparison
<1> HIDE DEF d
<1>5. call.key[d] \in Byte /\ c \in Ptr /\ Null \in Ptr
  <2>1. call.key[d] \in Byte
    BY <1>1, <1>3, KeyChunk
  <2> QED
    BY <1>3, <2>1, PrefixNodeFacts, PointerKinds
<1>6. c \in Live \cup {Null}
  <2> SUFFICES ASSUME c # Null  PROVE c \in Live
    OBVIOUS
  <2>1. Holds(inner, leaf, call.cur, call.key[d], c)
    BY <1>1, <1>2, <1>5 DEF Trie, Here
  <2> QED
    BY <1>2, <2>1 DEF Holds
<1>7. d \in Nat /\ d + 1 \in 0..KeyLen /\ (d + 1) - 1 = d /\ call.cur \in Ptr
  BY <1>1, <1>2, <1>3, KeyLenAssumption, AboveNode DEF Chunks
<1> HIDE DEF c
<1>8. call' \in WalkCall
  BY <1>1, <1>3, <1>5, <1>7 DEF WalkCall
<1>9. /\ call'.pc = "walk" /\ call'.low = Null /\ call'.cur = c /\ call'.prev = call.cur
      /\ call'.depth = d + 1 /\ call'.key = call.key /\ call'.op = call.op
  BY <1>1, <1>3 DEF WalkCall
<1>10. inner' = inner /\ leaf' = leaf /\ root' = root /\ Live' = Live
  BY <1>1 DEF treeVars, Live
<1>11. Sized'
  <2>1. Short = {}
    <3>1. call.cur # Null
      BY <1>2, <1>3, AboveNode
    <3> QED
      BY <1>1, <3>1 DEF Short
  <2> QED
    BY <1>2, <1>9, <1>10, <2>1, SizesKept
<1>12. TypeOK' /\ Whole'
  BY <1>1, <1>8, <1>11, CallParts, ShapeKept
<1>13. WalkFits'
  <2>1. /\ call'.prev \in DOMAIN inner'
        /\ call'.depth = Branch(inner'[call'.prev]) + 1
        /\ call'.cur = inner'[call'.prev].child[call'.key[call'.depth - 1]]
        /\ call'.op # "find" => Agree(call'.key, call'.prev.path, call'.depth - 1)
    BY <1>1, <1>3, <1>4, <1>7, <1>9, <1>10 DEF Here, c
  <2> QED
    BY <1>2, <1>6, <1>9, <1>10, <2>1 DEF WalkFits
<1> QED
  BY <1>9, <1>12, <1>13, OtherCallsNext DEF ShapeInv

WalkEnd == PrefixDiffers \/ FindEnds \/ BoundHits \/ BoundMisses \/ InsertDuplicate \/ EraseMisses

LEMMA WalkEndShape == ASSUME ShapeInv, WalkEnd  PROVE ShapeInv'
<1>1. call.pc = "walk" /\ UNCHANGED treeVars
  BY DEF WalkEnd, PrefixDiffers, FindEnds, BoundHits, BoundMisses, InsertDuplicate, EraseMisses,
         AtNode, AtLeaf, AtGap, Walking
<1>2. TypeOK /\ PrefixHeaps(inner, leaf)
  BY <1>1, ShapeBefore
<1>3. call \in WalkCall /\ call.key \in Keys /\ call.op \in WalkOps /\ call.prev \in Ptr
      /\ call.op \in Ops
  BY <1>1, <1>2, CallShape, OpTypes DEF TypeOK, WalkCall
<1>4. Short = {}
  <2>1. call.op \notin InsertOps \/ call.cur # Null
    <3>1. CASE InsertDuplicate
      BY <1>2, <3>1, PrefixHeapFacts DEF InsertDuplicate, AtLeaf, Walking, Nodes
    <3>2. CASE PrefixDiffers
      BY <3>2 DEF PrefixDiffers, AtNode, Walking
    <3>3. CASE FindEnds \/ BoundHits \/ BoundMisses \/ EraseMisses
      BY <3>3, OpTypes DEF FindEnds, BoundHits, BoundMisses, EraseMisses, AtLeaf, AtGap, Walking
    <3> QED
      BY <3>1, <3>2, <3>3 DEF WalkEnd
  <2> QED
    BY <1>1, <2>1 DEF Short
<1>5. call' \in Call /\ call'.pc \in {"return", "climb"}
  <2>1. CASE PrefixDiffers
    <3>1. call' = Return(call.op, call.key, {}, FALSE)
      BY <2>1 DEF PrefixDiffers
    <3> QED
      BY <1>3, <3>1, ReturnType, ArgTypes
  <2>2. CASE FindEnds
    <3>1. call' = Return("find", call.key, IF Matches THEN {call.key} ELSE {}, FALSE)
      BY <2>2 DEF FindEnds
    <3> QED
      BY <1>3, <3>1, ReturnType, ArgTypes, OpTypes
  <2>3. CASE BoundHits
    <3>1. call' = Return(call.op, call.key, {call.cur.path}, FALSE) /\ call.cur \in DOMAIN leaf
      BY <2>3 DEF BoundHits, AtLeaf
    <3>2. call.cur.path \in Keys
      BY <1>2, <3>1, PrefixHeapFacts
    <3> QED
      BY <1>3, <3>1, <3>2, ReturnType, ArgTypes
  <2>4. CASE BoundMisses
    <3>1. call' = [pc |-> "climb", op |-> call.op, key |-> call.key, cur |-> call.prev]
          /\ call.op \in BoundOps
      BY <2>4 DEF BoundMisses, AtLeaf, AtGap, Walking
    <3>2. call' \in ClimbCall /\ call'.pc = "climb"
      BY <1>3, <3>1, OpTypes, ArgTypes DEF ClimbCall
    <3> QED
      BY <3>2, CallParts
  <2>5. CASE InsertDuplicate
    <3>1. call' = Return(call.op, call.key, {call.key}, FALSE)
      BY <2>5 DEF InsertDuplicate
    <3> QED
      BY <1>3, <3>1, ReturnType, ArgTypes
  <2>6. CASE EraseMisses
    <3>1. call' = Return("erase", call.key, {}, FALSE)
      BY <2>6 DEF EraseMisses
    <3> QED
      BY <1>3, <3>1, ReturnType, ArgTypes, OpTypes
  <2> QED
    BY <2>1, <2>2, <2>3, <2>4, <2>5, <2>6 DEF WalkEnd
<1> QED
  BY <1>1, <1>4, <1>5, ToPlainCall DEF PlainPcs

\* An empty slot to which the key leads.
LEMMA FillGapShape == ASSUME ShapeInv, FillGap  PROVE ShapeInv'
<1>1. /\ call.pc = "walk" /\ call.op \in InsertOps /\ call.cur = Null
      /\ call.prev \in DOMAIN inner /\ call.depth - 1 \in Chunks
      /\ call' = [pc |-> "link", op |-> call.op, key |-> call.key, value |-> call.value,
                  node |-> call.prev, chunk |-> call.depth - 1]
      /\ UNCHANGED treeVars
  BY DEF FillGap, AtGap, Walking, ThenLink
<1>2. /\ TypeOK /\ PrefixHeaps(inner, leaf) /\ Trie(inner, leaf, root) /\ Sized /\ WalkFits
  BY <1>1, ShapeBefore DEF ShapeInv
<1>3. call \in WalkCall
  BY <1>1, <1>2, CallShape DEF TypeOK
<1>4. /\ call.depth = Branch(inner[call.prev]) + 1
      /\ call.cur = inner[call.prev].child[call.key[call.depth - 1]]
      /\ Agree(call.key, call.prev.path, call.depth - 1)
  <2>1. call.prev \notin {Dummy, Null} /\ call.op # "find"
    BY <1>1, <1>2, PrefixHeapFacts, OpTypes DEF Nodes
  <2> QED
    BY <1>1, <1>2, <2>1 DEF WalkFits
<1>5. Branch(inner[call.prev]) \in Nat /\ call.depth - 1 = Branch(inner[call.prev])
  BY <1>1, <1>2, <1>4, NodeBelow
<1>6. call' \in LinkCall
  BY <1>1, <1>3 DEF LinkCall, WalkCall
<1>7. /\ call'.pc = "link" /\ call'.node = call.prev /\ call'.chunk = call.depth - 1
      /\ call'.key = call.key
  BY <1>1
<1>8. inner' = inner /\ leaf' = leaf /\ root' = root
  BY <1>1 DEF treeVars
<1>9. Sized'
  <2>1. Short = {call.prev} /\ Short' = {call.prev}
    BY <1>1, <1>7 DEF Short
  <2> QED
    BY <1>2, <1>7, <1>8, <2>1, SizesKept
<1>10. TypeOK' /\ Whole'
  BY <1>1, <1>6, <1>9, CallParts, ShapeKept
<1>11. LinkFits'
  BY <1>1, <1>4, <1>5, <1>7, <1>8 DEF LinkFits
<1> QED
  BY <1>7, <1>10, <1>11, OtherCallsNext DEF ShapeInv

-----------------------------------------------------------------------------
(* Calls that move from node to node.                                      *)

MoveStep == Climb \/ ClimbPastTop \/ GoDown \/ ArriveAtLeaf \/ Resume

LEMMA MoveShape == ASSUME ShapeInv, MoveStep  PROVE ShapeInv'
<1>1. call.pc \in {"climb", "down", "return"} /\ UNCHANGED treeVars /\ Short = {}
  BY NotShort DEF MoveStep, Climb, ClimbPastTop, GoDown, ArriveAtLeaf, Resume
<1>2. TypeOK /\ PrefixHeaps(inner, leaf)
  BY <1>1, ShapeBefore
<1>3. ASSUME NEW o \in ClimbOps, NEW k \in KeyArg, NEW at \in Position, Arrive(o, k, at)
      PROVE  call' \in Call /\ call'.pc \in PlainPcs
  <2>1. CASE o = "erase_at"
    <3>1. call' \in UnlinkCall /\ call'.pc = "unlink"
      BY <1>3, <2>1 DEF Arrive, UnlinkCall
    <3> QED
      BY <3>1, CallParts DEF PlainPcs
  <2>2. CASE o # "erase_at"
    <3>1. call' = Return(o, k, at, FALSE)
      BY <1>3, <2>2 DEF Arrive
    <3> QED
      BY <3>1, ReturnType, OpTypes DEF PlainPcs
  <2> QED
    BY <2>1, <2>2
<1>4. CASE Climb
  <2> DEFINE n    == inner[call.cur]
             next == Beyond(call.op, call.key[Branch(n)], n)
  <2>1. /\ call \in ClimbCall /\ call.pc = "climb" /\ n \in PrefixNode
        /\ call.cur \in DOMAIN inner
    BY <1>2, <1>4, CallShape, PrefixHeapFacts DEF Climb, TypeOK
  <2>2. CASE next = {}
    <3>1. call' = [call EXCEPT !.cur = n.parent]
      BY <1>4, <2>2 DEF Climb
    <3>2. call' \in ClimbCall /\ call'.pc = "climb"
      BY <2>1, <3>1, PrefixNodeFacts DEF ClimbCall
    <3> QED
      BY <1>1, <3>2, CallParts, ToPlainCall DEF PlainPcs
  <2>3. CASE next # {}
    <3> DEFINE b == IF Backward(call.op) THEN Max(next) ELSE Min(next)
    <3>1. call' = [pc |-> "down", op |-> call.op, key |-> call.key, cur |-> n.child[b]]
      BY <1>4, <2>3 DEF Climb
    <3>2. next \in SUBSET Byte /\ next \in SUBSET Nat /\ MaxByte \in Nat /\ next \in SUBSET (0..MaxByte)
      BY SizesAssumption DEF Beyond, Occupied, Byte
    <3>3. b \in Byte
      <4> HIDE DEF next
      <4>1. Min(next) \in next /\ Max(next) \in next
        BY <2>3, <3>2, MinOfBytes, MaxOfBytes
      <4> QED
        BY <3>2, <4>1
    <3> HIDE DEF b
    <3>4. call' \in DownCall /\ call'.pc = "down"
      BY <2>1, <3>1, <3>3, PrefixNodeFacts, OpTypes DEF DownCall, ClimbCall
    <3> QED
      BY <1>1, <3>4, CallParts, ToPlainCall DEF PlainPcs
  <2> QED
    BY <2>2, <2>3
<1>5. CASE ClimbPastTop
  <2>1. call \in ClimbCall
    BY <1>2, <1>5, CallShape DEF ClimbPastTop, TypeOK
  <2>2. CASE Backward(call.op) /\ dummyRoot # Null
    <3>1. call' = [pc |-> "down", op |-> call.op, key |-> call.key, cur |-> dummyRoot]
      BY <1>5, <2>2 DEF ClimbPastTop
    <3>2. call' \in DownCall /\ call'.pc = "down"
      BY <1>2, <2>1, <3>1, OpTypes DEF DownCall, ClimbCall, TypeOK
    <3> QED
      BY <1>1, <3>2, CallParts, ToPlainCall DEF PlainPcs
  <2>3. CASE ~ (Backward(call.op) /\ dummyRoot # Null)
    <3>1. Arrive(call.op, call.key, {}) /\ call.op \in ClimbOps /\ call.key \in KeyArg
      BY <1>5, <2>1, <2>3 DEF ClimbPastTop, ClimbCall
    <3>2. call' \in Call /\ call'.pc \in PlainPcs
      BY <1>3, <3>1, ArgTypes
    <3> QED
      BY <1>1, <3>2, ToPlainCall
  <2> QED
    BY <2>2, <2>3
<1>6. CASE GoDown
  <2> DEFINE n == inner[call.cur]
  <2>1. /\ call \in DownCall /\ call.pc = "down" /\ n \in PrefixNode /\ Occupied(n) # {}
        /\ call' = [call EXCEPT !.cur = Extreme(call.op, n)]
    BY <1>2, <1>6, CallShape, PrefixHeapFacts DEF GoDown, TypeOK
  <2>2. Extreme(call.op, n) \in Ptr
    <3>1. /\ Occupied(n) \in SUBSET Nat /\ MaxByte \in Nat /\ Occupied(n) \in SUBSET (0..MaxByte)
          /\ Occupied(n) \in SUBSET Byte
      BY SizesAssumption DEF Occupied, Byte
    <3>2. Min(Occupied(n)) \in Byte /\ Max(Occupied(n)) \in Byte
      BY <2>1, <3>1, MinOfBytes, MaxOfBytes
    <3> QED
      BY <2>1, <3>2, PrefixNodeFacts DEF Extreme
  <2>3. call' \in DownCall /\ call'.pc = "down"
    BY <2>1, <2>2 DEF DownCall
  <2> QED
    BY <1>1, <2>3, CallParts, ToPlainCall DEF PlainPcs
<1>7. CASE ArriveAtLeaf
  <2>1. call \in DownCall /\ call.cur \in DOMAIN leaf /\ Arrive(call.op, call.key, {call.cur.path})
    BY <1>2, <1>7, CallShape DEF ArriveAtLeaf, TypeOK
  <2>2. {call.cur.path} \in Position /\ call.op \in DownOps /\ call.key \in KeyArg
    BY <1>2, <2>1, PrefixHeapFacts, ArgTypes DEF DownCall
  <2>3. CASE call.op \in ClimbOps
    <3>1. call' \in Call /\ call'.pc \in PlainPcs
      BY <1>3, <2>1, <2>2, <2>3
    <3> QED
      BY <1>1, <3>1, ToPlainCall
  <2>4. CASE call.op \notin ClimbOps
    <3>1. call.op # "erase_at" /\ call.op \in Ops
      BY <2>2, <2>4, OpTypes
    <3>2. call' = Return(call.op, call.key, {call.cur.path}, FALSE)
      BY <2>1, <3>1 DEF Arrive
    <3>3. call' \in Call /\ call'.pc = "return"
      BY <2>2, <3>1, <3>2, ReturnType
    <3> QED
      BY <1>1, <3>3, ToPlainCall DEF PlainPcs
  <2> QED
    BY <2>3, <2>4
<1>8. CASE Resume
  <2>1. call' \in Call /\ call'.pc = "idle"
    BY <1>8, CallParts DEF Resume, Idle
  <2> QED
    BY <1>1, <2>1, ToPlainCall DEF PlainPcs
<1> QED
  BY <1>4, <1>5, <1>6, <1>7, <1>8 DEF MoveStep

-----------------------------------------------------------------------------
(* Leaves linked and unlinked.                                             *)

\* How the capacities of neighbouring layouts fit together.
LEMMA SizeNumbers ==
    ASSUME NEW t \in InnerTypes
    PROVE  /\ MinSize(t) \in Nat /\ MaxSize(t) \in Nat /\ 2 =< MinSize(t) /\ MinSize(t) =< MaxSize(t)
           /\ t # "node_256" => MinSize(Grown(t)) = MaxSize(t) + 1
           /\ t # "node_4" => MinSize(t) = MaxSize(Shrunk(t)) + 1
           /\ MinSize("node_4") = 2
           /\ Grown(t) \in InnerTypes /\ Shrunk(t) \in InnerTypes
BY SizesAssumption DEF InnerTypes, MinSize, MaxSize, Grown, Shrunk, Cap256

LEMMA AddrType ==
    ASSUME NEW a \in InnerAddr
    PROVE  a.type \in InnerTypes /\ a.path \in Paths /\ a = [type |-> a.type, path |-> a.path]
BY DEF InnerAddr

\* The parts of the invariant that look at one node at a time, for a node that
\* kept its fields.
LEMMA KeptAlike ==
    ASSUME NEW n, NEW m, m.depth = n.depth, m.plen = n.plen, m.prefix = n.prefix
    PROVE  Branch(m) = Branch(n) /\ StoredLength(m) = StoredLength(n)
           /\ \A p : Kept(n, p) => Kept(m, p)
BY DEF Branch, StoredLength, Kept

LEMMA LinkLeafShape == ASSUME ShapeInv, LinkLeaf  PROVE ShapeInv'
<1> DEFINE k == call.key
           n == call.node
           l == LeafOf(call.key)
           new == [parent |-> n, value |-> call.value]
<1>1. /\ call.pc = "link" /\ l \notin DOMAIN leaf /\ leaf' = Allocate(leaf, l, new)
      /\ count' = count + 1 /\ call' = Return(call.op, k, {k}, TRUE)
  BY DEF LinkLeaf
<1>2. /\ TypeOK /\ PrefixHeaps(inner, leaf) /\ Trie(inner, leaf, root) /\ Sized /\ LinkFits
      /\ Kepts(inner) /\ Counted(inner)
  BY <1>1, ShapeBefore DEF ShapeInv
<1>3. call \in LinkCall
  BY <1>1, <1>2, CallShape DEF TypeOK
<1>4. k \in Keys /\ call.value \in Values /\ n \in Ptr /\ call.op \in Ops /\ {k} \in Position
  BY <1>3, OpTypes, ArgTypes DEF LinkCall
<1>5. l \in LeafAddr /\ l \in Ptr /\ l # Null /\ new \in LeafNode
  BY <1>4, LeafOfType, PointerKinds DEF LeafNode
<1>6. IsHeap(leaf', LeafAddr, LeafNode)
  BY <1>1, <1>2, <1>5, AllocateHeap DEF PrefixHeaps
<1>7. call' \in Call /\ call'.pc = "return"
  BY <1>1, <1>4, ReturnType, ArgTypes
<1>8. count' \in Int
  BY <1>1, <1>2 DEF TypeOK
<1>9. Dummy \notin DOMAIN inner
  BY <1>2, PrefixHeapFacts DEF Nodes
<1>10. Short = {n} /\ Short' = {}
  BY <1>1, <1>7 DEF Short
<1>11. CASE n = Dummy
  <2>1. inner' = inner /\ root' = l /\ dummyRoot' = l /\ root = Null
    BY <1>1, <1>2, <1>9, <1>11 DEF LinkLeaf, LinkFits
  <2>2. IsHeap(inner', InnerAddr, PrefixNode) /\ \A a \in DOMAIN inner' : Branch(inner'[a]) \in Chunks
    BY <1>2, <2>1 DEF TypeOK
  <2>3. TypeOK'
    BY <1>5, <1>6, <1>7, <1>8, <2>1, <2>2 DEF TypeOK
  <2>4. Trie(inner, Allocate(leaf, LeafOf(call.key), [parent |-> Dummy, value |-> call.value]),
             LeafOf(call.key))
    BY <1>1, <1>2, <1>4, <2>1, TrieRootAdded
  <2>5. Trie(inner', leaf', root')
    BY <1>1, <1>11, <2>1, <2>4
  <2>6. Sized'
    BY <1>2, <1>7, <1>9, <1>10, <1>11, <2>1 DEF Sized, SizeFits
  <2>7. Whole'
    BY <1>2, <2>1, <2>5, <2>6 DEF Whole
  <2> QED
    BY <1>7, <2>3, <2>7, OtherCallsNext DEF ShapeInv
<1>12. CASE n # Dummy
  <2> DEFINE d == Branch(inner[n])
             m == InsertChild(inner[n], k[d], l)
  <2>1. /\ n \in DOMAIN inner /\ call.chunk = d /\ Agree(k, n.path, d)
        /\ inner[n].child[k[d]] = Null
    BY <1>1, <1>2, <1>12 DEF LinkFits
  <2>2. /\ inner[n].count < MaxSize(n.type)
        /\ inner' = [inner EXCEPT ![n] = InsertChild(inner[n], k[d], l)]
        /\ root' = root /\ dummyRoot' = dummyRoot
    <3>1. /\ inner[n].count < MaxSize(n.type)
          /\ LET j == IF call.op = "insert" THEN call.chunk ELSE Branch(inner[call.node])
             IN  inner' = [inner EXCEPT ![call.node] =
                              InsertChild(@, call.key[j], LeafOf(call.key))]
          /\ root' = root /\ dummyRoot' = dummyRoot
      BY <1>12 DEF LinkLeaf
    <3>2. (IF call.op = "insert" THEN call.chunk ELSE Branch(inner[call.node])) = d
      BY <2>1
    <3> QED
      BY <3>1, <3>2
  <2>3. inner[n] \in PrefixNode /\ d \in Chunks /\ k[d] \in Byte /\ n \in InnerAddr
    BY <1>2, <1>4, <2>1, NodeBelow, KeyChunk, PrefixHeapFacts
  <2>4. /\ m \in PrefixNode /\ m.depth = inner[n].depth /\ m.plen = inner[n].plen
        /\ m.prefix = inner[n].prefix /\ m.count = inner[n].count + 1
        /\ Cardinality(Occupied(m)) = Cardinality(Occupied(inner[n])) + 1
    BY <1>5, <2>1, <2>3, Inserted
  <2>5. Trie([inner EXCEPT ![n] = InsertChild(inner[n], k[Branch(inner[n])], LeafOf(k))],
             Allocate(leaf, LeafOf(k), [parent |-> n, value |-> call.value]), root)
    BY <1>1, <1>2, <1>4, <2>1, TrieLeafAdded
  <2>6. Trie(inner', leaf', root')
    BY <1>1, <2>2, <2>5
  <2> HIDE DEF m
  <2>7. /\ DOMAIN inner' = DOMAIN inner /\ inner'[n] = m
        /\ \A a \in DOMAIN inner : a # n => inner'[a] = inner[a]
    BY <2>1, <2>2 DEF m
  <2>8. IsHeap(inner', InnerAddr, PrefixNode)
    <3>1. inner' = [inner EXCEPT ![n] = m]
      BY <2>2 DEF m
    <3> QED
      BY <1>2, <2>4, <3>1, WriteHeap DEF PrefixHeaps
  <2>9. \A a \in DOMAIN inner' : Branch(inner'[a]) \in Chunks /\ Kept(inner'[a], a.path)
    <3>1. Branch(m) = d /\ Kept(m, n.path)
      BY <1>2, <2>1, <2>4, KeptAlike DEF Kepts
    <3> QED
      BY <1>2, <2>3, <2>7, <3>1 DEF Kepts, TypeOK
  <2>10. TypeOK'
    BY <1>2, <1>6, <1>7, <1>8, <2>2, <2>8, <2>9 DEF TypeOK
  <2>11. Counted(inner')
    BY <1>2, <2>1, <2>4, <2>7 DEF Counted
  <2>12. Sized'
    <3>1. MinSize(n.type) \in Nat /\ MaxSize(n.type) \in Nat /\ MinSize(n.type) =< MaxSize(n.type)
      BY <2>3, AddrType, SizeNumbers
    <3>2. inner[n].count \in Int
      BY <2>3, PrefixNodeFacts
    <3>3. inner[n].count \in MinSize(n.type)..MaxSize(n.type) \/ inner[n].count = MinSize(n.type) - 1
      BY <1>2, <2>1 DEF Sized, SizeFits, OneShort
    <3>4. inner'[n].count \in MinSize(n.type)..MaxSize(n.type)
      BY <2>2, <2>4, <2>7, <3>1, <3>2, <3>3
    <3> QED
      BY <1>2, <1>10, <2>7, <3>4 DEF Sized, SizeFits
  <2>13. Whole'
    BY <2>6, <2>9, <2>11, <2>12 DEF Whole, Kepts
  <2> QED
    BY <1>7, <2>10, <2>13, OtherCallsNext DEF ShapeInv
<1> QED
  BY <1>11, <1>12

\* The only element goes.
LEMMA RootErased ==
    ASSUME ShapeInv, call.pc # "clear", Short = {}, DropRoot, call' \in Call, call'.pc = "return"
    PROVE  ShapeInv'
<1>1. /\ root \in DOMAIN leaf /\ leaf' = Free(leaf, root) /\ root' = Null
      /\ count' = count - 1 /\ inner' = inner /\ dummyRoot' = dummyRoot
  BY DEF DropRoot
<1>2. /\ TypeOK /\ PrefixHeaps(inner, leaf) /\ Trie(inner, leaf, root) /\ Sized
      /\ Kepts(inner) /\ Counted(inner)
  BY ShapeBefore
<1>3. IsHeap(leaf', LeafAddr, LeafNode)
  BY <1>1, <1>2, FreeHeap DEF PrefixHeaps
<1>4. IsHeap(inner', InnerAddr, PrefixNode) /\ \A a \in DOMAIN inner' : Branch(inner'[a]) \in Chunks
  BY <1>1, <1>2 DEF TypeOK
<1>5. TypeOK'
  BY <1>1, <1>2, <1>3, <1>4, PointerKinds DEF TypeOK
<1>6. Trie(inner', leaf', root')
  BY <1>1, <1>2, TrieRootDropped
<1>7. Sized'
  BY <1>1, <1>2, SizesKept
<1>8. Whole'
  BY <1>1, <1>2, <1>6, <1>7 DEF Whole
<1> QED
  BY <1>5, <1>8, OtherCallsNext DEF ShapeInv

\* A leaf goes from its slot, and its node may now be a child short.
LEMMA LeafErased ==
    ASSUME ShapeInv, call.pc # "clear", Short = {},
           NEW o \in EraseOps, NEW n \in DOMAIN inner, NEW j, j = Branch(inner[n]),
           NEW k \in Keys, NEW at \in Position, Agree(k, n.path, Branch(inner[n])),
           DropLeaf(o, n, j, k, at)
    PROVE  ShapeInv'
<1> DEFINE b == k[j]
           m == EraseChild(inner[n], b)
<1>1. /\ j \in Chunks /\ inner[n].child[b] \in DOMAIN leaf
      /\ leaf' = Free(leaf, inner[n].child[b])
      /\ inner' = [inner EXCEPT ![n] = EraseChild(inner[n], b)]
      /\ count' = count - 1 /\ root' = root /\ dummyRoot' = dummyRoot
      /\ call' = [pc |-> "shrink", op |-> o, key |-> k, at |-> at, node |-> n]
  BY DEF DropLeaf
<1>2. /\ TypeOK /\ PrefixHeaps(inner, leaf) /\ Trie(inner, leaf, root) /\ Sized
      /\ Kepts(inner) /\ Counted(inner)
  BY ShapeBefore
<1>3. b \in Byte /\ inner[n] \in PrefixNode /\ n \in InnerAddr /\ inner[n].child[b] # Null
      /\ n \in Ptr
  BY <1>1, <1>2, KeyChunk, PrefixHeapFacts DEF Nodes
<1>4. /\ m \in PrefixNode /\ m.depth = inner[n].depth /\ m.plen = inner[n].plen
      /\ m.prefix = inner[n].prefix /\ m.count = inner[n].count - 1
      /\ Cardinality(Occupied(m)) = Cardinality(Occupied(inner[n])) - 1
  BY <1>3, Emptied
<1>5. IsHeap(leaf', LeafAddr, LeafNode)
  BY <1>1, <1>2, FreeHeap DEF PrefixHeaps
<1> HIDE DEF b
<1>6. Trie([inner EXCEPT ![n] = EraseChild(inner[n], b)], Free(leaf, inner[n].child[b]), root)
  BY <1>1, <1>2, <1>3, TrieLeafDropped
<1>7. Trie(inner', leaf', root')
  BY <1>1, <1>6
<1> HIDE DEF m
<1>8. /\ DOMAIN inner' = DOMAIN inner /\ inner'[n] = m
      /\ \A a \in DOMAIN inner : a # n => inner'[a] = inner[a]
  BY <1>1 DEF m
<1>9. IsHeap(inner', InnerAddr, PrefixNode)
  <2>1. inner' = [inner EXCEPT ![n] = m]
    BY <1>1 DEF m
  <2> QED
    BY <1>2, <1>4, <2>1, WriteHeap DEF PrefixHeaps
<1>10. Branch(m) = Branch(inner[n])
  BY <1>4, KeptAlike
<1>11. \A a \in DOMAIN inner' : Branch(inner'[a]) \in Chunks /\ Kept(inner'[a], a.path)
  <2>1. Kept(m, n.path)
    BY <1>2, <1>4, KeptAlike DEF Kepts
  <2> QED
    BY <1>2, <1>8, <1>10, <2>1 DEF Kepts, TypeOK
<1>12. call' \in FixCall /\ call'.pc = "shrink" /\ call'.node = n /\ call'.key = k
  BY <1>1, <1>3, ArgTypes DEF FixCall
<1>13. TypeOK'
  <2>1. count' \in Int
    BY <1>1, <1>2 DEF TypeOK
  <2> QED
    BY <1>1, <1>2, <1>5, <1>9, <1>11, <1>12, <2>1, CallParts DEF TypeOK
<1>14. Counted(inner')
  BY <1>2, <1>4, <1>8 DEF Counted
<1>15. Sized'
  <2>1. MinSize(n.type) \in Nat /\ MaxSize(n.type) \in Nat
    BY <1>3, AddrType, SizeNumbers
  <2>2. inner[n].count \in MinSize(n.type)..MaxSize(n.type)
    BY <1>2 DEF Sized, SizeFits
  <2>3. m.count \in MinSize(n.type)..MaxSize(n.type) \/ m.count = MinSize(n.type) - 1
    BY <1>4, <2>1, <2>2
  <2>4. Short' = {n}
    BY <1>12 DEF Short
  <2>5. SizeFits(inner', n) \/ OneShort(inner', n)
    BY <1>8, <2>3 DEF SizeFits, OneShort
  <2>6. \A a \in DOMAIN inner : a # n => SizeFits(inner', a)
    BY <1>2, <1>8 DEF Sized, SizeFits
  <2> QED
    BY <1>8, <1>12, <2>4, <2>5, <2>6 DEF Sized
<1>16. Whole'
  BY <1>7, <1>11, <1>14, <1>15 DEF Whole, Kepts
<1>17. FixFits'
  BY <1>8, <1>10, <1>12 DEF FixFits
<1> QED
  BY <1>12, <1>13, <1>16, <1>17, OtherCallsNext DEF ShapeInv

LEMMA EraseShape ==
    ASSUME ShapeInv, EraseRoot \/ EraseLeaf \/ UnlinkRoot \/ UnlinkLeaf
    PROVE  ShapeInv'
<1>1. CASE EraseRoot \/ EraseLeaf
  <2>1. call.pc = "walk" /\ call.op = "erase" /\ call.cur \in DOMAIN leaf /\ call.cur = LeafOf(call.key)
    BY <1>1 DEF EraseRoot, EraseLeaf, AtLeaf, Walking, Matches
  <2>2. /\ TypeOK /\ PrefixHeaps(inner, leaf) /\ Trie(inner, leaf, root)
    BY <2>1, ShapeBefore
  <2>3. call.key \in Keys /\ call.cur \in Live
    BY <2>1, WalkKnows DEF Live
  <2>4. Short = {}
    BY <2>1, OpTypes DEF Short
  <2>5. CASE EraseRoot
    <3>1. DropRoot /\ call' = Return("erase", call.key, {}, TRUE)
      BY <2>5 DEF EraseRoot
    <3>2. call' \in Call /\ call'.pc = "return"
      BY <2>3, <3>1, ReturnType, ArgTypes, OpTypes
    <3> QED
      BY <2>1, <2>4, <3>1, <3>2, RootErased
  <2>6. CASE EraseLeaf
    <3>1. call.cur # root /\ DropLeaf("erase", call.prev, call.depth - 1, call.key, {})
      BY <2>6 DEF EraseLeaf
    <3>2. /\ call.prev \in DOMAIN inner /\ call.prev = Par(inner, leaf, call.cur)
          /\ call.depth = Branch(inner[call.prev]) + 1
          /\ Agree(call.key, call.cur.path, call.depth)
      BY <2>1, <2>3, <3>1, WalkKnows
    <3>3. Branch(inner[call.prev]) \in Nat /\ call.depth - 1 = Branch(inner[call.prev])
      BY <2>2, <3>2, NodeBelow
    <3>4. Agree(call.cur.path, call.prev.path, Branch(inner[call.prev]))
      BY <2>2, <2>3, <3>1, <3>2, OnlySlot DEF Live, Nodes
    <3>5. call.cur.path = call.key
      BY <2>1 DEF LeafOf
    <3> QED
      BY <2>1, <2>3, <2>4, <3>1, <3>2, <3>3, <3>4, <3>5, LeafErased, OpTypes, ArgTypes
  <2> QED
    BY <1>1, <2>5, <2>6
<1>2. CASE UnlinkRoot \/ UnlinkLeaf
  <2>1. call.pc = "unlink"
    BY <1>2 DEF UnlinkRoot, UnlinkLeaf
  <2>2. /\ TypeOK /\ PrefixHeaps(inner, leaf) /\ Trie(inner, leaf, root)
    BY <2>1, ShapeBefore
  <2>3. call \in UnlinkCall /\ Short = {}
    BY <2>1, <2>2, CallShape, NotShort DEF TypeOK
  <2>4. call.key \in KeyArg /\ call.at \in Position
    BY <2>3 DEF UnlinkCall
  <2>5. CASE UnlinkRoot
    <3>1. DropRoot /\ call' = Return("erase_at", call.key, call.at, TRUE)
      BY <2>5 DEF UnlinkRoot
    <3>2. call' \in Call /\ call'.pc = "return"
      BY <2>4, <3>1, ReturnType, OpTypes
    <3> QED
      BY <2>1, <2>3, <3>1, <3>2, RootErased
  <2>6. CASE UnlinkLeaf
    <3> DEFINE l == LeafOf(call.key)
               n == leaf[l].parent
    <3>1. /\ l # root /\ l \in DOMAIN leaf /\ n \in DOMAIN inner
          /\ DropLeaf("erase_at", n, Branch(inner[n]), call.key, call.at)
      BY <2>6 DEF UnlinkLeaf
    <3>2. l.path = call.key /\ l.path \in Keys
      BY <2>2, <3>1, PrefixHeapFacts DEF LeafOf
    <3>3. Par(inner, leaf, l) = n /\ l \in Nodes(inner, leaf)
      BY <3>1 DEF Par, Nodes
    <3> HIDE DEF l, n
    <3>4. Agree(l.path, n.path, Branch(inner[n]))
      BY <2>2, <3>1, <3>3, OnlySlot
    <3>5. Agree(call.key, n.path, Branch(inner[n])) /\ call.key \in Keys
      BY <3>2, <3>4
    <3> QED
      BY <2>1, <2>3, <2>4, <3>1, <3>5, LeafErased, OpTypes
  <2> QED
    BY <1>2, <2>5, <2>6
<1> QED
  BY <1>1, <1>2

-----------------------------------------------------------------------------
(* Steps that change what hangs where.                                     *)

\* A node that has at most another parent.
Alike(n, m) == /\ m.depth = n.depth /\ m.plen = n.plen /\ m.prefix = n.prefix
               /\ m.count = n.count /\ m.child = n.child

\* What update_child_ptr at the parent p of x is given: heap h, in which p
\* has the slots it had, and a key that leads to the slot of x.
Pointable(x, p, h, k) ==
    /\ x \in Nodes(inner, leaf) /\ p = Par(inner, leaf, x) /\ IsHeap(h, InnerAddr, PrefixNode)
    /\ p \in DOMAIN inner => /\ p \in DOMAIN h /\ Alike(inner[p], h[p])
                             /\ k[Branch(inner[p])] = x.path[Branch(inner[p])]

\* The slot of x, or the root, now holds y, and nothing else is written.
LEMMA PointedTo ==
    ASSUME TypeOK, Trie(inner, leaf, root), NEW x, NEW y \in Ptr, y # Null, NEW p, NEW h, NEW k,
           Pointable(x, p, h, k), PointTo(h, p, k, y)
    PROVE  /\ DOMAIN inner' = DOMAIN h /\ IsHeap(inner', InnerAddr, PrefixNode)
           /\ \A a \in DOMAIN h : a # p => inner'[a] = h[a]
           /\ \A a \in DOMAIN h : inner'[a].parent = h[a].parent
           /\ \A a \in DOMAIN h : a \in DOMAIN inner /\ Alike(inner[a], h[a]) =>
                                      SameNode(inner[a], inner'[a], x, y)
           /\ root' = Subst(root, x, y) /\ root' \in Ptr /\ dummyRoot' \in Ptr
<1>1. /\ x \in Nodes(inner, leaf) /\ p = Par(inner, leaf, x) /\ IsHeap(h, InnerAddr, PrefixNode)
      /\ p \in DOMAIN inner => /\ p \in DOMAIN h /\ Alike(inner[p], h[p])
                               /\ k[Branch(inner[p])] = x.path[Branch(inner[p])]
  BY DEF Pointable
<1>2. PrefixHeaps(inner, leaf) /\ root \in Ptr /\ dummyRoot \in Ptr
  BY TypedHeaps DEF TypeOK
<1>3. /\ x # Null /\ (x = root <=> p = Dummy) /\ (p = Dummy \/ p \in DOMAIN inner)
      /\ Dummy \notin DOMAIN inner
  BY <1>1, <1>2, AboveNode, PrefixHeapFacts DEF Nodes
<1>4. /\ \A a \in DOMAIN inner, b \in Byte :
             inner[a].child[b] = x => a = p /\ b = x.path[Branch(inner[a])]
      /\ x # root => /\ x.path[Branch(inner[p])] \in Byte
                     /\ inner[p].child[x.path[Branch(inner[p])]] = x
  BY <1>1, <1>2, OnlySlot
<1>5. CASE p = Dummy
  <2>1. inner' = h /\ root' = y /\ dummyRoot' = y
    BY <1>5 DEF PointTo
  <2>2. ASSUME NEW a \in DOMAIN h, a \in DOMAIN inner, Alike(inner[a], h[a])
        PROVE  SameNode(inner[a], inner'[a], x, y)
    <3>1. \A b \in Byte : inner[a].child[b] # x
      BY <1>3, <1>4, <1>5, <2>2
    <3> QED
      BY <2>1, <2>2, <3>1 DEF SameNode, Alike, Subst
  <2> QED
    BY <1>1, <1>2, <1>3, <1>5, <2>1, <2>2 DEF Subst
<1>6. CASE p # Dummy
  <2> DEFINE d == Branch(inner[p])
             b == x.path[d]
  <2>1. p \in DOMAIN inner /\ p \in DOMAIN h /\ Alike(inner[p], h[p]) /\ k[d] = b /\ x # root
    BY <1>1, <1>3, <1>6
  <2>2. b \in Byte /\ inner[p].child[b] = x
    BY <1>4, <2>1
  <2>3. /\ inner' = [h EXCEPT ![p] = UpdateChild(h[p], k[Branch(h[p])], y)]
        /\ root' = root /\ dummyRoot' = dummyRoot
    BY <1>6 DEF PointTo
  <2>4. Branch(h[p]) = d /\ h[p].child = inner[p].child /\ h[p] \in PrefixNode
    BY <1>1, <2>1 DEF Alike, Branch, IsHeap
  <2> HIDE DEF b, d
  <2> DEFINE n == h[p]
             m == [n EXCEPT !.child = [n.child EXCEPT ![b] = y]]
  <2>5. UpdateChild(h[p], k[Branch(h[p])], y) = m
    BY <1>3, <2>1, <2>2, <2>4 DEF UpdateChild
  <2>6. n.child \in [Byte -> Ptr]
    BY <2>4, PrefixNodeFacts
  <2>7. /\ m \in PrefixNode /\ m.depth = n.depth /\ m.plen = n.plen /\ m.prefix = n.prefix
        /\ m.count = n.count /\ m.parent = n.parent /\ m.child = [n.child EXCEPT ![b] = y]
    <3>1. [n.child EXCEPT ![b] = y] \in [Byte -> Ptr]
      BY <2>6
    <3> QED
      BY <2>4, <3>1 DEF PrefixNode
  <2>8. \A e \in Byte : m.child[e] = Subst(inner[p].child[e], x, y)
    <3>1. \A e \in Byte : inner[p].child[e] = x <=> e = b
      BY <1>4, <2>1, <2>2 DEF b, d
    <3> QED
      BY <2>4, <2>6, <2>7, <3>1 DEF Subst
  <2> HIDE DEF m
  <2>9. inner' = [h EXCEPT ![p] = m]
    BY <2>3, <2>5
  <2> HIDE DEF n
  <2>10. DOMAIN inner' = DOMAIN h /\ inner'[p] = m /\ \A a \in DOMAIN h : a # p => inner'[a] = h[a]
    BY <2>1, <2>9
  <2>11. IsHeap(inner', InnerAddr, PrefixNode)
    BY <1>1, <2>7, <2>9, WriteHeap
  <2>12. SameNode(inner[p], inner'[p], x, y)
    BY <2>1, <2>7, <2>8, <2>10 DEF Alike, SameNode, n
  <2>13. ASSUME NEW a \in DOMAIN h, a \in DOMAIN inner, Alike(inner[a], h[a]), a # p
         PROVE  SameNode(inner[a], inner'[a], x, y)
    <3>1. \A e \in Byte : inner[a].child[e] # x
      BY <1>4, <2>13
    <3> QED
      BY <2>10, <2>13, <3>1 DEF SameNode, Alike, Subst
  <2> QED
    BY <1>2, <2>1, <2>3, <2>7, <2>10, <2>11, <2>12, <2>13 DEF Subst, n
<1> QED
  BY <1>5, <1>6

\* The parts of the invariant that look at one node at a time hold if they
\* hold of the nodes in S, which a step has changed.
LEMMA OthersKept ==
    ASSUME TypeOK, Kepts(inner), Counted(inner), NEW x, NEW y, x # Null, y # Null, NEW S,
           \A a \in DOMAIN inner' :
               IF a \in S THEN /\ Branch(inner'[a]) \in Chunks /\ Kept(inner'[a], a.path)
                               /\ inner'[a].count = Cardinality(Occupied(inner'[a]))
               ELSE a \in DOMAIN inner /\ SameNode(inner[a], inner'[a], x, y)
    PROVE  /\ \A a \in DOMAIN inner' : Branch(inner'[a]) \in Chunks
           /\ Kepts(inner') /\ Counted(inner')
           /\ \A a \in DOMAIN inner' : a \notin S => inner'[a].count = inner[a].count
<1>1. ASSUME NEW a \in DOMAIN inner', a \notin S
      PROVE  /\ Branch(inner'[a]) \in Chunks /\ Kept(inner'[a], a.path)
             /\ inner'[a].count = Cardinality(Occupied(inner'[a]))
             /\ inner'[a].count = inner[a].count
  <2>1. a \in DOMAIN inner /\ SameNode(inner[a], inner'[a], x, y)
    BY <1>1
  <2>2. /\ Branch(inner'[a]) = Branch(inner[a]) /\ Occupied(inner'[a]) = Occupied(inner[a])
        /\ inner'[a].count = inner[a].count
        /\ \A q : Kept(inner[a], q) => Kept(inner'[a], q)
    BY <2>1, SameFacts
  <2>3. Kept(inner[a], a.path) /\ inner[a].count = Cardinality(Occupied(inner[a]))
        /\ Branch(inner[a]) \in Chunks
    BY <2>1 DEF Kepts, Counted, TypeOK
  <2> QED
    BY <2>2, <2>3
<1> QED
  BY <1>1 DEF Kepts, Counted

\* A node with one child counts one.
LEMMA OneChildCounts ==
    ASSUME NEW n, NEW b \in Byte, NEW c, c # Null,
           \A e \in Byte : n.child[e] = IF e = b THEN c ELSE Null
    PROVE  Occupied(n) = {b} /\ Cardinality(Occupied(n)) = 1
<1>1. Occupied(n) = {b}
  BY DEF Occupied
<1> QED
  BY <1>1, FS_Singleton

\* insert_unique and emplace_unique find another leaf in the way.
LEMMA SplitLeafShape == ASSUME ShapeInv, SplitLeaf  PROVE ShapeInv'
<1> DEFINE parting == {i \in call.depth..(KeyLen - 1) : call.key[i] # call.cur.path[i]}
<1>1. /\ call.pc = "walk" /\ call.op \in InsertOps /\ call.cur \in DOMAIN leaf /\ parting # {}
      /\ call.cur \in Live
  BY DEF SplitLeaf, AtLeaf, Walking, Live
<1>2. /\ TypeOK /\ PrefixHeaps(inner, leaf) /\ Live = Nodes(inner, leaf)
      /\ Trie(inner, leaf, root) /\ Sized /\ Kepts(inner) /\ Counted(inner)
  BY <1>1, ShapeBefore
<1>3. PICK old : old = call.cur
  OBVIOUS
<1>4. PICK d : d = call.depth
  OBVIOUS
<1>5. PICK key : key = call.key
  OBVIOUS
<1>6. PICK j : j = Min(parting)
  OBVIOUS
<1>7. PICK p : p = leaf[old].parent
  OBVIOUS
<1>8. PICK node : node = NodeAt("node_4", old.path, j)
  OBVIOUS
<1>9. /\ call \in WalkCall /\ key \in Keys /\ d \in Nat /\ d = Start(inner, p)
      /\ p = Par(inner, leaf, old) /\ Agree(key, old.path, d) /\ old.path \in Keys
      /\ old \in Nodes(inner, leaf) /\ old \in LeafAddr /\ call.value \in Values
  <2>1. p = Par(inner, leaf, old)
    BY <1>1, <1>3, <1>7 DEF Par
  <2>2. call.op # "find"
    BY <1>1, OpTypes
  <2>3. call \in WalkCall /\ call.value \in Values
    BY <1>1, WalkKnows DEF WalkCall
  <2> QED
    BY <1>1, <1>2, <1>3, <1>4, <1>5, <2>1, <2>2, <2>3, WalkKnows, PrefixHeapFacts
<1>10. /\ j \in Nat /\ j \in Chunks /\ d =< j /\ key[j] # old.path[j] /\ key[j] \in Byte
       /\ old.path[j] \in Byte /\ d \in Chunks /\ j - d \in Chunks /\ d + (j - d) = j
       /\ \A i \in 0..(j - 1) : key[i] = old.path[i]
  <2>1. parting \in SUBSET Nat
    BY <1>4, <1>9 DEF Chunks
  <2>2. j \in parting /\ \A i \in parting : j =< i
    BY <1>1, <1>6, <2>1, MinOfBytes
  <2>3. j \in d..(KeyLen - 1) /\ key[j] # old.path[j]
    BY <1>3, <1>4, <1>5, <2>2
  <2>4. j \in Nat /\ j \in Chunks /\ d =< j /\ d \in Chunks /\ j - d \in Chunks /\ d + (j - d) = j
    BY <1>9, <2>3, KeyLenAssumption DEF Chunks
  <2>5. ASSUME NEW i \in 0..(j - 1)  PROVE key[i] = old.path[i]
    <3>1. CASE i < d
      BY <1>9, <2>4, <3>1 DEF Agree
    <3>2. CASE ~ (i < d)
      <4>1. i \in d..(KeyLen - 1) /\ ~ (j =< i)
        BY <1>9, <2>3, <2>4, <3>2, KeyLenAssumption
      <4> QED
        BY <1>3, <1>4, <1>5, <2>2, <4>1
    <3> QED
      BY <3>1, <3>2
  <2>6. key[j] \in Byte /\ old.path[j] \in Byte
    BY <1>9, <2>4, KeyChunk
  <2> QED
    BY <2>3, <2>4, <2>5, <2>6
<1>11. PICK shared : shared = [i \in 0..(j - d) |-> key[d + i]]
  OBVIOUS
<1>12. PICK made : made = OneChild(p, d, j - d, shared, j - d, old.path[j], old)
  OBVIOUS
<1>13. PICK h : h = Allocate(inner, node, made)
  OBVIOUS
<1>14. /\ node \notin DOMAIN inner
       /\ PointTo(h, p, old.path, node)
       /\ leaf' = [leaf EXCEPT ![old].parent = node]
       /\ call' = [pc |-> "link", op |-> call.op, key |-> key, value |-> call.value,
                   node |-> node, chunk |-> j]
       /\ count' = count
  BY <1>3, <1>4, <1>5, <1>6, <1>7, <1>8, <1>11, <1>12, <1>13 DEF SplitLeaf, ThenLink
<1>15. /\ \A i \in 0..(j - 1) : old.path[i] \in Byte
       /\ node \in InnerAddr /\ node \in Ptr /\ node # Null /\ node # old /\ node.type = "node_4"
       /\ node.path \in [0..(j - 1) -> Byte] /\ Agree(node.path, old.path, j)
       /\ node \notin Nodes(inner, leaf) /\ node # p /\ p \in Ptr
  <2>1. \A i \in 0..(j - 1) : i \in Chunks
    BY <1>10, KeyLenAssumption DEF Chunks
  <2>2. \A i \in 0..(j - 1) : old.path[i] \in Byte
    BY <1>9, <2>1, KeyChunk
  <2>3. node \in InnerAddr
    BY <1>8, <1>9, <1>10, NodeAtType DEF InnerTypes
  <2>4. node \notin DOMAIN leaf
    BY <1>2, <2>3, PrefixHeapFacts, PointerKinds
  <2>5. /\ node.type = "node_4" /\ Agree(node.path, old.path, j)
        /\ node.path \in [0..(j - 1) -> Byte]
    BY <1>8, <2>2 DEF NodeAt, Prefix, Agree
  <2>6. p = Dummy \/ p \in DOMAIN inner
    BY <1>2, <1>9, AboveNode
  <2>7. node # p
    BY <1>14, <2>3, <2>6, PointerKinds
  <2>8. p \in Ptr
    BY <1>2, <1>9, AboveNode
  <2> QED
    BY <1>9, <1>14, <2>2, <2>3, <2>4, <2>5, <2>7, <2>8, PointerKinds DEF Nodes
<1>16. /\ made \in PrefixNode /\ made.parent = p /\ made.depth = d /\ made.plen = j - d
       /\ made.count = 1 /\ Branch(made) = j
       /\ \A e \in Byte : made.child[e] = IF e = old.path[j] THEN old ELSE Null
       /\ \A q \in PrefixSlots : made.prefix[q] = IF q < j - d THEN shared[q] ELSE 0
  <2>1. \A q \in PrefixSlots : q < j - d => shared[q] = key[d + q] /\ shared[q] \in Byte
    <3> SUFFICES ASSUME NEW q \in PrefixSlots, q < j - d
                 PROVE  shared[q] = key[d + q] /\ shared[q] \in Byte
      OBVIOUS
    <3>1. q \in 0..(j - d) /\ d + q \in 0..(j - 1)
      BY <1>9, <1>10, MaxPrefixAssumption DEF PrefixSlots
    <3>2. shared[q] = key[d + q]
      BY <1>11, <3>1
    <3> QED
      BY <1>10, <1>15, <3>1, <3>2
  <2>2. old \in Ptr
    BY <1>9, PointerKinds
  <2>3. PICK s : s = j - d
    OBVIOUS
  <2>4. Gives(shared, s) /\ s \in Chunks
    BY <1>10, <2>1, <2>3 DEF Gives
  <2>5. LET n == OneChild(p, d, s, shared, s, old.path[j], old)
        IN  /\ n \in PrefixNode /\ n.parent = p /\ n.depth = d /\ n.plen = s /\ n.count = 1
            /\ \A e \in Byte : n.child[e] = IF e = old.path[j] THEN old ELSE Null
            /\ \A q \in PrefixSlots : n.prefix[q] = IF q < s THEN shared[q] ELSE 0
    BY <1>10, <1>15, <2>2, <2>3, <2>4, OneChildFacts
  <2>6. /\ made \in PrefixNode /\ made.parent = p /\ made.depth = d /\ made.plen = j - d
        /\ made.count = 1
        /\ \A e \in Byte : made.child[e] = IF e = old.path[j] THEN old ELSE Null
        /\ \A q \in PrefixSlots : made.prefix[q] = IF q < j - d THEN shared[q] ELSE 0
    BY <1>12, <2>3, <2>5
  <2> QED
    BY <1>10, <2>6 DEF Branch
<1>17. /\ DOMAIN h = DOMAIN inner \cup {node} /\ h[node] = made
       /\ \A a \in DOMAIN inner : h[a] = inner[a]
       /\ IsHeap(h, InnerAddr, PrefixNode)
  <2>1. IsHeap(h, InnerAddr, PrefixNode)
    BY <1>2, <1>13, <1>15, <1>16, AllocateHeap DEF PrefixHeaps
  <2> QED
    BY <1>13, <1>14, <2>1 DEF Allocate
<1>18. Pointable(old, p, h, old.path)
  BY <1>9, <1>17 DEF Pointable, Alike
<1>19. /\ DOMAIN inner' = DOMAIN h /\ IsHeap(inner', InnerAddr, PrefixNode)
       /\ inner'[node] = made
       /\ \A a \in DOMAIN inner : inner'[a].parent = inner[a].parent
       /\ \A a \in DOMAIN inner : SameNode(inner[a], inner'[a], old, node)
       /\ root' = Subst(root, old, node) /\ root' \in Ptr /\ dummyRoot' \in Ptr
  <2>1. /\ DOMAIN inner' = DOMAIN h /\ IsHeap(inner', InnerAddr, PrefixNode)
        /\ \A a \in DOMAIN h : a # p => inner'[a] = h[a]
        /\ \A a \in DOMAIN h : inner'[a].parent = h[a].parent
        /\ \A a \in DOMAIN h : a \in DOMAIN inner /\ Alike(inner[a], h[a]) =>
                                   SameNode(inner[a], inner'[a], old, node)
        /\ root' = Subst(root, old, node) /\ root' \in Ptr /\ dummyRoot' \in Ptr
    BY <1>2, <1>14, <1>15, <1>18, PointedTo
  <2>2. \A a \in DOMAIN inner : Alike(inner[a], h[a])
    BY <1>17 DEF Alike
  <2> QED
    BY <1>15, <1>17, <2>1, <2>2
<1>20. /\ IsHeap(leaf', LeafAddr, LeafNode) /\ DOMAIN leaf' = DOMAIN leaf
       /\ leaf'[old].parent = node
       /\ \A l \in DOMAIN leaf : l # old => leaf'[l] = leaf[l]
  <2> DEFINE m == [leaf[old] EXCEPT !.parent = node]
  <2>1. leaf[old] \in LeafNode
    BY <1>1, <1>2, <1>3, PrefixHeapFacts
  <2>2. m \in LeafNode /\ m.parent = node
    BY <1>15, <2>1 DEF LeafNode
  <2>3. leaf' = [leaf EXCEPT ![old] = m]
    BY <1>14
  <2> HIDE DEF m
  <2>4. IsHeap(leaf', LeafAddr, LeafNode)
    BY <1>2, <2>2, <2>3, WriteHeap DEF PrefixHeaps
  <2> QED
    BY <1>1, <1>3, <2>2, <2>3, <2>4
<1>21. PutAbove(inner, leaf, inner', leaf', old, node)
  <2>1. old \notin DOMAIN inner /\ DOMAIN inner' = DOMAIN inner \cup {node}
    BY <1>1, <1>2, <1>3, <1>17, <1>19, PrefixHeapFacts
  <2>2. \A c \in Nodes(inner, leaf) : c # old => Par(inner', leaf', c) = Par(inner, leaf, c)
    BY <1>19, <1>20 DEF Par, Nodes
  <2>3. Par(inner', leaf', node) = p /\ Par(inner', leaf', old) = node
    BY <1>1, <1>3, <1>15, <1>16, <1>19, <1>20 DEF Par, Nodes
  <2>4. Addressed(inner', node) /\ inner'[node].depth = Start(inner, p) /\ Branch(inner'[node]) = j
    BY <1>9, <1>10, <1>15, <1>16, <1>19 DEF Addressed
  <2> QED
    BY <1>9, <1>10, <1>15, <1>16, <1>19, <1>20, <2>1, <2>2, <2>3, <2>4 DEF PutAbove
<1>22. PrefixHeaps(inner', leaf')
  BY <1>19, <1>20 DEF PrefixHeaps
<1>23. Trie(inner', leaf', root')
  BY <1>2, <1>19, <1>21, <1>22, NodePut
<1>24. /\ Kept(inner'[node], node.path) /\ Branch(inner'[node]) = j
       /\ inner'[node].count = Cardinality(Occupied(inner'[node]))
  <2>1. ASSUME NEW q \in 0..(StoredLength(made) - 1)
        PROVE  made.prefix[q] = node.path[made.depth + q]
    <3>1. /\ StoredLength(made) \in Nat /\ MaxPrefix \in Nat
          /\ StoredLength(made) = IF made.plen =< MaxPrefix THEN made.plen ELSE MaxPrefix
      BY <1>16, StoredFacts, MaxPrefixAssumption
    <3>2. q \in PrefixSlots /\ q < j - d /\ q \in 0..(j - d) /\ d + q \in 0..(j - 1)
      BY <1>9, <1>10, <1>16, <3>1 DEF PrefixSlots
    <3>3. made.prefix[q] = key[d + q]
      BY <1>11, <1>16, <3>2
    <3>4. node.path[d + q] = old.path[d + q]
      BY <1>15, <3>2 DEF Agree
    <3> QED
      BY <1>10, <1>16, <3>2, <3>3, <3>4
  <2>2. Cardinality(Occupied(made)) = 1
    <3>1. old # Null
      BY <1>2, <1>9, PrefixHeapFacts
    <3>2. PICK b : b = old.path[j]
      OBVIOUS
    <3>3. b \in Byte /\ \A e \in Byte : made.child[e] = IF e = b THEN old ELSE Null
      BY <1>10, <1>16, <3>2
    <3> QED
      BY <3>1, <3>3, OneChildCounts
  <2> QED
    BY <1>16, <1>19, <2>1, <2>2 DEF Kept
<1>25. /\ \A a \in DOMAIN inner' : Branch(inner'[a]) \in Chunks
       /\ Kepts(inner') /\ Counted(inner')
       /\ \A a \in DOMAIN inner' : a \notin {node} => inner'[a].count = inner[a].count
  <2>1. \A a \in DOMAIN inner' :
            IF a \in {node} THEN /\ Branch(inner'[a]) \in Chunks /\ Kept(inner'[a], a.path)
                                 /\ inner'[a].count = Cardinality(Occupied(inner'[a]))
            ELSE a \in DOMAIN inner /\ SameNode(inner[a], inner'[a], old, node)
    BY <1>10, <1>17, <1>19, <1>24
  <2>2. old # Null
    BY <1>2, <1>9, PrefixHeapFacts
  <2> QED
    BY <1>2, <1>15, <2>1, <2>2, OthersKept
<1>26. call' \in LinkCall /\ call'.pc = "link" /\ call'.node = node
  <2>1. call.op \in InsertOps
    BY <1>1
  <2> QED
    BY <1>9, <1>10, <1>14, <1>15, <2>1 DEF LinkCall
<1>27. TypeOK'
  <2>1. count' \in Int
    BY <1>2, <1>14 DEF TypeOK
  <2> QED
    BY <1>19, <1>20, <1>25, <1>26, <2>1, CallParts DEF TypeOK
<1>28. Sized'
  <2>1. Short' = {node}
    BY <1>26 DEF Short
  <2>2. OneShort(inner', node)
    BY <1>15, <1>16, <1>19, SizeNumbers DEF OneShort, InnerTypes
  <2>3. Short = {}
    <3>1. call.cur # Null
      BY <1>2, <1>3, <1>9, PrefixHeapFacts
    <3> QED
      BY <1>1, <3>1 DEF Short
  <2>4. \A a \in DOMAIN inner : SizeFits(inner, a)
    BY <1>2, <2>3 DEF Sized
  <2>5. \A a \in DOMAIN inner : a # node => SizeFits(inner', a)
    BY <1>17, <1>19, <1>25, <2>4 DEF SizeFits
  <2> QED
    BY <1>17, <1>19, <1>26, <2>1, <2>2, <2>5 DEF Sized
<1>29. Whole'
  BY <1>23, <1>25, <1>28 DEF Whole
<1>30. LinkFits'
  <2>1. Agree(key, node.path, j)
    BY <1>10, <1>15 DEF Agree
  <2>2. inner'[node].child[key[j]] = Null
    BY <1>10, <1>16, <1>19
  <2>3. call'.key = key /\ call'.chunk = j /\ call'.node = node
    BY <1>14
  <2> QED
    BY <1>17, <1>19, <1>24, <2>1, <2>2, <2>3 DEF LinkFits
<1> QED
  BY <1>26, <1>27, <1>29, <1>30, OtherCallsNext DEF ShapeInv

\* What a split of the prefix at position pos is given: the chunks of the
\* path before that position, at it, and behind it.
SplitFits(pos, f, s, b, rest) ==
    LET old == call.cur
        d   == call.depth
    IN  /\ AtNode(InsertOps)
        /\ pos \in Nat /\ pos < Here.plen
        /\ call.key[d + pos] # old.path[d + pos]
        /\ Agree(call.key, old.path, d + pos)
        /\ b = old.path[d + pos]
        /\ Gives(f, s)
        /\ \A q \in PrefixSlots : q < pos => q < s /\ f[q] = old.path[d + q]
        /\ rest \in [PrefixSlots -> Byte]
        /\ \A q \in PrefixSlots : q < Here.plen - (pos + 1) =>
               rest[q] = old.path[d + pos + 1 + q]

\* split_prefix_into_parent.
LEMMA SplitShape ==
    ASSUME ShapeInv, NEW pos, NEW f, NEW s, NEW b, NEW rest,
           SplitFits(pos, f, s, b, rest), SplitAt(pos, f, s, b, rest)
    PROVE  ShapeInv'
<1>1. /\ call.pc = "walk" /\ call.op \in InsertOps /\ call.cur \in DOMAIN inner
      /\ call.cur \in Live
  BY DEF SplitFits, AtNode, Walking, Live
<1>2. /\ TypeOK /\ PrefixHeaps(inner, leaf) /\ Live = Nodes(inner, leaf)
      /\ Trie(inner, leaf, root) /\ Sized /\ Kepts(inner) /\ Counted(inner)
      /\ root # Null
  BY <1>1, ShapeBefore DEF ShapeInv, WalkFits
<1>3. PICK old : old = call.cur
  OBVIOUS
<1>4. PICK d : d = call.depth
  OBVIOUS
<1>5. PICK key : key = call.key
  OBVIOUS
<1>6. PICK n : n = inner[old]
  OBVIOUS
<1>7. PICK p : p = n.parent
  OBVIOUS
<1>8. PICK new : new = NodeAt("node_4", old.path, d + pos)
  OBVIOUS
<1>9. /\ call \in WalkCall /\ key \in Keys /\ d \in Nat /\ d = Start(inner, p)
      /\ p = Par(inner, leaf, old) /\ n \in PrefixNode /\ n.depth = d
      /\ Branch(n) \in Chunks /\ Branch(n) = d + n.plen
      /\ old \in Nodes(inner, leaf) /\ old \in InnerAddr
      /\ old.path \in [0..(Branch(n) - 1) -> Byte] /\ n.plen \in Nat
  <2>1. p = Par(inner, leaf, old)
    BY <1>1, <1>2, <1>3, <1>6, <1>7, PrefixHeapFacts DEF Par
  <2>2. old.path \in [0..(Branch(n) - 1) -> Byte] /\ old \in InnerAddr
    BY <1>1, <1>2, <1>3, <1>6, NodeBelow, PrefixHeapFacts
  <2>3. /\ call \in WalkCall /\ key \in Keys /\ d \in Nat /\ d = Start(inner, p)
        /\ old \in Nodes(inner, leaf)
        /\ n \in PrefixNode /\ n.depth = d /\ Branch(n) \in Chunks /\ Branch(n) = d + n.plen
    BY <1>1, <1>3, <1>4, <1>5, <1>6, <2>1, WalkKnows DEF Here
  <2> QED
    BY <2>1, <2>2, <2>3, PrefixNodeFacts
<1>10. /\ pos \in Nat /\ pos < n.plen /\ key[d + pos] # old.path[d + pos]
       /\ Agree(key, old.path, d + pos) /\ b = old.path[d + pos]
       /\ Gives(f, s)
       /\ \A q \in PrefixSlots : q < pos => q < s /\ f[q] = old.path[d + q]
       /\ rest \in [PrefixSlots -> Byte]
       /\ \A q \in PrefixSlots : q < n.plen - (pos + 1) => rest[q] = old.path[d + pos + 1 + q]
  BY <1>3, <1>4, <1>5, <1>6 DEF SplitFits, Here
<1>11. /\ d + pos \in Nat /\ d + pos \in Chunks /\ d \in Chunks /\ pos \in Chunks
       /\ d + pos < Branch(n) /\ b \in Byte /\ key[d + pos] \in Byte
       /\ \A i \in 0..((d + pos) - 1) : old.path[i] \in Byte
  <2>1. /\ d + pos \in Nat /\ d + pos \in Chunks /\ d \in Chunks /\ pos \in Chunks
        /\ d + pos < Branch(n)
    BY <1>9, <1>10, KeyLenAssumption DEF Chunks
  <2>2. d + pos \in 0..(Branch(n) - 1) /\ 0..((d + pos) - 1) \subseteq 0..(Branch(n) - 1)
    BY <1>9, <2>1, KeyLenAssumption DEF Chunks
  <2>3. key[d + pos] \in Byte
    BY <1>9, <2>1, KeyChunk
  <2> QED
    BY <1>9, <1>10, <2>1, <2>2, <2>3
<1>12. PICK made : made = OneChild(p, d, pos, f, s, b, old)
  OBVIOUS
<1>13. PICK under : under = Remainder(n, new, pos, rest)
  OBVIOUS
<1>14. PICK h : h = [Allocate(inner, new, made) EXCEPT ![old] = under]
  OBVIOUS
<1>15. /\ new \notin DOMAIN inner /\ PointTo(h, p, key, new)
       /\ leaf' = leaf /\ count' = count
       /\ call' = [call EXCEPT !.prev = new, !.depth = @ + pos + 1, !.low = Null,
                               !.cur = made.child[key[d + pos]]]
  <2>1. n.depth = d
    BY <1>9
  <2> QED
    BY <1>3, <1>4, <1>5, <1>6, <1>7, <1>8, <1>12, <1>13, <1>14, <2>1 DEF SplitAt
<1>16. /\ new \in InnerAddr /\ new \in Ptr /\ new # Null /\ new # old /\ new.type = "node_4"
       /\ new.path \in [0..((d + pos) - 1) -> Byte] /\ Agree(new.path, old.path, d + pos)
       /\ new \notin Nodes(inner, leaf) /\ new # p /\ p \in Ptr /\ old # p
       /\ (p = Dummy \/ p \in DOMAIN inner) /\ old # Null
  <2>1. /\ new.type = "node_4" /\ Agree(new.path, old.path, d + pos)
        /\ new.path \in [0..((d + pos) - 1) -> Byte]
    BY <1>8, <1>11 DEF NodeAt, Prefix, Agree
  <2>2. new \in InnerAddr
    <3>1. new = [type |-> "node_4", path |-> new.path]
      BY <1>8 DEF NodeAt
    <3>2. new.path \in Paths
      BY <1>11, <2>1 DEF Paths
    <3> QED
      BY <3>1, <3>2 DEF InnerAddr, InnerTypes
  <2>3. new \notin DOMAIN leaf
    BY <1>2, <2>2, PrefixHeapFacts, PointerKinds
  <2>4. p = Dummy \/ p \in DOMAIN inner
    BY <1>2, <1>9, AboveNode
  <2>5. new # p
    BY <1>15, <2>2, <2>4, PointerKinds
  <2>6. p \in Ptr /\ old # Null /\ old # Dummy
    BY <1>2, <1>9, AboveNode
  <2>7. old # p
    <3>1. ASSUME p = old  PROVE FALSE
      <4>1. old \in DOMAIN inner /\ Par(inner, leaf, old) = old
        BY <1>1, <1>3, <1>9, <3>1
      <4>2. Branch(inner[old]) \in Nat /\ Branch(inner[old]) < Branch(inner[old])
        BY <1>2, <4>1, NodeBelow
      <4> QED
        BY <4>2
    <3> QED
      BY <3>1
  <2> QED
    BY <1>1, <1>3, <1>15, <2>1, <2>2, <2>3, <2>4, <2>5, <2>6, <2>7, PointerKinds DEF Nodes
<1>17. /\ made \in PrefixNode /\ made.parent = p /\ made.depth = d /\ made.plen = pos
       /\ made.count = 1 /\ Branch(made) = d + pos
       /\ \A e \in Byte : made.child[e] = IF e = b THEN old ELSE Null
       /\ \A q \in PrefixSlots : made.prefix[q] = IF q < s THEN f[q] ELSE 0
  <2>1. old \in Ptr
    BY <1>9, PointerKinds
  <2>2. LET m == OneChild(p, d, pos, f, s, b, old)
        IN  /\ m \in PrefixNode /\ m.parent = p /\ m.depth = d /\ m.plen = pos /\ m.count = 1
            /\ \A e \in Byte : m.child[e] = IF e = b THEN old ELSE Null
            /\ \A q \in PrefixSlots : m.prefix[q] = IF q < s THEN f[q] ELSE 0
    BY <1>10, <1>11, <1>16, <2>1, OneChildFacts
  <2> QED
    BY <1>12, <2>2 DEF Branch
<1>18. /\ under \in PrefixNode /\ under.parent = new /\ under.depth = d + pos + 1
       /\ under.plen = n.plen - (pos + 1) /\ under.prefix = rest /\ under.count = n.count
       /\ under.child = n.child /\ Branch(under) = Branch(n)
  <2>1. d + pos + 1 \in Chunks /\ n.plen - (pos + 1) \in Chunks
    BY <1>9, <1>10, <1>11, KeyLenAssumption DEF Chunks
  <2>2. under = [n EXCEPT !.parent = new, !.depth = d + pos + 1,
                          !.plen = n.plen - (pos + 1), !.prefix = rest]
    BY <1>9, <1>13 DEF Remainder
  <2>3. /\ under \in PrefixNode /\ under.parent = new /\ under.depth = d + pos + 1
        /\ under.plen = n.plen - (pos + 1) /\ under.prefix = rest /\ under.count = n.count
        /\ under.child = n.child
    BY <1>9, <1>10, <1>16, <2>1, <2>2 DEF PrefixNode
  <2>4. Branch(under) = (d + pos + 1) + (n.plen - (pos + 1))
    BY <2>3 DEF Branch
  <2>5. (d + pos + 1) + (n.plen - (pos + 1)) = d + n.plen
    <3>1. d \in Nat /\ pos \in Nat /\ n.plen \in Nat
      BY <1>9, <1>10
    <3> QED
      BY <3>1
  <2>6. Branch(under) = Branch(n)
    BY <1>9, <2>4, <2>5
  <2> QED
    BY <2>3, <2>6
<1>19. /\ DOMAIN h = DOMAIN inner \cup {new} /\ h[new] = made /\ h[old] = under
       /\ \A a \in DOMAIN inner : a # old => h[a] = inner[a]
       /\ IsHeap(h, InnerAddr, PrefixNode)
  <2>1. PICK g : g = Allocate(inner, new, made)
    OBVIOUS
  <2>2. IsHeap(g, InnerAddr, PrefixNode) /\ DOMAIN g = DOMAIN inner \cup {new}
    <3>1. IsHeap(inner, InnerAddr, PrefixNode)
      BY <1>2 DEF PrefixHeaps
    <3>2. /\ IsHeap(Allocate(inner, new, made), InnerAddr, PrefixNode)
          /\ DOMAIN Allocate(inner, new, made) = DOMAIN inner \cup {new}
      <4>1. new \in InnerAddr /\ made \in PrefixNode
        BY <1>16, <1>17
      <4> QED
        BY <3>1, <4>1, AllocateHeap
    <3> QED
      BY <2>1, <3>2
  <2>3. h = [g EXCEPT ![old] = under]
    BY <1>14, <2>1
  <2>4. IsHeap(h, InnerAddr, PrefixNode)
    BY <1>18, <2>2, <2>3, WriteHeap
  <2>5. g[new] = made /\ \A a \in DOMAIN inner : g[a] = inner[a]
    BY <1>15, <2>1 DEF Allocate
  <2> QED
    BY <1>1, <1>3, <1>16, <2>2, <2>3, <2>4, <2>5
<1>20. Pointable(old, p, h, key)
  <2>1. ASSUME p \in DOMAIN inner  PROVE key[Branch(inner[p])] = old.path[Branch(inner[p])]
    <3>1. Branch(inner[p]) \in Nat /\ d = Branch(inner[p]) + 1
      BY <1>1, <1>2, <1>3, <1>6, <1>9, <2>1, NodeBelow
    <3>2. Branch(inner[p]) \in 0..((d + pos) - 1)
      BY <1>9, <1>10, <3>1
    <3> QED
      BY <1>10, <3>2 DEF Agree
  <2> QED
    BY <1>9, <1>16, <1>19, <2>1 DEF Pointable, Alike
<1>21. /\ DOMAIN inner' = DOMAIN h /\ IsHeap(inner', InnerAddr, PrefixNode)
       /\ inner'[new] = made /\ inner'[old] = under
       /\ \A a \in DOMAIN inner : a # old => inner'[a].parent = inner[a].parent
       /\ \A a \in DOMAIN inner : a # old => SameNode(inner[a], inner'[a], old, new)
       /\ root' = Subst(root, old, new) /\ root' \in Ptr /\ dummyRoot' \in Ptr
  <2>1. /\ DOMAIN inner' = DOMAIN h /\ IsHeap(inner', InnerAddr, PrefixNode)
        /\ \A a \in DOMAIN h : a # p => inner'[a] = h[a]
        /\ \A a \in DOMAIN h : inner'[a].parent = h[a].parent
        /\ \A a \in DOMAIN h : a \in DOMAIN inner /\ Alike(inner[a], h[a]) =>
                                   SameNode(inner[a], inner'[a], old, new)
        /\ root' = Subst(root, old, new) /\ root' \in Ptr /\ dummyRoot' \in Ptr
    BY <1>2, <1>15, <1>16, <1>20, PointedTo
  <2>2. \A a \in DOMAIN inner : a # old => Alike(inner[a], h[a])
    BY <1>19 DEF Alike
  <2>3. inner'[new] = made /\ inner'[old] = under
    BY <1>1, <1>3, <1>16, <1>19, <2>1
  <2> QED
    BY <1>19, <2>1, <2>2, <2>3
<1>22. PutAbove(inner, leaf, inner', leaf', old, new)
  <2>1. ASSUME NEW c \in Nodes(inner, leaf), c # old
        PROVE  Par(inner', leaf', c) = Par(inner, leaf, c)
    BY <1>15, <1>21, <2>1 DEF Par, Nodes
  <2>2. Par(inner', leaf', new) = p /\ Par(inner', leaf', old) = new
    <3>1. new \notin DOMAIN leaf' /\ old \notin DOMAIN leaf'
      BY <1>1, <1>2, <1>3, <1>15, <1>16, PrefixHeapFacts DEF Nodes
    <3> QED
      BY <1>17, <1>18, <1>21, <3>1 DEF Par
  <2>3. Addressed(inner', new) /\ inner'[new].depth = Start(inner, p)
        /\ Branch(inner'[new]) = d + pos
    BY <1>9, <1>11, <1>16, <1>17, <1>21 DEF Addressed
  <2>4. /\ inner'[old].depth = Branch(inner'[new]) + 1 /\ Branch(inner'[old]) = Branch(inner[old])
        /\ \A e \in Byte : inner'[old].child[e] = inner[old].child[e]
    BY <1>6, <1>17, <1>18, <1>21
  <2>5. \A e \in Byte : inner'[new].child[e] = IF e = old.path[Branch(inner'[new])] THEN old ELSE Null
    BY <1>10, <1>17, <1>21, <2>3
  <2>6. Agree(new.path, old.path, Branch(inner'[new])) /\ old.path[Branch(inner'[new])] \in Byte
    BY <1>10, <1>11, <1>16, <2>3
  <2>7. DOMAIN inner' = DOMAIN inner \cup {new} /\ DOMAIN leaf' = DOMAIN leaf
    BY <1>15, <1>19, <1>21
  <2> QED
    BY <1>9, <1>16, <1>21, <2>1, <2>2, <2>3, <2>4, <2>5, <2>6, <2>7 DEF PutAbove
<1>23. PrefixHeaps(inner', leaf')
  BY <1>2, <1>15, <1>21 DEF PrefixHeaps
<1>24. Trie(inner', leaf', root')
  BY <1>2, <1>21, <1>22, <1>23, NodePut
<1>25. /\ Kept(made, new.path) /\ made.count = Cardinality(Occupied(made))
       /\ Kept(under, old.path) /\ under.count = Cardinality(Occupied(under))
  <2>1. MaxPrefix \in Nat /\ StoredLength(made) \in Nat /\ StoredLength(under) \in Nat
        /\ StoredLength(made) =< MaxPrefix /\ StoredLength(under) =< MaxPrefix
        /\ StoredLength(made) =< pos /\ StoredLength(under) =< n.plen - (pos + 1)
    <3>1. MaxPrefix \in Nat
      BY MaxPrefixAssumption
    <3>2. /\ StoredLength(made) \in Nat
          /\ StoredLength(made) = IF made.plen =< MaxPrefix THEN made.plen ELSE MaxPrefix
      BY <1>17, StoredFacts
    <3>3. /\ StoredLength(under) \in Nat
          /\ StoredLength(under) = IF under.plen =< MaxPrefix THEN under.plen ELSE MaxPrefix
      BY <1>18, StoredFacts
    <3>4. made.plen = pos /\ under.plen = n.plen - (pos + 1)
      BY <1>17, <1>18
    <3> QED
      BY <1>9, <1>10, <3>1, <3>2, <3>3, <3>4
  <2>2. ASSUME NEW q \in 0..(StoredLength(made) - 1)
        PROVE  made.prefix[q] = new.path[made.depth + q]
    <3>1. q \in Nat /\ q < MaxPrefix /\ q < pos /\ pos \in Nat /\ d \in Nat
      <4>1. pos \in Nat /\ d \in Nat
        BY <1>9, <1>10
      <4> QED
        BY <2>1, <4>1
    <3>2. q \in PrefixSlots /\ d + q \in 0..((d + pos) - 1)
      BY <2>1, <3>1 DEF PrefixSlots
    <3>3. made.prefix[q] = old.path[d + q]
      BY <1>10, <1>17, <3>1, <3>2
    <3>4. new.path[d + q] = old.path[d + q]
      BY <1>16, <3>2 DEF Agree
    <3> QED
      BY <1>17, <3>3, <3>4
  <2>3. ASSUME NEW q \in 0..(StoredLength(under) - 1)
        PROVE  under.prefix[q] = old.path[under.depth + q]
    <3>1. q \in PrefixSlots /\ q < n.plen - (pos + 1)
      BY <1>9, <1>10, <2>1 DEF PrefixSlots
    <3> QED
      BY <1>10, <1>18, <3>1
  <2>4. Cardinality(Occupied(made)) = 1
    BY <1>11, <1>16, <1>17, OneChildCounts
  <2>5. Occupied(under) = Occupied(n) /\ n.count = Cardinality(Occupied(n))
    BY <1>1, <1>2, <1>3, <1>6, <1>18 DEF Occupied, Counted
  <2> QED
    BY <1>17, <1>18, <2>2, <2>3, <2>4, <2>5 DEF Kept
<1>26. /\ \A a \in DOMAIN inner' : Branch(inner'[a]) \in Chunks
       /\ Kepts(inner') /\ Counted(inner')
       /\ \A a \in DOMAIN inner' : a \notin {old, new} => inner'[a].count = inner[a].count
  <2>1. \A a \in DOMAIN inner' :
            IF a \in {old, new}
            THEN /\ Branch(inner'[a]) \in Chunks /\ Kept(inner'[a], a.path)
                 /\ inner'[a].count = Cardinality(Occupied(inner'[a]))
            ELSE a \in DOMAIN inner /\ SameNode(inner[a], inner'[a], old, new)
    BY <1>9, <1>11, <1>17, <1>18, <1>19, <1>21, <1>25
  <2> QED
    BY <1>2, <1>16, <2>1, OthersKept
<1>27. /\ call' \in WalkCall /\ call'.pc = "walk" /\ call'.cur = Null /\ call'.prev = new
       /\ call'.depth = d + pos + 1 /\ call'.low = Null /\ call'.key = key
       /\ call'.op = call.op
  <2>1. made.child[key[d + pos]] = Null
    BY <1>10, <1>11, <1>17
  <2>2. d + pos + 1 \in 0..KeyLen /\ Null \in Ptr
    BY <1>11, KeyLenAssumption, PointerKinds DEF Chunks
  <2>3. call' = [call EXCEPT !.prev = new, !.depth = d + pos + 1, !.low = Null, !.cur = Null]
    BY <1>4, <1>15, <2>1
  <2> QED
    BY <1>1, <1>5, <1>9, <1>16, <2>2, <2>3 DEF WalkCall
<1>28. TypeOK'
  <2>1. count' \in Int
    BY <1>2, <1>15 DEF TypeOK
  <2>2. IsHeap(leaf', LeafAddr, LeafNode)
    BY <1>23 DEF PrefixHeaps
  <2> QED
    BY <1>21, <1>26, <1>27, <2>1, <2>2, CallParts DEF TypeOK
<1>29. Sized'
  <2>1. Short' = {new}
    BY <1>1, <1>27 DEF Short
  <2>2. OneShort(inner', new)
    BY <1>16, <1>17, <1>21, SizeNumbers DEF OneShort, InnerTypes
  <2>3. Short = {}
    BY <1>1, <1>3, <1>16 DEF Short
  <2>4. \A a \in DOMAIN inner : SizeFits(inner, a)
    BY <1>2, <2>3 DEF Sized
  <2>5. \A a \in DOMAIN inner : a # new => inner'[a].count = inner[a].count
    BY <1>6, <1>18, <1>19, <1>21, <1>26
  <2>6. \A a \in DOMAIN inner : a # new => SizeFits(inner', a)
    BY <2>4, <2>5 DEF SizeFits
  <2> QED
    BY <1>19, <1>21, <1>27, <2>1, <2>2, <2>6 DEF Sized
<1>30. Whole'
  BY <1>24, <1>26, <1>29 DEF Whole
<1>31. WalkFits'
  <2>1. root' # Null
    BY <1>2, <1>16, <1>21 DEF Subst
  <2>2. /\ new \in DOMAIN inner' /\ d + pos + 1 = Branch(inner'[new]) + 1
        /\ (d + pos + 1) - 1 = d + pos
    BY <1>11, <1>17, <1>19, <1>21
  <2>3. inner'[new].child[key[d + pos]] = Null
    BY <1>10, <1>11, <1>17, <1>21
  <2>4. Agree(key, new.path, d + pos)
    BY <1>10, <1>16 DEF Agree
  <2> QED
    BY <1>27, <2>1, <2>2, <2>3, <2>4 DEF WalkFits
<1> QED
  BY <1>27, <1>28, <1>30, <1>31, OtherCallsNext DEF ShapeInv

\* Where a split finds the prefix and the path of its node.
LEMMA SplitStart ==
    ASSUME ShapeInv, AtNode(InsertOps), Compared, Differing # {}
    PROVE  /\ Here \in PrefixNode /\ Here.plen \in Nat /\ Here.depth = call.depth
           /\ call.depth \in Nat /\ Branch(Here) = call.depth + Here.plen
           /\ Branch(Here) \in Chunks /\ Kept(Here, call.cur.path)
           /\ StoredLength(Here) = IF Here.plen =< MaxPrefix THEN Here.plen ELSE MaxPrefix
           /\ MaxPrefix \in Nat /\ Here.prefix \in [PrefixSlots -> Byte]
           /\ Min(Differing) \in Nat /\ Min(Differing) < Here.plen
           /\ call.key[call.depth + Min(Differing)] # call.cur.path[call.depth + Min(Differing)]
           /\ Agree(call.key, call.cur.path, call.depth + Min(Differing))
           /\ Here.plen >= MaxPrefix => /\ call.low \in DOMAIN leaf /\ call.low.path \in Keys
                                        /\ Agree(call.low.path, call.cur.path, Branch(Here))
<1>1. /\ call.pc = "walk" /\ call.op \in InsertOps /\ call.cur \in DOMAIN inner
      /\ call.cur \in Live /\ call.op # "find" /\ AtNode(WalkOps)
  BY OpTypes DEF AtNode, Walking, Live
<1>2. /\ Here \in PrefixNode /\ Here.depth = call.depth /\ call.depth \in Nat
      /\ Branch(Here) \in Chunks /\ Branch(Here) = call.depth + Here.plen
      /\ Kept(Here, call.cur.path)
  BY <1>1, WalkKnows
<1>3. /\ Min(Differing) \in 0..(Here.plen - 1)
      /\ call.key[call.depth + Min(Differing)] # call.cur.path[call.depth + Min(Differing)]
      /\ Agree(call.key, call.cur.path, call.depth + Min(Differing))
      /\ Here.plen >= MaxPrefix => /\ call.low \in DOMAIN leaf
                                   /\ Agree(call.low.path, call.cur.path, Branch(Here))
  BY <1>1, Comparison
<1>4. Here.plen \in Nat /\ Here.prefix \in [PrefixSlots -> Byte] /\ MaxPrefix \in Nat
  BY <1>2, PrefixNodeFacts, MaxPrefixAssumption
<1>5. Min(Differing) \in Nat /\ Min(Differing) < Here.plen
  BY <1>3, <1>4
<1>6. StoredLength(Here) = IF Here.plen =< MaxPrefix THEN Here.plen ELSE MaxPrefix
  BY <1>2, StoredFacts
<1>7. PrefixHeaps(inner, leaf)
  BY <1>1, ShapeBefore
<1>8. call.low \in DOMAIN leaf => call.low.path \in Keys
  BY <1>7, PrefixHeapFacts
<1> QED
  BY <1>2, <1>3, <1>4, <1>5, <1>6, <1>8

LEMMA SplitStoredShape == ASSUME ShapeInv, SplitStored  PROVE ShapeInv'
<1>1. PICK pos : pos = Min(Differing)
  OBVIOUS
<1>2. PICK f : f = Here.prefix
  OBVIOUS
<1>3. PICK rest : rest = ShiftedPast(f, pos)
  OBVIOUS
<1>4. /\ AtNode(InsertOps) /\ Compared /\ Differing # {} /\ Here.plen < MaxPrefix
      /\ SplitAt(pos, f, pos, f[pos], rest)
  BY <1>1, <1>2, <1>3 DEF SplitStored
<1>5. PICK d : d = call.depth
  OBVIOUS
<1>6. PICK path : path = call.cur.path
  OBVIOUS
<1>7. PICK len : len = Here.plen
  OBVIOUS
<1>8. /\ len \in Nat /\ d \in Nat /\ MaxPrefix \in Nat /\ f \in [PrefixSlots -> Byte]
      /\ StoredLength(Here) = len /\ Here.depth = d /\ pos \in Nat /\ pos < len /\ len < MaxPrefix
      /\ call.key[d + pos] # path[d + pos] /\ Agree(call.key, path, d + pos)
      /\ Kept(Here, path)
  BY <1>1, <1>2, <1>4, <1>5, <1>6, <1>7, SplitStart
<1>9. \A q \in PrefixSlots : q \in Nat /\ (q < len => f[q] = path[d + q])
  <2> SUFFICES ASSUME NEW q \in PrefixSlots
               PROVE  q \in Nat /\ (q < len => f[q] = path[d + q])
    OBVIOUS
  <2>1. q \in Nat
    BY <1>8 DEF PrefixSlots
  <2>2. q < len => q \in 0..(StoredLength(Here) - 1)
    BY <1>8, <2>1
  <2> QED
    BY <1>2, <1>8, <2>1, <2>2 DEF Kept
<1>10. f[pos] = path[d + pos]
  <2>1. pos \in PrefixSlots
    BY <1>8 DEF PrefixSlots
  <2> QED
    BY <1>8, <1>9, <2>1
<1>11. /\ rest \in [PrefixSlots -> Byte]
       /\ \A q \in PrefixSlots : q < len - (pos + 1) => rest[q] = path[d + pos + 1 + q]
  <2>1. ASSUME NEW q \in PrefixSlots, q + pos + 1 < MaxPrefix  PROVE q + pos + 1 \in PrefixSlots
    BY <1>8, <1>9, <2>1 DEF PrefixSlots
  <2>2. rest \in [PrefixSlots -> Byte]
    BY <1>3, <1>8, <2>1 DEF ShiftedPast
  <2>3. ASSUME NEW q \in PrefixSlots, q < len - (pos + 1)  PROVE rest[q] = path[d + pos + 1 + q]
    <3>1. /\ q \in Nat /\ q + pos + 1 < len /\ q + pos + 1 < MaxPrefix
          /\ d + (q + pos + 1) = d + pos + 1 + q
      BY <1>8, <1>9, <2>3
    <3>2. q + pos + 1 \in PrefixSlots
      BY <2>1, <3>1
    <3>3. rest[q] = f[q + pos + 1]
      BY <1>3, <3>1 DEF ShiftedPast
    <3>4. f[q + pos + 1] = path[d + (q + pos + 1)]
      BY <1>9, <3>1, <3>2
    <3> QED
      BY <3>1, <3>3, <3>4
  <2> QED
    BY <2>2, <2>3
<1>12. Gives(f, pos) /\ \A q \in PrefixSlots : q < pos => q < pos /\ f[q] = path[d + q]
  <2>1. ASSUME NEW q \in PrefixSlots, q < pos  PROVE q < len
    <3>1. q \in Nat
      BY <1>9
    <3> QED
      BY <1>8, <2>1, <3>1
  <2> QED
    BY <1>8, <1>9, <2>1 DEF Gives
<1>13. SplitFits(pos, f, pos, f[pos], rest)
  BY <1>4, <1>5, <1>6, <1>7, <1>8, <1>10, <1>11, <1>12 DEF SplitFits
<1> QED
  BY <1>4, <1>13, SplitShape

LEMMA SplitLoadedShape == ASSUME ShapeInv, SplitLoaded  PROVE ShapeInv'
<1>1. PICK pos : pos = Min(Differing)
  OBVIOUS
<1>2. PICK f : f = Here.prefix
  OBVIOUS
<1>3. PICK k : k = call.low.path
  OBVIOUS
<1>4. PICK d : d = call.depth
  OBVIOUS
<1>5. PICK path : path = call.cur.path
  OBVIOUS
<1>6. PICK len : len = Here.plen
  OBVIOUS
<1>7. PICK rest : rest = Reloaded(Here, k, pos)
  OBVIOUS
<1>8. /\ AtNode(InsertOps) /\ Compared /\ Differing # {} /\ len >= MaxPrefix
      /\ SplitAt(pos, f, MaxPrefix, k[Here.depth + pos], rest)
  BY <1>1, <1>2, <1>3, <1>6, <1>7 DEF SplitLoaded
<1>9. /\ len \in Nat /\ d \in Nat /\ MaxPrefix \in Nat /\ f \in [PrefixSlots -> Byte]
      /\ Here.depth = d /\ pos \in Nat /\ pos < len
      /\ call.key[d + pos] # path[d + pos] /\ Agree(call.key, path, d + pos)
      /\ Kept(Here, path) /\ Branch(Here) = d + len /\ Branch(Here) \in Chunks
      /\ k \in Keys /\ Agree(k, path, Branch(Here))
  BY <1>1, <1>2, <1>3, <1>4, <1>5, <1>6, <1>8, SplitStart
<1>10. StoredLength(Here) = MaxPrefix
  <2>1. StoredLength(Here) = IF len =< MaxPrefix THEN len ELSE MaxPrefix
    BY <1>6, <1>8, SplitStart
  <2> QED
    BY <1>8, <1>9, <2>1
<1>11. \A q \in PrefixSlots : q \in Nat /\ q < MaxPrefix /\ f[q] = path[d + q]
  <2> SUFFICES ASSUME NEW q \in PrefixSlots
               PROVE  q \in Nat /\ q < MaxPrefix /\ f[q] = path[d + q]
    OBVIOUS
  <2>1. q \in Nat /\ q < MaxPrefix
    BY <1>9 DEF PrefixSlots
  <2>2. q \in 0..(StoredLength(Here) - 1)
    BY <1>9, <1>10, <2>1
  <2> QED
    BY <1>2, <1>9, <2>1, <2>2 DEF Kept
<1>12. k[Here.depth + pos] = path[d + pos]
  <2>1. d + pos \in 0..(Branch(Here) - 1)
    BY <1>9
  <2> QED
    BY <1>9, <2>1 DEF Agree
<1>13. \A q \in PrefixSlots : q < len - (pos + 1) => /\ k[Here.depth + pos + 1 + q] \in Byte
                                                      /\ k[Here.depth + pos + 1 + q] = path[d + pos + 1 + q]
  <2> SUFFICES ASSUME NEW q \in PrefixSlots, q < len - (pos + 1)
               PROVE  /\ k[d + pos + 1 + q] \in Byte
                      /\ k[d + pos + 1 + q] = path[d + pos + 1 + q]
    BY <1>9
  <2>1. q \in Nat
    BY <1>11
  <2>2. d + pos + 1 + q \in 0..(Branch(Here) - 1) /\ d + pos + 1 + q \in Chunks
    BY <1>9, <2>1, KeyLenAssumption DEF Chunks
  <2>3. k[d + pos + 1 + q] = path[d + pos + 1 + q]
    BY <1>9, <2>2 DEF Agree
  <2>4. k[d + pos + 1 + q] \in Byte
    BY <1>9, <2>2, KeyChunk
  <2> QED
    BY <2>3, <2>4
<1>14. /\ rest \in [PrefixSlots -> Byte]
       /\ \A q \in PrefixSlots : q < len - (pos + 1) => rest[q] = path[d + pos + 1 + q]
  <2>1. rest = [q \in PrefixSlots |->
                   IF q < len - (pos + 1) THEN k[Here.depth + pos + 1 + q] ELSE f[q]]
    BY <1>2, <1>6, <1>7 DEF Reloaded
  <2> QED
    BY <1>9, <1>13, <2>1
<1>15. /\ Gives(f, MaxPrefix)
       /\ \A q \in PrefixSlots : q < pos => q < MaxPrefix /\ f[q] = path[d + q]
  BY <1>9, <1>11 DEF Gives
<1>16. SplitFits(pos, f, MaxPrefix, k[Here.depth + pos], rest)
  BY <1>4, <1>5, <1>6, <1>8, <1>9, <1>12, <1>14, <1>15 DEF SplitFits
<1> QED
  BY <1>8, <1>16, SplitShape

\* children[i]->_parent = p.
LEMMA AdoptPrefixNodes ==
    ASSUME NEW h, IsHeap(h, InnerAddr, PrefixNode), NEW S, NEW p \in Ptr
    PROVE  /\ IsHeap(Adopt(h, S, p), InnerAddr, PrefixNode)
           /\ DOMAIN Adopt(h, S, p) = DOMAIN h
           /\ \A a \in DOMAIN h : Alike(h[a], Adopt(h, S, p)[a])
           /\ \A a \in DOMAIN h : Adopt(h, S, p)[a].parent = IF a \in S THEN p ELSE h[a].parent
<1>1. ASSUME NEW a \in DOMAIN h
      PROVE  LET m == [h[a] EXCEPT !.parent = p]
             IN  m \in PrefixNode /\ Alike(h[a], m) /\ m.parent = p
  BY DEF IsHeap, PrefixNode, Alike
<1>2. ASSUME NEW a \in DOMAIN h  PROVE h[a] \in PrefixNode /\ Alike(h[a], h[a])
  BY DEF IsHeap, Alike
<1> QED
  BY <1>1, <1>2 DEF Adopt, IsHeap

\* The children of a node are the nodes that hang from it.
LEMMA ChildrenHang ==
    ASSUME NEW in, NEW lf, NEW r, PrefixHeaps(in, lf), Trie(in, lf, r), NEW a \in DOMAIN in
    PROVE  /\ \A c \in Children(in[a]) : c \in Nodes(in, lf) /\ Par(in, lf, c) = a
           /\ \A c \in Nodes(in, lf) : Par(in, lf, c) = a => c \in Children(in[a])
<1>1. ASSUME NEW c \in Children(in[a])  PROVE c \in Nodes(in, lf) /\ Par(in, lf, c) = a
  <2>1. PICK b \in Byte : c = in[a].child[b] /\ c # Null
    BY DEF Children, Occupied
  <2>2. Holds(in, lf, a, b, c)
    BY <2>1 DEF Trie
  <2> QED
    BY <2>2 DEF Holds
<1>2. ASSUME NEW c \in Nodes(in, lf), Par(in, lf, c) = a  PROVE c \in Children(in[a])
  <2>1. InSlot(in, lf, c) /\ c # Null
    BY <1>2, AboveNode, PrefixHeapFacts DEF Nodes
  <2>2. PICK b \in Byte : in[a].child[b] = c
    BY <1>2, <2>1 DEF InSlot
  <2> QED
    BY <2>1, <2>2 DEF Children, Occupied
<1> QED
  BY <1>1, <1>2

\* What grow() and shrink() do: new is a copy of old in another layout.
Retypes(old, new, k) ==
    LET kids == Children(inner[old])
    IN  /\ old \in DOMAIN inner /\ new \in InnerAddr /\ new \notin DOMAIN inner
        /\ new.path = old.path
        /\ Agree(k, old.path, Branch(inner[old]))
        /\ PointTo(Adopt(Free(Allocate(inner, new, inner[old]), old), kids, new),
                   inner[old].parent, k, new)
        /\ leaf' = Adopt(leaf, kids, new)

\* Everything but the sizes of the layouts.
LEMMA NodeRetyped ==
    ASSUME ShapeInv, call.pc # "clear", NEW old, NEW new, NEW k, Retypes(old, new, k)
    PROVE  /\ PrefixHeaps(inner', leaf') /\ Trie(inner', leaf', root')
           /\ \A a \in DOMAIN inner' : Branch(inner'[a]) \in Chunks
           /\ Kepts(inner') /\ Counted(inner')
           /\ DOMAIN inner' = (DOMAIN inner \ {old}) \cup {new}
           /\ \A a \in DOMAIN inner : a # old => inner'[a].count = inner[a].count
           /\ inner'[new].count = inner[old].count /\ inner'[new].child = inner[old].child
           /\ Branch(inner'[new]) = Branch(inner[old])
           /\ root' = Subst(root, old, new) /\ root' \in Ptr /\ dummyRoot' \in Ptr
<1>1. /\ TypeOK /\ PrefixHeaps(inner, leaf) /\ Live = Nodes(inner, leaf)
      /\ Trie(inner, leaf, root) /\ Kepts(inner) /\ Counted(inner)
  BY ShapeBefore
<1>2. PICK kids : kids = Children(inner[old])
  OBVIOUS
<1>3. PICK p : p = inner[old].parent
  OBVIOUS
<1>4. PICK g : g = Free(Allocate(inner, new, inner[old]), old)
  OBVIOUS
<1>5. PICK h : h = Adopt(g, kids, new)
  OBVIOUS
<1>6. /\ old \in DOMAIN inner /\ new \in InnerAddr /\ new \notin DOMAIN inner
      /\ new.path = old.path /\ Agree(k, old.path, Branch(inner[old]))
      /\ PointTo(h, p, k, new) /\ leaf' = Adopt(leaf, kids, new)
  BY <1>2, <1>3, <1>4, <1>5 DEF Retypes
<1>7. /\ new \in Ptr /\ new # Null /\ new # old /\ old # Null /\ new \notin Nodes(inner, leaf)
      /\ old \in Nodes(inner, leaf) /\ old \notin DOMAIN leaf /\ p = Par(inner, leaf, old)
      /\ p # old /\ p # new /\ inner[old] \in PrefixNode
      /\ (p = Dummy \/ p \in DOMAIN inner)
  <2>1. old \notin DOMAIN leaf /\ old \in Nodes(inner, leaf) /\ new \notin DOMAIN leaf
        /\ inner[old] \in PrefixNode /\ old # Null
    BY <1>1, <1>6, PrefixHeapFacts, PointerKinds DEF Nodes
  <2>2. p = Par(inner, leaf, old)
    BY <1>3, <2>1 DEF Par
  <2>3. p = Dummy \/ p \in DOMAIN inner
    BY <1>1, <2>1, <2>2, AboveNode
  <2>4. p # old
    <3>1. ASSUME p = old  PROVE FALSE
      <4>1. Par(inner, leaf, old) = old
        BY <2>2, <3>1
      <4>2. Branch(inner[old]) \in Nat /\ Branch(inner[old]) < Branch(inner[old])
        BY <1>1, <1>6, <4>1, NodeBelow
      <4> QED
        BY <4>2
    <3> QED
      BY <3>1
  <2> QED
    BY <1>6, <2>1, <2>2, <2>3, <2>4, PointerKinds DEF Nodes
<1>8. /\ \A c \in kids : c \in Nodes(inner, leaf) /\ Par(inner, leaf, c) = old
      /\ \A c \in Nodes(inner, leaf) : Par(inner, leaf, c) = old => c \in kids
  BY <1>1, <1>2, <1>6, ChildrenHang
<1>9. /\ IsHeap(g, InnerAddr, PrefixNode) /\ DOMAIN g = (DOMAIN inner \ {old}) \cup {new}
      /\ g[new] = inner[old]
      /\ \A a \in DOMAIN inner : a # old => g[a] = inner[a]
  <2>1. PICK e : e = Allocate(inner, new, inner[old])
    OBVIOUS
  <2>2. IsHeap(inner, InnerAddr, PrefixNode)
    BY <1>1 DEF PrefixHeaps
  <2>3. /\ IsHeap(Allocate(inner, new, inner[old]), InnerAddr, PrefixNode)
        /\ DOMAIN Allocate(inner, new, inner[old]) = DOMAIN inner \cup {new}
    <3>1. PICK n : n = inner[old]
      OBVIOUS
    <3>2. n \in PrefixNode /\ new \in InnerAddr
      BY <1>6, <1>7, <3>1
    <3>3. /\ IsHeap(Allocate(inner, new, n), InnerAddr, PrefixNode)
          /\ DOMAIN Allocate(inner, new, n) = DOMAIN inner \cup {new}
      BY <2>2, <3>2, AllocateHeap
    <3> QED
      BY <3>1, <3>3
  <2>4. IsHeap(e, InnerAddr, PrefixNode) /\ DOMAIN e = DOMAIN inner \cup {new}
    BY <2>1, <2>3
  <2>5. IsHeap(g, InnerAddr, PrefixNode) /\ DOMAIN g = DOMAIN e \ {old}
    BY <1>4, <2>1, <2>4, FreeHeap
  <2>6. e[new] = inner[old] /\ \A a \in DOMAIN inner : e[a] = inner[a]
    BY <1>6, <2>1 DEF Allocate
  <2>7. g[new] = e[new] /\ \A a \in DOMAIN inner : a # old => g[a] = e[a]
    BY <1>4, <1>7, <2>1, <2>4 DEF Free
  <2> QED
    BY <1>7, <2>4, <2>5, <2>6, <2>7
<1>10. /\ IsHeap(h, InnerAddr, PrefixNode) /\ DOMAIN h = (DOMAIN inner \ {old}) \cup {new}
       /\ Alike(inner[old], h[new]) /\ h[new].parent = p
       /\ \A a \in DOMAIN inner : a # old => Alike(inner[a], h[a])
       /\ \A a \in DOMAIN inner :
              a # old => h[a].parent = IF a \in kids THEN new ELSE inner[a].parent
  <2>1. /\ IsHeap(h, InnerAddr, PrefixNode) /\ DOMAIN h = DOMAIN g
        /\ \A a \in DOMAIN g : Alike(g[a], h[a])
        /\ \A a \in DOMAIN g : h[a].parent = IF a \in kids THEN new ELSE g[a].parent
    BY <1>5, <1>7, <1>9, AdoptPrefixNodes
  <2>2. new \notin kids
    BY <1>7, <1>8
  <2>3. new \in DOMAIN g /\ \A a \in DOMAIN inner : a # old => a \in DOMAIN g
    BY <1>9
  <2>4. Alike(inner[old], h[new]) /\ h[new].parent = p
    BY <1>3, <1>9, <2>1, <2>2, <2>3
  <2>5. ASSUME NEW a \in DOMAIN inner, a # old
        PROVE  /\ Alike(inner[a], h[a])
               /\ h[a].parent = IF a \in kids THEN new ELSE inner[a].parent
    <3>1. a \in DOMAIN g /\ g[a] = inner[a]
      BY <1>9, <2>5
    <3> QED
      BY <2>1, <3>1
  <2> QED
    BY <1>9, <2>1, <2>4, <2>5
<1>11. Pointable(old, p, h, k)
  <2>1. ASSUME p \in DOMAIN inner  PROVE k[Branch(inner[p])] = old.path[Branch(inner[p])]
    <3>1. /\ Branch(inner[p]) \in Nat /\ Branch(inner[old]) \in Nat
          /\ Branch(inner[p]) < Branch(inner[old])
      BY <1>1, <1>6, <1>7, <2>1, NodeBelow
    <3>2. Branch(inner[p]) \in 0..(Branch(inner[old]) - 1)
      BY <3>1
    <3> QED
      BY <1>6, <3>2 DEF Agree
  <2> QED
    BY <1>7, <1>10, <2>1 DEF Pointable
<1>12. /\ DOMAIN inner' = DOMAIN h /\ IsHeap(inner', InnerAddr, PrefixNode)
       /\ inner'[new] = h[new]
       /\ \A a \in DOMAIN inner : a # old => inner'[a].parent = h[a].parent
       /\ \A a \in DOMAIN inner : a # old => SameNode(inner[a], inner'[a], old, new)
       /\ root' = Subst(root, old, new) /\ root' \in Ptr /\ dummyRoot' \in Ptr
  <2>1. /\ DOMAIN inner' = DOMAIN h /\ IsHeap(inner', InnerAddr, PrefixNode)
        /\ \A a \in DOMAIN h : a # p => inner'[a] = h[a]
        /\ \A a \in DOMAIN h : inner'[a].parent = h[a].parent
        /\ \A a \in DOMAIN h : a \in DOMAIN inner /\ Alike(inner[a], h[a]) =>
                                   SameNode(inner[a], inner'[a], old, new)
        /\ root' = Subst(root, old, new) /\ root' \in Ptr /\ dummyRoot' \in Ptr
    BY <1>1, <1>6, <1>7, <1>11, PointedTo
  <2> QED
    BY <1>7, <1>10, <2>1
<1>13. /\ IsHeap(leaf', LeafAddr, LeafNode) /\ DOMAIN leaf' = DOMAIN leaf
       /\ \A l \in DOMAIN leaf : leaf'[l].parent = IF l \in kids THEN new ELSE leaf[l].parent
  <2>1. IsHeap(leaf, LeafAddr, LeafNode)
    BY <1>1 DEF PrefixHeaps
  <2>2. IsHeap(leaf', LeafAddr, LeafNode) /\ DOMAIN leaf' = DOMAIN leaf
    BY <1>6, <1>7, <2>1, AdoptLeaf
  <2>3. ASSUME NEW l \in DOMAIN leaf
        PROVE  leaf'[l].parent = IF l \in kids THEN new ELSE leaf[l].parent
    <3>1. leaf[l] \in LeafNode
      BY <1>1, PrefixHeapFacts
    <3>2. leaf'[l] = IF l \in kids THEN [leaf[l] EXCEPT !.parent = new] ELSE leaf[l]
      BY <1>6 DEF Adopt
    <3> QED
      BY <3>1, <3>2 DEF LeafNode
  <2> QED
    BY <2>2, <2>3
<1>14. Replaced(inner, leaf, inner', leaf', old, new)
  <2>1. ASSUME NEW c \in Nodes(inner, leaf), c # old
        PROVE  Par(inner', leaf', c) = Subst(Par(inner, leaf, c), old, new)
    <3>1. c \in kids <=> Par(inner, leaf, c) = old
      BY <1>8
    <3>2. CASE c \in DOMAIN leaf
      BY <1>13, <3>1, <3>2 DEF Par, Subst
    <3>3. CASE c \notin DOMAIN leaf
      <4>1. c \in DOMAIN inner /\ c \notin DOMAIN leaf'
        BY <1>13, <3>3 DEF Nodes
      <4>2. inner'[c].parent = IF c \in kids THEN new ELSE inner[c].parent
        BY <1>10, <1>12, <2>1, <4>1
      <4> QED
        BY <3>1, <3>3, <4>1, <4>2 DEF Par, Subst
    <3> QED
      BY <3>2, <3>3
  <2>2. Par(inner', leaf', new) = p
    <3>1. new \notin DOMAIN leaf'
      BY <1>7, <1>13 DEF Nodes
    <3> QED
      BY <1>10, <1>12, <3>1 DEF Par
  <2>3. /\ inner'[new].depth = inner[old].depth /\ Branch(inner'[new]) = Branch(inner[old])
        /\ \A b \in Byte : inner'[new].child[b] = inner[old].child[b]
    BY <1>10, <1>12 DEF Alike, Branch
  <2> QED
    BY <1>6, <1>7, <1>10, <1>12, <1>13, <2>1, <2>2, <2>3 DEF Replaced
<1>15. PrefixHeaps(inner', leaf')
  BY <1>12, <1>13 DEF PrefixHeaps
<1>16. Trie(inner', leaf', root')
  BY <1>1, <1>12, <1>14, <1>15, NodeReplaced
<1>17. /\ inner'[new].count = inner[old].count /\ inner'[new].child = inner[old].child
       /\ Branch(inner'[new]) = Branch(inner[old]) /\ Kept(inner'[new], new.path)
       /\ inner'[new].count = Cardinality(Occupied(inner'[new]))
  <2>1. /\ inner'[new].count = inner[old].count /\ inner'[new].child = inner[old].child
        /\ inner'[new].depth = inner[old].depth /\ inner'[new].plen = inner[old].plen
        /\ inner'[new].prefix = inner[old].prefix
    BY <1>10, <1>12 DEF Alike
  <2>2. Branch(inner'[new]) = Branch(inner[old]) /\ Kept(inner'[new], new.path)
    <3>1. Kept(inner[old], old.path)
      BY <1>1, <1>6 DEF Kepts
    <3>2. /\ Branch(inner'[new]) = Branch(inner[old])
          /\ \A q : Kept(inner[old], q) => Kept(inner'[new], q)
      BY <2>1, KeptAlike
    <3> QED
      BY <1>6, <3>1, <3>2
  <2>3. inner'[new].count = Cardinality(Occupied(inner'[new]))
    <3>1. Occupied(inner'[new]) = Occupied(inner[old])
      BY <2>1 DEF Occupied
    <3> QED
      BY <1>1, <1>6, <2>1, <3>1 DEF Counted
  <2> QED
    BY <2>1, <2>2, <2>3
<1>18. /\ \A a \in DOMAIN inner' : Branch(inner'[a]) \in Chunks
       /\ Kepts(inner') /\ Counted(inner')
       /\ \A a \in DOMAIN inner' : a \notin {new} => inner'[a].count = inner[a].count
  <2>1. Branch(inner[old]) \in Chunks
    BY <1>1, <1>6 DEF TypeOK
  <2>2. \A a \in DOMAIN inner' :
            IF a \in {new} THEN /\ Branch(inner'[a]) \in Chunks /\ Kept(inner'[a], a.path)
                                /\ inner'[a].count = Cardinality(Occupied(inner'[a]))
            ELSE a \in DOMAIN inner /\ SameNode(inner[a], inner'[a], old, new)
    BY <1>10, <1>12, <1>17, <2>1
  <2> QED
    BY <1>1, <1>7, <2>2, OthersKept
<1> QED
  BY <1>6, <1>7, <1>10, <1>12, <1>15, <1>16, <1>17, <1>18

\* grow() of the full node an insertion ends at.
LEMMA GrowNodeShape == ASSUME ShapeInv, GrowNode  PROVE ShapeInv'
<1>1. PICK old : old = call.prev
  OBVIOUS
<1>2. PICK new : new = [old EXCEPT !.type = Grown(old.type)]
  OBVIOUS
<1>3. PICK key : key = call.key
  OBVIOUS
<1>4. /\ call.pc = "walk" /\ call.op \in InsertOps /\ call.cur = Null
      /\ old \in DOMAIN inner /\ old.type # "node_256" /\ new \notin DOMAIN inner
      /\ inner[old].count = MaxSize(old.type)
      /\ PointTo(Adopt(Free(Allocate(inner, new, inner[old]), old), Children(inner[old]), new),
                 inner[old].parent, key, new)
      /\ leaf' = Adopt(leaf, Children(inner[old]), new)
      /\ call' = [call EXCEPT !.prev = new] /\ count' = count
  BY <1>1, <1>2, <1>3 DEF GrowNode, AtGap, Walking
<1>5. /\ TypeOK /\ PrefixHeaps(inner, leaf) /\ Trie(inner, leaf, root) /\ Sized
      /\ WalkFits
  BY <1>4, ShapeBefore DEF ShapeInv
<1>6. call \in WalkCall
  BY <1>4, <1>5, CallShape DEF TypeOK
<1>7. /\ old \in InnerAddr /\ old # Null /\ old # Dummy /\ Null \notin DOMAIN inner
      /\ inner[old] \in PrefixNode
  BY <1>4, <1>5, PrefixHeapFacts, PointerKinds DEF Nodes
<1>8. /\ root # Null /\ call.low = Null /\ call.depth = Branch(inner[old]) + 1
      /\ call.cur = inner[old].child[key[call.depth - 1]]
      /\ Agree(key, old.path, call.depth - 1)
  BY <1>1, <1>3, <1>4, <1>5, <1>7, OpTypes DEF WalkFits
<1>9. Branch(inner[old]) \in Nat /\ call.depth - 1 = Branch(inner[old])
  BY <1>7, <1>8, PrefixNodeFacts
<1>10. /\ new \in InnerAddr /\ new.path = old.path /\ new.type = Grown(old.type)
       /\ old.type \in InnerTypes
  BY <1>2, <1>7, AddrType, LayoutTypes DEF InnerAddr
<1>11. Retypes(old, new, key)
  BY <1>4, <1>8, <1>9, <1>10 DEF Retypes
<1>12. /\ PrefixHeaps(inner', leaf') /\ Trie(inner', leaf', root')
       /\ \A a \in DOMAIN inner' : Branch(inner'[a]) \in Chunks
       /\ Kepts(inner') /\ Counted(inner')
       /\ DOMAIN inner' = (DOMAIN inner \ {old}) \cup {new}
       /\ \A a \in DOMAIN inner : a # old => inner'[a].count = inner[a].count
       /\ inner'[new].count = inner[old].count /\ inner'[new].child = inner[old].child
       /\ Branch(inner'[new]) = Branch(inner[old])
       /\ root' = Subst(root, old, new) /\ root' \in Ptr /\ dummyRoot' \in Ptr
  BY <1>4, <1>11, NodeRetyped
<1>13. /\ call' \in WalkCall /\ call'.pc = "walk" /\ call'.prev = new /\ call'.op = call.op
       /\ call'.cur = Null /\ call'.low = Null /\ call'.depth = call.depth /\ call'.key = key
  BY <1>3, <1>4, <1>6, <1>8, <1>10, PointerKinds DEF WalkCall
<1>14. TypeOK'
  <2>1. count' \in Int
    BY <1>4, <1>5 DEF TypeOK
  <2> QED
    BY <1>12, <1>13, <2>1, CallParts DEF TypeOK, PrefixHeaps
<1>15. Sized'
  <2>1. Short = {old} /\ Short' = {new}
    BY <1>1, <1>4, <1>13 DEF Short
  <2>2. MaxSize(old.type) \in Nat /\ MinSize(new.type) = MaxSize(old.type) + 1
    BY <1>4, <1>10, SizeNumbers
  <2>3. OneShort(inner', new)
    BY <1>4, <1>12, <2>2 DEF OneShort
  <2>4. \A a \in DOMAIN inner : a # old => SizeFits(inner, a)
    BY <1>5, <2>1 DEF Sized
  <2>5. \A a \in DOMAIN inner : a # old => SizeFits(inner', a)
    BY <1>12, <2>4 DEF SizeFits
  <2> QED
    BY <1>12, <1>13, <2>1, <2>3, <2>5 DEF Sized
<1>16. WalkFits'
  <2>1. root' # Null
    BY <1>8, <1>10, <1>12, PointerKinds DEF Subst
  <2>2. inner'[new].child[key[call.depth - 1]] = Null
    BY <1>4, <1>8, <1>12
  <2> QED
    BY <1>8, <1>10, <1>12, <1>13, <2>1, <2>2 DEF WalkFits
<1> QED
  BY <1>12, <1>13, <1>14, <1>15, <1>16, OtherCallsNext DEF ShapeInv, Whole

\* What fix_after_erase knows of the node it looks at.
LEMMA FixKnows ==
    ASSUME ShapeInv, call.pc \in {"shrink", "compress"}
    PROVE  /\ TypeOK /\ PrefixHeaps(inner, leaf) /\ Live = Nodes(inner, leaf)
           /\ Trie(inner, leaf, root) /\ Sized /\ Kepts(inner) /\ Counted(inner)
           /\ call \in FixCall /\ call.op \in Ops /\ call.key \in Keys /\ call.key \in KeyArg
           /\ call.at \in Position
           /\ call.node \in DOMAIN inner /\ call.node \in InnerAddr
           /\ call.node.type \in InnerTypes
           /\ call.node # Null /\ inner[call.node] \in PrefixNode
           /\ inner[call.node].count = Cardinality(Occupied(inner[call.node]))
           /\ Agree(call.key, call.node.path, Branch(inner[call.node]))
           /\ \A a \in DOMAIN inner : a # call.node => SizeFits(inner, a)
           /\ \/ SizeFits(inner, call.node)
              \/ /\ OneShort(inner, call.node)
                 /\ call.pc = "compress" => call.node.type = "node_4"
<1>1. /\ TypeOK /\ PrefixHeaps(inner, leaf) /\ Live = Nodes(inner, leaf)
      /\ Trie(inner, leaf, root) /\ Sized /\ Kepts(inner) /\ Counted(inner)
  BY ShapeBefore
<1>2. /\ call \in FixCall /\ call.op \in Ops /\ call.at \in Position
      /\ call.key \in KeyArg
  BY <1>1, CallShape, OpTypes DEF TypeOK, FixCall
<1>3. /\ call.node \in DOMAIN inner /\ call.key \in Keys
      /\ Agree(call.key, call.node.path, Branch(inner[call.node]))
  BY DEF ShapeInv, FixFits
<1>4. /\ call.node \in InnerAddr /\ call.node # Null /\ inner[call.node] \in PrefixNode
      /\ call.node.type \in InnerTypes
      /\ inner[call.node].count = Cardinality(Occupied(inner[call.node]))
  BY <1>1, <1>3, PrefixHeapFacts, AddrType DEF Nodes, Counted
<1>5. Short = {call.node}
  BY DEF Short
<1> QED
  BY <1>1, <1>2, <1>3, <1>4, <1>5 DEF Sized

\* shrink() to the next smaller layout.
LEMMA ShrinkToNodeShape == ASSUME ShapeInv, ShrinkToNode  PROVE ShapeInv'
<1>1. PICK old : old = call.node
  OBVIOUS
<1>2. PICK new : new = [old EXCEPT !.type = Shrunk(old.type)]
  OBVIOUS
<1>3. PICK key : key = call.key
  OBVIOUS
<1>4. PICK made : made = [inner[old] EXCEPT !.count = MaxSize(Shrunk(old.type))]
  OBVIOUS
<1>5. /\ call.pc = "shrink" /\ old.type # "node_4" /\ new \notin DOMAIN inner
      /\ inner[old].count < MinSize(old.type)
      /\ PointTo(Adopt(Free(Allocate(inner, new, made), old), Children(inner[old]), new),
                 made.parent, key, new)
      /\ leaf' = Adopt(leaf, Children(inner[old]), new)
      /\ call' = [call EXCEPT !.pc = "compress", !.node = new] /\ count' = count
  BY <1>1, <1>2, <1>3, <1>4 DEF ShrinkToNode, Underfull, Fixing, ThenCompress
<1>6. /\ TypeOK /\ Sized /\ call \in FixCall /\ key \in Keys
      /\ old \in DOMAIN inner /\ old \in InnerAddr /\ old.type \in InnerTypes
      /\ inner[old] \in PrefixNode /\ Agree(key, old.path, Branch(inner[old]))
      /\ \A a \in DOMAIN inner : a # old => SizeFits(inner, a)
      /\ SizeFits(inner, old) \/ OneShort(inner, old)
  BY <1>1, <1>3, <1>5, FixKnows
<1>7. /\ MinSize(old.type) \in Nat /\ MinSize(old.type) = MaxSize(Shrunk(old.type)) + 1
      /\ MaxSize(Shrunk(old.type)) \in Nat /\ Shrunk(old.type) \in InnerTypes
      /\ MinSize(Shrunk(old.type)) \in Nat /\ MinSize(Shrunk(old.type)) =< MaxSize(Shrunk(old.type))
  <2>1. MinSize(old.type) = MaxSize(Shrunk(old.type)) + 1 /\ Shrunk(old.type) \in InnerTypes
    BY <1>5, <1>6, SizeNumbers
  <2>2. MinSize(old.type) \in Nat
    BY <1>6, SizeNumbers
  <2> QED
    BY <2>1, <2>2, SizeNumbers
<1>8. inner[old].count = MaxSize(Shrunk(old.type)) /\ made = inner[old]
  <2>1. inner[old].count \in Int
    BY <1>6, PrefixNodeFacts
  <2>2. ~ SizeFits(inner, old)
    BY <1>5, <1>7, <2>1 DEF SizeFits
  <2>3. inner[old].count = MaxSize(Shrunk(old.type))
    BY <1>6, <1>7, <2>2 DEF OneShort
  <2> QED
    BY <1>4, <1>6, <2>3 DEF PrefixNode
<1>9. new \in InnerAddr /\ new.path = old.path /\ new.type = Shrunk(old.type)
  BY <1>2, <1>6, <1>7 DEF InnerAddr
<1>10. Retypes(old, new, key)
  BY <1>5, <1>6, <1>8, <1>9 DEF Retypes
<1>11. /\ PrefixHeaps(inner', leaf') /\ Trie(inner', leaf', root')
       /\ \A a \in DOMAIN inner' : Branch(inner'[a]) \in Chunks
       /\ Kepts(inner') /\ Counted(inner')
       /\ DOMAIN inner' = (DOMAIN inner \ {old}) \cup {new}
       /\ \A a \in DOMAIN inner : a # old => inner'[a].count = inner[a].count
       /\ inner'[new].count = inner[old].count /\ inner'[new].child = inner[old].child
       /\ Branch(inner'[new]) = Branch(inner[old])
       /\ root' = Subst(root, old, new) /\ root' \in Ptr /\ dummyRoot' \in Ptr
  BY <1>5, <1>10, NodeRetyped
<1>12. call' \in FixCall /\ call'.pc = "compress" /\ call'.node = new /\ call'.key = key
  BY <1>3, <1>5, <1>6, <1>9, PointerKinds DEF FixCall
<1>13. TypeOK'
  <2>1. count' \in Int
    BY <1>5, <1>6 DEF TypeOK
  <2> QED
    BY <1>11, <1>12, <2>1, CallParts DEF TypeOK, PrefixHeaps
<1>14. Sized'
  <2>1. SizeFits(inner', new)
    BY <1>7, <1>8, <1>9, <1>11 DEF SizeFits
  <2>2. \A a \in DOMAIN inner : a # old => SizeFits(inner', a)
    BY <1>6, <1>11 DEF SizeFits
  <2> QED
    BY <1>11, <2>1, <2>2 DEF Sized
<1>15. FixFits'
  BY <1>6, <1>9, <1>11, <1>12 DEF FixFits
<1> QED
  BY <1>11, <1>12, <1>13, <1>14, <1>15, OtherCallsNext DEF ShapeInv, Whole

\* A node with a single child, and the child.
LEMMA SingleChild ==
    ASSUME NEW in, NEW lf, NEW r, PrefixHeaps(in, lf), Trie(in, lf, r), NEW mid \in DOMAIN in,
           Cardinality(Occupied(in[mid])) = 1
    PROVE  LET kid == FirstChild(in[mid])
           IN  /\ FirstByte(in[mid]) \in Byte /\ kid = in[mid].child[FirstByte(in[mid])]
               /\ kid # Null /\ kid \in Ptr /\ kid \in Nodes(in, lf)
               /\ Par(in, lf, kid) = mid /\ kid # mid /\ kid # Par(in, lf, mid)
               /\ \A b \in Byte : in[mid].child[b] \in {Null, kid}
               /\ Agree(kid.path, mid.path, Branch(in[mid]))
               /\ kid.path[Branch(in[mid])] = FirstByte(in[mid])
<1> DEFINE n   == in[mid]
           b   == FirstByte(n)
           kid == FirstChild(n)
<1>1. n \in PrefixNode
  BY PrefixHeapFacts
<1>2. PICK e : Occupied(n) = {e}
  BY <1>1, PrefixOccupied
<1>3. {e} \in SUBSET Nat /\ {e} \in SUBSET Byte
  BY <1>1, <1>2, PrefixOccupied
<1>4. b = e /\ b \in Byte
  <2>1. Min({e}) \in {e}
    BY <1>3, MinOfBytes
  <2> QED
    BY <1>2, <1>3, <2>1 DEF FirstByte
<1>5. kid = n.child[b] /\ kid # Null /\ \A x \in Byte : x # b => n.child[x] = Null
  BY <1>2, <1>4 DEF FirstChild, Occupied
<1> HIDE DEF b, kid, n
<1>6. Holds(in, lf, mid, b, kid)
  BY <1>4, <1>5 DEF Trie, n
<1>7. /\ kid \in Nodes(in, lf) /\ Par(in, lf, kid) = mid
      /\ Agree(kid.path, mid.path, Branch(n)) /\ kid.path[Branch(n)] = b
  BY <1>6 DEF Holds, n
<1>8. kid \in Ptr
  BY <1>7, AboveNode
<1>9. ASSUME kid \in DOMAIN in
      PROVE  /\ Branch(in[kid]) \in Nat /\ Branch(in[mid]) \in Nat
             /\ Branch(in[mid]) < Branch(in[kid])
  BY <1>7, <1>9, NodeBelow
<1>10. kid # mid
  BY <1>9
<1>11. kid # Par(in, lf, mid)
  <2>1. ASSUME kid = Par(in, lf, mid)  PROVE FALSE
    <3>1. kid \in DOMAIN in
      <4>1. mid \in Nodes(in, lf)
        BY DEF Nodes
      <4>2. Par(in, lf, mid) = Dummy \/ Par(in, lf, mid) \in DOMAIN in
        BY <4>1, AboveNode
      <4>3. kid # Dummy
        BY <1>7, PrefixHeapFacts
      <4> QED
        BY <2>1, <4>2, <4>3
    <3>2. Par(in, lf, mid) \in DOMAIN in
      BY <2>1, <3>1
    <3>3. Branch(in[Par(in, lf, mid)]) < Branch(in[mid])
      BY <3>2, NodeBelow
    <3> QED
      BY <1>9, <2>1, <3>1, <3>3
  <2> QED
    BY <2>1
<1>12. \A x \in Byte : n.child[x] \in {Null, kid}
  BY <1>5
<1> QED
  BY <1>4, <1>5, <1>7, <1>8, <1>10, <1>11, <1>12 DEF n, b, kid

\* What takes node mid away and hangs its single child kid in its place: heap
\* h is without mid, and the prefix of kid begins where that of mid did.
Raises(mid, kid, p, h, k) ==
    /\ mid \in DOMAIN inner /\ Cardinality(Occupied(inner[mid])) = 1
    /\ kid = FirstChild(inner[mid]) /\ p = inner[mid].parent
    /\ Agree(k, mid.path, Branch(inner[mid]))
    /\ IsHeap(h, InnerAddr, PrefixNode) /\ DOMAIN h = DOMAIN inner \ {mid}
    /\ \A a \in DOMAIN h : a # kid => h[a] = inner[a]
    /\ kid \in DOMAIN inner =>
           /\ h[kid].parent = p /\ h[kid].depth = inner[mid].depth
           /\ Branch(h[kid]) = Branch(inner[kid]) /\ h[kid].child = inner[kid].child
           /\ h[kid].count = inner[kid].count /\ Kept(h[kid], kid.path)
    /\ IsHeap(leaf', LeafAddr, LeafNode) /\ DOMAIN leaf' = DOMAIN leaf
    /\ \A l \in DOMAIN leaf : leaf'[l].parent = IF l = kid THEN p ELSE leaf[l].parent
    /\ PointTo(h, p, k, kid)

LEMMA NodeRaised ==
    ASSUME ShapeInv, call.pc # "clear", NEW mid, NEW kid, NEW p, NEW h, NEW k,
           Raises(mid, kid, p, h, k)
    PROVE  /\ PrefixHeaps(inner', leaf') /\ Trie(inner', leaf', root')
           /\ \A a \in DOMAIN inner' : Branch(inner'[a]) \in Chunks
           /\ Kepts(inner') /\ Counted(inner')
           /\ DOMAIN inner' = DOMAIN inner \ {mid}
           /\ \A a \in DOMAIN inner' : inner'[a].count = inner[a].count
           /\ root' \in Ptr /\ dummyRoot' \in Ptr
<1>1. /\ TypeOK /\ PrefixHeaps(inner, leaf) /\ Live = Nodes(inner, leaf)
      /\ Trie(inner, leaf, root) /\ Kepts(inner) /\ Counted(inner)
  BY ShapeBefore
<1>2. /\ mid \in DOMAIN inner /\ Cardinality(Occupied(inner[mid])) = 1
      /\ kid = FirstChild(inner[mid]) /\ p = inner[mid].parent
      /\ Agree(k, mid.path, Branch(inner[mid]))
      /\ IsHeap(h, InnerAddr, PrefixNode) /\ DOMAIN h = DOMAIN inner \ {mid}
      /\ \A a \in DOMAIN h : a # kid => h[a] = inner[a]
      /\ PointTo(h, p, k, kid)
  BY DEF Raises
<1>3. kid \in DOMAIN inner =>
          /\ h[kid].parent = p /\ h[kid].depth = inner[mid].depth
          /\ Branch(h[kid]) = Branch(inner[kid]) /\ h[kid].child = inner[kid].child
          /\ h[kid].count = inner[kid].count /\ Kept(h[kid], kid.path)
  BY DEF Raises
<1>4. /\ IsHeap(leaf', LeafAddr, LeafNode) /\ DOMAIN leaf' = DOMAIN leaf
      /\ \A l \in DOMAIN leaf : leaf'[l].parent = IF l = kid THEN p ELSE leaf[l].parent
  BY DEF Raises
<1>5. /\ kid # Null /\ kid \in Ptr /\ kid \in Nodes(inner, leaf)
      /\ Par(inner, leaf, kid) = mid /\ kid # mid /\ kid # Par(inner, leaf, mid)
      /\ \A b \in Byte : inner[mid].child[b] \in {Null, kid}
  BY <1>1, <1>2, SingleChild
<1>6. /\ mid \in Nodes(inner, leaf) /\ mid # Null /\ mid \notin DOMAIN leaf
      /\ p = Par(inner, leaf, mid) /\ (p = Dummy \/ p \in DOMAIN inner)
      /\ p # mid /\ p # kid /\ DOMAIN inner \cap DOMAIN leaf = {}
      /\ Dummy \notin DOMAIN inner
  <2>1. mid \in Nodes(inner, leaf) /\ mid # Null /\ mid \notin DOMAIN leaf
        /\ DOMAIN inner \cap DOMAIN leaf = {} /\ Dummy \notin DOMAIN inner
    BY <1>1, <1>2, PrefixHeapFacts DEF Nodes
  <2>2. p = Par(inner, leaf, mid)
    BY <1>2, <2>1 DEF Par
  <2>3. p = Dummy \/ p \in DOMAIN inner
    BY <1>1, <2>1, <2>2, AboveNode
  <2>4. p # mid
    <3>1. ASSUME p = mid  PROVE FALSE
      <4>1. Par(inner, leaf, mid) = mid
        BY <2>2, <3>1
      <4>2. Branch(inner[mid]) \in Nat /\ Branch(inner[mid]) < Branch(inner[mid])
        BY <1>1, <1>2, <4>1, NodeBelow
      <4> QED
        BY <4>2
    <3> QED
      BY <3>1
  <2> QED
    BY <1>5, <2>1, <2>2, <2>3, <2>4
<1>7. Pointable(mid, p, h, k)
  <2>1. ASSUME p \in DOMAIN inner  PROVE k[Branch(inner[p])] = mid.path[Branch(inner[p])]
    <3>1. /\ Branch(inner[p]) \in Nat /\ Branch(inner[mid]) \in Nat
          /\ Branch(inner[p]) < Branch(inner[mid])
      BY <1>1, <1>2, <1>6, <2>1, NodeBelow
    <3>2. Branch(inner[p]) \in 0..(Branch(inner[mid]) - 1)
      BY <3>1
    <3> QED
      BY <1>2, <3>2 DEF Agree
  <2>2. p \in DOMAIN inner => p \in DOMAIN h /\ Alike(inner[p], h[p])
    BY <1>2, <1>6 DEF Alike
  <2> QED
    BY <1>2, <1>6, <2>1, <2>2 DEF Pointable
<1>8. /\ DOMAIN inner' = DOMAIN h /\ IsHeap(inner', InnerAddr, PrefixNode)
      /\ \A a \in DOMAIN h : inner'[a].parent = h[a].parent
      /\ \A a \in DOMAIN h : a # kid => SameNode(inner[a], inner'[a], mid, kid)
      /\ kid \in DOMAIN inner => inner'[kid] = h[kid]
      /\ root' = Subst(root, mid, kid) /\ root' \in Ptr /\ dummyRoot' \in Ptr
  <2>1. /\ DOMAIN inner' = DOMAIN h /\ IsHeap(inner', InnerAddr, PrefixNode)
        /\ \A a \in DOMAIN h : a # p => inner'[a] = h[a]
        /\ \A a \in DOMAIN h : inner'[a].parent = h[a].parent
        /\ \A a \in DOMAIN h : a \in DOMAIN inner /\ Alike(inner[a], h[a]) =>
                                   SameNode(inner[a], inner'[a], mid, kid)
        /\ root' = Subst(root, mid, kid) /\ root' \in Ptr /\ dummyRoot' \in Ptr
    BY <1>1, <1>2, <1>5, <1>7, PointedTo
  <2>2. \A a \in DOMAIN h : a # kid => a \in DOMAIN inner /\ Alike(inner[a], h[a])
    BY <1>2 DEF Alike
  <2> QED
    BY <1>2, <1>5, <1>6, <2>1, <2>2
<1>9. TakenAway(inner, leaf, inner', leaf', mid, kid)
  <2>1. ASSUME NEW c \in Nodes(inner, leaf), c # mid, c # kid
        PROVE  Par(inner', leaf', c) = Par(inner, leaf, c)
    <3>1. CASE c \in DOMAIN leaf
      BY <1>4, <2>1, <3>1 DEF Par
    <3>2. CASE c \notin DOMAIN leaf
      <4>1. c \in DOMAIN h /\ h[c] = inner[c]
        BY <1>2, <2>1, <3>2 DEF Nodes
      <4> QED
        BY <1>4, <1>8, <3>2, <4>1 DEF Par
    <3> QED
      BY <3>1, <3>2
  <2>2. Par(inner', leaf', kid) = p
    <3>1. CASE kid \in DOMAIN leaf
      BY <1>4, <3>1 DEF Par
    <3>2. CASE kid \notin DOMAIN leaf
      <4>1. kid \in DOMAIN inner
        BY <1>5, <3>2 DEF Nodes
      <4> QED
        BY <1>3, <1>4, <1>8, <3>2, <4>1 DEF Par
    <3> QED
      BY <3>1, <3>2
  <2>3. kid \in DOMAIN inner => /\ inner'[kid].depth = inner[mid].depth
                                /\ Branch(inner'[kid]) = Branch(inner[kid])
                                /\ \A b \in Byte : inner'[kid].child[b] = inner[kid].child[b]
    BY <1>3, <1>8
  <2> QED
    BY <1>2, <1>4, <1>5, <1>6, <1>8, <2>1, <2>2, <2>3 DEF TakenAway
<1>10. PrefixHeaps(inner', leaf')
  BY <1>4, <1>8 DEF PrefixHeaps
<1>11. Trie(inner', leaf', root')
  BY <1>1, <1>8, <1>9, <1>10, NodeGone
<1>12. ASSUME kid \in DOMAIN inner
       PROVE  /\ Branch(inner'[kid]) \in Chunks /\ Kept(inner'[kid], kid.path)
              /\ inner'[kid].count = Cardinality(Occupied(inner'[kid]))
              /\ inner'[kid].count = inner[kid].count
  <2>1. Occupied(inner'[kid]) = Occupied(inner[kid])
    BY <1>3, <1>8, <1>12 DEF Occupied
  <2>2. inner[kid].count = Cardinality(Occupied(inner[kid])) /\ Branch(inner[kid]) \in Chunks
    BY <1>1, <1>12 DEF Counted, TypeOK
  <2> QED
    BY <1>3, <1>8, <1>12, <2>1, <2>2
<1>13. /\ \A a \in DOMAIN inner' : Branch(inner'[a]) \in Chunks
       /\ Kepts(inner') /\ Counted(inner')
       /\ \A a \in DOMAIN inner' : a \notin {kid} => inner'[a].count = inner[a].count
  <2>1. \A a \in DOMAIN inner' :
            IF a \in {kid} THEN /\ Branch(inner'[a]) \in Chunks /\ Kept(inner'[a], a.path)
                                /\ inner'[a].count = Cardinality(Occupied(inner'[a]))
            ELSE a \in DOMAIN inner /\ SameNode(inner[a], inner'[a], mid, kid)
    BY <1>2, <1>8, <1>12
  <2> QED
    BY <1>1, <1>5, <1>6, <2>1, OthersKept
<1>14. \A a \in DOMAIN inner' : inner'[a].count = inner[a].count
  BY <1>2, <1>8, <1>12, <1>13
<1> QED
  BY <1>2, <1>8, <1>10, <1>11, <1>13, <1>14

\* fix_after_erase has hung the single child of its node in place of the node.
LEMMA FixRaised ==
    ASSUME ShapeInv, call.pc \in {"shrink", "compress"}, NEW kid, NEW p, NEW h,
           Raises(call.node, kid, p, h, call.key), FixEnds, count' = count
    PROVE  ShapeInv'
<1>1. /\ TypeOK /\ call.op \in Ops /\ call.key \in KeyArg /\ call.at \in Position
      /\ \A a \in DOMAIN inner : a # call.node => SizeFits(inner, a)
  BY FixKnows
<1>2. /\ PrefixHeaps(inner', leaf') /\ Trie(inner', leaf', root')
      /\ \A a \in DOMAIN inner' : Branch(inner'[a]) \in Chunks
      /\ Kepts(inner') /\ Counted(inner')
      /\ DOMAIN inner' = DOMAIN inner \ {call.node}
      /\ \A a \in DOMAIN inner' : inner'[a].count = inner[a].count
      /\ root' \in Ptr /\ dummyRoot' \in Ptr
  BY NodeRaised
<1>3. call' \in Call /\ call'.pc = "return"
  BY <1>1, ReturnType DEF FixEnds
<1>4. TypeOK'
  <2>1. count' \in Int
    BY <1>1 DEF TypeOK
  <2> QED
    BY <1>2, <1>3, <2>1 DEF TypeOK, PrefixHeaps
<1>5. Sized'
  BY <1>1, <1>2 DEF Sized, SizeFits
<1> QED
  BY <1>2, <1>3, <1>4, <1>5, OtherCallsNext DEF ShapeInv, Whole

\* A node 4 that has lost a child has one left.
LEMMA OneLeft ==
    ASSUME ShapeInv, call.pc \in {"shrink", "compress"}, call.node.type = "node_4"
    PROVE  /\ SizeFits(inner, call.node) \/ inner[call.node].count = 1
           /\ SizeFits(inner, call.node) => inner[call.node].count >= 2
           /\ inner[call.node].count \in Int
<1>1. /\ call.node.type \in InnerTypes /\ inner[call.node] \in PrefixNode
      /\ SizeFits(inner, call.node) \/ OneShort(inner, call.node)
  BY FixKnows
<1>2. MinSize(call.node.type) = 2 /\ MaxSize(call.node.type) \in Nat
  BY <1>1, SizeNumbers
<1>3. inner[call.node].count \in Int
  BY <1>1, PrefixNodeFacts
<1> QED
  BY <1>1, <1>2, <1>3 DEF SizeFits, OneShort

\* shrink() of a node 4 whose last child is a leaf.
LEMMA ShrinkToLeafShape == ASSUME ShapeInv, ShrinkToLeaf  PROVE ShapeInv'
<1>1. PICK mid : mid = call.node
  OBVIOUS
<1>2. PICK kid : kid = FirstChild(inner[mid])
  OBVIOUS
<1>3. PICK p : p = inner[mid].parent
  OBVIOUS
<1>4. PICK h : h = Free(inner, mid)
  OBVIOUS
<1>5. PICK k : k = call.key
  OBVIOUS
<1>6. /\ call.pc = "shrink" /\ mid.type = "node_4" /\ inner[mid].count < MinSize(mid.type)
      /\ kid \in DOMAIN leaf /\ leaf' = [leaf EXCEPT ![kid].parent = p]
      /\ PointTo(h, p, k, kid) /\ FixEnds /\ count' = count
  BY <1>1, <1>2, <1>3, <1>4, <1>5 DEF ShrinkToLeaf, Underfull, Fixing
<1>7. /\ TypeOK /\ PrefixHeaps(inner, leaf) /\ mid \in DOMAIN inner
      /\ inner[mid] \in PrefixNode /\ p \in Ptr
      /\ inner[mid].count = Cardinality(Occupied(inner[mid]))
      /\ Agree(k, mid.path, Branch(inner[mid])) /\ DOMAIN inner \cap DOMAIN leaf = {}
  <2>1. /\ TypeOK /\ PrefixHeaps(inner, leaf) /\ mid \in DOMAIN inner
        /\ inner[mid] \in PrefixNode
        /\ inner[mid].count = Cardinality(Occupied(inner[mid]))
        /\ Agree(k, mid.path, Branch(inner[mid]))
    BY <1>1, <1>5, <1>6, FixKnows
  <2> QED
    BY <1>3, <2>1, PrefixNodeFacts, PrefixHeapFacts
<1>8. inner[mid].count = 1
  <2>1. /\ SizeFits(inner, mid) \/ inner[mid].count = 1
        /\ SizeFits(inner, mid) => inner[mid].count >= 2 /\ inner[mid].count \in Int
    BY <1>1, <1>6, OneLeft
  <2>2. MinSize(mid.type) = 2
    BY <1>6 DEF MinSize
  <2> QED
    BY <1>6, <2>1, <2>2
<1>9. IsHeap(h, InnerAddr, PrefixNode) /\ DOMAIN h = DOMAIN inner \ {mid}
      /\ \A a \in DOMAIN h : h[a] = inner[a]
  <2>1. IsHeap(h, InnerAddr, PrefixNode) /\ DOMAIN h = DOMAIN inner \ {mid}
    BY <1>4, <1>7, FreeHeap DEF PrefixHeaps
  <2> QED
    BY <1>4, <2>1 DEF Free
<1>10. /\ IsHeap(leaf', LeafAddr, LeafNode) /\ DOMAIN leaf' = DOMAIN leaf
       /\ \A l \in DOMAIN leaf : leaf'[l].parent = IF l = kid THEN p ELSE leaf[l].parent
  <2>1. PICK n : n = [leaf[kid] EXCEPT !.parent = p]
    OBVIOUS
  <2>2. n \in LeafNode /\ n.parent = p
    BY <1>6, <1>7, <2>1, PrefixHeapFacts DEF LeafNode
  <2>3. leaf' = [leaf EXCEPT ![kid] = n]
    BY <1>6, <2>1
  <2>4. IsHeap(leaf', LeafAddr, LeafNode) /\ DOMAIN leaf' = DOMAIN leaf
    BY <1>7, <2>2, <2>3, WriteHeap DEF PrefixHeaps
  <2> QED
    BY <1>6, <2>2, <2>3, <2>4
<1>11. Raises(mid, kid, p, h, k)
  BY <1>2, <1>3, <1>6, <1>7, <1>8, <1>9, <1>10 DEF Raises
<1> QED
  BY <1>1, <1>5, <1>6, <1>11, FixRaised

\* The prefix that a compression makes is that of the child, seen from where
\* the prefix of the node begins.
LEMMA JoinedKept ==
    ASSUME NEW n \in PrefixNode, NEW c \in PrefixNode, NEW m, NEW np, NEW cp,
           c.depth = Branch(n) + 1, Branch(c) \in Chunks, FirstByte(n) \in Byte,
           Kept(n, np), Kept(c, cp), Agree(cp, np, Branch(n)), cp[Branch(n)] = FirstByte(n),
           m.depth = n.depth, m.plen = c.plen + n.plen + 1, m.prefix = JoinedPrefix(n, c)
    PROVE  /\ m.plen \in Chunks /\ Branch(m) = Branch(c)
           /\ m.prefix \in [PrefixSlots -> Byte] /\ Kept(m, cp)
<1>1. PICK i : i = n.plen
  OBVIOUS
<1>2. PICK d : d = n.depth
  OBVIOUS
<1>3. PICK j : j = c.plen
  OBVIOUS
<1>4. PICK f : f = n.prefix
  OBVIOUS
<1>5. PICK g : g = c.prefix
  OBVIOUS
<1>6. PICK b : b = FirstByte(n)
  OBVIOUS
<1>7. /\ i \in Nat /\ d \in Nat /\ j \in Nat /\ MaxPrefix \in Nat
      /\ f \in [PrefixSlots -> Byte] /\ g \in [PrefixSlots -> Byte] /\ b \in Byte
      /\ Branch(n) = d + i /\ Branch(c) = (d + i + 1) + j
  <2>1. /\ i \in Nat /\ d \in Nat /\ j \in Nat /\ MaxPrefix \in Nat
        /\ f \in [PrefixSlots -> Byte] /\ g \in [PrefixSlots -> Byte]
        /\ Branch(n) = d + i /\ Branch(c) = c.depth + j
    BY <1>1, <1>2, <1>3, <1>4, <1>5, PrefixNodeFacts, MaxPrefixAssumption
  <2> QED
    BY <1>6, <2>1
<1>8. m.plen \in Chunks /\ Branch(m) = Branch(c) /\ m.depth = d /\ m.plen = j + i + 1
  <2>1. d + i + 1 + j \in Chunks
    BY <1>7
  <2>2. m.plen = j + i + 1 /\ m.depth = d
    BY <1>1, <1>2, <1>3
  <2>3. j + i + 1 \in Chunks
    BY <1>7, <2>1, KeyLenAssumption DEF Chunks
  <2>4. d + (j + i + 1) = d + i + 1 + j
    BY <1>7
  <2> QED
    BY <1>7, <2>2, <2>3, <2>4 DEF Branch
<1>9. \A q \in PrefixSlots : q \in Nat /\ q < MaxPrefix
  BY <1>7 DEF PrefixSlots
<1>10. \A q \in PrefixSlots :
           m.prefix[q] = IF i >= MaxPrefix \/ q < i THEN f[q]
                         ELSE IF q = i THEN b ELSE g[q - i - 1]
  BY <1>1, <1>4, <1>5, <1>6 DEF JoinedPrefix
<1>11. \A q \in PrefixSlots : ~ (i >= MaxPrefix \/ q < i) /\ q # i => q - i - 1 \in PrefixSlots
  BY <1>7 DEF PrefixSlots
<1>12. m.prefix \in [PrefixSlots -> Byte]
  <2>1. \A q \in PrefixSlots : m.prefix[q] \in Byte
    BY <1>7, <1>10, <1>11
  <2>2. m.prefix = [q \in PrefixSlots |-> m.prefix[q]]
    BY DEF JoinedPrefix
  <2> QED
    BY <2>1, <2>2
<1>13. ASSUME NEW x \in Nat, x < i, x < MaxPrefix  PROVE f[x] = cp[d + x]
  <2>1. StoredLength(n) = IF i =< MaxPrefix THEN i ELSE MaxPrefix
    BY <1>1, StoredFacts
  <2>2. x \in 0..(StoredLength(n) - 1)
    BY <1>7, <1>13, <2>1
  <2>3. f[x] = np[d + x]
    BY <1>2, <1>4, <2>2 DEF Kept
  <2>4. d + x \in 0..(d + i - 1)
    BY <1>7, <1>13
  <2>5. cp[d + x] = np[d + x]
    BY <1>7, <2>4 DEF Agree
  <2> QED
    BY <2>3, <2>5
<1>14. ASSUME NEW x \in Nat, x < j, x < MaxPrefix  PROVE g[x] = cp[(d + i + 1) + x]
  <2>1. StoredLength(c) = IF j =< MaxPrefix THEN j ELSE MaxPrefix
    BY <1>3, StoredFacts
  <2>2. x \in 0..(StoredLength(c) - 1)
    BY <1>7, <1>14, <2>1
  <2>3. c.depth = d + i + 1
    BY <1>7
  <2> QED
    BY <1>5, <2>2, <2>3 DEF Kept
<1>15. ASSUME NEW q \in Nat, q < MaxPrefix, q < m.plen  PROVE m.prefix[q] = cp[d + q]
  <2>1. q \in PrefixSlots
    BY <1>7, <1>15 DEF PrefixSlots
  <2>2. CASE q < i
    BY <1>10, <1>13, <1>15, <2>1, <2>2
  <2>3. CASE q = i
    BY <1>6, <1>7, <1>10, <1>15, <2>1, <2>3
  <2>4. CASE q > i
    <3>1. PICK x : x = q - i - 1
      OBVIOUS
    <3>2. /\ x \in Nat /\ x < j /\ x < MaxPrefix /\ (d + i + 1) + x = d + q
          /\ ~ (i >= MaxPrefix \/ q < i) /\ q # i
      BY <1>7, <1>8, <1>15, <2>4, <3>1
    <3>3. m.prefix[q] = g[x]
      BY <1>10, <2>1, <3>1, <3>2
    <3> QED
      BY <1>14, <3>2, <3>3
  <2> QED
    BY <1>7, <1>15, <2>2, <2>3, <2>4
<1>16. Kept(m, cp)
  <2>1. m.plen \in Nat
    BY <1>7, <1>8
  <2>2. {m.plen, MaxPrefix} \in SUBSET Nat /\ {m.plen, MaxPrefix} # {}
    BY <1>7, <2>1
  <2>3. /\ StoredLength(m) \in {m.plen, MaxPrefix}
        /\ \A x \in {m.plen, MaxPrefix} : StoredLength(m) =< x
    BY <2>2, MinOfBytes DEF StoredLength
  <2>4. \A q \in 0..(StoredLength(m) - 1) : q \in Nat /\ q < MaxPrefix /\ q < m.plen
    BY <1>7, <2>1, <2>3
  <2> QED
    BY <1>8, <1>15, <2>4 DEF Kept
<1> QED
  BY <1>8, <1>12, <1>16

\* compress_node_into_child: a node 4 with one child goes, and the child takes
\* its prefix.
LEMMA CompressShape == ASSUME ShapeInv, Compress  PROVE ShapeInv'
<1>1. PICK mid : mid = call.node
  OBVIOUS
<1>2. PICK n : n = inner[mid]
  OBVIOUS
<1>3. PICK kid : kid = FirstChild(n)
  OBVIOUS
<1>4. PICK c : c = inner[kid]
  OBVIOUS
<1>5. PICK p : p = n.parent
  OBVIOUS
<1>6. PICK made : made = [c EXCEPT !.parent = p, !.depth = n.depth,
                                   !.plen = @ + n.plen + 1, !.prefix = JoinedPrefix(n, c)]
  OBVIOUS
<1>7. PICK h : h = [Free(inner, mid) EXCEPT ![kid] = made]
  OBVIOUS
<1>8. PICK k : k = call.key
  OBVIOUS
<1>9. /\ call.pc = "compress" /\ n.count = 1 /\ kid \in DOMAIN inner
      /\ PointTo(h, p, k, kid) /\ FixEnds /\ count' = count /\ leaf' = leaf
  BY <1>1, <1>2, <1>3, <1>4, <1>5, <1>6, <1>7, <1>8 DEF Compress, Fixing, OneWay4
<1>10. /\ TypeOK /\ PrefixHeaps(inner, leaf) /\ Trie(inner, leaf, root) /\ Kepts(inner)
       /\ mid \in DOMAIN inner /\ n \in PrefixNode /\ n.count = Cardinality(Occupied(n))
       /\ Agree(k, mid.path, Branch(n))
  BY <1>1, <1>2, <1>8, <1>9, FixKnows
<1>11. /\ p \in Ptr /\ c \in PrefixNode /\ DOMAIN inner \cap DOMAIN leaf = {}
       /\ IsHeap(leaf, LeafAddr, LeafNode) /\ IsHeap(inner, InnerAddr, PrefixNode)
  BY <1>4, <1>5, <1>9, <1>10, PrefixNodeFacts, PrefixHeapFacts DEF PrefixHeaps
<1>12. Cardinality(Occupied(inner[mid])) = 1
  BY <1>2, <1>9, <1>10
<1>13. /\ FirstByte(n) \in Byte /\ kid # mid /\ Par(inner, leaf, kid) = mid
       /\ Agree(kid.path, mid.path, Branch(n)) /\ kid.path[Branch(n)] = FirstByte(n)
  BY <1>2, <1>3, <1>10, <1>12, SingleChild
<1>14. c.depth = Branch(n) + 1 /\ Branch(c) \in Chunks
  <2>1. c.depth = Start(inner, mid) /\ Branch(c) \in Chunks
    BY <1>4, <1>9, <1>10, <1>13, NodeBelow
  <2>2. mid # Dummy
    BY <1>10, PrefixHeapFacts DEF Nodes
  <2> QED
    BY <1>2, <2>1, <2>2 DEF Start
<1>15. Kept(n, mid.path) /\ Kept(c, kid.path)
  BY <1>2, <1>4, <1>9, <1>10 DEF Kepts
<1>16. /\ made.parent = p /\ made.depth = n.depth /\ made.plen = c.plen + n.plen + 1
       /\ made.prefix = JoinedPrefix(n, c) /\ made.child = c.child /\ made.count = c.count
  BY <1>6, <1>11 DEF PrefixNode
<1>17. /\ made.plen \in Chunks /\ Branch(made) = Branch(c)
       /\ made.prefix \in [PrefixSlots -> Byte] /\ Kept(made, kid.path)
  BY <1>10, <1>11, <1>13, <1>14, <1>15, <1>16, JoinedKept
<1>18. made \in PrefixNode
  <2>1. n.depth \in Chunks
    BY <1>10, PrefixNodeFacts
  <2>2. PICK l : l = c.plen + n.plen + 1
    OBVIOUS
  <2>3. PICK f : f = JoinedPrefix(n, c)
    OBVIOUS
  <2>4. l \in Chunks /\ f \in [PrefixSlots -> Byte]
    BY <1>16, <1>17, <2>2, <2>3
  <2>5. made = [c EXCEPT !.parent = p, !.depth = n.depth, !.plen = l, !.prefix = f]
    BY <1>6, <1>11, <2>2, <2>3 DEF PrefixNode
  <2> QED
    BY <1>11, <2>1, <2>4, <2>5 DEF PrefixNode
<1>19. /\ IsHeap(h, InnerAddr, PrefixNode) /\ DOMAIN h = DOMAIN inner \ {mid}
       /\ h[kid] = made /\ \A a \in DOMAIN h : a # kid => h[a] = inner[a]
  <2>1. PICK g : g = Free(inner, mid)
    OBVIOUS
  <2>2. IsHeap(g, InnerAddr, PrefixNode) /\ DOMAIN g = DOMAIN inner \ {mid}
    BY <1>11, <2>1, FreeHeap
  <2>3. h = [g EXCEPT ![kid] = made]
    BY <1>7, <2>1
  <2>4. IsHeap(h, InnerAddr, PrefixNode) /\ DOMAIN h = DOMAIN g
    BY <1>18, <2>2, <2>3, WriteHeap
  <2>5. kid \in DOMAIN g
    BY <1>9, <1>13, <2>2
  <2>6. \A a \in DOMAIN g : g[a] = inner[a]
    BY <2>1 DEF Free
  <2> QED
    BY <2>2, <2>3, <2>4, <2>5, <2>6
<1>20. /\ IsHeap(leaf', LeafAddr, LeafNode) /\ DOMAIN leaf' = DOMAIN leaf
       /\ \A l \in DOMAIN leaf : leaf'[l].parent = IF l = kid THEN p ELSE leaf[l].parent
  <2>1. leaf' = leaf
    BY <1>9
  <2>2. kid \notin DOMAIN leaf
    BY <1>9, <1>11
  <2> QED
    BY <1>11, <2>1, <2>2
<1>21. Raises(mid, kid, p, h, k)
  BY <1>2, <1>3, <1>4, <1>5, <1>9, <1>10, <1>12, <1>16, <1>17, <1>19, <1>20 DEF Raises
<1> QED
  BY <1>1, <1>8, <1>9, <1>21, FixRaised

\* shrink() and the merge with a child leave the node as it is.
LEMMA CompressNothingShape == ASSUME ShapeInv, CompressNothing  PROVE ShapeInv'
<1>1. /\ call.pc = "compress" /\ ~ OneWay4 /\ FixEnds
      /\ inner' = inner /\ leaf' = leaf /\ root' = root /\ dummyRoot' = dummyRoot /\ count' = count
  BY DEF CompressNothing, Fixing, treeVars
<1>2. /\ TypeOK /\ call.op \in Ops /\ call.key \in KeyArg /\ call.at \in Position
      /\ \A a \in DOMAIN inner : a # call.node => SizeFits(inner, a)
      /\ SizeFits(inner, call.node) \/ call.node.type = "node_4"
  BY <1>1, FixKnows
<1>3. SizeFits(inner, call.node)
  <2>1. call.node.type = "node_4" => SizeFits(inner, call.node) \/ inner[call.node].count = 1
    BY <1>1, OneLeft
  <2> QED
    BY <1>1, <1>2, <2>1 DEF OneWay4
<1>4. call' \in Call /\ call'.pc = "return"
  BY <1>1, <1>2, ReturnType DEF FixEnds
<1>5. Sized'
  BY <1>1, <1>2, <1>3 DEF Sized, SizeFits
<1>6. TypeOK' /\ Whole'
  <2>1. UNCHANGED treeVars
    BY <1>1 DEF treeVars
  <2> QED
    BY <1>1, <1>4, <1>5, <2>1, ShapeKept
<1> QED
  BY <1>4, <1>6, OtherCallsNext DEF ShapeInv

\* Writing into a slot what is in it changes nothing.
LEMMA SameSlotWritten ==
    ASSUME TypeOK, Trie(inner, leaf, root), NEW x, x \in DOMAIN inner, NEW k,
           Agree(k, x.path, Branch(inner[x])), PointTo(inner, inner[x].parent, k, x)
    PROVE  inner' = inner /\ root' = root /\ dummyRoot' \in Ptr
<1>1. PICK p : p = inner[x].parent
  OBVIOUS
<1>2. /\ PrefixHeaps(inner, leaf) /\ IsHeap(inner, InnerAddr, PrefixNode)
      /\ PointTo(inner, p, k, x)
  BY <1>1, TypedHeaps DEF PrefixHeaps
<1>3. /\ x \in Nodes(inner, leaf) /\ x \in Ptr /\ x # Null /\ p = Par(inner, leaf, x)
  <2>1. x \in Nodes(inner, leaf) /\ x \in Ptr /\ x # Null /\ x \notin DOMAIN leaf
    BY <1>2, PrefixHeapFacts DEF Nodes
  <2> QED
    BY <1>1, <2>1 DEF Par
<1>4. p \in DOMAIN inner => k[Branch(inner[p])] = x.path[Branch(inner[p])]
  <2>1. ASSUME p \in DOMAIN inner  PROVE k[Branch(inner[p])] = x.path[Branch(inner[p])]
    <3>1. /\ Branch(inner[p]) \in Nat /\ Branch(inner[x]) \in Nat
          /\ Branch(inner[p]) < Branch(inner[x])
      BY <1>2, <1>3, <2>1, NodeBelow
    <3>2. Branch(inner[p]) \in 0..(Branch(inner[x]) - 1)
      BY <3>1
    <3> QED
      BY <3>2 DEF Agree
  <2> QED
    BY <2>1
<1>5. Pointable(x, p, inner, k)
  BY <1>2, <1>3, <1>4 DEF Pointable, Alike
<1>6. /\ DOMAIN inner' = DOMAIN inner /\ IsHeap(inner', InnerAddr, PrefixNode)
      /\ \A a \in DOMAIN inner : inner'[a].parent = inner[a].parent
      /\ \A a \in DOMAIN inner : a \in DOMAIN inner /\ Alike(inner[a], inner[a]) =>
                                     SameNode(inner[a], inner'[a], x, x)
      /\ root' = Subst(root, x, x) /\ dummyRoot' \in Ptr
  BY <1>2, <1>3, <1>5, PointedTo
<1>7. ASSUME NEW a \in DOMAIN inner  PROVE inner'[a] = inner[a]
  <2>1. PICK n : n = inner[a]
    OBVIOUS
  <2>2. PICK m : m = inner'[a]
    OBVIOUS
  <2>3. n \in PrefixNode /\ m \in PrefixNode /\ m.parent = n.parent /\ SameNode(n, m, x, x)
    BY <1>2, <1>6, <1>7, <2>1, <2>2 DEF IsHeap, Alike
  <2>4. m.depth = n.depth /\ m.plen = n.plen /\ m.prefix = n.prefix /\ m.count = n.count
        /\ \A b \in Byte : m.child[b] = n.child[b]
    BY <2>3 DEF SameNode, Subst
  <2>5. m.child = n.child
    BY <2>3, <2>4 DEF PrefixNode
  <2> QED
    BY <2>1, <2>2, <2>3, <2>4, <2>5 DEF PrefixNode
<1>8. inner' = inner
  BY <1>2, <1>6, <1>7 DEF IsHeap
<1> QED
  BY <1>6, <1>8 DEF Subst

LEMMA ShrinkNothingShape == ASSUME ShapeInv, ShrinkNothing  PROVE ShapeInv'
<1>1. /\ call.pc = "shrink" /\ call' = [call EXCEPT !.pc = "compress", !.node = call.node]
      /\ \/ UNCHANGED treeVars /\ ~ Underfull
         \/ /\ call.node.type = "node_4"
            /\ PointTo(inner, inner[call.node].parent, call.key, call.node)
            /\ leaf' = leaf /\ count' = count
  BY DEF ShrinkNothing, Fixing, ThenCompress
<1>2. /\ TypeOK /\ Trie(inner, leaf, root) /\ Kepts(inner) /\ Counted(inner)
      /\ call \in FixCall /\ call.key \in Keys
      /\ call.node \in DOMAIN inner /\ Agree(call.key, call.node.path, Branch(inner[call.node]))
      /\ inner[call.node] \in PrefixNode /\ call.node.type \in InnerTypes
      /\ \A a \in DOMAIN inner : a # call.node => SizeFits(inner, a)
      /\ SizeFits(inner, call.node) \/ OneShort(inner, call.node)
  BY <1>1, FixKnows
<1>3. /\ inner' = inner /\ leaf' = leaf /\ root' = root /\ count' = count /\ dummyRoot' \in Ptr
  <2>1. CASE UNCHANGED treeVars
    BY <1>2, <2>1 DEF treeVars, TypeOK
  <2>2. CASE PointTo(inner, inner[call.node].parent, call.key, call.node)
             /\ leaf' = leaf /\ count' = count
    BY <1>2, <2>2, SameSlotWritten
  <2> QED
    BY <1>1, <2>1, <2>2
<1>4. SizeFits(inner, call.node) \/ call.node.type = "node_4"
  <2>1. ASSUME ~ Underfull, OneShort(inner, call.node)  PROVE FALSE
    <3>1. ~ (inner[call.node].count < MinSize(call.node.type))
      BY <1>1, <1>2, <2>1 DEF Underfull, Fixing
    <3>2. MinSize(call.node.type) \in Nat
      BY <1>2, SizeNumbers
    <3> QED
      BY <2>1, <3>1, <3>2 DEF OneShort
  <2> QED
    BY <1>1, <1>2, <2>1
<1>5. /\ call' \in FixCall /\ call'.pc = "compress" /\ call'.node = call.node
      /\ call'.key = call.key
  BY <1>1, <1>2 DEF FixCall
<1>6. TypeOK'
  <2>1. call' \in Call
    BY <1>5, CallParts
  <2> QED
    BY <1>2, <1>3, <2>1 DEF TypeOK
<1>7. Sized'
  <2>1. Short' = {call.node}
    BY <1>5 DEF Short
  <2>2. \A a \in DOMAIN inner : \/ SizeFits(inner, a)
                                \/ a = call.node /\ OneShort(inner, a) /\ a.type = "node_4"
    BY <1>2, <1>4
  <2>3. \A a \in DOMAIN inner' : \/ SizeFits(inner', a)
                                 \/ a = call.node /\ OneShort(inner', a) /\ a.type = "node_4"
    BY <1>3, <2>2
  <2> QED
    BY <2>1, <2>3 DEF Sized
<1>8. FixFits'
  BY <1>2, <1>3, <1>5 DEF FixFits
<1> QED
  BY <1>2, <1>3, <1>5, <1>6, <1>7, <1>8, OtherCallsNext DEF ShapeInv, Whole

-----------------------------------------------------------------------------
(* clear().                                                                *)

\* The loop at the top of the recursion goes down into its next child: the
\* nodes it passes over are on the stack or still before it.
LEMMA ClearChildShape == ASSUME ShapeInv, ClearChild  PROVE ShapeInv'
<1> DEFINE n    == Top.node
           b    == Min(Left(Top))
           c    == inner[n].child[b]
           rest == Tail(call.stack)
           deep == [node |-> c, from |-> 0]
           next == [Top EXCEPT !.from = b + 1]
           s    == <<deep, next>> \o rest
<1>1. /\ call.pc = "clear" /\ call.stack # <<>> /\ n \in DOMAIN inner /\ Left(Top) # {}
      /\ call' = [call EXCEPT !.stack = s] /\ UNCHANGED treeVars
      /\ inner' = inner /\ leaf' = leaf
  BY DEF ClearChild, Clearing, treeVars
<1>2. TypeOK /\ ClearFits /\ call \in ClearCall /\ PrefixHeaps(inner, leaf)
      /\ Live = Nodes(inner, leaf)
  BY <1>1, CallShape, TypedHeaps DEF ShapeInv, TypeOK
<1>3. call.stack \in Seq(Frame) /\ Top \in Frame /\ rest \in Seq(Frame)
  BY <1>1, <1>2, HeadTailProperties DEF ClearCall, Top
<1>4. call'.pc = "clear" /\ call'.stack = s
  BY <1>1, <1>2 DEF ClearCall
<1>5. inner[n] \in PrefixNode
  BY <1>1, <1>2, PrefixHeapFacts
<1>6. /\ Left(Top) \in SUBSET Occupied(inner[n]) /\ Left(Top) \in SUBSET Nat
      /\ Left(Top) \in SUBSET Byte
  BY SizesAssumption DEF Left, Occupied, Byte
<1>7. b \in Left(Top) /\ b \in Byte /\ b \in Nat /\ \A e \in Left(Top) : b =< e
  BY <1>1, <1>6, MinOfBytes
<1>8. deep.node = c /\ deep.from = 0 /\ next.node = n /\ next.from = b + 1
  BY <1>3 DEF Frame
<1>9. c \in Ptr
  BY <1>5, <1>7, PrefixNodeFacts
<1>10. deep \in Frame /\ next \in Frame
  <2>1. b + 1 \in 0..Cap256 /\ 0 \in 0..Cap256
    BY <1>7, SizesAssumption DEF Byte, Cap256
  <2> QED
    BY <1>3, <1>9, <2>1 DEF Frame
<1> HIDE DEF deep, next, b
<1>11. /\ DOMAIN s = 1..(Len(rest) + 2) /\ s[1] = deep /\ s[2] = next
       /\ \A i \in DOMAIN rest : i + 2 \in DOMAIN s /\ s[i + 2] = rest[i]
       /\ \A i \in DOMAIN s : i = 1 \/ i = 2 \/ (i - 2 \in DOMAIN rest /\ s[i] = rest[i - 2])
       /\ DOMAIN rest = 1..Len(rest) /\ Len(rest) \in Nat
  BY <1>3, <1>10
<1>12. /\ DOMAIN call.stack = 1..(Len(rest) + 1) /\ call.stack[1] = Top
       /\ \A i \in DOMAIN rest : i + 1 \in DOMAIN call.stack /\ call.stack[i + 1] = rest[i]
       /\ \A i \in DOMAIN call.stack :
              i = 1 \/ (i - 1 \in DOMAIN rest /\ call.stack[i] = rest[i - 1])
  BY <1>1, <1>3 DEF Top
<1>13. s \in Seq(Frame)
  <2>1. <<deep, next>> \in Seq(Frame)
    BY <1>10
  <2> QED
    BY <1>3, <2>1, ConcatProperties
<1> HIDE DEF s, rest
<1>14. ASSUME NEW a \in Live  PROVE ToClear(inner, leaf, s, a)
  <2> DEFINE p == Par(inner, leaf, a)
  <2>1. CASE \E i \in DOMAIN call.stack : call.stack[i].node = a
    <3>1. PICK i \in DOMAIN call.stack : call.stack[i].node = a
      BY <2>1
    <3>2. CASE i = 1
      <4>1. a = n
        BY <1>12, <3>1, <3>2
      <4>2. 2 \in DOMAIN s /\ s[2].node = a
        BY <1>8, <1>11, <4>1
      <4> QED
        BY <4>2 DEF ToClear
    <3>3. CASE i # 1
      <4>1. i - 1 \in DOMAIN rest /\ rest[i - 1].node = a
        BY <1>12, <3>1, <3>3
      <4>2. (i - 1) + 2 \in DOMAIN s /\ s[(i - 1) + 2].node = a
        BY <1>11, <4>1
      <4> QED
        BY <4>2 DEF ToClear
    <3> QED
      BY <3>2, <3>3
  <2>2. CASE /\ p \in DOMAIN inner
             /\ a \in DOMAIN inner => Branch(inner[p]) < Branch(inner[a])
             /\ \E e \in Byte : /\ inner[p].child[e] = a
                                /\ \A i \in DOMAIN call.stack :
                                       call.stack[i].node = p => call.stack[i].from =< e
    <3>1. PICK e \in Byte : /\ inner[p].child[e] = a
                            /\ \A i \in DOMAIN call.stack :
                                   call.stack[i].node = p => call.stack[i].from =< e
      BY <2>2
    <3>2. a # Null /\ e \in Nat
      BY <1>2, PrefixHeapFacts, SizesAssumption DEF Byte
    <3>3. CASE p = n /\ e = b
      <4>1. 1 \in DOMAIN s /\ s[1].node = a
        BY <1>8, <1>11, <3>1, <3>3
      <4> QED
        BY <4>1 DEF ToClear
    <3>4. CASE ~ (p = n /\ e = b)
      <4>1. ASSUME p = n  PROVE b + 1 =< e
        <5>1. Top.from =< e
          BY <1>12, <3>1, <4>1
        <5>2. e \in Left(Top)
          BY <3>1, <3>2, <4>1, <5>1 DEF Left, Occupied
        <5>3. b =< e /\ e # b
          BY <1>7, <3>4, <4>1, <5>2
        <5> QED
          BY <1>7, <3>2, <5>3
      <4>2. ASSUME NEW i \in DOMAIN s, s[i].node = p  PROVE s[i].from =< e
        <5>1. CASE i = 1
          BY <1>8, <1>11, <3>2, <5>1
        <5>2. CASE i = 2
          BY <1>8, <1>11, <4>1, <4>2, <5>2
        <5>3. CASE i # 1 /\ i # 2
          <6>1. i - 2 \in DOMAIN rest /\ s[i] = rest[i - 2]
            BY <1>11, <5>3
          <6>2. (i - 2) + 1 \in DOMAIN call.stack /\ call.stack[(i - 2) + 1] = s[i]
            BY <1>12, <6>1
          <6> QED
            BY <3>1, <4>2, <6>2
        <5> QED
          BY <5>1, <5>2, <5>3
      <4> QED
        BY <2>2, <3>1, <4>2 DEF ToClear
    <3> QED
      BY <3>3, <3>4
  <2>3. ToClear(inner, leaf, call.stack, a)
    BY <1>1, <1>2 DEF ClearFits
  <2> QED
    BY <2>1, <2>2, <2>3 DEF ToClear
<1>15. ClearFits'
  <2>1. Live' = Live
    BY <1>1 DEF Live
  <2> QED
    BY <1>1, <1>4, <1>14, <2>1 DEF ClearFits
<1>16. TypeOK'
  <2>1. call' \in ClearCall
    BY <1>1, <1>2, <1>13 DEF ClearCall
  <2> QED
    BY <1>1, <1>2, <2>1, CallParts, TypeKept
<1> QED
  BY <1>4, <1>15, <1>16, OtherCallsNext DEF ShapeInv

\* A node is deleted once its loop has passed all its children.
LEMMA ClearNodeShape == ASSUME ShapeInv, ClearNode  PROVE ShapeInv'
<1> DEFINE n    == Top.node
           rest == Tail(call.stack)
<1>1. /\ call.pc = "clear" /\ call.stack # <<>>
      /\ n \in DOMAIN leaf \/ (n \in DOMAIN inner /\ Left(Top) = {})
      /\ inner' = Free(inner, n) /\ leaf' = Free(leaf, n)
      /\ call' = [call EXCEPT !.stack = rest]
      /\ root' = root /\ dummyRoot' = dummyRoot /\ count' = count
  BY DEF ClearNode, Clearing
<1>2. TypeOK /\ ClearFits /\ call \in ClearCall /\ PrefixHeaps(inner, leaf)
      /\ Live = Nodes(inner, leaf)
  BY <1>1, CallShape, TypedHeaps DEF ShapeInv, TypeOK
<1>3. call.stack \in Seq(Frame) /\ Top \in Frame /\ rest \in Seq(Frame)
  BY <1>1, <1>2, HeadTailProperties DEF ClearCall, Top
<1>4. call' \in ClearCall /\ call'.pc = "clear" /\ call'.stack = rest
  BY <1>1, <1>2, <1>3 DEF ClearCall
<1>5. /\ call.stack[1] = Top /\ 1 \in DOMAIN call.stack
      /\ \A i \in DOMAIN rest : i + 1 \in DOMAIN call.stack /\ call.stack[i + 1] = rest[i]
      /\ \A i \in DOMAIN call.stack :
             i = 1 \/ (i - 1 \in DOMAIN rest /\ call.stack[i] = rest[i - 1])
  BY <1>1, <1>3 DEF Top
<1>6. /\ DOMAIN inner' = DOMAIN inner \ {n} /\ DOMAIN leaf' = DOMAIN leaf \ {n}
      /\ \A a \in DOMAIN inner' : inner'[a] = inner[a]
      /\ \A a \in DOMAIN leaf' : leaf'[a] = leaf[a]
  BY <1>1 DEF Free
<1>7. Live' = Live \ {n} /\ \A a \in Live' : Par(inner', leaf', a) = Par(inner, leaf, a)
  BY <1>6 DEF Live, Par
<1>8. n \in DOMAIN leaf => n \notin DOMAIN inner
  BY <1>2, PrefixHeapFacts
<1> HIDE DEF rest
<1>9. ASSUME NEW a \in Live, a # n  PROVE ToClear(inner', leaf', rest, a)
  <2> DEFINE p == Par(inner, leaf, a)
  <2>1. CASE \E i \in DOMAIN call.stack : call.stack[i].node = a
    <3>1. PICK i \in DOMAIN call.stack : call.stack[i].node = a
      BY <2>1
    <3>2. i - 1 \in DOMAIN rest /\ rest[i - 1].node = a
      BY <1>5, <1>9, <3>1
    <3> QED
      BY <3>2 DEF ToClear
  <2>2. CASE /\ p \in DOMAIN inner
             /\ a \in DOMAIN inner => Branch(inner[p]) < Branch(inner[a])
             /\ \E e \in Byte : /\ inner[p].child[e] = a
                                /\ \A i \in DOMAIN call.stack :
                                       call.stack[i].node = p => call.stack[i].from =< e
    <3>1. PICK e \in Byte : /\ inner[p].child[e] = a
                            /\ \A i \in DOMAIN call.stack :
                                   call.stack[i].node = p => call.stack[i].from =< e
      BY <2>2
    <3>2. a # Null
      BY <1>2, PrefixHeapFacts
    <3>3. ASSUME p = n  PROVE FALSE
      <4>1. Top.from =< e
        BY <1>5, <3>1, <3>3
      <4>2. Top.node = p
        BY <3>3
      <4>3. e \in Left(Top)
        BY <3>1, <3>2, <4>1, <4>2 DEF Left, Occupied
      <4> QED
        BY <1>1, <1>8, <2>2, <3>3, <4>3
    <3>4. p \in DOMAIN inner' /\ inner'[p] = inner[p] /\ Par(inner', leaf', a) = p
      BY <1>6, <1>7, <1>9, <2>2, <3>3
    <3>5. a \in DOMAIN inner' => Branch(inner'[p]) < Branch(inner'[a])
      BY <1>6, <2>2, <3>4
    <3>6. inner'[p].child[e] = a /\ \A i \in DOMAIN rest : rest[i].node = p => rest[i].from =< e
      BY <1>5, <3>1, <3>4
    <3> QED
      BY <3>4, <3>5, <3>6 DEF ToClear
  <2>3. ToClear(inner, leaf, call.stack, a)
    BY <1>1, <1>2 DEF ClearFits
  <2> QED
    BY <2>1, <2>2, <2>3 DEF ToClear
<1>10. ClearFits'
  BY <1>4, <1>7, <1>9 DEF ClearFits
<1>11. TypeOK'
  <2>1. IsHeap(inner', InnerAddr, PrefixNode) /\ IsHeap(leaf', LeafAddr, LeafNode)
    BY <1>1, <1>2, FreeHeap DEF PrefixHeaps
  <2>2. \A a \in DOMAIN inner' : Branch(inner'[a]) \in Chunks
    BY <1>2, <1>6 DEF TypeOK
  <2> QED
    BY <1>1, <1>2, <1>4, <2>1, <2>2, CallParts DEF TypeOK
<1> QED
  BY <1>4, <1>10, <1>11, OtherCallsNext DEF ShapeInv

\* When the recursion is over nothing is left: a live node hangs from one that
\* branches earlier, and there is no node that branches first.
LEMMA ClearEndsShape == ASSUME ShapeInv, ClearEnds  PROVE ShapeInv'
<1>1. /\ call.pc = "clear" /\ call.stack = <<>> /\ call' = Return("clear", NoPath, {}, TRUE)
      /\ root' = Null /\ count' = 0 /\ inner' = inner /\ leaf' = leaf /\ dummyRoot' = dummyRoot
  BY DEF ClearEnds
<1>2. TypeOK /\ ClearFits
  BY <1>1 DEF ShapeInv
<1>3. call' \in Call /\ call'.pc = "return"
  BY <1>1, ReturnType, ArgTypes, OpTypes
<1>4. TypeOK'
  <2>1. IsHeap(inner', InnerAddr, PrefixNode) /\ IsHeap(leaf', LeafAddr, LeafNode)
        /\ \A a \in DOMAIN inner' : Branch(inner'[a]) \in Chunks
    BY <1>1, <1>2 DEF TypeOK
  <2>2. root' \in Ptr /\ dummyRoot' \in Ptr /\ count' \in Int
    BY <1>1, <1>2, PointerKinds DEF TypeOK
  <2> QED
    BY <1>3, <2>1, <2>2 DEF TypeOK
<1>5. ASSUME NEW a \in Live
      PROVE  LET p == Par(inner, leaf, a)
             IN  /\ p \in DOMAIN inner
                 /\ a \in DOMAIN inner => Branch(inner[p]) < Branch(inner[a])
  <2>1. ToClear(inner, leaf, call.stack, a) /\ DOMAIN call.stack = {}
    BY <1>1, <1>2 DEF ClearFits
  <2> QED
    BY <2>1 DEF ToClear
<1>6. \A a \in DOMAIN inner : Branch(inner[a]) \in Nat
  BY <1>2, KeyLenAssumption DEF TypeOK, Chunks
<1>7. DOMAIN inner = {}
  <2> SUFFICES ASSUME DOMAIN inner # {}  PROVE FALSE
    OBVIOUS
  <2> DEFINE S == {Branch(inner[a]) : a \in DOMAIN inner}
  <2>1. S \in SUBSET Nat /\ S # {}
    BY <1>6
  <2>2. Min(S) \in S /\ \A d \in S : Min(S) =< d
    BY <2>1, MinOfBytes
  <2>3. PICK a \in DOMAIN inner : Branch(inner[a]) = Min(S)
    BY <2>2
  <2>4. PICK p \in DOMAIN inner : Branch(inner[p]) < Branch(inner[a])
    BY <1>5 DEF Live
  <2>5. Min(S) =< Branch(inner[p])
    BY <2>2, <2>4
  <2> HIDE DEF S
  <2> QED
    BY <1>6, <2>3, <2>4, <2>5
<1>8. DOMAIN leaf = {}
  BY <1>5, <1>7 DEF Live
<1>9. Whole'
  <2>1. Trie(inner', leaf', root')
    BY <1>1, <1>7, <1>8 DEF Trie, Nodes
  <2> QED
    BY <1>1, <1>7, <2>1 DEF Whole, Kepts, Counted, Sized
<1> QED
  BY <1>3, <1>4, <1>9, OtherCallsNext DEF ShapeInv

-----------------------------------------------------------------------------
(* The invariant, and the theorems.                                        *)

LEMMA InitShape == ASSUME Init  PROVE ShapeInv
<1>1. /\ DOMAIN inner = {} /\ DOMAIN leaf = {} /\ root = Null /\ dummyRoot = Null
      /\ count = 0 /\ call = Idle /\ call.pc = "idle"
      /\ inner = [a \in {} |-> Null] /\ leaf = [a \in {} |-> Null]
  BY DEF Init, Idle
<1>2. IsHeap(inner, InnerAddr, PrefixNode) /\ IsHeap(leaf, LeafAddr, LeafNode)
  BY <1>1 DEF IsHeap
<1>3. TypeOK
  BY <1>1, <1>2, PointerKinds, CallParts DEF TypeOK
<1>4. Trie(inner, leaf, root)
  BY <1>1 DEF Trie, Nodes
<1>5. Whole
  BY <1>1, <1>4 DEF Whole, Kepts, Counted, Sized
<1> QED
  BY <1>1, <1>3, <1>5 DEF ShapeInv, WalkFits, LinkFits, FixFits, ClearFits

\* Every step keeps the invariant.
LEMMA NextShape == ASSUME ShapeInv, [Next]_vars  PROVE ShapeInv'
<1>1. CASE Client
  BY <1>1, ClientShape
<1>2. CASE Running
  <2>1. CASE LoadDown \/ PassPrefix \/ WalkEnd \/ FillGap
    BY <2>1, LoadDownShape, PassPrefixShape, WalkEndShape, FillGapShape
  <2>2. CASE SplitStored \/ SplitLoaded \/ SplitLeaf \/ GrowNode \/ LinkLeaf
    BY <2>2, SplitStoredShape, SplitLoadedShape, SplitLeafShape, GrowNodeShape, LinkLeafShape
  <2>3. CASE EraseRoot \/ EraseLeaf \/ UnlinkRoot \/ UnlinkLeaf
    BY <2>3, EraseShape
  <2>4. CASE ShrinkToNode \/ ShrinkToLeaf \/ ShrinkNothing \/ Compress \/ CompressNothing
    BY <2>4, ShrinkToNodeShape, ShrinkToLeafShape, ShrinkNothingShape, CompressShape,
       CompressNothingShape
  <2>5. CASE MoveStep
    BY <2>5, MoveShape
  <2>6. CASE ClearChild \/ ClearNode \/ ClearEnds
    BY <2>6, ClearChildShape, ClearNodeShape, ClearEndsShape
  <2> QED
    BY <1>2, <2>1, <2>2, <2>3, <2>4, <2>5, <2>6 DEF Running, WalkEnd, MoveStep
<1>3. CASE UNCHANGED vars
  <2>1. /\ inner' = inner /\ leaf' = leaf /\ root' = root /\ dummyRoot' = dummyRoot
        /\ count' = count /\ call' = call
    BY <1>3 DEF vars
  <2>2. TypeOK'
    BY <2>1 DEF ShapeInv, TypeOK
  <2>3. Whole => Whole'
    BY <2>1 DEF Whole, Sized, Short
  <2>4. WalkFits' /\ LinkFits' /\ FixFits' /\ ClearFits'
    BY <2>1 DEF ShapeInv, WalkFits, LinkFits, FixFits, ClearFits, Live
  <2> QED
    BY <2>1, <2>2, <2>3, <2>4 DEF ShapeInv
<1> QED
  BY <1>1, <1>2, <1>3 DEF Next

\* The tree is whole at every step of every call but clear(): slots, parent
\* fields, depths, prefix lengths, kept chunks, counts and layouts agree, and
\* the locals of the running call point to where the call takes them to point.
THEOREM ShapeHolds == Spec => []ShapeInv
<1>1. Init => ShapeInv
  BY InitShape
<1>2. ShapeInv /\ [Next]_vars => ShapeInv'
  BY NextShape
<1> QED
  BY <1>1, <1>2, PTL DEF Spec

\* Every variable keeps its type, and no node branches past the end of the
\* keys, although splits and compressions add up depths and prefix lengths.
THEOREM TypeHolds == Spec => []TypeOK
<1>1. ShapeInv => TypeOK
  BY DEF ShapeInv
<1> QED
  BY <1>1, ShapeHolds, PTL

\* A node's address holds exactly the chunks it shares with its children.
LEMMA SharedPath ==
    ASSUME NEW p, NEW q, NEW d \in Nat, Agree(p, q, d), q \in [0..(d - 1) -> Byte]
    PROVE  Prefix(p, d) = q
BY DEF Agree, Prefix

\* Every slot in use holds a live node whose parent field leads back, whose
\* depth goes on where the slot ends and whose key chunks lead to the slot, at
\* every step of every call but clear(): splits, grows, shrinks and merges
\* leave no slot, no _parent and no _depth behind.
THEOREM SlotsFollow == Spec => []SlotsFollowKeys
<1>1. ASSUME ShapeInv  PROVE SlotsFollowKeys
  <2> SUFFICES ASSUME call.pc # "clear" PROVE SlotsFollowKeys
    BY DEF SlotsFollowKeys
  <2>1. /\ TypeOK /\ PrefixHeaps(inner, leaf) /\ Live = Nodes(inner, leaf)
        /\ Trie(inner, leaf, root)
    BY <1>1, ShapeBefore
  <2>2. ASSUME NEW a \in DOMAIN inner, NEW b \in Occupied(inner[a])
        PROVE  LET d == Branch(inner[a])
                   c == inner[a].child[b]
               IN  /\ c \in Live
                   /\ ParentOf(c) = a
                   /\ Prefix(c.path, d) = a.path /\ c.path[d] = b
                   /\ c \in DOMAIN inner => inner[c].depth = d + 1
    <3>1. PICK d : d = Branch(inner[a])
      OBVIOUS
    <3>2. PICK c : c = inner[a].child[b]
      OBVIOUS
    <3>3. Holds(inner, leaf, a, b, c)
      BY <2>1, <2>2, <3>2 DEF Trie, Occupied
    <3>4. d \in Nat /\ a.path \in [0..(d - 1) -> Byte] /\ a # Dummy
      BY <2>1, <3>1, NodeBelow, PrefixHeapFacts DEF Nodes
    <3>5. /\ c \in Live /\ ParentOf(c) = a /\ Par(inner, leaf, c) = a /\ c.path[d] = b
          /\ Agree(c.path, a.path, d)
      BY <2>1, <3>1, <3>3, TypedHeaps DEF Holds
    <3>6. c \in DOMAIN inner => inner[c].depth = d + 1
      <4>1. c \in DOMAIN inner => inner[c].depth = Start(inner, a)
        BY <2>1, <3>5, NodeBelow
      <4> QED
        BY <3>1, <3>4, <4>1 DEF Start
    <3>7. Prefix(c.path, d) = a.path
      BY <3>4, <3>5, SharedPath
    <3> QED
      BY <3>1, <3>2, <3>5, <3>6, <3>7
  <2>3. root # Null => /\ root \in Live
                       /\ ParentOf(root) = Dummy
                       /\ root \in DOMAIN inner => inner[root].depth = 0
    <3>1. root # Null => root \in Live /\ Par(inner, leaf, root) = Dummy /\ ParentOf(root) = Dummy
      BY <2>1, TypedHeaps DEF Trie
    <3>2. root \in DOMAIN inner => inner[root].depth = Start(inner, Par(inner, leaf, root))
      BY <2>1, NodeBelow
    <3> QED
      BY <3>1, <3>2 DEF Start
  <2> QED
    BY <2>2, <2>3 DEF SlotsFollowKeys
<1>2. ShapeInv => SlotsFollowKeys
  BY <1>1
<1> QED
  BY <1>2, ShapeHolds, PTL

\* The length of a prefix reaches to the chunk where the children part, and
\* the kept chunks are those of the keys below, after any sequence of splits
\* and merges and for any number of kept chunks: no stale chunk counts.
THEOREM PrefixShared == Spec => []PrefixIsShared
<1>1. ASSUME ShapeInv  PROVE PrefixIsShared
  <2> SUFFICES ASSUME call.pc # "clear", NEW a \in DOMAIN inner
               PROVE  LET n == inner[a]
                      IN  /\ DOMAIN a.path = 0..(Branch(n) - 1)
                          /\ \A q \in 0..(StoredLength(n) - 1) : n.prefix[q] = a.path[n.depth + q]
    BY DEF PrefixIsShared
  <2>1. PrefixHeaps(inner, leaf) /\ Trie(inner, leaf, root) /\ Kepts(inner)
    BY <1>1, ShapeBefore
  <2>2. DOMAIN a.path = 0..(Branch(inner[a]) - 1)
    BY <2>1, NodeBelow
  <2>3. Kept(inner[a], a.path)
    BY <2>1 DEF Kepts
  <2> QED
    BY <2>2, <2>3 DEF Kept
<1>2. ShapeInv => PrefixIsShared
  BY <1>1
<1> QED
  BY <1>2, ShapeHolds, PTL

\* No node leaks: every live node is the root or sits in the slot of its
\* parent that its chunks name, so what splits, grows, shrinks and merges no
\* longer use has been deleted.
THEOREM NoneLost == Spec => []NothingLost
<1>1. ASSUME ShapeInv  PROVE NothingLost
  <2> SUFFICES ASSUME call.pc # "clear", NEW a \in Live, a # root
               PROVE  LET p == ParentOf(a)
                      IN  p \in DOMAIN inner /\ inner[p].child[a.path[Branch(inner[p])]] = a
    BY DEF NothingLost
  <2>1. /\ TypeOK /\ PrefixHeaps(inner, leaf) /\ Live = Nodes(inner, leaf)
        /\ Trie(inner, leaf, root)
    BY <1>1, ShapeBefore
  <2>2. ParentOf(a) = Par(inner, leaf, a)
    BY <2>1, TypedHeaps
  <2> QED
    BY <2>1, <2>2, OnlySlot
<1>2. ShapeInv => NothingLost
  BY <1>1
<1> QED
  BY <1>2, ShapeHolds, PTL

\* Between operations every node has the layout for the number of its children
\* and none has a single child: each erase leaves the path compressed.
THEOREM LayoutFits == Spec => []LayoutFitsSize
<1>1. ASSUME ShapeInv  PROVE LayoutFitsSize
  <2> SUFFICES ASSUME Settled, NEW a \in DOMAIN inner
               PROVE  /\ inner[a].count = Cardinality(Occupied(inner[a]))
                      /\ inner[a].count \in MinSize(a.type)..MaxSize(a.type)
    BY DEF LayoutFitsSize
  <2>1. Counted(inner) /\ Sized
    BY <1>1, ShapeBefore DEF Settled
  <2>2. Short = {}
    BY DEF Settled, Short
  <2> QED
    BY <2>1, <2>2 DEF Counted, Sized, SizeFits
<1>2. ShapeInv => LayoutFitsSize
  BY <1>1
<1> QED
  BY <1>2, ShapeHolds, PTL

\* The dummy node's copy of the root, from which --end() starts, is the root
\* while there is one, through every replacement of the root.
THEOREM DummyFollows == Spec => []DummyTracksRoot
<1>1. Init => DummyTracksRoot
  BY DEF Init, DummyTracksRoot
<1>2. DummyTracksRoot /\ [Next]_vars => DummyTracksRoot'
  <2> SUFFICES ASSUME DummyTracksRoot, [Next]_vars
               PROVE  root' # Null => dummyRoot' = root'
    BY DEF DummyTracksRoot
  <2>1. ASSUME UNCHANGED <<root, dummyRoot>>  PROVE root' # Null => dummyRoot' = root'
    BY <2>1 DEF DummyTracksRoot
  <2>2. ASSUME NEW h, NEW p, NEW k, NEW c, PointTo(h, p, k, c)
        PROVE  root' # Null => dummyRoot' = root'
    BY <2>2 DEF PointTo, DummyTracksRoot
  <2>3. CASE Client
    BY <2>1, <2>3 DEF Client, CallOnEmpty, CallOnTree, MoveIterator, MoveEnd, Begin, CallClear,
                      treeVars
  <2>4. CASE LoadDown \/ PassPrefix \/ WalkEnd \/ FillGap
    BY <2>1, <2>4 DEF LoadDown, PassPrefix, WalkEnd, PrefixDiffers, FindEnds, BoundHits,
                      BoundMisses, InsertDuplicate, EraseMisses, FillGap, treeVars
  <2>5. CASE SplitStored \/ SplitLoaded \/ SplitLeaf \/ GrowNode
    BY <2>2, <2>5 DEF SplitStored, SplitLoaded, SplitAt, SplitLeaf, GrowNode
  <2>6. CASE LinkLeaf
    BY <2>1, <2>6 DEF LinkLeaf
  <2>7. CASE EraseRoot \/ UnlinkRoot \/ ClearEnds
    BY <2>7 DEF EraseRoot, UnlinkRoot, DropRoot, ClearEnds
  <2>8. CASE EraseLeaf \/ UnlinkLeaf
    BY <2>1, <2>8 DEF EraseLeaf, UnlinkLeaf, DropLeaf
  <2>9. CASE ShrinkToNode \/ ShrinkToLeaf \/ Compress
    BY <2>2, <2>9 DEF ShrinkToNode, ShrinkToLeaf, Compress
  <2>10. CASE ShrinkNothing \/ CompressNothing
    BY <2>1, <2>2, <2>10 DEF ShrinkNothing, CompressNothing, treeVars
  <2>11. CASE MoveStep \/ ClearChild \/ ClearNode
    BY <2>1, <2>11 DEF MoveStep, Climb, ClimbPastTop, GoDown, ArriveAtLeaf, ClearChild, ClearNode,
                       Resume, treeVars
  <2>12. CASE UNCHANGED vars
    BY <2>1, <2>12 DEF vars
  <2> QED
    BY <2>3, <2>4, <2>5, <2>6, <2>7, <2>8, <2>9, <2>10, <2>11, <2>12
       DEF Next, Running, WalkEnd, MoveStep
<1> QED
  BY <1>1, <1>2, PTL DEF Spec

-----------------------------------------------------------------------------
(* A search that follows the chunks of an element comes to its leaf.       *)

Standing == TypeOK /\ Trie(inner, leaf, root)

LEMMA StandingFacts ==
    ASSUME Standing
    PROVE  /\ TypeOK /\ PrefixHeaps(inner, leaf) /\ Live = Nodes(inner, leaf)
           /\ Trie(inner, leaf, root)
           /\ DOMAIN inner \cap DOMAIN leaf = {}
           /\ Null \notin Live /\ Dummy \notin Live /\ Null # Dummy
           /\ \A a \in DOMAIN inner :
                  /\ a \in Live /\ ParentOf(a) = inner[a].parent
                  /\ Branch(inner[a]) \in Chunks /\ Branch(inner[a]) \in Nat
                  /\ inner[a].child \in [Byte -> Ptr]
           /\ \A l \in DOMAIN leaf : l \in Live /\ ParentOf(l) = leaf[l].parent
<1>1. /\ TypeOK /\ PrefixHeaps(inner, leaf) /\ Live = Nodes(inner, leaf)
      /\ Trie(inner, leaf, root)
  BY TypedHeaps DEF Standing
<1>2. /\ DOMAIN inner \cap DOMAIN leaf = {} /\ Null \notin Live /\ Dummy \notin Live
      /\ \A a \in DOMAIN inner : inner[a] \in PrefixNode
  BY <1>1, PrefixHeapFacts
<1>3. \A a \in DOMAIN inner : /\ Branch(inner[a]) \in Chunks /\ Branch(inner[a]) \in Nat
                              /\ inner[a].child \in [Byte -> Ptr]
  BY <1>1, <1>2, NodeBelow, PrefixNodeFacts
<1>4. Null # Dummy
  BY PointerKinds
<1> QED
  BY <1>1, <1>2, <1>3, <1>4 DEF Live, ParentOf

\* Every node but the root is in the slot of a node that branches before it.
LEMMA Upward ==
    ASSUME Standing, NEW c \in Live, c # root
    PROVE  LET p == ParentOf(c)
               d == Branch(inner[p])
           IN  /\ p \in DOMAIN inner /\ d \in Nat /\ d \in Chunks
               /\ inner[p].child[c.path[d]] = c /\ c.path[d] \in Byte
               /\ Agree(c.path, p.path, d)
               /\ c \in DOMAIN inner => inner[c].depth = d + 1 /\ d < Branch(inner[c])
<1> DEFINE p == ParentOf(c)
           d == Branch(inner[p])
<1>1. /\ PrefixHeaps(inner, leaf) /\ Trie(inner, leaf, root) /\ c \in Nodes(inner, leaf)
      /\ p = Par(inner, leaf, c)
  BY StandingFacts, TypedHeaps DEF Standing
<1> HIDE DEF p
<1>2. /\ p \in DOMAIN inner /\ c.path[d] \in Byte /\ inner[p].child[c.path[d]] = c
      /\ Agree(c.path, p.path, d)
  BY <1>1, OnlySlot
<1>3. d \in Nat /\ d \in Chunks
  BY <1>2, StandingFacts
<1>4. c \in DOMAIN inner => inner[c].depth = d + 1 /\ d < Branch(inner[c])
  BY <1>1, <1>2, NodeBelow
<1> QED
  BY <1>2, <1>3, <1>4 DEF p

\* Only the root has the dummy node as its parent.
LEMMA TopNode ==
    ASSUME Standing, NEW c \in Live
    PROVE  c = root <=> ParentOf(c) = Dummy
BY StandingFacts, TypedHeaps, AboveNode

\* Of any set of nodes that holds the parents of its members, the root is one.
LEMMA ClimbsToRoot ==
    ASSUME Standing, NEW S \in SUBSET DOMAIN inner, S # {},
           \A c \in S : c # root => ParentOf(c) \in S
    PROVE  root \in S
<1> DEFINE D == {Branch(inner[a]) : a \in S}
<1>1. D # {} /\ D \in SUBSET Nat
  BY StandingFacts
<1>2. Min(D) \in D /\ (\A n \in D : Min(D) =< n)
  BY <1>1, MinOfBytes
<1>3. PICK a \in S : Branch(inner[a]) = Min(D)
  BY <1>2
<1>4. ASSUME a # root  PROVE FALSE
  <2> DEFINE p == ParentOf(a)
  <2>1. a \in Live /\ a \in DOMAIN inner /\ Branch(inner[a]) \in Nat
    BY StandingFacts
  <2>2. p \in S /\ Branch(inner[p]) \in Nat /\ Branch(inner[p]) < Branch(inner[a])
    BY <1>4, <2>1, Upward
  <2>3. Min(D) =< Branch(inner[p])
    BY <1>2, <2>2
  <2> HIDE DEF D, p
  <2> QED
    BY <1>3, <2>1, <2>2, <2>3
<1> QED
  BY <1>3, <1>4

\* A tree with an inner node has one for its root; another has at most one
\* element, the root.
LEMMA RootKind ==
    ASSUME Standing
    PROVE  /\ DOMAIN inner # {} => root \in DOMAIN inner
           /\ root \notin DOMAIN inner => \A l \in DOMAIN leaf : l = root
<1>1. DOMAIN inner # {} => root \in DOMAIN inner
  <2>1. \A c \in DOMAIN inner : c # root => ParentOf(c) \in DOMAIN inner
    BY StandingFacts, Upward
  <2> QED
    BY <2>1, ClimbsToRoot
<1>2. ASSUME root \notin DOMAIN inner, NEW l \in DOMAIN leaf, l # root  PROVE FALSE
  <2>1. ParentOf(l) \in DOMAIN inner
    BY <1>2, StandingFacts, Upward
  <2> QED
    BY <1>1, <1>2, <2>1
<1> QED
  BY <1>1, <1>2

\* Node a leads on to the leaf of key k.
LeadsTo(a, k) ==
    LET c == inner[a].child[k[Branch(inner[a])]]
    IN  \/ c = LeafOf(k)
        \/ c \in DOMAIN inner /\ Agree(c.path, k, Branch(inner[c]))

\* The nodes from a leaf up to the root: in every set that has the leaf and
\* the parents of its members.
Lineage(l) ==
    {x \in Live : \A T \in SUBSET Live :
        l \in T /\ (\A y \in T : y # root => ParentOf(y) \in T) => x \in T}

\* What such a set has, the lineage has; and the lineage is one of them.
LEMMA LineageFacts ==
    ASSUME Standing, NEW l \in DOMAIN leaf
    PROVE  /\ Lineage(l) \in SUBSET Live /\ l \in Lineage(l)
           /\ \A y \in Lineage(l) : y # root => ParentOf(y) \in Lineage(l)
           /\ \A T \in SUBSET Live :
                  l \in T /\ (\A y \in T : y # root => ParentOf(y) \in T) => Lineage(l) \subseteq T
<1>1. l \in Live
  BY StandingFacts
<1>2. ASSUME NEW y \in Lineage(l), y # root  PROVE ParentOf(y) \in Lineage(l)
  <2>1. y \in Live
    BY DEF Lineage
  <2>2. ParentOf(y) \in Live
    BY <1>2, <2>1, Upward DEF Live
  <2>3. ASSUME NEW T \in SUBSET Live, l \in T, \A z \in T : z # root => ParentOf(z) \in T
        PROVE  ParentOf(y) \in T
    <3>1. y \in T
      BY <2>3 DEF Lineage
    <3> QED
      BY <1>2, <2>3, <3>1
  <2> QED
    BY <2>2, <2>3 DEF Lineage
<1> QED
  BY <1>1, <1>2 DEF Lineage

\* A search for a stored key never comes to an empty slot or to the leaf of
\* another key: a node whose chunks are those of an element is in the lineage
\* of its leaf, and so is what it leads to.
LEMMA Reach ==
    ASSUME Standing, NEW l \in DOMAIN leaf, NEW a \in DOMAIN inner,
           Agree(a.path, l.path, Branch(inner[a]))
    PROVE  LeadsTo(a, l.path)
<1> DEFINE k == l.path
           C == Lineage(l)
           On(x) == x = l \/ /\ x \in DOMAIN inner /\ Agree(x.path, k, Branch(inner[x]))
                             /\ inner[x].child[k[Branch(inner[x])]] \in C
<1>1. l = LeafOf(k) /\ l \in Live /\ l \notin DOMAIN inner
  BY StandingFacts, PrefixHeapFacts
<1>2. /\ C \in SUBSET Live /\ l \in C
      /\ \A y \in C : y # root => ParentOf(y) \in C
      /\ \A T \in SUBSET Live :
             l \in T /\ (\A y \in T : y # root => ParentOf(y) \in T) => C \subseteq T
  BY LineageFacts
<1> HIDE DEF C
<1>3. \A x \in C : On(x)
  <2> DEFINE T == {x \in C : On(x)}
  <2>1. ASSUME NEW y \in T, y # root  PROVE ParentOf(y) \in T
    <3> DEFINE p == ParentOf(y)
               d == Branch(inner[p])
    <3>1. y \in C /\ y \in Live /\ p \in C
      BY <1>2, <2>1
    <3>2. /\ p \in DOMAIN inner /\ d \in Nat /\ inner[p].child[y.path[d]] = y
          /\ Agree(y.path, p.path, d)
          /\ y \in DOMAIN inner => d < Branch(inner[y]) /\ Branch(inner[y]) \in Nat
      BY <2>1, <3>1, Upward, StandingFacts
    <3> HIDE DEF d, p
    <3>3. Agree(p.path, k, d) /\ y.path[d] = k[d]
      <4>1. CASE y = l
        BY <3>2, <4>1 DEF Agree
      <4>2. CASE y \in DOMAIN inner /\ Agree(y.path, k, Branch(inner[y]))
        BY <3>2, <4>2 DEF Agree
      <4> QED
        BY <4>1, <4>2
    <3>4. inner[p].child[k[d]] \in C
      BY <3>1, <3>2, <3>3
    <3> QED
      BY <3>1, <3>2, <3>3, <3>4 DEF d, p
  <2>2. l \in T /\ T \in SUBSET Live /\ T \subseteq C
    BY <1>2
  <2> HIDE DEF T
  <2>3. C \subseteq T
    BY <1>2, <2>1, <2>2
  <2> QED
    BY <2>3 DEF T
<1>4. root \in C
  <2>1. CASE l = root
    BY <1>2, <2>1
  <2>2. CASE l # root
    <3> DEFINE S == C \cap DOMAIN inner
    <3>1. ParentOf(l) \in S
      BY <1>1, <1>2, <2>2, Upward
    <3>2. \A c \in S : c # root => ParentOf(c) \in S
      BY <1>2, Upward
    <3> QED
      BY <3>1, <3>2, ClimbsToRoot
  <2> QED
    BY <2>1, <2>2
<1>5. \A x \in DOMAIN inner : Agree(x.path, k, Branch(inner[x])) => x \in C
  <2> DEFINE S == {x \in DOMAIN inner : Agree(x.path, k, Branch(inner[x])) /\ x \notin C}
  <2>1. ASSUME NEW c \in S, c # root  PROVE ParentOf(c) \in S
    <3> DEFINE p == ParentOf(c)
               d == Branch(inner[p])
    <3>1. /\ c \in Live /\ p \in DOMAIN inner /\ d \in Nat /\ inner[p].child[c.path[d]] = c
          /\ Agree(c.path, p.path, d) /\ d < Branch(inner[c]) /\ Branch(inner[c]) \in Nat
      BY <2>1, Upward, StandingFacts
    <3> HIDE DEF d, p
    <3>2. Agree(p.path, k, d) /\ c.path[d] = k[d]
      BY <3>1 DEF Agree
    <3>3. p \notin C
      <4>1. SUFFICES ASSUME p \in C  PROVE FALSE
        OBVIOUS
      <4>2. On(p)
        BY <1>3, <4>1
      <4>3. inner[p].child[k[d]] \in C
        BY <1>1, <3>1, <4>2 DEF d
      <4> QED
        BY <3>1, <3>2, <4>3
    <3> QED
      BY <3>1, <3>2, <3>3 DEF d, p
  <2>2. root \notin S
    BY <1>4
  <2>3. S = {}
    <3> HIDE DEF S
    <3>1. S \in SUBSET DOMAIN inner
      BY DEF S
    <3> QED
      BY <2>1, <2>2, <3>1, ClimbsToRoot
  <2> QED
    BY <2>3
<1>6. a \in C
  BY <1>5
<1> DEFINE c == inner[a].child[k[Branch(inner[a])]]
<1>7. c \in C
  BY <1>1, <1>3, <1>6
<1>8. c = l \/ (c \in DOMAIN inner /\ Agree(c.path, k, Branch(inner[c])))
  <2> HIDE DEF c
  <2> QED
    BY <1>3, <1>7
<1> QED
  BY <1>1, <1>8 DEF LeadsTo
(* What the bounds and the iterators look for.                             *)

\* The keys of the elements.
Elements == {a.path : a \in DOMAIN leaf}

\* Does a come before b in the direction of call o?
Ahead(o, a, b) == IF Backward(o) THEN Less(b, a) ELSE Less(a, b)

\* The elements a call looks for the first of.
Sought(o, k) == {m \in Elements : (o = "lower" /\ m = k) \/ Ahead(o, k, m)}

\* The first of a set of keys in the direction of the call.
FirstOf(o, W) == {k \in W : \A j \in W \ {k} : Ahead(o, k, j)}

\* Element m is below node p, or is p.
Within(m, p) == \/ LeafOf(m) = p
                \/ p \in DOMAIN inner /\ Agree(m, p.path, Branch(inner[p]))

\* The first element of W is below node p, where there are no others.
FirstBelow(o, p, W) ==
    /\ \A m \in Elements : Within(m, p) => m \in W
    /\ \A l \in Elements, m \in W : Within(l, p) /\ ~ Within(m, p) => Ahead(o, l, m)

\* The number of chunks an element shares with the key if the climb has
\* passed it by the time it is at node p.
Passed(p) == IF p = Dummy THEN 0 ELSE Branch(inner[p]) + 1

\* The calls that start from an element.
FromElement == {"next", "prev", "erase_at"}

\* The climb is on the path of its key, and has left nothing behind that it
\* looks for.  The climb from end() begins at the dummy node.
ClimbKnows ==
    call.pc = "climb" /\ call.cur # Null =>
        \/ call.key = NoPath /\ call.op = "prev" /\ call.cur = Dummy /\ root # Null
        \/ /\ call.key \in Keys
           /\ call.op \in FromElement => call.key \in Elements
           /\ \/ call.cur = Dummy
              \/ call.cur \in DOMAIN inner /\ Agree(call.cur.path, call.key, Branch(inner[call.cur]))
           /\ \A m \in Elements :
                  Agree(call.key, m, Passed(call.cur)) => m \notin Sought(call.op, call.key)

\* The way down is to the first element of those the call looks for or, for
\* begin() and for a decrement that wraps around, of all.
DownKnows ==
    call.pc = "down" =>
        /\ call.op \in FromElement /\ call.key # NoPath => call.key \in Elements
        /\ \/ /\ call.op \in ClimbOps /\ call.key \in Keys
              /\ FirstBelow(call.op, call.cur, Sought(call.op, call.key))
           \/ /\ FirstBelow(call.op, call.cur, Elements)
              /\ \/ call.key = NoPath /\ call.op \in {"begin", "prev"}
                 \/ call.key \in Keys /\ call.op = "prev" /\ Sought("prev", call.key) = {}

\* erase(iterator) has the position after the element it is about to erase.
UnlinkKnows ==
    call.pc = "unlink" => /\ call.key \in Elements
                          /\ call.at = FirstOf("next", Sought("next", call.key))

\* find, which compares only what the nodes keep of their prefixes, is still
\* above its key if that is stored; and no prefix hides what a bound is for.
WalkSeeks ==
    call.pc = "walk" =>
        /\ call.op = "find" /\ call.key \in Elements => Within(call.key, call.cur)
        /\ call.op \in BoundOps => ~ HiddenByPrefix(call.op, call.key)

SearchKnows == WalkSeeks /\ ClimbKnows /\ DownKnows /\ UnlinkKnows

-----------------------------------------------------------------------------
(* Elements and the nodes they are below.                                  *)

\* An element is the key of its leaf.
LEMMA ElementFacts ==
    ASSUME TypeOK
    PROVE  /\ \A m : m \in Elements <=> LeafOf(m) \in DOMAIN leaf
           /\ \A m \in Elements : m \in Keys /\ LeafOf(m) \notin DOMAIN inner
           /\ \A l \in DOMAIN leaf : l = LeafOf(l.path) /\ l.path \in Elements
           /\ \A m : LeafOf(m).path = m
           /\ \A m, k : LeafOf(m) = LeafOf(k) => m = k
<1>1. \A m : LeafOf(m).path = m
  BY DEF LeafOf
<1>2. \A l \in DOMAIN leaf : l = LeafOf(l.path) /\ l.path \in Keys /\ l \notin DOMAIN inner
  BY TypedHeaps, PrefixHeapFacts
<1>3. \A m : m \in Elements <=> LeafOf(m) \in DOMAIN leaf
  BY <1>1, <1>2 DEF Elements
<1> QED
  BY <1>1, <1>2, <1>3 DEF Elements

\* Agreement does not depend on the side.
LEMMA AgreeSides ==
    ASSUME NEW p, NEW q, NEW d
    PROVE  Agree(p, q, d) <=> Agree(q, p, d)
BY DEF Agree

\* What is below a node is below one of its children, the one that its chunk
\* names.
LEMMA BelowNode ==
    ASSUME Standing, NEW a \in DOMAIN inner, NEW m \in Elements
    PROVE  LET n == inner[a]
               d == Branch(n)
           IN  /\ Within(m, a) <=> Agree(m, a.path, d)
               /\ Agree(m, a.path, d) => m[d] \in Occupied(n)
               /\ \A b \in Occupied(n) :
                      Within(m, n.child[b]) <=> Agree(m, a.path, d) /\ m[d] = b
<1> DEFINE n == inner[a]
           d == Branch(n)
           l == LeafOf(m)
<1>1. l \in DOMAIN leaf /\ l.path = m /\ m \in Keys /\ l \notin DOMAIN inner
  BY ElementFacts DEF Standing
<1>2. d \in Nat /\ d \in Chunks /\ m[d] \in Byte
  BY <1>1, StandingFacts, KeyChunk
<1>3. Within(m, a) <=> Agree(m, a.path, d)
  BY <1>1 DEF Within
<1>4. ASSUME Agree(m, a.path, d)
      PROVE  /\ m[d] \in Occupied(n)
             /\ \A b \in Byte : m[d] = b => Within(m, n.child[b])
  <2> DEFINE c == n.child[m[d]]
  <2>1. LeadsTo(a, m)
    BY <1>1, <1>4, Reach, AgreeSides
  <2>2. c = l \/ (c \in DOMAIN inner /\ Agree(c.path, m, Branch(inner[c])))
    BY <2>1 DEF LeadsTo
  <2>3. c # Null
    BY <1>1, <2>2, StandingFacts DEF Live
  <2>4. Within(m, c)
    BY <2>2, AgreeSides DEF Within
  <2> QED
    BY <1>2, <2>3, <2>4 DEF Occupied
<1>5. ASSUME NEW b \in Occupied(n), Within(m, n.child[b])
      PROVE  Agree(m, a.path, d) /\ m[d] = b
  <2> DEFINE c == n.child[b]
  <2>1. Holds(inner, leaf, a, b, c)
    BY StandingFacts DEF Trie, Occupied
  <2>2. /\ Agree(c.path, a.path, d) /\ c.path[d] = b /\ c \in Live /\ ParentOf(c) = a
    BY <2>1, StandingFacts, TypedHeaps DEF Holds
  <2>0. c \in DOMAIN inner => Branch(inner[c]) \in Nat /\ d < Branch(inner[c])
    <3>1. c \in DOMAIN inner => c # root
      BY <2>2, TopNode, StandingFacts
    <3> QED
      BY <2>2, <3>1, Upward, StandingFacts
  <2>3. CASE l = c
    BY <1>1, <2>2, <2>3
  <2>4. CASE c \in DOMAIN inner /\ Agree(m, c.path, Branch(inner[c]))
    <3>1. Agree(m, c.path, d + 1)
      <4>1. Branch(inner[c]) \in Nat /\ d + 1 =< Branch(inner[c])
        BY <1>2, <2>0, <2>4
      <4> HIDE DEF c, d
      <4> QED
        BY <1>2, <2>4, <4>1, AgreeLess
    <3> HIDE DEF c, d
    <3>2. Agree(m, c.path, d) /\ m[d] = c.path[d]
      BY <1>2, <3>1 DEF Agree
    <3> QED
      BY <2>2, <3>2, AgreeTrans
  <2> QED
    BY <1>5, <2>3, <2>4 DEF Within
<1> QED
  BY <1>3, <1>4, <1>5 DEF Occupied

\* Every element is below the root.
LEMMA BelowRoot ==
    ASSUME Standing, NEW m \in Elements
    PROVE  Within(m, root) /\ root # Null
<1>1. LeafOf(m) \in DOMAIN leaf
  BY ElementFacts DEF Standing
<1>2. CASE root \in DOMAIN inner
  <2> DEFINE S == {a \in DOMAIN inner : Within(m, a)}
  <2>1. LeafOf(m) # root /\ LeafOf(m) \in Live
    BY <1>1, <1>2, StandingFacts
  <2> DEFINE p == ParentOf(LeafOf(m))
             d == Branch(inner[p])
  <2>2. p \in DOMAIN inner /\ Agree(m, p.path, d)
    BY <2>1, Upward, ElementFacts DEF Standing
  <2>3. p \in S
    BY <2>2 DEF Within
  <2> HIDE DEF p, d
  <2>4. ASSUME NEW a \in S, a # root  PROVE ParentOf(a) \in S
    <3> DEFINE q == ParentOf(a)
               e == Branch(inner[q])
    <3>1. /\ q \in DOMAIN inner /\ e \in Nat /\ Agree(a.path, q.path, e) /\ e < Branch(inner[a])
          /\ Branch(inner[a]) \in Nat
      BY <2>4, Upward, StandingFacts
    <3>2. Agree(m, a.path, Branch(inner[a]))
      BY <2>4, <1>1, StandingFacts DEF Within
    <3> HIDE DEF q, e
    <3>3. Agree(m, q.path, e)
      BY <3>1, <3>2 DEF Agree
    <3> QED
      BY <3>1, <3>3 DEF Within, q, e
  <2> HIDE DEF S
  <2>5. S \in SUBSET DOMAIN inner /\ root \in S
    <3>1. S \in SUBSET DOMAIN inner
      BY DEF S
    <3> QED
      BY <2>3, <2>4, <3>1, ClimbsToRoot
  <2> QED
    BY <2>5, StandingFacts DEF S
<1>3. CASE root \notin DOMAIN inner
  <2>1. LeafOf(m) = root
    BY <1>1, <1>3, RootKind
  <2>2. LeafOf(m) # Null
    BY <1>1, StandingFacts
  <2> QED
    BY <2>1, <2>2 DEF Within
<1> QED
  BY <1>2, <1>3

\* The order in the direction of a call, at the chunk in which two keys part.
LEMMA AheadAt ==
    ASSUME NEW o, NEW a \in Keys, NEW b \in Keys, NEW d \in Chunks, Agree(a, b, d), a[d] # b[d]
    PROVE  Ahead(o, a, b) <=> IF Backward(o) THEN b[d] < a[d] ELSE a[d] < b[d]
<1>1. Agree(b, a, d)
  BY AgreeSides
<1> QED
  BY <1>1, LessAt DEF Ahead

\* The same facts about Less, for either direction.
LEMMA AheadFacts ==
    ASSUME NEW o, NEW a \in Keys, NEW b \in Keys
    PROVE  /\ ~ Ahead(o, a, a)
           /\ ~ (Ahead(o, a, b) /\ Ahead(o, b, a))
           /\ a # b => Ahead(o, a, b) \/ Ahead(o, b, a)
BY LessIsTotal DEF Ahead

\* SameSide, in the direction of a call.
LEMMA AheadSide ==
    ASSUME NEW o, NEW a \in Keys, NEW b \in Keys, NEW c \in Keys, NEW d \in 0..KeyLen,
           Agree(a, b, d), ~ Agree(a, c, d)
    PROVE  Ahead(o, a, c) <=> Ahead(o, b, c)
BY SameSide DEF Ahead

-----------------------------------------------------------------------------
(* The steps of a search.                                                  *)

\* The first of a set of bytes in the direction of the call.
LEMMA FirstInWay ==
    ASSUME NEW o, NEW S \in SUBSET Byte, S # {}
    PROVE  LET b == IF Backward(o) THEN Max(S) ELSE Min(S)
           IN  /\ b \in S
               /\ \A x \in S \ {b} : IF Backward(o) THEN x < b ELSE b < x
<1>1. MaxByte \in Nat /\ S \in SUBSET (0..MaxByte) /\ S \in SUBSET Nat
  BY SizesAssumption DEF Byte
<1>2. Min(S) \in S /\ \A x \in S : Min(S) =< x
  BY <1>1, MinOfBytes
<1>3. Max(S) \in S /\ \A x \in S : x =< Max(S)
  BY <1>1, MaxOfBytes
<1>4. CASE Backward(o)
  <2>1. ASSUME NEW x \in S, x # Max(S)  PROVE x < Max(S)
    <3>1. x \in Nat /\ Max(S) \in Nat
      BY <1>1, <1>3
    <3> QED
      BY <1>3, <2>1, <3>1
  <2> QED
    BY <1>3, <1>4, <2>1
<1>5. CASE ~ Backward(o)
  <2>1. ASSUME NEW x \in S, x # Min(S)  PROVE Min(S) < x
    <3>1. x \in Nat /\ Min(S) \in Nat
      BY <1>1, <1>2
    <3> QED
      BY <1>2, <2>1, <3>1
  <2> QED
    BY <1>2, <1>5, <2>1
<1> QED
  BY <1>4, <1>5

\* minimum() and maximum() go to the child that holds the first element.
LEMMA HoldsBelow ==
    ASSUME Standing, NEW o, NEW a \in DOMAIN inner, NEW W \in SUBSET Elements, FirstBelow(o, a, W),
           Occupied(inner[a]) # {}
    PROVE  FirstBelow(o, Extreme(o, inner[a]), W)
<1> DEFINE n == inner[a]
           d == Branch(n)
           b == IF Backward(o) THEN Max(Occupied(n)) ELSE Min(Occupied(n))
           c == n.child[b]
<1>1. Occupied(n) \in SUBSET Byte
  BY DEF Occupied
<1>2. b \in Occupied(n) /\ \A x \in Occupied(n) \ {b} : IF Backward(o) THEN x < b ELSE b < x
  BY <1>1, FirstInWay
<1>3. Extreme(o, n) = c
  BY DEF Extreme, Backward
<1>4. d \in Chunks /\ d \in Nat
  BY StandingFacts
<1>5. \A m \in Elements : /\ Within(m, a) <=> Agree(m, a.path, d)
                          /\ Agree(m, a.path, d) => m[d] \in Occupied(n)
                          /\ Within(m, c) <=> Agree(m, a.path, d) /\ m[d] = b
  BY <1>2, BelowNode
<1>6. Elements \subseteq Keys
  BY ElementFacts DEF Standing
<1> HIDE DEF c, b, n
<1>7. ASSUME NEW m \in Elements, Within(m, c)  PROVE m \in W
  BY <1>5, <1>7 DEF FirstBelow
<1>8. ASSUME NEW l \in Elements, NEW m \in W, Within(l, c), ~ Within(m, c)
      PROVE  Ahead(o, l, m)
  <2>1. Within(l, a) /\ Agree(l, a.path, d) /\ l[d] = b
    BY <1>5, <1>8
  <2>2. CASE ~ Within(m, a)
    BY <2>1, <2>2 DEF FirstBelow
  <2>3. CASE Within(m, a)
    <3>1. Agree(m, a.path, d) /\ m[d] \in Occupied(n) /\ m[d] # b
      BY <1>5, <1>8, <2>3
    <3>2. Agree(l, m, d)
      BY <2>1, <3>1 DEF Agree
    <3>3. IF Backward(o) THEN m[d] < l[d] ELSE l[d] < m[d]
      BY <1>2, <2>1, <3>1
    <3> QED
      BY <1>4, <1>6, <2>1, <3>1, <3>2, <3>3, AheadAt
  <2> QED
    BY <2>2, <2>3
<1>9. FirstBelow(o, c, W)
  BY <1>7, <1>8 DEF FirstBelow
<1> QED
  BY <1>3, <1>9 DEF n

\* A way down that ends at a leaf has found the first element.
LEMMA HoldsLeaf ==
    ASSUME TypeOK, NEW o, NEW k \in Elements, NEW W \in SUBSET Elements, FirstBelow(o, LeafOf(k), W)
    PROVE  k \in W /\ FirstOf(o, W) = {k}
<1>1. \A m \in Elements : m \in Keys /\ (Within(m, LeafOf(k)) <=> m = k)
  BY ElementFacts DEF Within
<1>2. k \in W /\ \A m \in W \ {k} : Ahead(o, k, m)
  BY <1>1 DEF FirstBelow
<1>3. \A m \in W \ {k} : ~ Ahead(o, m, k)
  BY <1>1, <1>2, AheadFacts
<1> QED
  BY <1>2, <1>3 DEF FirstOf

\* All the elements are below the root.
LEMMA HoldsAll ==
    ASSUME Standing, NEW o
    PROVE  FirstBelow(o, root, Elements)
BY BelowRoot DEF FirstBelow

\* What the climb sees from a node on the path of its key: an element below it
\* that it has not passed lies in another slot, on the side of its chunk.
LEMMA BesidePath ==
    ASSUME Standing, NEW o, NEW k \in Keys, NEW a \in DOMAIN inner,
           Agree(a.path, k, Branch(inner[a])), NEW m \in Elements,
           Agree(m, a.path, Branch(inner[a])), ~ Agree(k, m, Branch(inner[a]) + 1)
    PROVE  LET n == inner[a]
               d == Branch(n)
           IN  /\ m[d] \in Occupied(n) /\ Agree(k, m, d)
               /\ Ahead(o, k, m) <=> m[d] \in Beyond(o, k[d], n)
               /\ m # k
<1> DEFINE n == inner[a]
           d == Branch(n)
<1>1. d \in Chunks /\ d \in Nat /\ m \in Keys
  BY StandingFacts, ElementFacts
<1>2. m[d] \in Occupied(n)
  BY BelowNode
<1> HIDE DEF n
<1>3. Agree(k, m, d)
  BY DEF Agree, n
<1>4. k[d] # m[d]
  BY <1>1, <1>3, AgreeMore DEF n
<1>5. Ahead(o, k, m) <=> m[d] \in Beyond(o, k[d], n)
  BY <1>1, <1>2, <1>3, <1>4, AheadAt DEF Beyond
<1> QED
  BY <1>2, <1>3, <1>4, <1>5 DEF n

\* The climb goes on to the parent: it has now passed the whole node.
LEMMA ClimbsOn ==
    ASSUME Standing, NEW o, NEW k \in Keys, NEW a \in DOMAIN inner,
           Agree(a.path, k, Branch(inner[a])),
           \A m \in Elements : Agree(k, m, Branch(inner[a]) + 1) => m \notin Sought(o, k),
           Beyond(o, k[Branch(inner[a])], inner[a]) = {}
    PROVE  LET p == inner[a].parent
           IN  /\ p = Dummy \/ (p \in DOMAIN inner /\ Agree(p.path, k, Branch(inner[p])))
               /\ \A m \in Elements : Agree(k, m, Passed(p)) => m \notin Sought(o, k)
<1> DEFINE p == inner[a].parent
           d == Branch(inner[a])
<1>1. /\ a \in Live /\ ParentOf(a) = p /\ a \notin DOMAIN leaf
      /\ d \in Nat
  BY StandingFacts
<1>2. /\ p = Dummy \/ (p \in DOMAIN inner /\ Agree(p.path, k, Branch(inner[p])))
      /\ \A m \in Elements : Agree(k, m, Passed(p)) => Agree(m, a.path, d)
  <2>1. CASE a = root
    <3>1. p = Dummy
      BY <1>1, <2>1, TopNode
    <3>2. \A m \in Elements : Within(m, a)
      BY <2>1, BelowRoot
    <3>3. \A m \in Elements : Agree(m, a.path, d)
      BY <3>2, BelowNode
    <3> QED
      BY <3>1, <3>3
  <2>2. CASE a # root
    <3> DEFINE e == Branch(inner[p])
    <3>1. /\ p \in DOMAIN inner /\ e \in Nat /\ Agree(a.path, p.path, e)
          /\ inner[p].child[a.path[e]] = a /\ a.path[e] \in Byte /\ e < d
      BY <1>1, <2>2, Upward
    <3>2. p # Dummy /\ a # Null
      BY <1>1, <3>1, StandingFacts DEF Live
    <3>3. a.path[e] \in Occupied(inner[p])
      BY <3>1, <3>2 DEF Occupied
    <3>4. \A m \in Elements : /\ Within(m, a) <=> Agree(m, p.path, e) /\ m[e] = a.path[e]
                              /\ Within(m, a) <=> Agree(m, a.path, d)
      <4> HIDE DEF p, e
      <4>1. \A m \in Elements : Within(m, inner[p].child[a.path[e]])
                                   <=> Agree(m, p.path, e) /\ m[e] = a.path[e]
        BY <3>1, <3>3, BelowNode DEF e
      <4> QED
        BY <3>1, <4>1, BelowNode
    <3>5. Passed(p) = e + 1
      BY <3>2 DEF Passed
    <3>6. Agree(p.path, k, e) /\ a.path[e] = k[e]
      <4> HIDE DEF p, e
      <4> QED
        BY <1>1, <3>1 DEF Agree
    <3>7. ASSUME NEW m \in Elements, Agree(k, m, e + 1)  PROVE Agree(m, a.path, d)
      <4> HIDE DEF p, e
      <4>1. Agree(m, p.path, e) /\ m[e] = k[e]
        BY <3>1, <3>6, <3>7 DEF Agree
      <4> QED
        BY <3>4, <3>6, <4>1
    <3> QED
      BY <3>1, <3>5, <3>6, <3>7
  <2> QED
    BY <2>1, <2>2
<1>3. ASSUME NEW m \in Elements, Agree(k, m, Passed(p))  PROVE m \notin Sought(o, k)
  <2>1. CASE ~ Agree(k, m, d + 1)
    <3>1. Agree(m, a.path, d)
      BY <1>2, <1>3
    <3> QED
      BY <2>1, <3>1, BesidePath DEF Sought
  <2>2. CASE Agree(k, m, d + 1)
    BY <2>2
  <2> QED
    BY <2>1, <2>2
<1> QED
  BY <1>2, <1>3

\* The climb turns down: the child it goes to holds the first of those it
\* looks for.
LEMMA ClimbTurns ==
    ASSUME Standing, NEW o, NEW k \in Keys, NEW a \in DOMAIN inner,
           Agree(a.path, k, Branch(inner[a])),
           \A m \in Elements : Agree(k, m, Branch(inner[a]) + 1) => m \notin Sought(o, k),
           NEW b, b = (IF Backward(o) THEN Max(Beyond(o, k[Branch(inner[a])], inner[a]))
                                      ELSE Min(Beyond(o, k[Branch(inner[a])], inner[a]))),
           Beyond(o, k[Branch(inner[a])], inner[a]) # {}
    PROVE  FirstBelow(o, inner[a].child[b], Sought(o, k))
<1> DEFINE n == inner[a]
           d == Branch(n)
           B == Beyond(o, k[d], n)
           c == n.child[b]
<1>1. d \in Chunks /\ d \in Nat /\ d \in 0..KeyLen /\ Elements \subseteq Keys
  BY StandingFacts, ElementFacts, KeyChunks
<1>2. /\ B \in SUBSET Byte /\ B \subseteq Occupied(n)
      /\ \A x \in B : x # k[d]
  <2>1. \A x \in Occupied(n) : x \in Byte /\ x \in Nat
    BY SizesAssumption DEF Occupied, Byte
  <2>2. k[d] \in Nat
    BY <1>1, KeyChunks
  <2> QED
    BY <2>1, <2>2 DEF Beyond
<1>3. b \in B /\ \A x \in B \ {b} : IF Backward(o) THEN x < b ELSE b < x
  BY <1>2, FirstInWay
<1>4. \A m \in Elements : Within(m, c) <=> Agree(m, a.path, d) /\ m[d] = b
  BY <1>2, <1>3, BelowNode
<1> HIDE DEF c
<1>5. ASSUME NEW m \in Elements, Agree(m, a.path, d), ~ Agree(k, m, d + 1)
      PROVE  Agree(k, m, d) /\ (Ahead(o, k, m) <=> m[d] \in B) /\ m # k
  BY <1>5, BesidePath
<1> HIDE DEF B
<1>6. ASSUME NEW l \in Elements, Within(l, c)
      PROVE  /\ Agree(l, a.path, d) /\ l[d] = b /\ Agree(k, l, d)
             /\ l \in Sought(o, k)
  <2>1. Agree(l, a.path, d) /\ l[d] = b
    BY <1>4, <1>6
  <2>2. ~ Agree(k, l, d + 1)
    <3>1. l[d] # k[d]
      BY <1>2, <1>3, <2>1
    <3> HIDE DEF d
    <3> QED
      BY <1>1, <3>1 DEF Agree
  <2> QED
    BY <1>3, <1>5, <2>1, <2>2 DEF Sought
<1>7. ASSUME NEW l \in Elements, NEW m \in Sought(o, k), Within(l, c), ~ Within(m, c)
      PROVE  Ahead(o, l, m)
  <2>1. m \in Elements /\ ~ Agree(k, m, d + 1) /\ (m = k \/ Ahead(o, k, m))
    BY <1>7 DEF Sought
  <2>2. /\ Agree(l, a.path, d) /\ l[d] = b /\ Agree(k, l, d)
        /\ l \in Keys /\ m \in Keys
    BY <1>1, <1>6, <1>7, <2>1
  <2>3. CASE Agree(m, a.path, d)
    <3>1. m[d] \in B /\ m[d] # b
      BY <1>4, <1>5, <1>7, <2>1, <2>3
    <3>2. IF Backward(o) THEN m[d] < l[d] ELSE l[d] < m[d]
      BY <1>3, <2>2, <3>1
    <3>3. Agree(l, m, d)
      BY <2>2, <2>3 DEF Agree
    <3> QED
      BY <1>1, <2>2, <3>1, <3>2, <3>3, AheadAt
  <2>4. CASE ~ Agree(m, a.path, d)
    <3>1. ~ Agree(k, m, d)
      BY <2>4 DEF Agree
    <3>2. m # k
      BY <3>1 DEF Agree
    <3> QED
      BY <1>1, <2>1, <2>2, <3>1, <3>2, AheadSide
  <2> QED
    BY <2>3, <2>4
<1> QED
  BY <1>6, <1>7 DEF FirstBelow, c

-----------------------------------------------------------------------------
(* The walk.                                                               *)

\* Where no clear() runs the tree stands.
LEMMA WalkStands ==
    ASSUME ShapeInv, call.pc # "clear"
    PROVE  Standing
BY ShapeBefore DEF Standing

\* A walk is above every element that has the chunks it has passed; a lookup,
\* which does not compare all of them, is above its key.
LEMMA WalkFinds ==
    ASSUME ShapeInv, WalkSeeks, call.pc = "walk", NEW m \in Elements,
           Agree(call.key, m, call.depth), call.op = "find" => m = call.key
    PROVE  Within(m, call.cur)
<1> DEFINE a == call.prev
           d == call.depth - 1
<1>1. Standing
  BY WalkStands
<1>2. CASE call.op = "find"
  BY <1>2 DEF WalkSeeks
<1>3. CASE call.depth = 0 /\ call.cur = root
  BY <1>1, <1>3, BelowRoot
<1>4. CASE /\ a \in DOMAIN inner
           /\ call.depth = Branch(inner[a]) + 1
           /\ call.cur = inner[a].child[call.key[d]]
           /\ call.op # "find" /\ Agree(call.key, a.path, d)
  <2>1. Branch(inner[a]) \in Nat
    BY <1>1, <1>4, StandingFacts
  <2>2. d \in Nat /\ call.depth = d + 1 /\ Branch(inner[a]) = d
    BY <1>4, <2>1
  <2> HIDE DEF d
  <2>3. Agree(m, a.path, d) /\ m[d] = call.key[d]
    BY <1>4, <2>2 DEF Agree
  <2>4. m[d] \in Occupied(inner[a])
        /\ \A b \in Occupied(inner[a]) :
               Within(m, inner[a].child[b]) <=> Agree(m, a.path, d) /\ m[d] = b
    BY <1>1, <1>4, <2>2, <2>3, BelowNode
  <2> QED
    BY <1>4, <2>3, <2>4
<1> QED
  BY <1>2, <1>3, <1>4 DEF ShapeInv, WalkFits

\* So at its end it decides whether its key is stored.
LEMMA WalkDecides ==
    ASSUME ShapeInv, WalkSeeks, call.pc = "walk", call.cur \notin DOMAIN inner
    PROVE  /\ call.key \in Elements <=> Matches
           /\ call.key \in Keys /\ call.depth \in 0..KeyLen
<1>1. call.key \in Elements => Matches
  <2>1. Agree(call.key, call.key, call.depth)
    BY DEF Agree
  <2> QED
    BY <2>1, WalkFinds DEF Matches, Within
<1>2. call \in WalkCall /\ TypeOK
  BY CallShape DEF ShapeInv, TypeOK
<1>3. ASSUME Matches  PROVE call.key \in Elements
  <2>1. call.cur # Null
    BY <1>3 DEF Matches, LeafOf, Null
  <2>2. call.cur \in DOMAIN leaf
    BY <2>1 DEF ShapeInv, WalkFits, Live
  <2> QED
    BY <1>2, <1>3, <2>2, ElementFacts DEF Matches
<1> QED
  BY <1>1, <1>2, <1>3 DEF WalkCall

\* A prefix that differs from the key leaves no place for it.
LEMMA DiffersMisses ==
    ASSUME ShapeInv, WalkSeeks, PrefixDiffers
    PROVE  /\ call.key \notin Elements /\ call.key \in Keys
           /\ call.op \in BoundOps => Sought(call.op, call.key) = {}
<1> DEFINE k == call.key
           n == Here
           B == Branch(n)
<1>1. /\ call.pc = "walk" /\ call.op \in WalkOps /\ call.cur \in DOMAIN inner /\ call.cur \in Live
      /\ AtNode(WalkOps) /\ Compared /\ Differing # {}
  BY DEF PrefixDiffers, AtNode, Walking, Live
<1>2. Standing /\ TypeOK
  BY <1>1, WalkStands DEF ShapeInv
<1>3. /\ k \in Keys /\ call.depth \in Nat /\ n.depth = call.depth
      /\ B \in Nat /\ B = call.depth + n.plen /\ n.plen \in Nat
      /\ call.op # "find" => Agree(k, call.cur.path, call.depth)
  <2>1. /\ k \in Keys /\ call.depth \in Nat /\ n.depth = call.depth
        /\ B = call.depth + n.plen /\ n \in PrefixNode
        /\ call.op # "find" => Agree(k, call.cur.path, call.depth)
    BY <1>1, WalkKnows
  <2> QED
    BY <2>1, PrefixNodeFacts
<1>4. PICK p \in Differing : p \in 0..(n.plen - 1) /\ k[call.depth + p] # call.cur.path[call.depth + p]
  <2>1. /\ Differing \in SUBSET (0..(n.plen - 1))
        /\ \A p \in Differing : k[call.depth + p] # call.cur.path[call.depth + p]
    BY <1>1, Comparison
  <2> QED
    BY <1>1, <2>1
<1>5. call.depth + p \in 0..(B - 1)
  BY <1>3, <1>4
<1>6. ~ Agree(k, call.cur.path, B)
  BY <1>4, <1>5 DEF Agree
<1>7. k \notin Elements
  <2> SUFFICES ASSUME k \in Elements  PROVE FALSE
    OBVIOUS
  <2>1. Within(k, call.cur)
    <3>1. Agree(k, k, call.depth)
      BY DEF Agree
    <3> QED
      BY <1>1, <3>1, WalkFinds
  <2>2. Agree(k, call.cur.path, B)
    BY <1>1, <1>2, <2>1, BelowNode DEF Here
  <2> QED
    BY <1>6, <2>2
<1>8. ASSUME call.op \in BoundOps  PROVE Sought(call.op, k) = {}
  <2>1. ~ HiddenByPrefix(call.op, k)
    BY <1>1, <1>8 DEF WalkSeeks
  <2>2. Prefix(k, n.depth) = Prefix(call.cur.path, n.depth)
    <3>1. Agree(k, call.cur.path, call.depth)
      BY <1>3, <1>8 DEF BoundOps
    <3> QED
      BY <1>3, <3>1 DEF Agree, Prefix
  <2>3. Prefix(k, B) # call.cur.path
    <3> SUFFICES ASSUME Prefix(k, B) = call.cur.path  PROVE FALSE
      OBVIOUS
    <3>1. \A i \in 0..(B - 1) : Prefix(k, B)[i] = k[i]
      BY DEF Prefix
    <3>2. Prefix(k, B)[call.depth + p] = k[call.depth + p]
      BY <1>5, <3>1
    <3> QED
      BY <1>4, <3>2
  <2>4. Candidates(call.op, k) = {}
    BY <1>1, <1>8, <2>1, <2>2, <2>3 DEF HiddenByPrefix, Here
  <2>5. \A m \in Elements : \E a \in DOMAIN leaf : a.path = m
    BY DEF Elements
  <2> QED
    BY <1>8, <2>4, <2>5 DEF Sought, Candidates, Ahead, Backward, BoundOps
<1> QED
  BY <1>3, <1>7, <1>8
-----------------------------------------------------------------------------
(* What the searches know is kept.                                         *)

\* A step that only looks.
LEMMA LooksOnly ==
    ASSUME UNCHANGED treeVars
    PROVE  /\ inner' = inner /\ leaf' = leaf /\ root' = root /\ Elements' = Elements
           /\ \A o, k : Sought(o, k)' = Sought(o, k)
           /\ \A m, p : Within(m, p)' <=> Within(m, p)
           /\ \A p : Passed(p)' = Passed(p)
           /\ \A o, k : HiddenByPrefix(o, k)' <=> HiddenByPrefix(o, k)
BY DEF treeVars, Elements, Sought, Within, Passed, HiddenByPrefix, Candidates

\* Of the other calls there is nothing to know.
LEMMA NotSearching ==
    ASSUME call'.pc \notin {"walk", "climb", "down", "unlink"}
    PROVE  SearchKnows'
BY DEF SearchKnows, WalkSeeks, ClimbKnows, DownKnows, UnlinkKnows

\* A step to a climb.
LEMMA ToClimb ==
    ASSUME UNCHANGED treeVars, NEW o, NEW k, NEW p,
           call' = [pc |-> "climb", op |-> o, key |-> k, cur |-> p],
           \/ p = Null
           \/ k = NoPath /\ o = "prev" /\ p = Dummy /\ root # Null
           \/ /\ k \in Keys
              /\ o \in FromElement => k \in Elements
              /\ p = Dummy \/ (p \in DOMAIN inner /\ Agree(p.path, k, Branch(inner[p])))
              /\ \A m \in Elements : Agree(k, m, Passed(p)) => m \notin Sought(o, k)
    PROVE  SearchKnows'
<1>1. call'.pc = "climb" /\ call'.op = o /\ call'.key = k /\ call'.cur = p
  OBVIOUS
<1>2. ClimbKnows'
  BY <1>1, LooksOnly DEF ClimbKnows
<1> QED
  BY <1>1, <1>2 DEF SearchKnows, WalkSeeks, DownKnows, UnlinkKnows

\* A step of the way down.
LEMMA ToDown ==
    ASSUME UNCHANGED treeVars, NEW o, NEW k, NEW p,
           call' = [pc |-> "down", op |-> o, key |-> k, cur |-> p],
           o \in FromElement /\ k # NoPath => k \in Elements,
           \/ o \in ClimbOps /\ k \in Keys /\ FirstBelow(o, p, Sought(o, k))
           \/ /\ FirstBelow(o, p, Elements)
              /\ \/ k = NoPath /\ o \in {"begin", "prev"}
                 \/ k \in Keys /\ o = "prev" /\ Sought("prev", k) = {}
    PROVE  SearchKnows'
<1>1. call'.pc = "down" /\ call'.op = o /\ call'.key = k /\ call'.cur = p
  OBVIOUS
<1>2. \A W : FirstBelow(o, p, W)' <=> FirstBelow(o, p, W)
  BY LooksOnly DEF FirstBelow
<1>3. Elements' = Elements /\ Sought(o, k)' = Sought(o, k) /\ Sought("prev", k)' = Sought("prev", k)
  BY LooksOnly
<1>4. DownKnows'
  BY <1>1, <1>2, <1>3, LooksOnly DEF DownKnows, FirstBelow
<1> QED
  BY <1>1, <1>4 DEF SearchKnows, WalkSeeks, ClimbKnows, UnlinkKnows

\* A bound that is not where its key leads to: no element it looks for is in
\* the slot it comes from.
LEMMA BoundMissesKnows ==
    ASSUME ShapeInv, SearchKnows, BoundMisses
    PROVE  SearchKnows'
<1> DEFINE k == call.key
           o == call.op
           p == call.prev
<1>1. /\ call.pc = "walk" /\ o \in {"lower", "upper"} /\ UNCHANGED treeVars
      /\ call' = [pc |-> "climb", op |-> o, key |-> k, cur |-> p]
      /\ o \notin FromElement /\ o # "find"
  BY DEF BoundMisses, AtGap, AtLeaf, Walking, BoundOps, FromElement
<1>2. Standing /\ WalkSeeks
  BY <1>1, WalkStands DEF SearchKnows
<1>3. call.cur \notin DOMAIN inner
  BY <1>2, StandingFacts DEF BoundMisses, AtGap, AtLeaf, Live
<1>4. k \in Keys
  BY <1>1, <1>2, <1>3, WalkDecides
<1>5. ASSUME NEW m \in Elements, Agree(k, m, call.depth)  PROVE m \notin Sought(o, k)
  <2>1. call.cur = LeafOf(m)
    BY <1>1, <1>2, <1>3, <1>5, WalkFinds DEF Within
  <2>2. call.cur \in DOMAIN leaf /\ call.cur.path = m
    BY <1>2, <2>1, ElementFacts DEF Standing
  <2>3. call.cur \notin Candidates(o, k)
    BY <1>2, <2>2, StandingFacts DEF BoundMisses, AtGap, AtLeaf, LeafIsBound, Live
  <2> QED
    BY <1>1, <2>2, <2>3 DEF Candidates, Sought, Ahead, Backward
<1>6. CASE call.depth = 0 /\ p \in {Null, Dummy}
  <2>1. p = Null \/ (p = Dummy /\ Passed(p) = call.depth)
    BY <1>6 DEF Passed
  <2> HIDE DEF o, k, p
  <2> QED
    BY <1>1, <1>4, <1>5, <2>1, ToClimb
<1>7. CASE /\ p \in DOMAIN inner
           /\ call.depth = Branch(inner[p]) + 1
           /\ Agree(k, p.path, call.depth - 1)
  <2>1. p # Dummy /\ Branch(inner[p]) \in Nat
    BY <1>2, <1>7, StandingFacts DEF Live
  <2>2. Passed(p) = call.depth /\ call.depth - 1 = Branch(inner[p])
    BY <1>7, <2>1 DEF Passed
  <2>3. Agree(p.path, k, Branch(inner[p]))
    BY <1>7, <2>2, AgreeSides
  <2> HIDE DEF o, k, p
  <2> QED
    BY <1>1, <1>4, <1>5, <1>7, <2>2, <2>3, ToClimb
<1>8. \/ call.depth = 0 /\ p \in {Null, Dummy}
      \/ /\ p \in DOMAIN inner
         /\ call.depth = Branch(inner[p]) + 1
         /\ Agree(k, p.path, call.depth - 1)
  BY <1>1 DEF ShapeInv, WalkFits
<1> QED
  BY <1>6, <1>7, <1>8

\* A walk that goes on stays above its key.
LEMMA WalkGoesOn ==
    ASSUME UNCHANGED treeVars, call'.pc = "walk", NEW o, NEW k, NEW c,
           call'.op = o, call'.key = k, call'.cur = c,
           o = "find" /\ k \in Elements => Within(k, c),
           o \in BoundOps => ~ HiddenByPrefix(o, k)
    PROVE  SearchKnows'
<1>1. Elements' = Elements /\ (Within(k, c)' <=> Within(k, c))
      /\ (HiddenByPrefix(o, k)' <=> HiddenByPrefix(o, k))
  BY LooksOnly
<1>2. WalkSeeks'
  BY <1>1 DEF WalkSeeks, Within, HiddenByPrefix, Candidates
<1> QED
  BY <1>2 DEF SearchKnows, ClimbKnows, DownKnows, UnlinkKnows

LEMMA WalkKept ==
    ASSUME ShapeInv, SearchKnows, LoadDown \/ PassPrefix
    PROVE  SearchKnows'
<1> DEFINE k == call.key
           o == call.op
<1>1. /\ call.pc = "walk" /\ call.cur \in DOMAIN inner /\ call.cur \in Live
      /\ UNCHANGED treeVars
  BY DEF LoadDown, PassPrefix, AtNode, Walking, Live
<1>2. Standing /\ call \in WalkCall /\ k \in Keys
  BY <1>1, WalkStands, WalkKnows
<1>3. /\ o = "find" /\ k \in Elements => Within(k, call.cur)
      /\ o \in BoundOps => ~ HiddenByPrefix(o, k)
  BY <1>1 DEF SearchKnows, WalkSeeks
<1>4. CASE LoadDown
  <2>1. PICK p : call' = [call EXCEPT !.low = p]
    BY <1>4 DEF LoadDown
  <2>2. call'.pc = "walk" /\ call'.op = o /\ call'.key = k /\ call'.cur = call.cur
    BY <1>1, <1>2, <2>1 DEF WalkCall
  <2> HIDE DEF o, k
  <2> QED
    BY <1>1, <1>3, <2>2, WalkGoesOn
<1>5. CASE PassPrefix
  <2> DEFINE d == call.depth + Here.plen
             c == Here.child[k[d]]
  <2>1. call' = [call EXCEPT !.prev = call.cur, !.depth = d + 1, !.low = Null, !.cur = c]
    BY <1>5 DEF PassPrefix
  <2>2. call'.pc = "walk" /\ call'.op = o /\ call'.key = k /\ call'.cur = c
    BY <1>1, <1>2, <2>1 DEF WalkCall
  <2>3. Branch(Here) = d
    BY <1>1, WalkKnows
  <2>4. ASSUME o = "find", k \in Elements  PROVE Within(k, c)
    <3>1. Within(k, call.cur)
      BY <1>3, <2>4
    <3>2. /\ Agree(k, call.cur.path, Branch(Here)) /\ k[Branch(Here)] \in Occupied(Here)
          /\ Within(k, Here.child[k[Branch(Here)]])
      BY <1>1, <1>2, <2>4, <3>1, BelowNode DEF Here
    <3> HIDE DEF d
    <3> QED
      BY <2>3, <3>2
  <2> HIDE DEF o, k, c
  <2> QED
    BY <1>1, <1>3, <2>2, <2>4, WalkGoesOn
<1> QED
  BY <1>4, <1>5

\* A call that begins its walk at the root.
LEMMA WalkBegins ==
    ASSUME HiddenBounds = FALSE, ShapeInv, NEW o, NEW k, NEW v, CallOnTree(o, k, v)
    PROVE  SearchKnows'
<1>1. /\ call = Idle /\ UNCHANGED treeVars /\ (HiddenByPrefix(o, k) => HiddenBounds)
      /\ call'.pc = "walk" /\ call'.op = o /\ call'.key = k /\ call'.cur = root
  BY DEF CallOnTree
<1>2. Standing
  BY <1>1, WalkStands DEF Idle
<1>3. k \in Elements => Within(k, root)
  BY <1>2, BelowRoot
<1> QED
  BY <1>1, <1>3, WalkGoesOn

\* A step of insert_unique or emplace_unique in its walk.
LEMMA InsertWalks ==
    ASSUME call'.pc = "walk", call'.op \in InsertOps
    PROVE  SearchKnows'
BY DEF SearchKnows, WalkSeeks, ClimbKnows, DownKnows, UnlinkKnows, InsertOps, BoundOps

\* An iterator starts at the parent of its leaf, which it has passed.
LEMMA MoveIteratorKnows ==
    ASSUME ShapeInv, NEW o \in FromElement, NEW k \in Keys, MoveIterator(o, k)
    PROVE  SearchKnows'
<1> DEFINE l == LeafOf(k)
           p == leaf[l].parent
<1>1. /\ call = Idle /\ l \in DOMAIN leaf /\ UNCHANGED treeVars
      /\ call' = [pc |-> "climb", op |-> o, key |-> k, cur |-> p]
  BY DEF MoveIterator
<1>2. Standing
  BY <1>1, WalkStands DEF Idle
<1>3. l \in Live /\ ParentOf(l) = p /\ l.path = k /\ k \in Elements /\ l \notin DOMAIN inner
  BY <1>1, <1>2, ElementFacts, StandingFacts DEF Live, ParentOf, Standing
<1>4. ~ Ahead(o, k, k) /\ o # "lower"
  BY AheadFacts DEF FromElement
<1> SUFFICES /\ p = Dummy \/ (p \in DOMAIN inner /\ Agree(p.path, k, Branch(inner[p])))
             /\ \A m \in Elements : Agree(k, m, Passed(p)) => m = k
  <2> HIDE DEF p
  <2>1. \A m \in Elements : Agree(k, m, Passed(p)) => m \notin Sought(o, k)
    BY <1>4 DEF Sought
  <2> QED
    BY <1>1, <1>3, <2>1, ToClimb
<1>5. CASE l = root
  <2>1. p = Dummy /\ root \notin DOMAIN inner
    BY <1>2, <1>3, <1>5, TopNode
  <2>2. ASSUME NEW m \in Elements  PROVE m = k
    <3>1. LeafOf(m) = l
      BY <1>2, <1>5, <2>1, RootKind, ElementFacts DEF Standing
    <3> QED
      BY <1>2, <3>1, ElementFacts DEF Standing
  <2> QED
    BY <2>1, <2>2
<1>6. CASE l # root
  <2> DEFINE d == Branch(inner[p])
  <2>1. /\ p \in DOMAIN inner /\ d \in Nat /\ inner[p].child[k[d]] = l /\ k[d] \in Byte
        /\ Agree(k, p.path, d)
    BY <1>2, <1>3, <1>6, Upward
  <2>2. p # Dummy
    BY <1>2, <2>1, StandingFacts DEF Live
  <2> HIDE DEF l, p
  <2>3. Passed(p) = d + 1
    BY <2>2 DEF Passed
  <2> HIDE DEF d
  <2>4. ASSUME NEW m \in Elements, Agree(k, m, d + 1)  PROVE m = k
    <3>1. Agree(m, p.path, d) /\ m[d] = k[d]
      BY <2>1, <2>4 DEF Agree
    <3>2. m[d] \in Occupied(inner[p]) /\ Within(m, inner[p].child[m[d]])
      BY <1>2, <2>1, <3>1, BelowNode DEF d
    <3>3. LeafOf(m) = l
      BY <1>3, <2>1, <3>1, <3>2 DEF Within
    <3> QED
      BY <1>2, <3>3, ElementFacts DEF Standing, l
  <2>5. Agree(p.path, k, d)
    BY <2>1, AgreeSides
  <2> QED
    BY <2>1, <2>3, <2>4, <2>5 DEF d
<1> QED
  BY <1>5, <1>6

\* All forward searches look for the same.
LEMMA Forward ==
    ASSUME NEW o, o # "prev"
    PROVE  /\ \A W : FirstOf(o, W) = FirstOf("next", W)
           /\ o # "lower" => \A k : Sought(o, k) = Sought("next", k)
BY DEF FirstOf, Sought, Ahead, Backward

\* One turn of the climb.
LEMMA ClimbKept ==
    ASSUME ShapeInv, SearchKnows, Climb
    PROVE  SearchKnows'
<1> DEFINE o == call.op
           k == call.key
           a == call.cur
           n == inner[a]
           B == Beyond(o, k[Branch(n)], n)
<1>1. call.pc = "climb" /\ a \in DOMAIN inner /\ UNCHANGED treeVars
  BY DEF Climb
<1>2. Standing
  BY <1>1, WalkStands
<1>3. a # Null /\ a # Dummy /\ Branch(n) + 1 = Passed(a)
  BY <1>1, <1>2, StandingFacts DEF Live, Passed
<1>4. /\ k \in Keys /\ Agree(a.path, k, Branch(n))
      /\ o \in FromElement => k \in Elements
      /\ \A m \in Elements : Agree(k, m, Branch(n) + 1) => m \notin Sought(o, k)
  BY <1>1, <1>3 DEF SearchKnows, ClimbKnows
<1>5. CASE B = {}
  <2>1. call \in ClimbCall
    BY <1>1, CallShape DEF ShapeInv, TypeOK
  <2>2. call' = [call EXCEPT !.cur = n.parent]
    BY <1>5 DEF Climb
  <2>3. call' = [pc |-> "climb", op |-> o, key |-> k, cur |-> n.parent]
    BY <2>1, <2>2 DEF ClimbCall
  <2>4. LET p == n.parent
        IN  /\ p = Dummy \/ (p \in DOMAIN inner /\ Agree(p.path, k, Branch(inner[p])))
            /\ \A m \in Elements : Agree(k, m, Passed(p)) => m \notin Sought(o, k)
    BY <1>1, <1>2, <1>4, <1>5, ClimbsOn
  <2> HIDE DEF o, k, n
  <2> QED
    BY <1>1, <1>4, <2>3, <2>4, ToClimb
<1>6. CASE B # {}
  <2> DEFINE b == IF Backward(o) THEN Max(B) ELSE Min(B)
  <2>1. call' = [pc |-> "down", op |-> o, key |-> k, cur |-> n.child[b]]
    BY <1>6 DEF Climb
  <2>2. FirstBelow(o, n.child[b], Sought(o, k))
    BY <1>1, <1>2, <1>4, <1>6, ClimbTurns
  <2>3. o \in ClimbOps
    BY <1>1, CallShape DEF ShapeInv, TypeOK, ClimbCall
  <2> HIDE DEF o, k, n, b
  <2> QED
    BY <1>1, <1>4, <2>1, <2>2, <2>3, ToDown
<1> QED
  BY <1>5, <1>6

\* The climb has come to the dummy node: it has passed every element.
LEMMA PastTop ==
    ASSUME ShapeInv, SearchKnows, DummyTracksRoot, ClimbPastTop
    PROVE  LET o == call.op
               k == call.key
           IN  /\ Standing /\ UNCHANGED treeVars
               /\ \/ k = NoPath /\ o = "prev"
                  \/ k \in Keys /\ (o \in FromElement => k \in Elements) /\ Sought(o, k) = {}
               /\ o = "prev" => /\ dummyRoot = root
                                /\ call' = [pc |-> "down", op |-> o, key |-> k, cur |-> root]
               /\ o # "prev" => Arrive(o, k, {})
<1> DEFINE o == call.op
           k == call.key
<1>1. call.pc = "climb" /\ call.cur = Dummy /\ UNCHANGED treeVars
  BY DEF ClimbPastTop
<1>2. Standing
  BY <1>1, WalkStands
<1>3. Dummy # Null /\ Passed(Dummy) = 0
  BY PointerKinds DEF Passed
<1>4. \/ k = NoPath /\ o = "prev" /\ root # Null
      \/ /\ k \in Keys /\ (o \in FromElement => k \in Elements)
         /\ \A m \in Elements : Agree(k, m, 0) => m \notin Sought(o, k)
  BY <1>1, <1>3 DEF SearchKnows, ClimbKnows
<1>5. \A m \in Elements : Agree(k, m, 0)
  BY DEF Agree
<1>6. k \in Keys => Sought(o, k) = {}
  BY <1>4, <1>5, NoPathIsNoKey DEF Sought
<1>7. o = "prev" => root # Null /\ dummyRoot = root
  BY <1>2, <1>4, BelowRoot DEF FromElement, DummyTracksRoot
<1>8. o = "prev" => call' = [pc |-> "down", op |-> o, key |-> k, cur |-> root]
  BY <1>7 DEF ClimbPastTop, Backward
<1>9. o # "prev" => Arrive(o, k, {})
  BY DEF ClimbPastTop, Backward
<1> QED
  BY <1>1, <1>2, <1>4, <1>5, <1>6, <1>7, <1>8, <1>9

\* What a way down has found when it ends.
LEMMA Arrived ==
    ASSUME ShapeInv, SearchKnows, ArriveAtLeaf
    PROVE  LET o == call.op
               k == call.key
               c == call.cur.path
           IN  /\ Standing /\ UNCHANGED treeVars /\ Arrive(o, k, {c})
               /\ o \in FromElement /\ k # NoPath => k \in Elements
               /\ \/ o \in ClimbOps /\ k \in Keys /\ c \in Sought(o, k) /\ FirstOf(o, Sought(o, k)) = {c}
                  \/ /\ c \in Elements /\ FirstOf(o, Elements) = {c}
                     /\ \/ k = NoPath /\ o \in {"begin", "prev"}
                        \/ k \in Keys /\ o = "prev" /\ Sought("prev", k) = {}
<1> DEFINE o == call.op
           k == call.key
           c == call.cur.path
<1>1. /\ call.pc = "down" /\ call.cur \in DOMAIN leaf /\ UNCHANGED treeVars
      /\ Arrive(o, k, {c})
  BY DEF ArriveAtLeaf
<1>2. Standing
  BY <1>1, WalkStands
<1>3. c \in Elements /\ call.cur = LeafOf(c)
  BY <1>1, <1>2, ElementFacts DEF Standing
<1>4. ASSUME NEW W \in SUBSET Elements, FirstBelow(o, call.cur, W)
      PROVE  c \in W /\ FirstOf(o, W) = {c}
  <2> HIDE DEF c
  <2> QED
    BY <1>2, <1>3, <1>4, HoldsLeaf DEF Standing
<1>5. Sought(o, k) \in SUBSET Elements /\ Elements \in SUBSET Elements
  BY DEF Sought
<1>6. /\ o \in FromElement /\ k # NoPath => k \in Elements
      /\ \/ o \in ClimbOps /\ k \in Keys /\ FirstBelow(o, call.cur, Sought(o, k))
         \/ /\ FirstBelow(o, call.cur, Elements)
            /\ \/ k = NoPath /\ o \in {"begin", "prev"}
               \/ k \in Keys /\ o = "prev" /\ Sought("prev", k) = {}
  BY <1>1 DEF SearchKnows, DownKnows
<1> HIDE DEF o, k, c
<1>7. \/ o \in ClimbOps /\ k \in Keys /\ c \in Sought(o, k) /\ FirstOf(o, Sought(o, k)) = {c}
      \/ /\ c \in Elements /\ FirstOf(o, Elements) = {c}
         /\ \/ k = NoPath /\ o \in {"begin", "prev"}
            \/ k \in Keys /\ o = "prev" /\ Sought("prev", k) = {}
  BY <1>4, <1>5, <1>6
<1> QED
  BY <1>1, <1>2, <1>6, <1>7 DEF o, k, c

\* erase(iterator) goes on with the position after its element.
LEMMA ToUnlink ==
    ASSUME UNCHANGED treeVars, NEW k \in Elements, NEW at, at = FirstOf("next", Sought("next", k)),
           call' = [pc |-> "unlink", key |-> k, at |-> at]
    PROVE  SearchKnows'
<1>1. call'.pc = "unlink" /\ call'.key = k /\ call'.at = at
  OBVIOUS
<1>2. Elements' = Elements /\ Sought("next", k)' = Sought("next", k)
  BY LooksOnly
<1>3. FirstOf("next", Sought("next", k))' = FirstOf("next", Sought("next", k))
  BY <1>2 DEF FirstOf, Ahead
<1>4. UnlinkKnows'
  BY <1>1, <1>2, <1>3 DEF UnlinkKnows, FirstOf, Ahead
<1> QED
  BY <1>1, <1>4 DEF SearchKnows, WalkSeeks, ClimbKnows, DownKnows

\* The other steps of the iterators.
LEMMA MoveKnows ==
    ASSUME ShapeInv, SearchKnows, DummyTracksRoot,
           ClimbPastTop \/ GoDown \/ ArriveAtLeaf \/ MoveEnd \/ Begin
    PROVE  SearchKnows'
<1>1. ASSUME NEW k, NEW at, Arrive(call.op, k, at), call.op = "erase_at" =>
                 /\ UNCHANGED treeVars /\ k \in Elements
                 /\ at = FirstOf("next", Sought("next", k))
      PROVE  SearchKnows'
  <2>1. CASE call.op = "erase_at"
    BY <1>1, <2>1, ToUnlink DEF Arrive
  <2>2. CASE call.op # "erase_at"
    BY <1>1, <2>2, NotSearching DEF Arrive, Return
  <2> QED
    BY <2>1, <2>2
<1>2. CASE ClimbPastTop
  <2> DEFINE o == call.op
             k == call.key
  <2>1. /\ Standing /\ UNCHANGED treeVars
        /\ \/ k = NoPath /\ o = "prev"
           \/ k \in Keys /\ (o \in FromElement => k \in Elements) /\ Sought(o, k) = {}
        /\ o = "prev" => call' = [pc |-> "down", op |-> o, key |-> k, cur |-> root]
        /\ o # "prev" => Arrive(o, k, {})
    BY <1>2, PastTop
  <2>2. CASE o = "prev"
    <3>1. FirstBelow(o, root, Elements)
      BY <2>1, HoldsAll
    <3> HIDE DEF o, k
    <3>2. k \in Keys => Sought("prev", k) = {}
      BY <2>1, <2>2, NoPathIsNoKey
    <3>3. k # NoPath => k \in Keys /\ k \in Elements
      BY <2>1, <2>2 DEF FromElement
    <3> QED
      BY <2>1, <2>2, <3>1, <3>2, <3>3, ToDown
  <2>3. CASE o # "prev"
    <3>1. k \in Keys /\ Sought(o, k) = {} /\ (o \in FromElement => k \in Elements)
      BY <2>1, <2>3
    <3>2. o = "erase_at" => k \in Elements /\ Sought("next", k) = {}
      BY <3>1, Forward DEF FromElement
    <3>3. FirstOf("next", {}) = {}
      BY DEF FirstOf
    <3> QED
      BY <1>1, <2>1, <2>3, <3>2, <3>3
  <2> QED
    BY <2>2, <2>3
<1>3. CASE GoDown
  <2> DEFINE o == call.op
             k == call.key
             c == Extreme(o, inner[call.cur])
  <2>1. /\ call.pc = "down" /\ call.cur \in DOMAIN inner /\ Occupied(inner[call.cur]) # {}
        /\ call' = [call EXCEPT !.cur = c] /\ UNCHANGED treeVars
    BY <1>3 DEF GoDown
  <2>2. Standing /\ call \in DownCall
    BY <2>1, WalkStands, CallShape DEF ShapeInv, TypeOK
  <2>3. call' = [pc |-> "down", op |-> o, key |-> k, cur |-> c]
    BY <2>1, <2>2 DEF DownCall
  <2>4. \A W \in SUBSET Elements : FirstBelow(o, call.cur, W) => FirstBelow(o, c, W)
    BY <2>1, <2>2, HoldsBelow
  <2>5. Sought(o, k) \in SUBSET Elements /\ Elements \in SUBSET Elements
    BY DEF Sought
  <2>6. /\ o \in FromElement /\ k # NoPath => k \in Elements
        /\ \/ o \in ClimbOps /\ k \in Keys /\ FirstBelow(o, c, Sought(o, k))
           \/ /\ FirstBelow(o, c, Elements)
              /\ \/ k = NoPath /\ o \in {"begin", "prev"}
                 \/ k \in Keys /\ o = "prev" /\ Sought("prev", k) = {}
    <3> HIDE DEF c
    <3> QED
      BY <2>1, <2>4, <2>5 DEF SearchKnows, DownKnows
  <2> HIDE DEF o, k, c
  <2> QED
    BY <2>1, <2>3, <2>6, ToDown
<1>4. CASE ArriveAtLeaf
  <2> DEFINE o == call.op
             k == call.key
             c == call.cur.path
  <2>1. /\ UNCHANGED treeVars /\ Arrive(o, k, {c})
        /\ o \in FromElement /\ k # NoPath => k \in Elements
        /\ \/ o \in ClimbOps /\ k \in Keys /\ c \in Sought(o, k) /\ FirstOf(o, Sought(o, k)) = {c}
           \/ o \in {"begin", "prev"}
    BY <1>4, Arrived
  <2>2. o = "erase_at" => k \in Elements /\ FirstOf("next", Sought("next", k)) = {c}
    <3> SUFFICES ASSUME o = "erase_at"
                 PROVE  k \in Elements /\ FirstOf("next", Sought("next", k)) = {c}
      OBVIOUS
    <3> HIDE DEF c, k
    <3>1. k \in Elements /\ FirstOf(o, Sought(o, k)) = {c}
      BY <2>1, NoPathIsNoKey DEF FromElement
    <3> QED
      BY <3>1, Forward
  <2> QED
    BY <1>1, <2>1, <2>2
<1>5. CASE MoveEnd
  <2>1. /\ root # Null /\ UNCHANGED treeVars
        /\ call' = [pc |-> "climb", op |-> "prev", key |-> NoPath, cur |-> Dummy]
    BY <1>5 DEF MoveEnd
  <2> QED
    BY <2>1, ToClimb
<1>6. CASE Begin
  <2>1. /\ call = Idle /\ UNCHANGED treeVars
        /\ root = Null => call'.pc = "return"
        /\ root # Null => call' = [pc |-> "down", op |-> "begin", key |-> NoPath, cur |-> root]
    BY <1>6 DEF Begin, Return
  <2>2. Standing
    BY <2>1, WalkStands DEF Idle
  <2>3. FirstBelow("begin", root, Elements)
    BY <2>2, HoldsAll
  <2>4. CASE root = Null
    BY <2>1, <2>4, NotSearching
  <2>5. CASE root # Null
    BY <2>1, <2>3, <2>5, ToDown
  <2> QED
    BY <2>4, <2>5
<1> QED
  BY <1>2, <1>3, <1>4, <1>5, <1>6

\* The other steps go to no search, but on with the walk of an insertion.
LEMMA OtherSteps ==
    ASSUME TypeOK,
           \/ PrefixDiffers \/ FindEnds \/ BoundHits \/ InsertDuplicate \/ EraseMisses
           \/ SplitStored \/ SplitLoaded \/ SplitLeaf \/ GrowNode \/ FillGap \/ LinkLeaf
           \/ EraseRoot \/ EraseLeaf \/ UnlinkRoot \/ UnlinkLeaf
           \/ ShrinkToNode \/ ShrinkToLeaf \/ ShrinkNothing \/ Compress \/ CompressNothing
           \/ ClearChild \/ ClearNode \/ ClearEnds \/ CallClear \/ Resume
           \/ \E o, k, v : CallOnEmpty(o, k, v)
    PROVE  \/ call'.pc \notin {"walk", "climb", "down", "unlink"}
           \/ call'.pc = "walk" /\ call'.op \in InsertOps
<1>1. CASE SplitStored \/ SplitLoaded \/ GrowNode
  <2>1. call.pc = "walk" /\ call \in WalkCall /\ call.op \in InsertOps
    BY <1>1, CallShape DEF SplitStored, SplitLoaded, GrowNode, AtNode, AtGap, Walking, TypeOK
  <2>2. ASSUME NEW pos, NEW f, NEW s, NEW b, NEW rest, SplitAt(pos, f, s, b, rest)
        PROVE  call'.pc = "walk" /\ call'.op = call.op
    <3>1. PICK x, d, c : call' = [call EXCEPT !.prev = x, !.depth = d, !.low = Null, !.cur = c]
      BY <2>2 DEF SplitAt
    <3> QED
      BY <2>1, <3>1 DEF WalkCall
  <2>3. ASSUME GrowNode  PROVE call'.pc = "walk" /\ call'.op = call.op
    <3>1. PICK x : call' = [call EXCEPT !.prev = x]
      BY <2>3 DEF GrowNode
    <3> QED
      BY <2>1, <3>1 DEF WalkCall
  <2> QED
    BY <1>1, <2>1, <2>2, <2>3 DEF SplitStored, SplitLoaded
<1>2. CASE PrefixDiffers \/ FindEnds \/ BoundHits \/ InsertDuplicate \/ EraseMisses \/ EraseRoot
  BY <1>2 DEF PrefixDiffers, FindEnds, BoundHits, InsertDuplicate, EraseMisses, EraseRoot, Return
<1>3. CASE SplitLeaf \/ FillGap \/ LinkLeaf
  BY <1>3 DEF SplitLeaf, FillGap, ThenLink, LinkLeaf, Return
<1>5. CASE EraseLeaf \/ UnlinkRoot \/ UnlinkLeaf
  <2>1. ASSUME NEW o, NEW n, NEW j, NEW k, NEW at, DropLeaf(o, n, j, k, at)
        PROVE  call'.pc = "shrink"
    BY <2>1 DEF DropLeaf
  <2>2. CASE EraseLeaf
    BY <2>1, <2>2 DEF EraseLeaf
  <2>3. CASE UnlinkRoot
    BY <2>3 DEF UnlinkRoot, Return
  <2>4. CASE UnlinkLeaf
    BY <2>1, <2>4 DEF UnlinkLeaf
  <2> QED
    BY <1>5, <2>2, <2>3, <2>4
<1>6. CASE ShrinkToNode \/ ShrinkNothing
  <2>1. call.pc = "shrink" /\ call \in FixCall
    BY <1>6, CallShape DEF ShrinkToNode, ShrinkNothing, Underfull, Fixing, TypeOK
  <2>2. PICK x : call' = [call EXCEPT !.pc = "compress", !.node = x]
    BY <1>6 DEF ShrinkToNode, ShrinkNothing, ThenCompress
  <2> QED
    BY <2>1, <2>2 DEF FixCall
<1>7. CASE ShrinkToLeaf \/ Compress \/ CompressNothing
  BY <1>7 DEF ShrinkToLeaf, Compress, CompressNothing, FixEnds, Return
<1>10. CASE ClearChild \/ ClearNode
  <2>1. call.pc = "clear" /\ call \in ClearCall
    BY <1>10, CallShape DEF ClearChild, ClearNode, Clearing, TypeOK
  <2>2. PICK f : call' = [call EXCEPT !.stack = f]
    BY <1>10 DEF ClearChild, ClearNode
  <2> QED
    BY <2>1, <2>2 DEF ClearCall
<1>11. CASE ClearEnds \/ CallClear \/ Resume
  BY <1>11 DEF ClearEnds, CallClear, Resume, Return, Idle
<1>12. ASSUME NEW o, NEW k, NEW v, CallOnEmpty(o, k, v)
       PROVE  call'.pc \notin {"walk", "climb", "down", "unlink"}
  BY <1>12 DEF CallOnEmpty, Return
<1> QED
  BY <1>1, <1>2, <1>3, <1>5, <1>6, <1>7, <1>10, <1>11, <1>12

\* Every step keeps what the searches know.
LEMMA SearchNext ==
    ASSUME HiddenBounds = FALSE, ShapeInv, SearchKnows, DummyTracksRoot, [Next]_vars
    PROVE  SearchKnows'
<1>1. CASE \/ BoundMisses \/ Climb \/ ClimbPastTop \/ GoDown \/ ArriveAtLeaf \/ MoveEnd \/ Begin
           \/ \E o \in FromElement, k \in Keys : MoveIterator(o, k)
  BY <1>1, BoundMissesKnows, ClimbKept, MoveKnows, MoveIteratorKnows
<1>2. CASE \/ LoadDown \/ PassPrefix \/ \E o, k, v : CallOnTree(o, k, v)
  BY <1>2, WalkKept, WalkBegins
<1>3. CASE \/ PrefixDiffers \/ FindEnds \/ BoundHits \/ InsertDuplicate \/ EraseMisses
           \/ SplitStored \/ SplitLoaded \/ SplitLeaf \/ GrowNode \/ FillGap \/ LinkLeaf
           \/ EraseRoot \/ EraseLeaf \/ UnlinkRoot \/ UnlinkLeaf
           \/ ShrinkToNode \/ ShrinkToLeaf \/ ShrinkNothing \/ Compress \/ CompressNothing
           \/ ClearChild \/ ClearNode \/ ClearEnds \/ CallClear \/ Resume
           \/ \E o, k, v : CallOnEmpty(o, k, v)
  <2>1. \/ call'.pc \notin {"walk", "climb", "down", "unlink"}
        \/ call'.pc = "walk" /\ call'.op \in InsertOps
    BY <1>3, OtherSteps DEF ShapeInv
  <2> QED
    BY <2>1, NotSearching, InsertWalks
<1>4. CASE UNCHANGED vars
  <2>1. UNCHANGED treeVars /\ call' = call
    BY <1>4 DEF vars, treeVars
  <2>2. \A o, p, W : FirstBelow(o, p, W)' <=> FirstBelow(o, p, W)
    BY <2>1, LooksOnly DEF FirstBelow
  <2>3. WalkSeeks'
    BY <2>1, LooksOnly DEF SearchKnows, WalkSeeks, Within, HiddenByPrefix, Candidates
  <2>4. ClimbKnows' /\ DownKnows' /\ UnlinkKnows'
    BY <2>1, <2>2, LooksOnly
       DEF SearchKnows, ClimbKnows, DownKnows, UnlinkKnows, FirstOf, Ahead, FirstBelow
  <2> QED
    BY <2>3, <2>4 DEF SearchKnows
<1> QED
  BY <1>1, <1>2, <1>3, <1>4 DEF Next, Client, Running, FromElement

\* A search has left nothing behind that it looks for, in every step of every
\* call: a lookup that skips what is cut off from a prefix, the climb on the
\* path of its key, the way down, and the position that erase(iterator) keeps
\* while it unlinks its element.
THEOREM SearchHolds ==
    ASSUME HiddenBounds = FALSE
    PROVE  Spec => []SearchKnows
<1>1. Init => SearchKnows
  BY DEF Init, Idle, SearchKnows, WalkSeeks, ClimbKnows, DownKnows, UnlinkKnows
<1>2. ShapeInv /\ DummyTracksRoot /\ SearchKnows /\ [Next]_vars => SearchKnows'
  BY SearchNext
<1> QED
  BY <1>1, <1>2, ShapeHolds, DummyFollows, PTL DEF Spec
-----------------------------------------------------------------------------
(* The tree read as a map.                                                 *)

\* Every leaf stays where it is, with its value.
ValuesKept == \A a \in DOMAIN leaf : a \in DOMAIN leaf' /\ leaf'[a].value = leaf[a].value

\* A step that writes no more of the leaves than their parent fields.
LEMMA KeptBy ==
    ASSUME TypeOK
    PROVE  /\ leaf' = leaf => ValuesKept
           /\ \A x, n : x \notin DOMAIN leaf /\ leaf' = Allocate(leaf, x, n) => ValuesKept
           /\ \A x, p : leaf' = [leaf EXCEPT ![x].parent = p] => ValuesKept
           /\ \A S, p : leaf' = Adopt(leaf, S, p) => ValuesKept
<1>1. leaf \in [DOMAIN leaf -> LeafNode]
  BY DEF TypeOK, IsHeap
<1>2. \A n \in LeafNode : \A p : [n EXCEPT !.parent = p].value = n.value
  BY DEF LeafNode
<1>3. ASSUME NEW x, NEW n, x \notin DOMAIN leaf, leaf' = Allocate(leaf, x, n)  PROVE ValuesKept
  BY <1>3 DEF Allocate, ValuesKept
<1>4. ASSUME NEW x, NEW p, leaf' = [leaf EXCEPT ![x].parent = p]  PROVE ValuesKept
  <2> SUFFICES ASSUME NEW a \in DOMAIN leaf
               PROVE  a \in DOMAIN leaf' /\ leaf'[a].value = leaf[a].value
    BY DEF ValuesKept
  <2>1. a \in DOMAIN leaf' /\ leaf'[a] \in {leaf[a], [leaf[a] EXCEPT !.parent = p]}
    BY <1>1, <1>4
  <2> QED
    BY <1>1, <1>2, <2>1
<1>5. ASSUME NEW S, NEW p, leaf' = Adopt(leaf, S, p)  PROVE ValuesKept
  <2> SUFFICES ASSUME NEW a \in DOMAIN leaf
               PROVE  a \in DOMAIN leaf' /\ leaf'[a].value = leaf[a].value
    BY DEF ValuesKept
  <2>1. a \in DOMAIN leaf' /\ leaf'[a] \in {leaf[a], [leaf[a] EXCEPT !.parent = p]}
    BY <1>5 DEF Adopt
  <2> QED
    BY <1>1, <1>2, <2>1
<1> QED
  BY <1>3, <1>4, <1>5 DEF ValuesKept

\* A deletion of one leaf keeps the others.
LEMMA KeptOthers ==
    ASSUME NEW x, leaf' = Free(leaf, x)
    PROVE  \A a \in DOMAIN leaf : a = x \/ (a \in DOMAIN leaf' /\ leaf'[a].value = leaf[a].value)
BY DEF Free

\* The slot that erase_unique empties holds the leaf of its key.
LEMMA ErasedLeaf ==
    ASSUME ShapeInv, EraseLeaf
    PROVE  leaf' = Free(leaf, LeafOf(call.key))
<1>1. /\ call.pc = "walk" /\ call.cur # root /\ call.cur = LeafOf(call.key)
      /\ leaf' = Free(leaf, inner[call.prev].child[call.key[call.depth - 1]])
  BY DEF EraseLeaf, AtLeaf, Walking, Matches, DropLeaf
<1> QED
  BY <1>1 DEF ShapeInv, WalkFits

\* The slot that erase(iterator) empties holds the leaf of the iterator.
LEMMA UnlinkedLeaf ==
    ASSUME ShapeInv, UnlinkLeaf
    PROVE  leaf' = Free(leaf, LeafOf(call.key))
<1> DEFINE l == LeafOf(call.key)
           n == leaf[l].parent
           d == Branch(inner[n])
<1>1. /\ call.pc = "unlink" /\ l # root /\ l \in DOMAIN leaf
      /\ DropLeaf("erase_at", n, d, call.key, call.at)
  BY DEF UnlinkLeaf
<1>2. Standing /\ l \in Live /\ ParentOf(l) = n /\ l.path = call.key
  BY <1>1, WalkStands, StandingFacts DEF LeafOf
<1> HIDE DEF l, n, d
<1>3. inner[n].child[call.key[d]] = l
  BY <1>1, <1>2, Upward DEF d
<1>4. leaf' = Free(leaf, inner[n].child[call.key[d]])
  BY <1>1 DEF DropLeaf
<1> QED
  BY <1>3, <1>4 DEF l

\* The calls whose effect is still to come: the map has no answer yet.
Open == call.pc \notin {"return", "shrink", "compress", "clear"}

\* The keys a call asks the map about.
AskedOf(k) == IF k = NoPath THEN {} ELSE {k}

\* The values of the elements.
LEMMA ContentIs ==
    /\ call.pc # "clear" => Content = [k \in Elements |-> leaf[LeafOf(k)].value]
    /\ call'.pc # "clear" => Content' = [k \in Elements' |-> leaf'[LeafOf(k)].value]
  BY DEF Content, Elements

\* What the map calls its elements, and its searches.
LEMMA Readings ==
    ASSUME call.pc # "clear"
    PROVE  /\ Map!Stored = Elements
           /\ \A W : Map!Smallest(W) = FirstOf("next", W) /\ Map!Largest(W) = FirstOf("prev", W)
           /\ \A k : /\ Map!Above(k) = Sought("next", k)
                     /\ Map!Below(k) = Sought("prev", k)
                     /\ (Map!Stored \cap {k}) \cup Map!Above(k) = Sought("lower", k)
<1>1. Map!Stored = Elements
  BY ContentIs DEF Map!Stored
<1>2. \A W : Map!Smallest(W) = FirstOf("next", W) /\ Map!Largest(W) = FirstOf("prev", W)
  BY DEF Map!Smallest, Map!Largest, FirstOf, Ahead, Backward
<1>3. \A k : /\ Map!Above(k) = Sought("next", k)
             /\ Map!Below(k) = Sought("prev", k)
             /\ (Map!Stored \cap {k}) \cup Map!Above(k) = Sought("lower", k)
  BY <1>1 DEF Map!Above, Map!Below, Sought, Ahead, Backward
<1> QED
  BY <1>1, <1>2, <1>3

\* Before its effect a call has no answer; when it returns it has.
LEMMA AnsweredIs ==
    /\ Open => Answered = Map!NoAnswer
    /\ Open' => Answered' = Map!NoAnswer
    /\ \A o, k, at, did : call' = Return(o, k, at, did) =>
           Answered' = Map!Answer(o, AskedOf(k), at, did)
<1>1. (Open => Answered = Map!NoAnswer) /\ (Open' => Answered' = Map!NoAnswer)
  BY DEF Open, Answered, Map!NoAnswer
<1>2. ASSUME NEW o, NEW k, NEW at, NEW did, call' = Return(o, k, at, did)
      PROVE  Answered' = Map!Answer(o, AskedOf(k), at, did)
  <2>1. call'.pc = "return" /\ call'.op = o /\ call'.key = k /\ call'.at = at /\ call'.did = did
    BY <1>2 DEF Return
  <2> QED
    BY <2>1 DEF Answered, Asked, AskedOf, Map!Answer
<1> QED
  BY <1>1, <1>2

\* An answer names its operation.
LEMMA IsAnswer ==
    ASSUME NEW o, NEW asked, NEW at, NEW did, o # "none"
    PROVE  Map!Answer(o, asked, at, did) # Map!NoAnswer
  BY DEF Map!Answer, Map!NoAnswer

\* Leaves that keep their values are the same elements.
LEMMA SameContent ==
    ASSUME ValuesKept, DOMAIN leaf' = DOMAIN leaf, TypeOK, call.pc # "clear", call'.pc # "clear"
    PROVE  Content' = Content
<1>1. Elements' = Elements
  BY DEF Elements
<1>2. \A k \in Elements : leaf'[LeafOf(k)].value = leaf[LeafOf(k)].value
  BY ElementFacts DEF ValuesKept
<1> QED
  BY <1>1, <1>2, ContentIs

\* A call that only looks.
LEMMA Looked ==
    ASSUME UNCHANGED treeVars, Open, NEW o, NEW k, NEW at, call' = Return(o, k, at, FALSE), o # "none"
    PROVE  /\ Answered = Map!NoAnswer /\ Answered' # Map!NoAnswer
           /\ Map!Look(o, AskedOf(k), at)
<1>1. call.pc # "clear" /\ call'.pc # "clear"
  BY DEF Open, Return
<1>2. Content' = Content
  BY <1>1, ContentIs, LooksOnly
<1>3. Answered = Map!NoAnswer /\ Answered' = Map!Answer(o, AskedOf(k), at, FALSE)
  BY AnsweredIs
<1>4. Answered' # Map!NoAnswer
  BY <1>3, IsAnswer
<1> QED
  BY <1>2, <1>3, <1>4 DEF Map!Look

\* A step in which the map does nothing, before the effect of the call.
LEMMA Waits ==
    ASSUME TypeOK, Open, Open',
           \/ leaf' = leaf
           \/ \E x, p : leaf' = [leaf EXCEPT ![x].parent = p]
           \/ \E S, p : leaf' = Adopt(leaf, S, p)
    PROVE  UNCHANGED <<Content, Answered>>
<1>1. ValuesKept
  BY KeptBy
<1>2. DOMAIN leaf' = DOMAIN leaf
  BY DEF Adopt
<1>3. call.pc # "clear" /\ call'.pc # "clear"
  BY DEF Open
<1>4. Content' = Content
  BY <1>1, <1>2, <1>3, SameContent
<1>5. Answered = Map!NoAnswer /\ Answered' = Map!NoAnswer
  BY AnsweredIs
<1> QED
  BY <1>4, <1>5

\* Until its effect a call goes on without the map.
LEMMA OpenSteps ==
    ASSUME ShapeInv,
           \/ LoadDown \/ PassPrefix \/ SplitStored \/ SplitLoaded \/ SplitLeaf
           \/ GrowNode \/ FillGap \/ BoundMisses
           \/ MoveEnd \/ Climb \/ GoDown
           \/ (Begin /\ root # Null)
           \/ \E o, k, v : CallOnTree(o, k, v) \/ MoveIterator(o, k)
           \/ \E o \in InsertOps : \E k, v : CallOnEmpty(o, k, v)
    PROVE  UNCHANGED <<Content, Answered>>
<1>1. TypeOK
  BY DEF ShapeInv
<1>2. CASE LoadDown \/ PassPrefix \/ SplitStored \/ SplitLoaded \/ GrowNode
  <2>1. call.pc = "walk" /\ call \in WalkCall
    BY <1>1, <1>2, CallShape DEF LoadDown, PassPrefix, SplitStored, SplitLoaded, GrowNode, AtNode,
                                 AtGap, Walking, TypeOK
  <2>2. \A f, g, h, x : [call EXCEPT !.prev = f, !.depth = g, !.low = h, !.cur = x].pc = "walk"
    BY <2>1 DEF WalkCall
  <2>6. \A x, d, c : [call EXCEPT !.prev = x, !.depth = d, !.low = Null, !.cur = c].pc = "walk"
    BY <2>1 DEF WalkCall
  <2>3. \A f : [call EXCEPT !.prev = f].pc = "walk" /\ [call EXCEPT !.low = f].pc = "walk"
    BY <2>1 DEF WalkCall
  <2>4. call'.pc = "walk"
    <3>1. CASE LoadDown
      BY <2>3, <3>1 DEF LoadDown
    <3>2. CASE PassPrefix
      BY <2>2, <3>2 DEF PassPrefix
    <3>3. CASE SplitStored \/ SplitLoaded
      <4>1. \E pos, f, s, b, rest : SplitAt(pos, f, s, b, rest)
        BY <3>3 DEF SplitStored, SplitLoaded
      <4>2. PICK pos, f, s, b, rest : SplitAt(pos, f, s, b, rest)
        BY <4>1
      <4>3. PICK c : c = OneChild(inner[call.cur].parent, inner[call.cur].depth, pos, f, s, b,
                                  call.cur).child[call.key[call.depth + pos]]
        OBVIOUS
      <4>4. PICK x : x = NodeAt("node_4", call.cur.path, inner[call.cur].depth + pos)
        OBVIOUS
      <4>5. PICK d : d = call.depth + pos + 1
        OBVIOUS
      <4>6. call' = [call EXCEPT !.prev = x, !.depth = d, !.low = Null, !.cur = c]
        BY <4>2, <4>3, <4>4, <4>5 DEF SplitAt
      <4> QED
        BY <2>6, <4>6
    <3>4. CASE GrowNode
      BY <2>3, <3>4 DEF GrowNode
    <3> QED
      BY <1>2, <3>1, <3>2, <3>3, <3>4
  <2>5. leaf' = leaf \/ \E S, p : leaf' = Adopt(leaf, S, p)
    BY <1>2 DEF LoadDown, PassPrefix, SplitStored, SplitLoaded, SplitAt, GrowNode, treeVars
  <2> QED
    BY <1>1, <2>1, <2>4, <2>5, Waits DEF Open
<1>3. CASE SplitLeaf
  <2>1. call.pc = "walk" /\ call'.pc = "link"
    BY <1>3 DEF SplitLeaf, ThenLink, AtLeaf, Walking
  <2>2. \E x, p : leaf' = [leaf EXCEPT ![x].parent = p]
    BY <1>3 DEF SplitLeaf
  <2> QED
    BY <1>1, <2>1, <2>2, Waits DEF Open
<1>4. CASE FillGap
  <2>1. call.pc = "walk" /\ call'.pc = "link" /\ leaf' = leaf
    BY <1>4 DEF FillGap, ThenLink, AtGap, Walking, treeVars
  <2> QED
    BY <1>1, <2>1, Waits DEF Open
<1>5. CASE BoundMisses
  <2>1. call.pc = "walk" /\ call'.pc = "climb" /\ leaf' = leaf
    BY <1>5 DEF BoundMisses, AtLeaf, AtGap, Walking, treeVars
  <2> QED
    BY <1>1, <2>1, Waits DEF Open
<1>6. CASE Climb
  <2>1. call.pc = "climb" /\ call \in ClimbCall
    BY <1>1, <1>6, CallShape DEF Climb, TypeOK
  <2>2. call'.pc \in {"climb", "down"} /\ leaf' = leaf
    BY <1>6, <2>1 DEF Climb, ClimbCall, treeVars
  <2> QED
    BY <1>1, <2>1, <2>2, Waits DEF Open
<1>7. CASE GoDown
  <2>1. call.pc = "down" /\ call \in DownCall
    BY <1>1, <1>7, CallShape DEF GoDown, TypeOK
  <2>2. call'.pc = "down" /\ leaf' = leaf
    BY <1>7, <2>1 DEF GoDown, DownCall, treeVars
  <2> QED
    BY <1>1, <2>1, <2>2, Waits DEF Open
<1>8. CASE MoveEnd \/ (Begin /\ root # Null)
  <2>1. call = Idle /\ UNCHANGED treeVars
    BY <1>8 DEF MoveEnd, Begin
  <2>2. call.pc = "idle" /\ leaf' = leaf
    BY <2>1 DEF Idle, treeVars
  <2>3. ASSUME MoveEnd  PROVE call'.pc = "climb"
    BY <2>3 DEF MoveEnd
  <2>4. ASSUME Begin, root # Null  PROVE call'.pc = "down"
    BY <2>4 DEF Begin
  <2> QED
    BY <1>1, <1>8, <2>2, <2>3, <2>4, Waits DEF Open
<1>9. ASSUME NEW o, NEW k, NEW v, CallOnTree(o, k, v) \/ MoveIterator(o, k)
      PROVE  UNCHANGED <<Content, Answered>>
  <2>1. call.pc = "idle" /\ call'.pc \in {"walk", "climb"} /\ leaf' = leaf
    BY <1>9 DEF CallOnTree, MoveIterator, Idle, treeVars
  <2> QED
    BY <1>1, <2>1, Waits DEF Open
<1>10. ASSUME NEW o \in InsertOps, NEW k, NEW v, CallOnEmpty(o, k, v)
       PROVE  UNCHANGED <<Content, Answered>>
  <2>1. call.pc = "idle" /\ call'.pc = "link" /\ leaf' = leaf
    BY <1>10 DEF CallOnEmpty, Idle, treeVars
  <2> QED
    BY <1>1, <2>1, Waits DEF Open
<1> QED
  BY <1>2, <1>3, <1>4, <1>5, <1>6, <1>7, <1>8, <1>9, <1>10

\* After the effect of an erasure fix_after_erase goes on without the map.
LEMMA FixingSteps ==
    ASSUME ShapeInv,
           ShrinkToNode \/ ShrinkToLeaf \/ ShrinkNothing \/ Compress \/ CompressNothing
    PROVE  UNCHANGED <<Content, Answered>>
<1>1. TypeOK
  BY DEF ShapeInv
<1>2. call.pc \in {"shrink", "compress"} /\ call \in FixCall
  BY <1>1, CallShape DEF ShrinkToNode, ShrinkToLeaf, ShrinkNothing, Compress, CompressNothing,
                         Underfull, Fixing, TypeOK
<1>3. /\ call'.pc \in {"shrink", "compress"} \/ (call'.pc = "return" /\ call'.did = TRUE)
      /\ call'.op = call.op /\ call'.key = call.key /\ call'.at = call.at
  <2>1. CASE ShrinkToNode \/ ShrinkNothing
    <3>1. PICK x : call' = [call EXCEPT !.pc = "compress", !.node = x]
      BY <2>1 DEF ShrinkToNode, ShrinkNothing, ThenCompress
    <3> QED
      BY <1>2, <3>1 DEF FixCall
  <2>2. CASE ShrinkToLeaf \/ Compress \/ CompressNothing
    <3>1. call' = Return(call.op, call.key, call.at, TRUE)
      BY <2>2 DEF ShrinkToLeaf, Compress, CompressNothing, FixEnds
    <3> QED
      BY <3>1 DEF Return
  <2> QED
    BY <2>1, <2>2
<1>4. \/ leaf' = leaf
      \/ \E x, p : leaf' = [leaf EXCEPT ![x].parent = p]
      \/ \E S, p : leaf' = Adopt(leaf, S, p)
  BY DEF ShrinkToNode, ShrinkToLeaf, ShrinkNothing, Compress, CompressNothing, treeVars
<1>5. ValuesKept /\ DOMAIN leaf' = DOMAIN leaf
  BY <1>1, <1>4, KeptBy DEF Adopt
<1>6. Content' = Content
  BY <1>1, <1>2, <1>3, <1>5, SameContent
<1>7. Asked' = Asked
  BY <1>3 DEF Asked
<1>8. Answered = [op |-> call.op, asked |-> Asked, at |-> call.at, did |-> TRUE]
  BY <1>2 DEF Answered
<1>9. Answered' = [op |-> call'.op, asked |-> Asked', at |-> call'.at, did |-> TRUE]
  BY <1>3 DEF Answered
<1> QED
  BY <1>3, <1>6, <1>7, <1>8, <1>9

-----------------------------------------------------------------------------
(* The operations.                                                         *)

\* A call that has no answer yet and gets one is an operation of the map.
LEMMA Operates ==
    ASSUME Answered = Map!NoAnswer, Answered' # Map!NoAnswer, Map!Operation
    PROVE  Map!Next
  BY DEF Map!Next

\* insert and emplace link a leaf: the map puts its value.
LEMMA LinkPuts ==
    ASSUME TypeOK, Open, NEW o \in InsertOps, NEW k \in Keys, NEW v \in Values, NEW p,
           LeafOf(k) \notin DOMAIN leaf,
           leaf' = Allocate(leaf, LeafOf(k), [parent |-> p, value |-> v]),
           call' = Return(o, k, {k}, TRUE)
    PROVE  Map!Next
<1>1. call.pc # "clear" /\ call'.pc # "clear"
  BY DEF Open, Return
<1>2. Map!Stored = Elements
  BY <1>1, Readings
<1>3. DOMAIN leaf' = DOMAIN leaf \cup {LeafOf(k)}
  BY DEF Allocate
<1>4. Elements' = Elements \cup {k} /\ k \notin Elements
  BY <1>3, ElementFacts DEF Elements
<1>5. \A j \in Elements' : leaf'[LeafOf(j)].value = IF j \in Elements THEN Content[j] ELSE v
  <2>1. leaf'[LeafOf(k)].value = v
    BY DEF Allocate
  <2>2. ASSUME NEW j \in Elements  PROVE leaf'[LeafOf(j)].value = Content[j]
    <3>1. LeafOf(j) \in DOMAIN leaf /\ LeafOf(j) # LeafOf(k)
      BY ElementFacts
    <3>2. leaf'[LeafOf(j)] = leaf[LeafOf(j)]
      BY <3>1 DEF Allocate
    <3> QED
      BY <1>1, <3>2, ContentIs
  <2> QED
    BY <1>4, <2>1, <2>2
<1>6. Content' = [j \in Elements \cup {k} |-> IF j \in Elements THEN Content[j] ELSE v]
  BY <1>1, <1>4, <1>5, ContentIs
<1>7. Answered = Map!NoAnswer /\ Answered' = Map!Answer(o, {k}, {k}, TRUE) /\ o # "none"
  BY AnsweredIs, NoPathIsNoKey DEF AskedOf, InsertOps
<1>8. Map!Put(o, k, v)
  <2>1. Content' = [j \in Map!Stored \cup {k} |-> IF j \in Map!Stored THEN Content[j] ELSE v]
    BY <1>2, <1>6
  <2>2. Answered' = Map!Answer(o, {k}, {k}, k \notin Map!Stored)
    BY <1>2, <1>4, <1>7
  <2> QED
    BY <2>1, <2>2 DEF Map!Put
<1>9. Map!Operation
  BY <1>8 DEF Map!Operation, InsertOps
<1>10. Answered' # Map!NoAnswer
  BY <1>7, IsAnswer
<1> QED
  BY <1>7, <1>9, <1>10, Operates

\* insert and emplace find the key: it keeps its value.
LEMMA DuplicatePuts ==
    ASSUME ShapeInv, InsertDuplicate
    PROVE  Map!Next
<1> DEFINE o == call.op
           k == call.key
           v == call.value
<1>1. /\ call.pc = "walk" /\ o \in InsertOps /\ UNCHANGED treeVars /\ Matches
      /\ call' = Return(o, k, {k}, FALSE)
  BY DEF InsertDuplicate, AtLeaf, Walking
<1>2. call \in WalkCall
  BY <1>1, CallShape DEF ShapeInv, TypeOK
<1>3. k \in Keys /\ v \in Values
  BY <1>2 DEF WalkCall
<1>4. k \in Elements
  <2>1. call.cur = LeafOf(k) /\ call.cur \in DOMAIN leaf
    BY <1>1 DEF InsertDuplicate, AtLeaf, Matches
  <2> QED
    BY <2>1, ElementFacts DEF ShapeInv
<1>5. call.pc # "clear" /\ call'.pc # "clear" /\ Open
  BY <1>1 DEF Open, Return
<1> HIDE DEF o, k, v
<1>6. Map!Stored = Elements
  BY <1>5, Readings
<1>7. Content' = Content /\ Content = [j \in Elements |-> Content[j]]
  BY <1>1, <1>5, ContentIs, LooksOnly
<1>8. Answered = Map!NoAnswer /\ Answered' = Map!Answer(o, {k}, {k}, FALSE) /\ o # "none"
  BY <1>1, <1>3, <1>5, AnsweredIs, NoPathIsNoKey DEF AskedOf, InsertOps
<1>9. Map!Put(o, k, v)
  <2>1. Elements \cup {k} = Elements
    BY <1>4
  <2>2. [j \in Elements |-> Content[j]] =
          [j \in Elements |-> IF j \in Elements THEN Content[j] ELSE v]
    OBVIOUS
  <2>3. Content' = [j \in Map!Stored \cup {k} |-> IF j \in Map!Stored THEN Content[j] ELSE v]
    BY <1>6, <1>7, <2>1, <2>2
  <2>4. Answered' = Map!Answer(o, {k}, {k}, k \notin Map!Stored)
    BY <1>4, <1>6, <1>8
  <2> QED
    BY <2>3, <2>4 DEF Map!Put
<1>10. Map!Operation
  BY <1>1, <1>3, <1>9 DEF Map!Operation, InsertOps
<1>11. Answered' # Map!NoAnswer
  BY <1>8, IsAnswer
<1> QED
  BY <1>8, <1>10, <1>11, Operates

\* The step of insert and emplace that links their leaf.
LEMMA LinkSteps ==
    ASSUME ShapeInv, LinkLeaf
    PROVE  Map!Next
<1>1. TypeOK /\ call.pc = "link" /\ Open
  BY DEF ShapeInv, LinkLeaf, Open
<1>2. call \in LinkCall
  BY <1>1, CallShape DEF TypeOK
<1>3. call.op \in InsertOps /\ call.key \in Keys /\ call.value \in Values
  BY <1>2 DEF LinkCall
<1>4. /\ LeafOf(call.key) \notin DOMAIN leaf
      /\ leaf' = Allocate(leaf, LeafOf(call.key), [parent |-> call.node, value |-> call.value])
      /\ call' = Return(call.op, call.key, {call.key}, TRUE)
  BY DEF LinkLeaf
<1> QED
  BY <1>1, <1>3, <1>4, LinkPuts

\* An erasure deletes the leaf of its key: the map removes it.
LEMMA FreeRemoves ==
    ASSUME TypeOK, call.pc # "clear", call'.pc # "clear", NEW k, leaf' = Free(leaf, LeafOf(k)),
           NEW o, NEW at, NEW did, Answered' = Map!Answer(o, {k}, at, did)
    PROVE  Map!Remove(k, o, at, did)
<1>1. Map!Stored = Elements
  BY Readings
<1>2. Elements' = Elements \ {k}
  BY ElementFacts DEF Elements, Free
<1>3. ASSUME NEW j \in Elements \ {k}  PROVE leaf'[LeafOf(j)].value = Content[j]
  <2>1. LeafOf(j) \in DOMAIN leaf /\ LeafOf(j) # LeafOf(k)
    BY ElementFacts
  <2>2. leaf'[LeafOf(j)] = leaf[LeafOf(j)]
    BY <2>1 DEF Free
  <2> QED
    BY <2>2, ContentIs
<1>4. Content' = [j \in Elements \ {k} |-> Content[j]]
  BY <1>2, <1>3, ContentIs
<1> QED
  BY <1>1, <1>4 DEF Map!Remove

\* An empty tree has no elements.
LEMMA RootlessIsEmpty == Standing /\ root = Null => Elements = {}
  BY BelowRoot

\* An erasure that does not find its key.
LEMMA ErasesNothing ==
    ASSUME Open, UNCHANGED treeVars, NEW k \in Keys, k \notin Elements,
           call' = Return("erase", k, {}, FALSE)
    PROVE  Map!Next
<1>1. call.pc # "clear" /\ call'.pc # "clear"
  BY DEF Open, Return
<1>2. Map!Stored = Elements
  BY <1>1, Readings
<1>3. Content' = Content /\ Content = [j \in Elements |-> Content[j]]
  BY <1>1, ContentIs, LooksOnly
<1>4. Answered = Map!NoAnswer /\ Answered' = Map!Answer("erase", {k}, {}, FALSE)
  BY AnsweredIs, NoPathIsNoKey DEF AskedOf
<1>5. Map!Erase(k)
  <2>1. Elements \ {k} = Elements
    OBVIOUS
  <2>2. Content' = [j \in Map!Stored \ {k} |-> Content[j]]
    BY <1>2, <1>3, <2>1
  <2>3. (k \in Map!Stored) = FALSE
    BY <1>2
  <2>4. Answered' = Map!Answer("erase", {k}, {}, k \in Map!Stored)
    BY <1>4, <2>3
  <2> QED
    BY <2>2, <2>4 DEF Map!Erase, Map!Remove
<1>6. Map!Operation
  BY <1>5 DEF Map!Operation
<1>7. Answered' # Map!NoAnswer
  BY <1>4, IsAnswer
<1> QED
  BY <1>4, <1>6, <1>7, Operates

\* The step of erase_unique in which it deletes its leaf.
LEMMA EraseTakes ==
    ASSUME ShapeInv, EraseRoot \/ EraseLeaf
    PROVE  Map!Next
<1> DEFINE k == call.key
<1>1. /\ TypeOK /\ call.pc = "walk" /\ Matches /\ call.cur \in DOMAIN leaf
  BY DEF ShapeInv, EraseRoot, EraseLeaf, AtLeaf, Walking
<1>2. call \in WalkCall /\ Open
  BY <1>1, CallShape DEF TypeOK, Open
<1>3. k \in Keys /\ k \in Elements
  BY <1>1, <1>2, ElementFacts DEF WalkCall, Matches
<1>4. leaf' = Free(leaf, LeafOf(k))
  <2>1. CASE EraseRoot
    BY <2>1 DEF EraseRoot, DropRoot, Matches
  <2>2. CASE EraseLeaf
    BY <2>2, ErasedLeaf
  <2> QED
    BY <2>1, <2>2
<1>5. Answered' = Map!Answer("erase", {k}, {}, TRUE) /\ call'.pc # "clear"
  <2>1. CASE EraseRoot
    <3>1. call' = Return("erase", k, {}, TRUE)
      BY <2>1 DEF EraseRoot
    <3> QED
      BY <1>3, <3>1, AnsweredIs, NoPathIsNoKey DEF AskedOf, Return
  <2>2. CASE EraseLeaf
    <3>1. \E n, j : DropLeaf("erase", n, j, k, {})
      BY <2>2 DEF EraseLeaf
    <3>2. call'.pc = "shrink" /\ call'.op = "erase" /\ call'.key = k /\ call'.at = {}
      BY <3>1 DEF DropLeaf
    <3> QED
      BY <1>3, <3>2, NoPathIsNoKey DEF Answered, Asked, Map!Answer
  <2> QED
    BY <2>1, <2>2
<1> HIDE DEF k
<1>6. call.pc # "clear"
  BY <1>1
<1>7. Map!Stored = Elements
  BY <1>6, Readings
<1>8. Map!Remove(k, "erase", {}, TRUE)
  BY <1>1, <1>4, <1>5, <1>6, FreeRemoves
<1>9. Map!Erase(k)
  BY <1>3, <1>7, <1>8 DEF Map!Erase
<1>10. Map!Operation
  BY <1>3, <1>9 DEF Map!Operation
<1>11. Answered = Map!NoAnswer /\ Answered' # Map!NoAnswer
  BY <1>2, <1>5, AnsweredIs, IsAnswer
<1> QED
  BY <1>10, <1>11, Operates

\* The step of erase(iterator) in which it deletes its leaf: it will answer with
\* the element that came after it.
LEMMA UnlinkTakes ==
    ASSUME ShapeInv, SearchKnows, UnlinkRoot \/ UnlinkLeaf
    PROVE  Map!Next
<1> DEFINE k  == call.key
           at == call.at
<1>1. TypeOK /\ call.pc = "unlink" /\ Open /\ call.pc # "clear"
  BY DEF ShapeInv, UnlinkRoot, UnlinkLeaf, Open
<1>2. k \in Elements /\ k \in Keys /\ at = FirstOf("next", Sought("next", k))
  BY <1>1, ElementFacts DEF SearchKnows, UnlinkKnows
<1>3. leaf' = Free(leaf, LeafOf(k))
  <2>1. CASE UnlinkRoot
    BY <2>1 DEF UnlinkRoot, DropRoot
  <2>2. CASE UnlinkLeaf
    BY <2>2, UnlinkedLeaf
  <2> QED
    BY <2>1, <2>2
<1>4. Answered' = Map!Answer("erase_at", {k}, at, TRUE) /\ call'.pc # "clear"
  <2>1. CASE UnlinkRoot
    <3>1. call' = Return("erase_at", k, at, TRUE)
      BY <2>1 DEF UnlinkRoot
    <3> QED
      BY <1>2, <3>1, AnsweredIs, NoPathIsNoKey DEF AskedOf, Return
  <2>2. CASE UnlinkLeaf
    <3>1. \E n, j : DropLeaf("erase_at", n, j, k, at)
      BY <2>2 DEF UnlinkLeaf
    <3>2. call'.pc = "shrink" /\ call'.op = "erase_at" /\ call'.key = k /\ call'.at = at
      BY <3>1 DEF DropLeaf
    <3> QED
      BY <1>2, <3>2, NoPathIsNoKey DEF Answered, Asked, Map!Answer
  <2> QED
    BY <2>1, <2>2
<1> HIDE DEF k, at
<1>5. Map!Stored = Elements /\ Map!Smallest(Map!Above(k)) = at
  BY <1>1, <1>2, Readings
<1>6. Map!Remove(k, "erase_at", at, TRUE)
  BY <1>1, <1>3, <1>4, FreeRemoves
<1>7. Map!EraseAt(k)
  BY <1>2, <1>5, <1>6 DEF Map!EraseAt
<1>8. Map!Operation
  BY <1>2, <1>7 DEF Map!Operation
<1>9. Answered = Map!NoAnswer /\ Answered' # Map!NoAnswer
  BY <1>1, <1>4, AnsweredIs, IsAnswer
<1> QED
  BY <1>8, <1>9, Operates

\* clear() empties the map when it begins; the deletions that follow are not
\* seen any more.
LEMMA ClearSteps ==
    ASSUME ShapeInv, ShapeInv', CallClear \/ ClearChild \/ ClearNode \/ ClearEnds
    PROVE  Map!Next \/ UNCHANGED <<Content, Answered>>
<1>1. TypeOK
  BY DEF ShapeInv
<1>2. CASE CallClear
  <2>1. call.pc = "idle" /\ call'.pc = "clear" /\ Open
    BY <1>2 DEF CallClear, Idle, Open
  <2>2. Content' = [k \in {} |-> 0]
    BY <2>1 DEF Content
  <2>3. Map!Stored = Elements
    BY <2>1, Readings
  <2>4. Content' = [j \in {} |-> Content[j]]
    BY <2>2
  <2>5. Answered' = Map!Answer("clear", {}, {}, TRUE)
    BY <2>1 DEF Answered, Map!Answer
  <2>6. Map!Clear
    BY <2>4, <2>5 DEF Map!Clear
  <2>7. Map!Operation
    BY <2>6 DEF Map!Operation
  <2>8. Answered = Map!NoAnswer /\ Answered' # Map!NoAnswer
    <3>1. Map!Answer("clear", {}, {}, TRUE) # Map!NoAnswer
      BY IsAnswer
    <3> QED
      BY <2>1, <2>5, <3>1, AnsweredIs
  <2> QED
    BY <2>7, <2>8, Operates
<1>3. CASE ClearChild \/ ClearNode
  <2>1. call.pc = "clear" /\ call \in ClearCall
    BY <1>1, <1>3, CallShape DEF ClearChild, ClearNode, Clearing, TypeOK
  <2>2. call'.pc = "clear"
    BY <1>3, <2>1 DEF ClearChild, ClearNode, ClearCall
  <2> QED
    BY <2>1, <2>2 DEF Content, Answered
<1>4. CASE ClearEnds
  <2>1. /\ call.pc = "clear" /\ root' = Null
        /\ call' = Return("clear", NoPath, {}, TRUE)
    BY <1>4 DEF ClearEnds
  <2>2. call'.pc = "return"
    BY <2>1 DEF Return
  <2>3. Elements' = {}
    <3>1. Standing'
      BY <2>2 DEF ShapeInv, Whole, Standing
    <3>2. (Standing /\ root = Null => Elements = {})'
      BY RootlessIsEmpty, PTL
    <3> QED
      BY <2>1, <3>1, <3>2
  <2>4. Content' = [k \in {} |-> leaf'[LeafOf(k)].value]
    BY <2>2, <2>3, ContentIs
  <2>5. Content = [k \in {} |-> 0]
    BY <2>1 DEF Content
  <2>6. Content' = Content
    BY <2>4, <2>5
  <2>7. Answered' = Map!Answer("clear", {}, {}, TRUE)
    BY <2>1, AnsweredIs DEF AskedOf
  <2>8. Answered = [op |-> "clear", asked |-> {}, at |-> {}, did |-> TRUE]
    BY <2>1 DEF Answered
  <2> QED
    BY <2>6, <2>7, <2>8 DEF Map!Answer
<1> QED
  BY <1>2, <1>3, <1>4

-----------------------------------------------------------------------------
(* The searches.                                                           *)

\* What a bound answers.
LEMMA BoundAnswers ==
    ASSUME Open, UNCHANGED treeVars, NEW o \in {"lower", "upper"}, NEW k \in Keys,
           NEW at, at = FirstOf(o, Sought(o, k)), call' = Return(o, k, at, FALSE)
    PROVE  Map!Next
<1>1. /\ Answered = Map!NoAnswer /\ Answered' # Map!NoAnswer
      /\ Map!Look(o, {k}, at)
  BY Looked, NoPathIsNoKey DEF AskedOf
<1>2. call.pc # "clear"
  BY DEF Open
<1>3. at = FirstOf("next", Sought(o, k))
  BY Forward
<1>4. CASE o = "lower"
  <2>1. at = Map!Smallest((Map!Stored \cap {k}) \cup Map!Above(k))
    BY <1>2, <1>3, <1>4, Readings
  <2>2. Map!Lower(k)
    BY <1>1, <1>4, <2>1 DEF Map!Lower
  <2> QED
    BY <1>1, <2>2, Operates DEF Map!Operation
<1>5. CASE o = "upper"
  <2>1. at = FirstOf("next", Sought("next", k))
    BY <1>3, <1>5, Forward
  <2>2. at = Map!Smallest(Map!Above(k))
    BY <1>2, <2>1, Readings
  <2>3. Map!Upper(k)
    BY <1>1, <1>5, <2>2 DEF Map!Upper
  <2> QED
    BY <1>1, <2>3, Operates DEF Map!Operation
<1> QED
  BY <1>4, <1>5

\* What find() answers.
LEMMA FindAnswers ==
    ASSUME Open, UNCHANGED treeVars, NEW k \in Keys, NEW at, at = Elements \cap {k},
           call' = Return("find", k, at, FALSE)
    PROVE  Map!Next
<1>1. /\ Answered = Map!NoAnswer /\ Answered' # Map!NoAnswer
      /\ Map!Look("find", {k}, at)
  BY Looked, NoPathIsNoKey DEF AskedOf
<1>2. Map!Stored = Elements
  BY Readings DEF Open
<1>3. Map!Find(k)
  BY <1>1, <1>2 DEF Map!Find
<1> QED
  BY <1>1, <1>3, Operates DEF Map!Operation

\* A prefix has shown that the key is not there.
LEMMA DiffersAnswers ==
    ASSUME ShapeInv, SearchKnows, PrefixDiffers
    PROVE  Map!Next
<1> DEFINE o == call.op
           k == call.key
<1>1. /\ o \in WalkOps \ InsertOps /\ Open /\ UNCHANGED treeVars
      /\ call' = Return(o, k, {}, FALSE)
  BY DEF PrefixDiffers, AtNode, Walking, Open
<1>2. k \in Keys /\ k \notin Elements /\ (o \in BoundOps => Sought(o, k) = {})
  BY DiffersMisses DEF SearchKnows
<1> HIDE DEF o, k
<1>3. CASE o = "erase"
  BY <1>1, <1>2, <1>3, ErasesNothing
<1>4. CASE o = "find"
  <2>1. {} = Elements \cap {k}
    BY <1>2
  <2> QED
    BY <1>1, <1>2, <1>4, <2>1, FindAnswers
<1>5. CASE o \in {"lower", "upper"}
  <2>1. {} = FirstOf(o, Sought(o, k))
    BY <1>2, <1>5 DEF FirstOf, BoundOps
  <2> QED
    BY <1>1, <1>2, <1>5, <2>1, BoundAnswers
<1> QED
  BY <1>1, <1>3, <1>4, <1>5 DEF WalkOps, BoundOps

\* find() and the bounds accept the leaf the walk has come to.
LEMMA WalkAnswers ==
    ASSUME ShapeInv, SearchKnows, FindEnds \/ BoundHits
    PROVE  Map!Next
<1>1. /\ call.pc = "walk" /\ Open /\ UNCHANGED treeVars
      /\ call.cur \in DOMAIN leaf \/ call.cur = Null
  BY DEF FindEnds, BoundHits, AtLeaf, AtGap, Walking, Open
<1>2. TypeOK /\ call.cur \notin DOMAIN inner /\ call.pc # "clear" /\ WalkSeeks
  BY <1>1, WalkStands, StandingFacts DEF SearchKnows, Live
<1>3. call.key \in Keys /\ (call.key \in Elements <=> Matches)
  BY <1>1, <1>2, WalkDecides
<1>4. CASE FindEnds
  <2> DEFINE k  == call.key
             at == IF Matches THEN {k} ELSE {}
  <2>1. call' = Return("find", k, at, FALSE)
    BY <1>4 DEF FindEnds
  <2>2. at = Elements \cap {k}
    BY <1>3
  <2> HIDE DEF k, at
  <2>3. k \in Keys
    BY <1>3 DEF k
  <2> QED
    BY <1>1, <2>1, <2>2, <2>3, FindAnswers
<1>5. CASE BoundHits
  <2> DEFINE o == call.op
             k == call.key
             c == call.cur.path
  <2>1. /\ o \in {"lower", "upper"} /\ call.cur \in DOMAIN leaf
        /\ Less(k, c) \/ (o = "lower" /\ c = k)
        /\ call' = Return(o, k, {c}, FALSE)
    BY <1>5 DEF BoundHits, LeafIsBound, Candidates, AtLeaf, Walking, BoundOps
  <2>2. c \in Elements /\ c \in Keys /\ call.cur = LeafOf(c)
    BY <1>2, <2>1, ElementFacts
  <2>3. Agree(k, c, call.depth) /\ call.depth \in 0..KeyLen
    BY <1>1, <1>2, <2>1, WalkKnows, WalkDecides DEF Live
  <2>4. \A m \in Elements : Agree(k, m, call.depth) => m = c
    <3>1. \A m \in Elements : Agree(k, m, call.depth) => Within(m, call.cur)
      BY <1>1, <1>2, <2>1, WalkFinds
    <3> QED
      BY <1>2, <2>2, <3>1, ElementFacts DEF Within
  <2>6. k \in Keys
    BY <1>3
  <2> HIDE DEF o, k, c
  <2>7. c \in Sought(o, k)
    BY <2>1, <2>2 DEF Sought, Ahead, Backward
  <2>8. ASSUME NEW m \in Sought(o, k), m # c
        PROVE  Less(c, m)
    <3>1. m \in Elements /\ m \in Keys
      BY <1>2, ElementFacts DEF Sought
    <3>2. m = k \/ Less(k, m)
      BY <2>1 DEF Sought, Ahead, Backward
    <3>3. ~ Less(m, c)
      <4>1. SUFFICES ASSUME Less(m, c)  PROVE FALSE
        OBVIOUS
      <4>2. Agree(k, m, call.depth)
        <5>1. CASE m = k
          BY <5>1 DEF Agree
        <5>2. CASE Less(k, m)
          BY <2>2, <2>3, <2>6, <3>1, <4>1, <5>2, Between
        <5> QED
          BY <3>2, <5>1, <5>2
      <4> QED
        BY <2>4, <2>8, <3>1, <4>2
    <3> QED
      BY <2>2, <2>8, <3>1, <3>3, LessIsTotal
  <2>9. FirstOf(o, Sought(o, k)) = {c}
    <3>1. \A m \in Sought(o, k) : m \in Keys
      BY <1>2, ElementFacts DEF Sought
    <3>2. \A m \in Sought(o, k) \ {c} : Ahead(o, c, m) /\ ~ Ahead(o, m, c)
      BY <2>1, <2>2, <2>8, <3>1, LessIsTotal DEF Ahead, Backward
    <3> QED
      BY <2>7, <3>2 DEF FirstOf
  <2> QED
    BY <1>1, <2>1, <2>6, <2>9, BoundAnswers
<1> QED
  BY <1>4, <1>5

\* Lookups in an empty tree.
LEMMA EmptyAnswers ==
    ASSUME ShapeInv, NEW o \in {"erase", "find", "lower", "upper"}, NEW k \in Keys, NEW v,
           CallOnEmpty(o, k, v)
    PROVE  Map!Next
<1>1. /\ call.pc = "idle" /\ Open /\ root = Null /\ UNCHANGED treeVars
      /\ call' = Return(o, k, {}, FALSE)
  BY DEF InsertOps, CallOnEmpty, Idle, Open
<1>2. Elements = {}
  BY <1>1, WalkStands, RootlessIsEmpty DEF Idle
<1>3. CASE o = "erase"
  BY <1>1, <1>2, <1>3, ErasesNothing
<1>4. CASE o = "find"
  <2>1. {} = Elements \cap {k}
    BY <1>2
  <2> QED
    BY <1>1, <1>4, <2>1, FindAnswers
<1>5. CASE o \in {"lower", "upper"}
  <2>1. FirstOf(o, Sought(o, k)) = {}
    BY <1>2 DEF FirstOf, Sought
  <2> QED
    BY <1>1, <1>5, <2>1, BoundAnswers
<1> QED
  BY <1>3, <1>4, <1>5

\* What an increment answers.
LEMMA NextAnswers ==
    ASSUME Open, UNCHANGED treeVars, NEW k \in Keys, k \in Elements,
           NEW at, at = FirstOf("next", Sought("next", k)), call' = Return("next", k, at, FALSE)
    PROVE  Map!Next
<1>1. /\ Answered = Map!NoAnswer /\ Answered' # Map!NoAnswer
      /\ Map!Look("next", {k}, at)
  BY Looked, NoPathIsNoKey DEF AskedOf
<1>2. at = Map!Smallest(Map!Above(k)) /\ k \in Map!Stored
  BY Readings DEF Open
<1>3. Map!Successor(k)
  BY <1>1, <1>2 DEF Map!Successor
<1> QED
  BY <1>1, <1>3, Operates DEF Map!Operation

\* What a decrement answers: the last of those before, or the last of all.
LEMMA PrevAnswers ==
    ASSUME Open, UNCHANGED treeVars, NEW k \in Keys, k \in Elements, NEW at,
           \/ Sought("prev", k) # {} /\ at = FirstOf("prev", Sought("prev", k))
           \/ Sought("prev", k) = {} /\ at = FirstOf("prev", Elements),
           call' = Return("prev", k, at, FALSE)
    PROVE  Map!Next
<1>1. /\ Answered = Map!NoAnswer /\ Answered' # Map!NoAnswer
      /\ Map!Look("prev", {k}, at)
  BY Looked, NoPathIsNoKey DEF AskedOf
<1>2. /\ Map!Below(k) = Sought("prev", k) /\ k \in Map!Stored /\ Map!Stored = Elements
      /\ \A W : Map!Largest(W) = FirstOf("prev", W)
  BY Readings DEF Open
<1>3. at = IF Map!Below(k) = {} THEN Map!Largest(Map!Stored) ELSE Map!Largest(Map!Below(k))
  BY <1>2
<1>4. Map!Predecessor(k)
  BY <1>1, <1>2, <1>3 DEF Map!Predecessor
<1> QED
  BY <1>1, <1>4, Operates DEF Map!Operation

\* A search that is over answers, or lets erase(iterator) go on.
LEMMA ArriveSteps ==
    ASSUME TypeOK, Open, UNCHANGED treeVars, NEW k, NEW at, Arrive("erase_at", k, at)
    PROVE  UNCHANGED <<Content, Answered>>
<1>1. call'.pc = "unlink" /\ leaf' = leaf
  BY DEF Arrive, treeVars
<1> QED
  BY <1>1, Waits DEF Open

\* The climb has passed every element: end(), or around to the last element.
LEMMA PastTopSteps ==
    ASSUME ShapeInv, SearchKnows, DummyTracksRoot, ClimbPastTop
    PROVE  Map!Next \/ UNCHANGED <<Content, Answered>>
<1> DEFINE o == call.op
           k == call.key
<1>1. /\ UNCHANGED treeVars
      /\ \/ k = NoPath /\ o = "prev"
         \/ k \in Keys /\ (o \in FromElement => k \in Elements) /\ Sought(o, k) = {}
      /\ o = "prev" => call' = [pc |-> "down", op |-> o, key |-> k, cur |-> root]
      /\ o # "prev" => Arrive(o, k, {})
  BY PastTop
<1>2. TypeOK /\ call.pc = "climb" /\ Open
  BY DEF ShapeInv, ClimbPastTop, Open
<1>3. o \in ClimbOps
  BY <1>2, CallShape DEF TypeOK, ClimbCall
<1> HIDE DEF o, k
<1>4. CASE o = "prev"
  <2>1. call'.pc = "down" /\ leaf' = leaf
    BY <1>1, <1>4 DEF treeVars
  <2> QED
    BY <1>2, <2>1, Waits DEF Open
<1>5. CASE o = "erase_at"
  BY <1>1, <1>2, <1>5, ArriveSteps
<1>6. CASE o \in {"lower", "upper", "next"}
  <2>1. k \in Keys /\ Sought(o, k) = {} /\ call' = Return(o, k, {}, FALSE)
    BY <1>1, <1>6 DEF Arrive
  <2>2. {} = FirstOf(o, Sought(o, k))
    BY <2>1 DEF FirstOf
  <2>3. CASE o = "next"
    <3>1. k \in Elements
      BY <1>1, <2>3 DEF FromElement
    <3> QED
      BY <1>1, <1>2, <2>1, <2>2, <2>3, <3>1, NextAnswers
  <2>4. CASE o \in {"lower", "upper"}
    BY <1>1, <1>2, <2>1, <2>2, <2>4, BoundAnswers
  <2> QED
    BY <1>6, <2>3, <2>4
<1> QED
  BY <1>3, <1>4, <1>5, <1>6 DEF ClimbOps, BoundOps

\* A way down has come to the leaf that is searched for.
LEMMA ArriveAnswers ==
    ASSUME ShapeInv, SearchKnows, ArriveAtLeaf
    PROVE  Map!Next \/ UNCHANGED <<Content, Answered>>
<1> DEFINE o == call.op
           k == call.key
           c == call.cur.path
<1>1. /\ UNCHANGED treeVars /\ Arrive(o, k, {c})
      /\ o \in FromElement /\ k # NoPath => k \in Elements
      /\ \/ /\ o \in ClimbOps /\ k \in Keys
            /\ c \in Sought(o, k) /\ FirstOf(o, Sought(o, k)) = {c}
         \/ /\ c \in Elements /\ FirstOf(o, Elements) = {c}
            /\ \/ k = NoPath /\ o \in {"begin", "prev"}
               \/ k \in Keys /\ o = "prev" /\ Sought("prev", k) = {}
  BY Arrived
<1>2. TypeOK /\ call.pc = "down" /\ Open
  BY DEF ShapeInv, ArriveAtLeaf, Open
<1> HIDE DEF o, k, c
<1>3. CASE o = "erase_at"
  BY <1>1, <1>2, <1>3, ArriveSteps
<1>4. CASE o # "erase_at"
  <2>1. call' = Return(o, k, {c}, FALSE)
    BY <1>1, <1>4 DEF Arrive
  <2>2. CASE o \in {"lower", "upper"}
    <3>1. k \in Keys /\ {c} = FirstOf(o, Sought(o, k))
      BY <1>1, <2>2
    <3> QED
      BY <1>1, <1>2, <2>1, <2>2, <3>1, BoundAnswers
  <2>3. CASE o = "next"
    <3>1. k \in Keys /\ k \in Elements /\ {c} = FirstOf(o, Sought(o, k))
      BY <1>1, <2>3, NoPathIsNoKey DEF FromElement
    <3> QED
      BY <1>1, <1>2, <2>1, <2>3, <3>1, NextAnswers
  <2>4. CASE o = "prev" /\ k \in Keys
    <3>1. k \in Elements
      BY <1>1, <2>4, NoPathIsNoKey DEF FromElement
    <3>2. \/ Sought("prev", k) # {} /\ {c} = FirstOf("prev", Sought("prev", k))
          \/ Sought("prev", k) = {} /\ {c} = FirstOf("prev", Elements)
      BY <1>1, <2>4, NoPathIsNoKey
    <3> QED
      BY <1>1, <1>2, <2>1, <2>4, <3>1, <3>2, PrevAnswers
  <2>5. CASE k = NoPath /\ o \in {"begin", "prev"}
    <3>1. c \in Elements /\ FirstOf(o, Elements) = {c}
      BY <1>1, <2>5, NoPathIsNoKey
    <3>2. /\ Answered = Map!NoAnswer /\ Answered' # Map!NoAnswer
          /\ Map!Look(o, {}, {c})
      BY <1>1, <1>2, <2>1, <2>5, Looked DEF AskedOf
    <3>3. /\ Map!Stored = Elements
          /\ \A W : Map!Smallest(W) = FirstOf("next", W) /\ Map!Largest(W) = FirstOf("prev", W)
      BY <1>2, Readings DEF Open
    <3>4. CASE o = "begin"
      <4>1. {c} = Map!Smallest(Map!Stored)
        BY <3>1, <3>3, <3>4, Forward
      <4>2. Map!Begin
        BY <3>2, <3>4, <4>1 DEF Map!Begin
      <4> QED
        BY <3>2, <4>2, Operates DEF Map!Operation
    <3>5. CASE o = "prev"
      <4>1. {c} = Map!Largest(Map!Stored) /\ Map!Stored # {}
        BY <3>1, <3>3, <3>5
      <4>2. Map!PrevEnd
        BY <3>2, <3>5, <4>1 DEF Map!PrevEnd
      <4> QED
        BY <3>2, <4>2, Operates DEF Map!Operation
    <3> QED
      BY <2>5, <3>4, <3>5
  <2> QED
    BY <1>1, <1>4, <2>2, <2>3, <2>4, <2>5 DEF ClimbOps, BoundOps
<1> QED
  BY <1>3, <1>4

\* begin() of an empty tree is end().
LEMMA BeginAnswers ==
    ASSUME ShapeInv, Begin, root = Null
    PROVE  Map!Next
<1>1. /\ call.pc = "idle" /\ Open /\ UNCHANGED treeVars
      /\ call' = Return("begin", NoPath, {}, FALSE)
  BY DEF Begin, Idle, Open
<1>2. Elements = {}
  BY <1>1, WalkStands, RootlessIsEmpty DEF Idle
<1>3. /\ Answered = Map!NoAnswer /\ Answered' # Map!NoAnswer
      /\ Map!Look("begin", {}, {})
  BY <1>1, Looked DEF AskedOf
<1>4. {} = Map!Smallest(Map!Stored)
  BY <1>1, <1>2, Readings DEF FirstOf
<1>5. Map!Begin
  BY <1>3, <1>4 DEF Map!Begin
<1> QED
  BY <1>3, <1>5, Operates DEF Map!Operation

\* The client reads its answer.
LEMMA ResumeReads ==
    ASSUME TypeOK, Resume
    PROVE  Map!Next
<1>1. call.pc = "return" /\ call' = Idle /\ UNCHANGED treeVars
  BY DEF Resume
<1>2. call.op \in Ops
  BY <1>1, CallShape DEF TypeOK, ReturnCall
<1>3. call.op # "none"
  BY <1>2 DEF Ops, WalkOps, DownOps, ClimbOps, BoundOps, InsertOps
<1>4. Answered # Map!NoAnswer
  BY <1>1, <1>3 DEF Answered, Map!NoAnswer
<1>5. Open' /\ call'.pc # "clear"
  BY <1>1 DEF Open, Idle
<1>6. Content' = Content
  BY <1>1, <1>5, ContentIs, LooksOnly
<1>7. Map!Read
  BY <1>4, <1>5, <1>6, AnsweredIs DEF Map!Read
<1> QED
  BY <1>7 DEF Map!Next

-----------------------------------------------------------------------------

\* Every step of the tree is an operation of the map or none.
LEMMA NextMaps ==
    ASSUME ShapeInv, ShapeInv', SearchKnows, DummyTracksRoot, [Next]_vars
    PROVE  [Map!Next]_<<Content, Answered>>
<1>1. CASE Client
  <2>1. ASSUME NEW o \in WalkOps, NEW k \in Keys, NEW v, CallOnEmpty(o, k, v)
        PROVE  Map!Next \/ UNCHANGED <<Content, Answered>>
    <3>1. o \in InsertOps \/ o \in {"erase", "find", "lower", "upper"}
      BY DEF WalkOps, InsertOps, BoundOps
    <3> QED
      BY <2>1, <3>1, OpenSteps, EmptyAnswers
  <2>2. ASSUME NEW o, NEW k, NEW v, CallOnTree(o, k, v) \/ MoveIterator(o, k)
        PROVE  UNCHANGED <<Content, Answered>>
    BY <2>2, OpenSteps
  <2>3. CASE MoveEnd \/ Begin \/ CallClear
    BY <2>3, OpenSteps, BeginAnswers, ClearSteps
  <2> QED
    BY <1>1, <2>1, <2>2, <2>3 DEF Client
<1>2. CASE \/ LoadDown \/ PassPrefix \/ SplitStored \/ SplitLoaded \/ SplitLeaf
           \/ GrowNode \/ FillGap \/ BoundMisses \/ Climb \/ GoDown
  BY <1>2, OpenSteps
<1>3. CASE PrefixDiffers \/ FindEnds \/ BoundHits
  BY <1>3, DiffersAnswers, WalkAnswers
<1>4. CASE InsertDuplicate \/ LinkLeaf
  BY <1>4, DuplicatePuts, LinkSteps
<1>5. CASE EraseMisses
  <2>1. /\ call.pc = "walk" /\ Open /\ UNCHANGED treeVars
        /\ call.cur = Null \/ (call.cur \in DOMAIN leaf /\ ~ Matches)
        /\ call' = Return("erase", call.key, {}, FALSE)
    BY <1>5 DEF EraseMisses, AtLeaf, AtGap, Walking, Open
  <2>2. call.cur \notin DOMAIN inner
    BY <2>1, WalkStands, StandingFacts DEF Live
  <2>3. ~ Matches
    BY <2>1 DEF Matches, LeafOf, Null
  <2>4. call.key \in Keys /\ call.key \notin Elements
    BY <2>1, <2>2, <2>3, WalkDecides DEF SearchKnows
  <2> QED
    BY <2>1, <2>4, ErasesNothing
<1>6. CASE EraseRoot \/ EraseLeaf \/ UnlinkRoot \/ UnlinkLeaf
  BY <1>6, EraseTakes, UnlinkTakes
<1>7. CASE ShrinkToNode \/ ShrinkToLeaf \/ ShrinkNothing \/ Compress \/ CompressNothing
  BY <1>7, FixingSteps
<1>8. CASE ClimbPastTop \/ ArriveAtLeaf
  BY <1>8, PastTopSteps, ArriveAnswers
<1>9. CASE ClearChild \/ ClearNode \/ ClearEnds
  BY <1>9, ClearSteps
<1>10. CASE Resume
  BY <1>10, ResumeReads DEF ShapeInv
<1>11. CASE UNCHANGED vars
  BY <1>11 DEF vars, Content, Answered, Asked
<1> QED
  BY <1>1, <1>2, <1>3, <1>4, <1>5, <1>6, <1>7, <1>8, <1>9, <1>10, <1>11 DEF Next, Running

\* ArPrefixTree is an ordered map, for every key length, number of kept prefix
\* chunks, chunk size, set of keys and choice of capacities, as long as no
\* bound is asked for that a prefix hides: with HiddenBounds it is not one.
THEOREM Implements ==
    ASSUME HiddenBounds = FALSE
    PROVE  Spec => ImplementsMap
<1>1. Init => Map!Init
  <2>1. SUFFICES ASSUME Init  PROVE Map!Init
    OBVIOUS
  <2>2. call = Idle /\ leaf = [a \in {} |-> Null]
    BY <2>1 DEF Init
  <2>3. call.pc = "idle" /\ DOMAIN leaf = {}
    BY <2>2 DEF Idle
  <2>4. Elements = {}
    BY <2>3 DEF Elements
  <2>5. Content = [k \in {} |-> leaf[LeafOf(k)].value]
    BY <2>3, <2>4, ContentIs
  <2>6. Answered = Map!NoAnswer
    BY <2>3, AnsweredIs DEF Open
  <2> QED
    BY <2>5, <2>6 DEF Map!Init
<1>2. ShapeInv /\ ShapeInv' /\ SearchKnows /\ DummyTracksRoot /\ [Next]_vars
          => [Map!Next]_<<Content, Answered>>
  BY NextMaps
<1> QED
  BY <1>1, <1>2, ShapeHolds, SearchHolds, DummyFollows, PTL DEF Spec, ImplementsMap, Map!Spec
=============================================================================
