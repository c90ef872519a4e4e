----------------------------- MODULE TreeLemmas -----------------------------
(***************************************************************************)
(* Facts about the operators of ArNode, and what a well-formed tree is, as *)
(* a predicate of its two heaps and its root, and how each of the changes  *)
(* that the operations are made of keeps it: a leaf added or deleted, a    *)
(* one-way node put above a leaf or taken away, a node replaced by a copy  *)
(* with another layout, a slot rewritten.                                  *)
(*                                                                         *)
(* While a node is being replaced, its parent's slot still holds the old   *)
(* address x although the new node y has the right parent field.  So the   *)
(* predicates read the slots through a substitution of y for x; with Null  *)
(* for both of them the slots are read as they are.                        *)
(*                                                                         *)
(* The last part is about the order of the keys, chunk by chunk.           *)
(***************************************************************************)
EXTENDS ArNode, TLAPS, WellFoundedInduction, FiniteSetTheorems

-----------------------------------------------------------------------------
(* Sets of numbers.                                                        *)

\* A set of byte values that is not empty has a smallest and a largest one:
\* the search loops of minimum() and maximum() stop.
LEMMA MinOfBytes ==
    ASSUME NEW S \in SUBSET Nat, S # {}
    PROVE  /\ Min(S) \in S
           /\ \A x \in S : Min(S) =< x
<1> DEFINE Smaller == {p \in Nat \X Nat : p[1] < p[2]}
<1>1. IsWellFoundedOn(Smaller, Nat)
  BY NatLessThanWellFounded DEF OpToRel
<1>2. PICK m \in S : \A x \in S : ~ (<<x, m>> \in Smaller)
  BY <1>1, WFMin
<1>3. ASSUME NEW x \in S, x < m  PROVE FALSE
  <2>1. <<x, m>> \in Nat \X Nat /\ <<x, m>>[1] < <<x, m>>[2]
    BY <1>3
  <2> QED
    BY <1>2, <2>1
<1>4. \A x \in S : m =< x
  BY <1>3
<1> QED
  BY <1>4 DEF Min

LEMMA MaxOfBytes ==
    ASSUME NEW n \in Nat, NEW S \in SUBSET (0..n), S # {}
    PROVE  /\ Max(S) \in S
           /\ \A x \in S : x =< Max(S)
<1> DEFINE Mirror == {m \in Nat : n - m \in S}
<1>1. Mirror \in SUBSET Nat /\ Mirror # {}
  <2>1. PICK x \in S : TRUE
    OBVIOUS
  <2>2. x \in 0..n /\ n - x \in Nat /\ n - (n - x) = x
    OBVIOUS
  <2> QED
    BY <2>1, <2>2
<1>2. PICK m \in Mirror : \A x \in Mirror : m =< x
  BY <1>1, MinOfBytes
<1>3. \A x \in S : x =< n - m /\ n - m \in S
  <2> SUFFICES ASSUME NEW x \in S  PROVE x =< n - m
    BY <1>2
  <2>1. x \in 0..n /\ n - x \in Mirror
    <3>1. x \in 0..n /\ n - x \in Nat /\ n - (n - x) = x
      OBVIOUS
    <3> QED
      BY <3>1
  <2>2. m \in Nat /\ m =< n - x
    BY <1>2, <2>1
  <2> HIDE DEF Mirror
  <2> QED
    BY <2>1, <2>2
<1> QED
  BY <1>3 DEF Max

-----------------------------------------------------------------------------
(* Pointers.                                                               *)

\* Pointers of different kinds differ, and those made from keys are well formed.
LEMMA PointerKinds ==
    /\ InnerAddr \subseteq Ptr /\ LeafAddr \subseteq Ptr
    /\ Null \in Ptr /\ Dummy \in Ptr /\ EndLeaf \in Ptr
    /\ Null \notin InnerAddr \cup LeafAddr /\ Dummy \notin InnerAddr \cup LeafAddr
    /\ Null # Dummy
    /\ InnerAddr \cap LeafAddr = {}
BY DEF Ptr, InnerAddr, LeafAddr, Null, Dummy, EndLeaf, InnerTypes

LEMMA LeafOfType == ASSUME NEW k \in Keys  PROVE LeafOf(k) \in LeafAddr
BY DEF LeafOf, LeafAddr

LEMMA LeafPath == ASSUME NEW a \in LeafAddr  PROVE a.path \in Keys /\ a = LeafOf(a.path)
BY DEF LeafOf, LeafAddr

LEMMA KeyChunk == ASSUME NEW k \in Keys, NEW d \in Chunks  PROVE k[d] \in Byte
BY KeysAssumption

LEMMA NodeAtType ==
    ASSUME NEW t \in InnerTypes, NEW k \in Keys, NEW d \in Chunks
    PROVE  NodeAt(t, k, d) \in InnerAddr
<1>1. Prefix(k, d) \in [0..(d - 1) -> Byte]
  BY KeysAssumption, KeyLenAssumption DEF Prefix, Chunks
<1> QED
  BY <1>1 DEF NodeAt, InnerAddr, Paths

\* A node that changes its layout stays an inner node.
LEMMA RetypedNode ==
    ASSUME NEW a \in InnerAddr, NEW t \in InnerTypes
    PROVE  [a EXCEPT !.type = t] \in InnerAddr
BY DEF InnerAddr

LEMMA LayoutTypes ==
    ASSUME NEW t
    PROVE  Grown(t) \in InnerTypes /\ Shrunk(t) \in InnerTypes
BY DEF Grown, Shrunk, InnerTypes

LEMMA SizeTypes ==
    ASSUME NEW t
    PROVE  MaxSize(t) \in Nat /\ MinSize(t) \in Nat
BY SizesAssumption DEF MaxSize, MinSize, Cap256

-----------------------------------------------------------------------------
(* Nodes.                                                                  *)

LEMMA NodeChanges ==
    ASSUME NEW n \in InnerNode, NEW b, NEW c \in Ptr
    PROVE  /\ InsertChild(n, b, c) \in InnerNode
           /\ EraseChild(n, b) \in InnerNode
           /\ UpdateChild(n, b, c) \in InnerNode
<1>1. n.child \in [Byte -> Ptr] /\ n.count \in Int /\ Null \in Ptr
  BY PointerKinds DEF InnerNode
<1>2. [n.child EXCEPT ![b] = c] \in [Byte -> Ptr]
  BY <1>1
<1>3. [n.child EXCEPT ![b] = Null] \in [Byte -> Ptr]
  BY <1>1
<1>4. InsertChild(n, b, c) = [n EXCEPT !.child = [n.child EXCEPT ![b] = c], !.count = n.count + 1]
  BY DEF InsertChild, InnerNode
<1>5. EraseChild(n, b) = [n EXCEPT !.child = [n.child EXCEPT ![b] = Null], !.count = n.count - 1]
  BY DEF EraseChild, InnerNode
<1>6. UpdateChild(n, b, c) \in {n, [n EXCEPT !.child = [n.child EXCEPT ![b] = c]]}
  BY DEF UpdateChild, InnerNode
<1>7. ASSUME NEW f \in [Byte -> Ptr], NEW m \in Int
      PROVE  [n EXCEPT !.child = f, !.count = m] \in InnerNode
  BY DEF InnerNode
<1>8. ASSUME NEW f \in [Byte -> Ptr]  PROVE [n EXCEPT !.child = f] \in InnerNode
  BY DEF InnerNode
<1>9. n.count + 1 \in Int /\ n.count - 1 \in Int
  BY <1>1
<1>10. InsertChild(n, b, c) \in InnerNode
  BY <1>2, <1>4, <1>7, <1>9
<1>11. EraseChild(n, b) \in InnerNode
  BY <1>3, <1>5, <1>7, <1>9
<1> QED
  BY <1>2, <1>6, <1>8, <1>10, <1>11

LEMMA OneWayType ==
    ASSUME NEW p \in Ptr, NEW d \in Chunks, NEW b, NEW c \in Ptr
    PROVE  OneWay(p, d, b, c) \in InnerNode
<1>1. NoChildren \in [Byte -> Ptr]
  BY PointerKinds DEF NoChildren
<1>2. [NoChildren EXCEPT ![b] = c] \in [Byte -> Ptr]
  BY <1>1
<1> QED
  BY <1>2 DEF OneWay, InnerNode

LEMMA ChildTypes ==
    ASSUME NEW n \in InnerNode
    PROVE  /\ Occupied(n) \in SUBSET Byte
           /\ \A b \in Byte : n.child[b] \in Ptr
           /\ Children(n) \subseteq Ptr
BY DEF Occupied, Children, InnerNode

\* minimum() and maximum() of a node find a child in it.
LEMMA ExtremeChildren ==
    ASSUME NEW n \in InnerNode, NEW S \in SUBSET Occupied(n), S # {}
    PROVE  /\ Min(S) \in S /\ n.child[Min(S)] \in Ptr
           /\ Max(S) \in S /\ n.child[Max(S)] \in Ptr
<1>1. S \in SUBSET (0..MaxByte) /\ S \in SUBSET Nat /\ MaxByte \in Nat
  BY ChildTypes, SizesAssumption DEF Byte
<1>2. Min(S) \in S /\ Max(S) \in S
  BY <1>1, MinOfBytes, MaxOfBytes
<1> QED
  BY <1>2, ChildTypes

-----------------------------------------------------------------------------
(* Heaps.                                                                  *)

LEMMA AllocateHeap ==
    ASSUME NEW A, NEW N, NEW h, IsHeap(h, A, N), NEW a \in A, NEW n \in N
    PROVE  /\ IsHeap(Allocate(h, a, n), A, N)
           /\ DOMAIN Allocate(h, a, n) = DOMAIN h \cup {a}
BY DEF IsHeap, Allocate

LEMMA FreeHeap ==
    ASSUME NEW A, NEW N, NEW h, IsHeap(h, A, N), NEW a
    PROVE  /\ IsHeap(Free(h, a), A, N)
           /\ DOMAIN Free(h, a) = DOMAIN h \ {a}
BY DEF IsHeap, Free

LEMMA WriteHeap ==
    ASSUME NEW A, NEW N, NEW h, IsHeap(h, A, N), NEW a, NEW n, a \in DOMAIN h => n \in N
    PROVE  /\ IsHeap([h EXCEPT ![a] = n], A, N)
           /\ DOMAIN [h EXCEPT ![a] = n] = DOMAIN h
BY DEF IsHeap

LEMMA AdoptInner ==
    ASSUME NEW h, IsHeap(h, InnerAddr, InnerNode), NEW S, NEW p \in Ptr
    PROVE  /\ IsHeap(Adopt(h, S, p), InnerAddr, InnerNode)
           /\ DOMAIN Adopt(h, S, p) = DOMAIN h
BY DEF IsHeap, Adopt, InnerNode

LEMMA AdoptLeaf ==
    ASSUME NEW h, IsHeap(h, LeafAddr, LeafNode), NEW S, NEW p \in Ptr
    PROVE  /\ IsHeap(Adopt(h, S, p), LeafAddr, LeafNode)
           /\ DOMAIN Adopt(h, S, p) = DOMAIN h
BY DEF IsHeap, Adopt, LeafNode

-----------------------------------------------------------------------------
(* Trees with one slot read through a substitution.                        *)

Subst(c, x, y) == IF c = x THEN y ELSE c

\* The chunks before position d are the same.
Agree(p, q, d) == \A i \in 0..(d - 1) : p[i] = q[i]

Nodes(in, lf) == DOMAIN in \cup DOMAIN lf

Par(in, lf, c) == IF c \in DOMAIN lf THEN lf[c].parent ELSE in[c].parent

\* Node c is what slot b of node a should hold.
Belongs(in, lf, a, b, c) ==
    /\ c \in Nodes(in, lf)
    /\ Par(in, lf, c) = a
    /\ Agree(c.path, a.path, in[a].depth)
    /\ c.path[in[a].depth] = b
    /\ c \in DOMAIN in => in[c].depth = in[a].depth + 1

\* Node c is in the slot of its parent that its chunks name.
Hangs(in, lf, x, y, c) ==
    LET p == Par(in, lf, c)
        b == c.path[in[p].depth]
    IN  /\ p \in DOMAIN in
        /\ b \in Byte
        /\ in[p].child[b] # Null
        /\ Subst(in[p].child[b], x, y) = c

\* The address of a node holds the chunks that lead to it.
Depths(in) == \A a \in DOMAIN in : a.path \in [0..(in[a].depth - 1) -> Byte]

Slots(in, lf, x, y) ==
    \A a \in DOMAIN in : \A b \in Byte :
        in[a].child[b] # Null => Belongs(in, lf, a, b, Subst(in[a].child[b], x, y))

Places(in, lf, r, x, y) ==
    \A c \in Nodes(in, lf) : c = r \/ Hangs(in, lf, x, y, c)

RootFits(in, lf, r) ==
    r # Null => /\ r \in Nodes(in, lf)
                /\ Par(in, lf, r) = Dummy
                /\ r \in DOMAIN in => in[r].depth = 0

Tree(in, lf, r, x, y) ==
    /\ Depths(in)
    /\ Slots(in, lf, x, y)
    /\ Places(in, lf, r, x, y)
    /\ RootFits(in, lf, r)

\* The count of a node is that of its children, and its layout is the one for
\* that many, a node 4 with a single inner node below it excepted.
Counted(in) == \A a \in DOMAIN in : in[a].count = Cardinality(Occupied(in[a]))

Fits(in, x, y, a) ==
    \/ in[a].count \in MinSize(a.type)..MaxSize(a.type)
    \/ /\ a.type = "node_4" /\ in[a].count = 1
       /\ \A b \in Byte :
              in[a].child[b] # Null => Subst(in[a].child[b], x, y) \in DOMAIN in

\* One child short, or a node 4 with a single child.
Nearly(in, a)   == in[a].count \in (MinSize(a.type) - 1)..MaxSize(a.type)
OneWayed(in, a) == a.type = "node_4" /\ in[a].count = 1

-----------------------------------------------------------------------------
(* Nodes and slots.                                                        *)

Heaps(in, lf) == IsHeap(in, InnerAddr, InnerNode) /\ IsHeap(lf, LeafAddr, LeafNode)

\* Addresses of inner nodes, leaves and null pointers are told apart, and the
\* fields of a live node are in their domains.
LEMMA HeapFacts ==
    ASSUME NEW in, NEW lf, Heaps(in, lf)
    PROVE  /\ DOMAIN in \cap DOMAIN lf = {}
           /\ Null \notin Nodes(in, lf) /\ Dummy \notin Nodes(in, lf)
           /\ DOMAIN in \subseteq InnerAddr /\ DOMAIN lf \subseteq LeafAddr
           /\ \A a \in DOMAIN in : /\ in[a] \in InnerNode
                                   /\ in[a].depth \in Chunks /\ in[a].depth \in Nat
                                   /\ in[a].count \in Int
                                   /\ in[a].child \in [Byte -> Ptr]
           /\ \A l \in DOMAIN lf : lf[l] \in LeafNode /\ l.path \in Keys /\ l = LeafOf(l.path)
<1>1. DOMAIN in \subseteq InnerAddr /\ DOMAIN lf \subseteq LeafAddr
  BY DEF Heaps, IsHeap
<1>2. \A a \in DOMAIN in : in[a] \in InnerNode
  BY DEF Heaps, IsHeap
<1>3. \A l \in DOMAIN lf : lf[l] \in LeafNode /\ l.path \in Keys /\ l = LeafOf(l.path)
  BY <1>1, LeafPath DEF Heaps, IsHeap
<1>4. Chunks \subseteq Nat
  BY DEF Chunks
<1>5. \A a \in DOMAIN in : /\ in[a].depth \in Chunks /\ in[a].depth \in Nat
                           /\ in[a].count \in Int
                           /\ in[a].child \in [Byte -> Ptr]
  BY <1>2, <1>4 DEF InnerNode
<1> QED
  BY <1>1, <1>2, <1>3, <1>5, PointerKinds DEF Nodes

\* With nothing to substitute a slot is read as it is.
LEMMA PlainSubst == \A c : Subst(c, Null, Null) = c
BY DEF Subst

\* Fewer chunks agree.
LEMMA AgreeLess ==
    ASSUME NEW p, NEW q, NEW d \in Int, NEW e \in Int, Agree(p, q, d), e =< d
    PROVE  Agree(p, q, e)
BY DEF Agree

\* Agreement on the first chunks is transitive.
LEMMA AgreeTrans ==
    ASSUME NEW p, NEW q, NEW s, NEW d, Agree(p, q, d), Agree(q, s, d)
    PROVE  Agree(p, s, d)
BY DEF Agree

\* One more chunk agrees.
LEMMA AgreeMore ==
    ASSUME NEW p, NEW q, NEW d \in Nat, Agree(p, q, d), p[d] = q[d]
    PROVE  Agree(p, q, d + 1)
<1> SUFFICES ASSUME NEW i \in 0..((d + 1) - 1)  PROVE p[i] = q[i]
  BY DEF Agree
<1>1. i \in 0..(d - 1) \/ i = d
  OBVIOUS
<1> QED
  BY <1>1 DEF Agree

-----------------------------------------------------------------------------
(* update_child_ptr.                                                       *)

\* update_child_ptr writes one occupied slot and nothing else.
LEMMA UpdateSlots ==
    ASSUME NEW n \in InnerNode, NEW b, NEW c
    PROVE  /\ UpdateChild(n, b, c).depth = n.depth /\ UpdateChild(n, b, c).parent = n.parent
           /\ UpdateChild(n, b, c).count = n.count
           /\ \A e \in Byte : UpdateChild(n, b, c).child[e] =
                                  IF e = b /\ n.child[b] # Null THEN c ELSE n.child[e]
BY DEF UpdateChild, InnerNode

\* When the slot that held the old address is written, it reads as it is.
LEMMA Relinked ==
    ASSUME NEW in, NEW lf, NEW r, NEW x, NEW y, Heaps(in, lf), Tree(in, lf, r, x, y),
           y \in Nodes(in, lf), NEW p \in DOMAIN in, Par(in, lf, y) = p
    PROVE  Tree([in EXCEPT ![p] = UpdateChild(in[p], y.path[in[p].depth], y)], lf, r, Null, Null)
<1> DEFINE d   == in[p].depth
           in2 == [in EXCEPT ![p] = UpdateChild(in[p], y.path[d], y)]
<1>1. /\ DOMAIN in2 = DOMAIN in
      /\ \A a \in DOMAIN in : in2[a].depth = in[a].depth /\ in2[a].parent = in[a].parent
  BY HeapFacts DEF UpdateChild, InnerNode
<1>2. \A a \in DOMAIN in : \A b \in Byte :
          in2[a].child[b] = IF a = p /\ b = y.path[d] /\ in[p].child[b] # Null
                            THEN y ELSE in[a].child[b]
  BY HeapFacts DEF UpdateChild, InnerNode
<1> HIDE DEF in2
<1>3. \A c \in Nodes(in, lf) : Par(in2, lf, c) = Par(in, lf, c)
  BY <1>1 DEF Par, Nodes
<1>4. Nodes(in2, lf) = Nodes(in, lf)
  BY <1>1 DEF Nodes
<1>5. Hangs(in, lf, x, y, y)
  <2>1. y = r => Par(in, lf, r) = Dummy
    BY HeapFacts DEF Tree, RootFits
  <2>2. p # Dummy
    BY HeapFacts DEF Nodes
  <2> QED
    BY <2>1, <2>2 DEF Tree, Places
<1>6. y # Null
  BY HeapFacts
<1>7. Depths(in2)
  BY <1>1 DEF Tree, Depths
<1>8. Slots(in2, lf, Null, Null)
  <2> SUFFICES ASSUME NEW a \in DOMAIN in, NEW b \in Byte, in2[a].child[b] # Null
               PROVE  Belongs(in2, lf, a, b, in2[a].child[b])
    BY <1>1, PlainSubst DEF Slots
  <2>1. ASSUME NEW c, Belongs(in, lf, a, b, c)  PROVE Belongs(in2, lf, a, b, c)
    BY <1>1, <1>3, <1>4, <2>1 DEF Belongs
  <2>2. CASE a = p /\ b = y.path[d]
    <3>1. in[p].child[b] # Null /\ Subst(in[p].child[b], x, y) = y
      BY <1>5, <2>2 DEF Hangs
    <3>2. in2[a].child[b] = y
      BY <1>2, <2>2, <3>1
    <3>3. Belongs(in, lf, a, b, y)
      BY <2>2, <3>1 DEF Tree, Slots
    <3> QED
      BY <2>1, <3>2, <3>3
  <2>3. CASE ~ (a = p /\ b = y.path[d])
    <3>1. in2[a].child[b] = in[a].child[b] /\ in[a].child[b] # Null
      BY <1>2, <2>3
    <3>2. Belongs(in, lf, a, b, Subst(in[a].child[b], x, y))
      BY <3>1 DEF Tree, Slots
    <3>3. Subst(in[a].child[b], x, y) # y
      BY <2>3, <3>2 DEF Belongs
    <3>4. Subst(in[a].child[b], x, y) = in[a].child[b]
      BY <3>3 DEF Subst
    <3> QED
      BY <2>1, <3>1, <3>2, <3>4
  <2> QED
    BY <2>2, <2>3
<1>9. Places(in2, lf, r, Null, Null)
  <2> SUFFICES ASSUME NEW c \in Nodes(in, lf), c # r
               PROVE  Hangs(in2, lf, Null, Null, c)
    BY <1>4 DEF Places
  <2> DEFINE q == Par(in, lf, c)
             b == c.path[in[q].depth]
  <2>1. /\ q \in DOMAIN in /\ b \in Byte /\ in[q].child[b] # Null
        /\ Subst(in[q].child[b], x, y) = c
    BY DEF Tree, Places, Hangs
  <2>2. in2[q].child[b] = c /\ c # Null
    <3>1. CASE c = y
      BY <1>2, <1>6, <2>1, <3>1
    <3>2. CASE c # y
      <4>1. in[q].child[b] = c
        BY <2>1, <3>2 DEF Subst
      <4>2. ~ (q = p /\ b = y.path[d])
        BY <1>5, <2>1, <3>2 DEF Hangs
      <4> QED
        BY <1>2, <2>1, <4>1, <4>2
    <3> QED
      BY <3>1, <3>2
  <2> QED
    BY <1>1, <1>3, <2>1, <2>2, PlainSubst DEF Hangs
<1>10. RootFits(in2, lf, r)
  BY <1>1, <1>3, <1>4 DEF Tree, RootFits
<1>11. Tree(in2, lf, r, Null, Null)
  BY <1>7, <1>8, <1>9, <1>10 DEF Tree
<1> QED
  BY <1>11 DEF in2

\* A root that replaces another is in place as soon as the root is written.
LEMMA RootRelinked ==
    ASSUME NEW in, NEW lf, NEW r, NEW x, NEW y, Heaps(in, lf), Tree(in, lf, r, x, y),
           y \in Nodes(in, lf), Par(in, lf, y) = Dummy
    PROVE  y = r /\ Tree(in, lf, r, Null, Null)
<1>1. Dummy \notin DOMAIN in /\ y # Null
  BY HeapFacts DEF Nodes
<1>2. y = r
  BY <1>1 DEF Tree, Places, Hangs
<1>3. \A a \in DOMAIN in : \A b \in Byte :
          in[a].child[b] # Null => Subst(in[a].child[b], x, y) = in[a].child[b]
  BY <1>1 DEF Tree, Slots, Belongs, Subst
<1>4. Slots(in, lf, Null, Null)
  BY <1>3, PlainSubst DEF Tree, Slots
<1>5. Places(in, lf, r, Null, Null)
  BY <1>3, PlainSubst DEF Tree, Places, Hangs
<1> QED
  BY <1>2, <1>4, <1>5 DEF Tree

\* No slot holds the address of a deleted node, so it may as well be read as
\* something else.
LEMMA Reread ==
    ASSUME NEW in, NEW lf, NEW r, NEW x, NEW y, Tree(in, lf, r, Null, Null),
           x \notin Nodes(in, lf)
    PROVE  Tree(in, lf, r, x, y)
<1>1. \A a \in DOMAIN in : \A b \in Byte :
          in[a].child[b] # Null => Subst(in[a].child[b], x, y) = in[a].child[b]
  BY PlainSubst DEF Tree, Slots, Belongs, Subst
<1>2. Slots(in, lf, x, y)
  BY <1>1, PlainSubst DEF Tree, Slots
<1>3. Places(in, lf, r, x, y)
  BY <1>1, PlainSubst DEF Tree, Places, Hangs
<1> QED
  BY <1>2, <1>3 DEF Tree

\* Slots in use are read alike whatever null is read as.
LEMMA NullRead ==
    ASSUME NEW in, NEW lf, NEW r, NEW y
    PROVE  /\ Tree(in, lf, r, Null, y) <=> Tree(in, lf, r, Null, Null)
           /\ \A a : Fits(in, Null, y, a) <=> Fits(in, Null, Null, a)
<1>1. \A c : c # Null => Subst(c, Null, y) = c /\ Subst(c, Null, Null) = c
  BY DEF Subst
<1>2. Slots(in, lf, Null, y) <=> Slots(in, lf, Null, Null)
  BY <1>1 DEF Slots
<1>3. \A c : Hangs(in, lf, Null, y, c) <=> Hangs(in, lf, Null, Null, c)
  BY <1>1 DEF Hangs
<1>4. Places(in, lf, r, Null, y) <=> Places(in, lf, r, Null, Null)
  BY <1>3 DEF Places
<1>5. \A a : Fits(in, Null, y, a) <=> Fits(in, Null, Null, a)
  BY <1>1 DEF Fits
<1>6. Tree(in, lf, r, Null, y) <=> Tree(in, lf, r, Null, Null)
  BY <1>2, <1>4 DEF Tree
<1> QED
  BY <1>5, <1>6

-----------------------------------------------------------------------------
(* Leaves.                                                                 *)

\* n->insert(byte, leaf) into an empty slot to which the key leads.
LEMMA LeafAdded ==
    ASSUME NEW in, NEW lf, NEW r, Heaps(in, lf), Tree(in, lf, r, Null, Null),
           NEW n \in DOMAIN in, NEW k \in Keys, LeafOf(k) \notin DOMAIN lf,
           Agree(n.path, k, in[n].depth), in[n].child[k[in[n].depth]] = Null, NEW v
    PROVE  Tree([in EXCEPT ![n] = InsertChild(in[n], k[in[n].depth], LeafOf(k))],
                Allocate(lf, LeafOf(k), [parent |-> n, value |-> v]), r, Null, Null)
<1> DEFINE l   == LeafOf(k)
           d   == in[n].depth
           in2 == [in EXCEPT ![n] = InsertChild(in[n], k[d], l)]
           lf2 == Allocate(lf, l, [parent |-> n, value |-> v])
<1>0. l \in LeafAddr /\ l.path = k /\ l # Null /\ l \notin DOMAIN in
      /\ d \in Chunks /\ k[d] \in Byte
  BY LeafOfType, HeapFacts, PointerKinds, KeyChunk DEF LeafOf
<1>1. /\ DOMAIN in2 = DOMAIN in
      /\ \A a \in DOMAIN in : in2[a].depth = in[a].depth /\ in2[a].parent = in[a].parent
  BY HeapFacts DEF InsertChild, InnerNode
<1>2. \A a \in DOMAIN in : \A b \in Byte :
          in2[a].child[b] = IF a = n /\ b = k[d] THEN l ELSE in[a].child[b]
  BY HeapFacts DEF InsertChild, InnerNode
<1>3. DOMAIN lf2 = DOMAIN lf \cup {l} /\ lf2[l].parent = n
      /\ \A a \in DOMAIN lf : lf2[a] = lf[a]
  BY DEF Allocate
<1>4. Agree(k, n.path, d)
  BY DEF Agree
<1> HIDE DEF in2, lf2, l
<1>5. Nodes(in2, lf2) = Nodes(in, lf) \cup {l} /\ l \notin Nodes(in, lf)
  BY <1>0, <1>1, <1>3 DEF Nodes, l
<1>6. /\ \A c \in Nodes(in, lf) : Par(in2, lf2, c) = Par(in, lf, c)
      /\ Par(in2, lf2, l) = n
  BY <1>1, <1>3, <1>5 DEF Par, Nodes
<1>7. Depths(in2)
  BY <1>1 DEF Tree, Depths
<1>8. Slots(in2, lf2, Null, Null)
  <2> SUFFICES ASSUME NEW a \in DOMAIN in, NEW b \in Byte, in2[a].child[b] # Null
               PROVE  Belongs(in2, lf2, a, b, in2[a].child[b])
    BY <1>1, PlainSubst DEF Slots
  <2>1. CASE a = n /\ b = k[d]
    BY <1>0, <1>1, <1>2, <1>4, <1>5, <1>6, <2>1 DEF Belongs
  <2>2. CASE ~ (a = n /\ b = k[d])
    <3>1. in2[a].child[b] = in[a].child[b]
      BY <1>2, <2>2
    <3>2. Belongs(in, lf, a, b, in[a].child[b])
      BY <3>1, PlainSubst DEF Tree, Slots
    <3> QED
      BY <1>1, <1>5, <1>6, <3>1, <3>2 DEF Belongs
  <2> QED
    BY <2>1, <2>2
<1>9. Places(in2, lf2, r, Null, Null)
  <2> SUFFICES ASSUME NEW c \in Nodes(in2, lf2), c # r
               PROVE  Hangs(in2, lf2, Null, Null, c)
    BY DEF Places
  <2>1. CASE c = l
    BY <1>0, <1>1, <1>2, <1>6, <2>1, PlainSubst DEF Hangs
  <2>2. CASE c # l
    <3>1. c \in Nodes(in, lf) /\ Hangs(in, lf, Null, Null, c)
      BY <1>5, <2>2 DEF Tree, Places
    <3> QED
      BY <1>1, <1>2, <1>6, <3>1, PlainSubst DEF Hangs
  <2> QED
    BY <2>1, <2>2
<1>10. RootFits(in2, lf2, r)
  BY <1>1, <1>5, <1>6 DEF Tree, RootFits
<1>11. Tree(in2, lf2, r, Null, Null)
  BY <1>7, <1>8, <1>9, <1>10 DEF Tree
<1> QED
  BY <1>11 DEF in2, lf2, l

\* The first leaf of an empty tree is its root.
LEMMA RootLeafAdded ==
    ASSUME NEW in, NEW lf, Heaps(in, lf), Tree(in, lf, Null, Null, Null),
           NEW k \in Keys, LeafOf(k) \notin DOMAIN lf, NEW v
    PROVE  Tree(in, Allocate(lf, LeafOf(k), [parent |-> Dummy, value |-> v]), LeafOf(k),
                Null, Null)
<1> DEFINE l   == LeafOf(k)
           lf2 == Allocate(lf, l, [parent |-> Dummy, value |-> v])
<1>0. l \in LeafAddr /\ l \notin DOMAIN in
  BY LeafOfType, HeapFacts, PointerKinds DEF LeafOf
<1>1. DOMAIN lf2 = DOMAIN lf \cup {l} /\ lf2[l].parent = Dummy
      /\ \A a \in DOMAIN lf : lf2[a] = lf[a]
  BY DEF Allocate
<1> HIDE DEF lf2, l
<1>2. Nodes(in, lf2) = Nodes(in, lf) \cup {l} /\ l \notin Nodes(in, lf)
  BY <1>0, <1>1 DEF Nodes, l
<1>3. /\ \A c \in Nodes(in, lf) : Par(in, lf2, c) = Par(in, lf, c)
      /\ Par(in, lf2, l) = Dummy
  BY <1>1, <1>2 DEF Par, Nodes
<1>4. Slots(in, lf2, Null, Null)
  BY <1>2, <1>3 DEF Tree, Slots, Belongs
<1>5. Places(in, lf2, l, Null, Null)
  <2> SUFFICES ASSUME NEW c \in Nodes(in, lf)  PROVE Hangs(in, lf2, Null, Null, c)
    BY <1>2 DEF Places
  <2>1. c # Null /\ Hangs(in, lf, Null, Null, c)
    BY HeapFacts DEF Tree, Places
  <2> QED
    BY <1>3, <2>1 DEF Hangs
<1>6. RootFits(in, lf2, l)
  BY <1>0, <1>2, <1>3 DEF RootFits
<1>7. Tree(in, lf2, l, Null, Null)
  BY <1>4, <1>5, <1>6 DEF Tree
<1> QED
  BY <1>7 DEF lf2, l

\* n->erase(byte) of a slot that holds a leaf.
LEMMA LeafDropped ==
    ASSUME NEW in, NEW lf, NEW r, Heaps(in, lf), Tree(in, lf, r, Null, Null),
           NEW n \in DOMAIN in, NEW b0 \in Byte, in[n].child[b0] \in DOMAIN lf
    PROVE  Tree([in EXCEPT ![n] = EraseChild(in[n], b0)], Free(lf, in[n].child[b0]), r,
                Null, Null)
<1> DEFINE l   == in[n].child[b0]
           in2 == [in EXCEPT ![n] = EraseChild(in[n], b0)]
           lf2 == Free(lf, l)
<1>1. /\ DOMAIN in2 = DOMAIN in
      /\ \A a \in DOMAIN in : in2[a].depth = in[a].depth /\ in2[a].parent = in[a].parent
  BY HeapFacts DEF EraseChild, InnerNode
<1>2. \A a \in DOMAIN in : \A b \in Byte :
          in2[a].child[b] = IF a = n /\ b = b0 THEN Null ELSE in[a].child[b]
  BY HeapFacts DEF EraseChild, InnerNode
<1>3. DOMAIN lf2 = DOMAIN lf \ {l} /\ \A a \in DOMAIN lf2 : lf2[a] = lf[a]
  BY DEF Free
<1>4. l # Null /\ l \notin DOMAIN in /\ Belongs(in, lf, n, b0, l)
  BY HeapFacts, PlainSubst DEF Tree, Slots, Nodes
<1>5. l # r
  BY <1>4, HeapFacts DEF Tree, RootFits, Belongs, Nodes
<1> HIDE DEF in2, lf2, l
<1>6. Nodes(in2, lf2) = Nodes(in, lf) \ {l}
  BY <1>1, <1>3, <1>4 DEF Nodes
<1>7. \A c \in Nodes(in2, lf2) : Par(in2, lf2, c) = Par(in, lf, c)
  BY <1>1, <1>3, <1>6 DEF Par, Nodes
<1>8. Depths(in2)
  BY <1>1 DEF Tree, Depths
<1>9. Slots(in2, lf2, Null, Null)
  <2> SUFFICES ASSUME NEW a \in DOMAIN in, NEW b \in Byte, in2[a].child[b] # Null
               PROVE  Belongs(in2, lf2, a, b, in2[a].child[b])
    BY <1>1, PlainSubst DEF Slots
  <2>1. ~ (a = n /\ b = b0) /\ in2[a].child[b] = in[a].child[b]
    BY <1>2
  <2>2. Belongs(in, lf, a, b, in[a].child[b])
    BY <2>1, PlainSubst DEF Tree, Slots
  <2>3. in[a].child[b] # l
    BY <1>4, <2>1, <2>2 DEF Belongs
  <2> QED
    BY <1>1, <1>6, <1>7, <2>1, <2>2, <2>3 DEF Belongs
<1>10. Places(in2, lf2, r, Null, Null)
  <2> SUFFICES ASSUME NEW c \in Nodes(in, lf), c # l, c # r
               PROVE  Hangs(in2, lf2, Null, Null, c)
    BY <1>6 DEF Places
  <2>1. Hangs(in, lf, Null, Null, c)
    BY DEF Tree, Places
  <2>2. in[n].child[b0] # c
    BY DEF l
  <2> QED
    BY <1>1, <1>2, <1>6, <1>7, <2>1, <2>2, PlainSubst DEF Hangs
<1>11. RootFits(in2, lf2, r)
  BY <1>1, <1>5, <1>6, <1>7 DEF Tree, RootFits
<1>12. Tree(in2, lf2, r, Null, Null)
  BY <1>8, <1>9, <1>10, <1>11 DEF Tree
<1> QED
  BY <1>12 DEF in2, lf2, l

\* The last leaf goes.
LEMMA RootDropped ==
    ASSUME NEW in, NEW lf, NEW r, Heaps(in, lf), Tree(in, lf, r, Null, Null), r \in DOMAIN lf
    PROVE  Tree(in, Free(lf, r), Null, Null, Null)
<1> DEFINE lf2 == Free(lf, r)
<1>1. DOMAIN lf2 = DOMAIN lf \ {r} /\ \A a \in DOMAIN lf2 : lf2[a] = lf[a]
  BY DEF Free
<1>2. r # Null /\ r \notin DOMAIN in /\ Dummy \notin DOMAIN in
  BY HeapFacts DEF Nodes
<1>3. Par(in, lf, r) = Dummy
  BY <1>2 DEF Tree, RootFits
<1> HIDE DEF lf2
<1>4. Nodes(in, lf2) = Nodes(in, lf) \ {r}
  BY <1>1, <1>2 DEF Nodes
<1>5. \A c \in Nodes(in, lf2) : Par(in, lf2, c) = Par(in, lf, c)
  BY <1>1, <1>4 DEF Par, Nodes
<1>6. Slots(in, lf2, Null, Null)
  BY <1>2, <1>3, <1>4, <1>5 DEF Tree, Slots, Belongs
<1>7. Places(in, lf2, Null, Null, Null)
  BY <1>4, <1>5 DEF Tree, Places, Hangs
<1>8. Tree(in, lf2, Null, Null, Null)
  BY <1>6, <1>7 DEF Tree, RootFits
<1> QED
  BY <1>8 DEF lf2

-----------------------------------------------------------------------------
(* Nodes replaced, added and taken away.                                   *)

\* grow() and shrink(): a copy with another layout adopts the children; the
\* slot of the parent still holds the old address.
LEMMA Retyped ==
    ASSUME NEW in, NEW lf, NEW r, Heaps(in, lf), Tree(in, lf, r, Null, Null),
           NEW old \in DOMAIN in, NEW t \in InnerTypes,
           [old EXCEPT !.type = t] \notin DOMAIN in,
           NEW made \in InnerNode, made.parent = in[old].parent,
           made.depth = in[old].depth, made.child = in[old].child
    PROVE  LET new  == [old EXCEPT !.type = t]
               kids == Children(in[old])
           IN  Tree(Adopt(Free(Allocate(in, new, made), old), kids, new), Adopt(lf, kids, new),
                    IF r = old THEN new ELSE r, old, new)
<1> DEFINE new  == [old EXCEPT !.type = t]
           kids == Children(in[old])
           in2  == Adopt(Free(Allocate(in, new, made), old), kids, new)
           lf2  == Adopt(lf, kids, new)
           r2   == IF r = old THEN new ELSE r
<1>0. /\ new \in InnerAddr /\ new.path = old.path /\ new # Null /\ new # old
      /\ new \notin DOMAIN lf /\ old # Null /\ old \notin DOMAIN lf
  BY HeapFacts, RetypedNode, PointerKinds DEF InnerAddr
<1>1. /\ DOMAIN in2 = (DOMAIN in \cup {new}) \ {old}
      /\ \A a \in DOMAIN in2 : a # new =>
            /\ in2[a].depth = in[a].depth /\ in2[a].child = in[a].child
            /\ in2[a].parent = IF a \in kids THEN new ELSE in[a].parent
  BY HeapFacts DEF Adopt, Free, Allocate, InnerNode
<1>2. \A c \in kids : Belongs(in, lf, old, c.path[in[old].depth], c)
  BY PlainSubst DEF Children, Occupied, Tree, Slots, Belongs
<1>3. \A c \in Nodes(in, lf) : Par(in, lf, c) = old =>
          c \in kids /\ in[old].child[c.path[in[old].depth]] = c
                     /\ c.path[in[old].depth] \in Byte
  <2> SUFFICES ASSUME NEW c \in Nodes(in, lf), Par(in, lf, c) = old
               PROVE  /\ c \in kids /\ in[old].child[c.path[in[old].depth]] = c
                      /\ c.path[in[old].depth] \in Byte
    OBVIOUS
  <2>1. c # r
    BY HeapFacts DEF Tree, RootFits, Nodes
  <2>2. Hangs(in, lf, Null, Null, c)
    BY <2>1 DEF Tree, Places
  <2> QED
    BY <2>2, PlainSubst DEF Hangs, Children, Occupied
<1>4. new \notin kids /\ old \notin kids
  BY <1>0, <1>2, HeapFacts DEF Belongs, Nodes
<1>5. /\ in2[new].depth = in[old].depth /\ in2[new].child = in[old].child
      /\ in2[new].parent = in[old].parent
  BY <1>0, <1>4, HeapFacts DEF Adopt, Free, Allocate, InnerNode
<1>6. /\ DOMAIN lf2 = DOMAIN lf
      /\ \A a \in DOMAIN lf : lf2[a].parent = IF a \in kids THEN new ELSE lf[a].parent
  BY HeapFacts DEF Adopt, LeafNode
<1> HIDE DEF in2, lf2, new, kids
<1>7. Nodes(in2, lf2) = (Nodes(in, lf) \ {old}) \cup {new} /\ new \notin Nodes(in, lf)
  BY <1>0, <1>1, <1>6 DEF Nodes, new
<1>8. /\ \A c \in Nodes(in, lf) \ {old} :
             Par(in2, lf2, c) = IF c \in kids THEN new ELSE Par(in, lf, c)
      /\ Par(in2, lf2, new) = Par(in, lf, old)
  BY <1>0, <1>1, <1>5, <1>6, <1>7 DEF Par, Nodes
<1>9. Depths(in2)
  BY <1>0, <1>1, <1>5 DEF Tree, Depths
<1>10. \A a \in DOMAIN in2 : a = new \/ (a \in DOMAIN in /\ a # old)
  BY <1>1
<1>11. ASSUME NEW a \in DOMAIN in, NEW b \in Byte, in[a].child[b] # Null
       PROVE  Belongs(in, lf, a, b, in[a].child[b])
  BY <1>11, PlainSubst DEF Tree, Slots
<1>12. Slots(in2, lf2, old, new)
  <2>1. ASSUME NEW a \in DOMAIN in2, a # new, NEW b \in Byte, in2[a].child[b] # Null
        PROVE  Belongs(in2, lf2, a, b, Subst(in2[a].child[b], old, new))
    <3>1. a \in DOMAIN in /\ a # old /\ in2[a].depth = in[a].depth
          /\ in2[a].child[b] = in[a].child[b]
      BY <1>1, <2>1
    <3>2. Belongs(in, lf, a, b, in[a].child[b])
      BY <1>11, <2>1, <3>1
    <3>3. CASE in[a].child[b] = old
      <4>1. Subst(in2[a].child[b], old, new) = new
        BY <3>1, <3>3 DEF Subst
      <4>2. Par(in2, lf2, new) = a /\ new \in Nodes(in2, lf2)
        BY <1>7, <1>8, <3>2, <3>3 DEF Belongs
      <4>3. /\ Agree(new.path, a.path, in2[a].depth) /\ new.path[in2[a].depth] = b
            /\ in2[new].depth = in2[a].depth + 1
        BY <1>0, <1>5, <3>1, <3>2, <3>3 DEF Belongs
      <4> QED
        BY <4>1, <4>2, <4>3 DEF Belongs
    <3>4. CASE in[a].child[b] # old
      <4> DEFINE c == in[a].child[b]
      <4>1. Subst(in2[a].child[b], old, new) = c
        BY <3>1, <3>4 DEF Subst
      <4>2. c \notin kids /\ c # new
        BY <1>2, <1>7, <3>1, <3>2 DEF Belongs
      <4>3. Par(in2, lf2, c) = a /\ c \in Nodes(in2, lf2)
        BY <1>7, <1>8, <3>2, <3>4, <4>2 DEF Belongs
      <4>4. c \in DOMAIN in2 => c \in DOMAIN in /\ in2[c].depth = in[c].depth
        BY <1>1, <4>2
      <4> QED
        BY <3>1, <3>2, <4>1, <4>3, <4>4 DEF Belongs
    <3> QED
      BY <3>3, <3>4
  <2>2. ASSUME NEW b \in Byte, in2[new].child[b] # Null
        PROVE  Belongs(in2, lf2, new, b, Subst(in2[new].child[b], old, new))
    <3> DEFINE c == in[old].child[b]
    <3>1. in2[new].child[b] = c /\ c # Null /\ c \in kids
      BY <1>5, <2>2 DEF kids, Children, Occupied
    <3>2. Belongs(in, lf, old, b, c)
      BY <1>11, <3>1
    <3>3. c # old /\ c # new
      BY <1>4, <3>1
    <3>4. Subst(in2[new].child[b], old, new) = c
      BY <3>1, <3>3 DEF Subst
    <3>5. Par(in2, lf2, c) = new /\ c \in Nodes(in2, lf2)
      BY <1>7, <1>8, <3>1, <3>2, <3>3 DEF Belongs
    <3>6. c \in DOMAIN in2 => c \in DOMAIN in /\ in2[c].depth = in[c].depth
      BY <1>1, <3>3
    <3>7. Agree(c.path, new.path, in2[new].depth) /\ c.path[in2[new].depth] = b
      BY <1>0, <1>5, <3>2 DEF Belongs
    <3>8. c \in DOMAIN in2 => in2[c].depth = in2[new].depth + 1
      BY <1>5, <3>2, <3>6 DEF Belongs
    <3> QED
      BY <3>4, <3>5, <3>7, <3>8 DEF Belongs
  <2> QED
    BY <1>10, <2>1, <2>2 DEF Slots
<1>13. Places(in2, lf2, r2, old, new)
  <2>1. new = r2 \/ Hangs(in2, lf2, old, new, new)
    <3>1. CASE old = r
      BY <3>1
    <3>2. CASE old # r
      <4> DEFINE p == Par(in, lf, old)
                 b == old.path[in[p].depth]
      <4>1. p \in DOMAIN in /\ b \in Byte /\ in[p].child[b] = old
        BY <3>2, PlainSubst DEF Tree, Places, Hangs, Nodes
      <4>2. p # old
        BY <1>3, <1>4 DEF Nodes
      <4>3. p # new
        BY <1>7, <4>1 DEF Nodes
      <4>4. p \in DOMAIN in2 /\ in2[p].child[b] = old /\ in2[p].depth = in[p].depth
        BY <1>1, <4>1, <4>2, <4>3
      <4>5. Subst(old, old, new) = new
        BY DEF Subst
      <4> QED
        BY <1>0, <1>8, <4>1, <4>4, <4>5 DEF Hangs
    <3> QED
      BY <3>1, <3>2
  <2>2. ASSUME NEW c \in Nodes(in, lf), c # old  PROVE c = r2 \/ Hangs(in2, lf2, old, new, c)
    <3>1. CASE c = r
      BY <2>2, <3>1
    <3>2. CASE c # r
      <4> DEFINE p == Par(in, lf, c)
                 b == c.path[in[p].depth]
      <4>1. p \in DOMAIN in /\ b \in Byte /\ in[p].child[b] = c /\ c # Null
        BY <3>2, PlainSubst DEF Tree, Places, Hangs
      <4>2. Subst(c, old, new) = c
        BY <2>2 DEF Subst
      <4>3. CASE p = old
        <5>1. Par(in2, lf2, c) = new
          BY <1>3, <1>8, <2>2, <4>3
        <5>2. new \in DOMAIN in2 /\ in2[new].child[b] = c /\ in2[new].depth = in[p].depth
          BY <1>0, <1>1, <1>5, <4>1, <4>3
        <5> QED
          BY <4>1, <4>2, <5>1, <5>2 DEF Hangs
      <4>4. CASE p # old
        <5>1. Par(in2, lf2, c) = p
          BY <1>2, <1>8, <2>2, <4>4 DEF Belongs
        <5>2. p # new
          BY <1>7, <4>1 DEF Nodes
        <5>3. p \in DOMAIN in2 /\ in2[p].child[b] = c /\ in2[p].depth = in[p].depth
          BY <1>1, <4>1, <4>4, <5>2
        <5> QED
          BY <4>1, <4>2, <5>1, <5>3 DEF Hangs
      <4> QED
        BY <4>3, <4>4
    <3> QED
      BY <3>1, <3>2
  <2> HIDE DEF r2
  <2> QED
    BY <1>7, <2>1, <2>2 DEF Places
<1>14. RootFits(in2, lf2, r2)
  <2>1. CASE r = old
    <3>1. Par(in, lf, old) = Dummy /\ in[old].depth = 0
      BY <1>0, <2>1 DEF Tree, RootFits
    <3> QED
      BY <1>5, <1>7, <1>8, <2>1, <3>1 DEF RootFits
  <2>2. CASE r # old /\ r # Null
    <3>1. /\ r \in Nodes(in, lf) /\ Par(in, lf, r) = Dummy
          /\ r \in DOMAIN in => in[r].depth = 0
      BY <2>2 DEF Tree, RootFits
    <3>2. r \notin kids /\ r # new
      BY <1>2, <1>7, <3>1, HeapFacts DEF Belongs, Nodes
    <3>3. Par(in2, lf2, r) = Dummy /\ r \in Nodes(in2, lf2)
      BY <1>7, <1>8, <2>2, <3>1, <3>2
    <3>4. r \in DOMAIN in2 => in2[r].depth = 0
      BY <1>1, <3>1, <3>2
    <3> QED
      BY <2>2, <3>3, <3>4 DEF RootFits
  <2>3. CASE r = Null
    BY <1>0, <2>3 DEF RootFits
  <2> QED
    BY <2>1, <2>2, <2>3
<1>15. Tree(in2, lf2, r2, old, new)
  BY <1>9, <1>12, <1>13, <1>14 DEF Tree
<1> QED
  BY <1>15 DEF in2, lf2, new, kids

\* A leaf at depth d below its parent, where no node is yet.
RoomAbove(in, lf, r, old, p, d) ==
    /\ Heaps(in, lf) /\ Tree(in, lf, r, Null, Null)
    /\ old \in DOMAIN lf /\ p = lf[old].parent /\ d \in Chunks
    /\ NodeAt("node_4", old.path, d) \notin DOMAIN in
    /\ \/ p = Dummy /\ d = 0
       \/ p \in DOMAIN in /\ d = in[p].depth + 1

\* SplitLeaf and ExtendTie: a node with the leaf as its only child takes the
\* place of the leaf.
LEMMA OneWayPut ==
    ASSUME NEW in, NEW lf, NEW r, NEW old, NEW p, NEW d, RoomAbove(in, lf, r, old, p, d)
    PROVE  LET node == NodeAt("node_4", old.path, d)
               more == Allocate(in, node, OneWay(p, d, old.path[d], old))
           IN  Tree(IF p = Dummy THEN more
                    ELSE [more EXCEPT ![p] = UpdateChild(more[p], old.path[more[p].depth], node)],
                    [lf EXCEPT ![old].parent = node],
                    IF p = Dummy THEN node ELSE r, Null, Null)
<1> USE DEF RoomAbove
<1> DEFINE node == NodeAt("node_4", old.path, d)
           made == OneWay(p, d, old.path[d], old)
           more == Allocate(in, node, made)
           e    == in[p].depth
           in2  == IF p = Dummy THEN more
                   ELSE [more EXCEPT ![p] = UpdateChild(more[p], old.path[more[p].depth], node)]
           lf2  == [lf EXCEPT ![old].parent = node]
           r2   == IF p = Dummy THEN node ELSE r
<1>0. /\ old.path \in Keys /\ old.path[d] \in Byte /\ old # Null /\ old \notin DOMAIN in
      /\ d \in Nat /\ Dummy \notin DOMAIN in
  BY HeapFacts, KeyChunk DEF Nodes, Chunks
<1>a. node \in InnerAddr /\ node # Null /\ node # Dummy /\ node \notin DOMAIN lf
  BY <1>0, HeapFacts, NodeAtType, PointerKinds DEF InnerTypes
<1>b. /\ node.path = [i \in 0..(d - 1) |-> old.path[i]]
      /\ node.path \in [0..(d - 1) -> Byte]
  <2>1. node.path = [i \in 0..(d - 1) |-> old.path[i]]
    BY DEF NodeAt, Prefix
  <2>2. ASSUME NEW i \in 0..(d - 1)  PROVE old.path[i] \in Byte
    <3>1. i \in Chunks
      BY KeyLenAssumption DEF Chunks
    <3> QED
      BY <1>0, <3>1, KeyChunk
  <2> QED
    BY <2>1, <2>2
<1>c. Agree(old.path, node.path, d) /\ Agree(node.path, old.path, d)
  BY <1>b DEF Agree
<1>d. /\ made.parent = p /\ made.depth = d
      /\ made.child = [NoChildren EXCEPT ![old.path[d]] = old]
  BY DEF OneWay
<1>e. \A b \in Byte : made.child[b] = IF b = old.path[d] THEN old ELSE Null
  BY <1>d DEF NoChildren
<1>f. /\ DOMAIN more = DOMAIN in \cup {node} /\ more[node] = made
      /\ \A a \in DOMAIN in : more[a] = in[a]
  BY DEF Allocate
<1> HIDE DEF node, made, more
<1>1. /\ DOMAIN in2 = DOMAIN in \cup {node}
      /\ in2[node] = made
      /\ \A a \in DOMAIN in : in2[a].depth = in[a].depth /\ in2[a].parent = in[a].parent
  <2>1. CASE p = Dummy
    BY <1>f, <2>1
  <2>2. CASE p # Dummy
    <3>1. p \in DOMAIN in /\ p # node /\ in[p] \in InnerNode /\ more[p] = in[p]
      BY <1>f, <2>2, HeapFacts DEF node
    <3>2. in2 = [more EXCEPT ![p] = UpdateChild(more[p], old.path[more[p].depth], node)]
      BY <2>2
    <3>3. DOMAIN in2 = DOMAIN in \cup {node} /\ in2[node] = made
      BY <1>f, <3>1, <3>2
    <3>4. /\ UpdateChild(in[p], old.path[in[p].depth], node).depth = in[p].depth
          /\ UpdateChild(in[p], old.path[in[p].depth], node).parent = in[p].parent
      BY <3>1 DEF UpdateChild, InnerNode
    <3>5. \A a \in DOMAIN in : in2[a].depth = in[a].depth /\ in2[a].parent = in[a].parent
      BY <1>f, <3>1, <3>2, <3>4
    <3> QED
      BY <3>3, <3>5
  <2> QED
    BY <2>1, <2>2
<1>2. \A a \in DOMAIN in : \A b \in Byte :
          in2[a].child[b] = IF a = p /\ b = old.path[e] /\ in[p].child[b] # Null
                            THEN node ELSE in[a].child[b]
  <2>1. CASE p = Dummy
    BY <1>0, <1>f, <2>1
  <2>2. CASE p # Dummy
    BY <1>f, <2>2, HeapFacts DEF UpdateChild, InnerNode
  <2> QED
    BY <2>1, <2>2
<1>3. /\ DOMAIN lf2 = DOMAIN lf /\ lf2[old].parent = node
      /\ \A a \in DOMAIN lf : a # old => lf2[a] = lf[a]
  BY HeapFacts DEF LeafNode
<1> HIDE DEF in2, lf2
<1>4. Nodes(in2, lf2) = Nodes(in, lf) \cup {node} /\ node \notin Nodes(in, lf)
  BY <1>1, <1>3, <1>a DEF Nodes, node
<1>5. /\ \A c \in Nodes(in, lf) : Par(in2, lf2, c) = IF c = old THEN node ELSE Par(in, lf, c)
      /\ Par(in2, lf2, node) = p /\ Par(in, lf, old) = p
  BY <1>1, <1>3, <1>4, <1>a, <1>d DEF Par, Nodes
<1>6. p # Dummy =>
          /\ p \in DOMAIN in /\ d = e + 1 /\ e \in Nat /\ p # node
          /\ old.path[e] \in Byte /\ in[p].child[old.path[e]] = old
          /\ Agree(old.path, p.path, e)
  <2> SUFFICES ASSUME p # Dummy
               PROVE  /\ p \in DOMAIN in /\ d = e + 1 /\ e \in Nat /\ p # node
                      /\ old.path[e] \in Byte /\ in[p].child[old.path[e]] = old
                      /\ Agree(old.path, p.path, e)
    OBVIOUS
  <2>1. p \in DOMAIN in /\ d = e + 1 /\ e \in Nat
    BY HeapFacts
  <2>2. old # r
    BY <1>0, <1>5 DEF Tree, RootFits
  <2>3. Hangs(in, lf, Null, Null, old)
    BY <2>2 DEF Tree, Places, Nodes
  <2>4. old.path[e] \in Byte /\ in[p].child[old.path[e]] = old
    BY <1>5, <2>3, PlainSubst DEF Hangs
  <2>5. Belongs(in, lf, p, old.path[e], old)
    BY <1>0, <2>1, <2>4, PlainSubst DEF Tree, Slots
  <2> QED
    BY <1>4, <2>1, <2>4, <2>5 DEF Belongs, Nodes
<1>7. Depths(in2)
  BY <1>1, <1>b, <1>d DEF Tree, Depths
<1>8. Slots(in2, lf2, Null, Null)
  <2>1. ASSUME NEW b \in Byte, in2[node].child[b] # Null
        PROVE  Belongs(in2, lf2, node, b, in2[node].child[b])
    <3>1. b = old.path[d] /\ in2[node].child[b] = old
      BY <1>1, <1>e, <2>1
    <3>2. old \in Nodes(in2, lf2) /\ Par(in2, lf2, old) = node /\ old \notin DOMAIN in2
      BY <1>0, <1>1, <1>4, <1>5, <1>a DEF Nodes
    <3> QED
      BY <1>1, <1>c, <1>d, <3>1, <3>2 DEF Belongs
  <2>2. ASSUME NEW a \in DOMAIN in, NEW b \in Byte, in2[a].child[b] # Null
        PROVE  Belongs(in2, lf2, a, b, in2[a].child[b])
    <3>1. CASE a = p /\ b = old.path[e]
      <4>1. in2[a].child[b] = node
        BY <1>0, <1>2, <1>6, <3>1
      <4>2. Agree(node.path, p.path, e)
        <5>1. Agree(node.path, old.path, e)
          BY <1>0, <1>6, <1>c, <3>1, AgreeLess
        <5> QED
          BY <1>0, <1>6, <3>1, <5>1, AgreeTrans
      <4>3. node.path[e] = b
        BY <1>0, <1>6, <1>b, <3>1
      <4>4. in2[node].depth = e + 1 /\ in2[a].depth = e
        BY <1>0, <1>1, <1>6, <1>d, <3>1
      <4> QED
        BY <1>4, <1>5, <3>1, <4>1, <4>2, <4>3, <4>4 DEF Belongs
    <3>2. CASE ~ (a = p /\ b = old.path[e])
      <4>1. in2[a].child[b] = in[a].child[b]
        BY <1>2, <3>2
      <4>2. Belongs(in, lf, a, b, in[a].child[b])
        BY <2>2, <4>1, PlainSubst DEF Tree, Slots
      <4>3. in[a].child[b] # old
        BY <1>5, <3>2, <4>2 DEF Belongs
      <4>4. in[a].child[b] # node
        BY <1>4, <4>2 DEF Belongs
      <4> QED
        BY <1>1, <1>4, <1>5, <4>1, <4>2, <4>3, <4>4 DEF Belongs
    <3> QED
      BY <3>1, <3>2
  <2> QED
    BY <1>1, <2>1, <2>2, PlainSubst DEF Slots
<1>9. Places(in2, lf2, r2, Null, Null)
  <2>1. node = r2 \/ Hangs(in2, lf2, Null, Null, node)
    <3>1. CASE p # Dummy
      <4>1. in2[p].child[old.path[e]] = node /\ in2[p].depth = e /\ p \in DOMAIN in2
        BY <1>0, <1>1, <1>2, <1>6, <3>1
      <4>2. node.path[e] = old.path[e]
        BY <1>6, <1>b, <3>1
      <4> QED
        BY <1>5, <1>6, <1>a, <3>1, <4>1, <4>2, PlainSubst DEF Hangs
    <3> QED
      BY <3>1
  <2>2. Hangs(in2, lf2, Null, Null, old)
    <3>1. Par(in2, lf2, old) = node /\ node \in DOMAIN in2 /\ in2[node].depth = d
          /\ in2[node].child[old.path[d]] = old
      BY <1>0, <1>1, <1>5, <1>d, <1>e DEF Nodes
    <3> QED
      BY <1>0, <3>1, PlainSubst DEF Hangs
  <2>3. ASSUME NEW c \in Nodes(in, lf), c # old, c # r2  PROVE Hangs(in2, lf2, Null, Null, c)
    <3>1. c # r
      <4>1. CASE p = Dummy
        <5>1. old = r
          BY <1>0, <1>5, <4>1 DEF Tree, Places, Hangs, Nodes
        <5> QED
          BY <2>3, <5>1
      <4>2. CASE p # Dummy
        BY <2>3, <4>2
      <4> QED
        BY <4>1, <4>2
    <3> DEFINE q == Par(in, lf, c)
               b == c.path[in[q].depth]
    <3>2. q \in DOMAIN in /\ b \in Byte /\ in[q].child[b] = c /\ c # Null
      BY <3>1, PlainSubst DEF Tree, Places, Hangs
    <3>3. ~ (q = p /\ b = old.path[e])
      <4>1. p = Dummy => q # p
        BY <1>0, <3>2
      <4> QED
        BY <1>6, <2>3, <3>2, <4>1
    <3>4. in2[q].child[b] = c /\ in2[q].depth = in[q].depth /\ q \in DOMAIN in2
      BY <1>1, <1>2, <3>2, <3>3
    <3>5. Par(in2, lf2, c) = q
      BY <1>5, <2>3
    <3> QED
      BY <3>2, <3>4, <3>5, PlainSubst DEF Hangs
  <2> HIDE DEF r2
  <2> QED
    BY <1>4, <2>1, <2>2, <2>3 DEF Places
<1>10. RootFits(in2, lf2, r2)
  <2>1. CASE p = Dummy
    BY <1>0, <1>1, <1>4, <1>5, <1>d, <2>1 DEF RootFits
  <2>2. CASE p # Dummy /\ r # Null
    <3>1. /\ r \in Nodes(in, lf) /\ Par(in, lf, r) = Dummy
          /\ r \in DOMAIN in => in[r].depth = 0
      BY <2>2 DEF Tree, RootFits
    <3>2. r # old /\ r # node
      BY <1>4, <1>5, <2>2, <3>1
    <3> QED
      BY <1>1, <1>4, <1>5, <2>2, <3>1, <3>2 DEF RootFits
  <2>3. CASE p # Dummy /\ r = Null
    BY <2>3 DEF RootFits
  <2> QED
    BY <2>1, <2>2, <2>3
<1>11. Tree(in2, lf2, r2, Null, Null)
  BY <1>7, <1>8, <1>9, <1>10 DEF Tree
<1> QED
  BY <1>11 DEF in2, lf2, more, made, node

\* The leaf kid is all there is below p.
OnlyLeaf(in, lf, r, x, y, kid, p) ==
    /\ Heaps(in, lf) /\ Tree(in, lf, r, x, y) /\ x \notin Nodes(in, lf)
    /\ kid \in DOMAIN lf /\ p \in DOMAIN in /\ lf[kid].parent = p
    /\ x = Null \/ y = kid
    /\ \A b \in Byte : in[p].child[b] # Null => Subst(in[p].child[b], x, y) = kid

Raised(lf, kid, g) == [lf EXCEPT ![kid].parent = g]

\* ShrinkToLeaf and the compression: the only leaf of a node takes the place
\* of the node, whose address is left in the slot of its parent.
LEMMA OneWayGone ==
    ASSUME NEW in, NEW lf, NEW r, NEW x, NEW y, NEW kid, NEW p, OnlyLeaf(in, lf, r, x, y, kid, p)
    PROVE  Tree(Free(in, p), Raised(lf, kid, in[p].parent),
                IF in[p].parent = Dummy THEN kid ELSE r, p, kid)
<1>h. /\ Heaps(in, lf) /\ Tree(in, lf, r, x, y) /\ x \notin Nodes(in, lf)
      /\ kid \in DOMAIN lf /\ p \in DOMAIN in /\ lf[kid].parent = p
      /\ x = Null \/ y = kid
      /\ \A b \in Byte : in[p].child[b] # Null => Subst(in[p].child[b], x, y) = kid
  BY DEF OnlyLeaf
<1> DEFINE g   == in[p].parent
           in2 == Free(in, p)
           lf2 == [lf EXCEPT ![kid].parent = g]
           r2  == IF g = Dummy THEN kid ELSE r
<1>0. /\ kid \notin DOMAIN in /\ p \notin DOMAIN lf /\ p # kid /\ x # p
      /\ Dummy \notin Nodes(in, lf) /\ p # Null /\ kid # Null /\ p # Dummy
  BY <1>h, HeapFacts DEF Nodes
<1>1. DOMAIN in2 = DOMAIN in \ {p} /\ \A a \in DOMAIN in2 : in2[a] = in[a]
  BY <1>h DEF Free
<1>2. /\ DOMAIN lf2 = DOMAIN lf /\ lf2[kid].parent = g
      /\ \A a \in DOMAIN lf : a # kid => lf2[a] = lf[a]
  BY <1>h, HeapFacts DEF LeafNode
<1> HIDE DEF in2, lf2
<1>3. Nodes(in2, lf2) = Nodes(in, lf) \ {p}
  BY <1>h, <1>0, <1>1, <1>2 DEF Nodes
<1>4. /\ \A c \in Nodes(in2, lf2) : Par(in2, lf2, c) = IF c = kid THEN g ELSE Par(in, lf, c)
      /\ Par(in, lf, kid) = p /\ Par(in, lf, p) = g
      /\ kid \in Nodes(in, lf) /\ p \in Nodes(in, lf)
  BY <1>h, <1>0, <1>1, <1>2, <1>3 DEF Par, Nodes
<1>5. kid # r
  BY <1>h, <1>0, <1>4 DEF Tree, RootFits
<1>6. Agree(kid.path, p.path, in[p].depth)
  <2>1. Hangs(in, lf, x, y, kid)
    BY <1>h, <1>4, <1>5 DEF Tree, Places
  <2> QED
    BY <1>h, <1>4, <2>1 DEF Hangs, Tree, Slots, Belongs
\* A slot outside p that is in use holds a live node.
<1>7. ASSUME NEW a \in DOMAIN in, a # p, NEW b \in Byte, in[a].child[b] # Null
      PROVE  /\ Subst(in[a].child[b], x, y) = in[a].child[b]
             /\ Belongs(in, lf, a, b, in[a].child[b])
             /\ in[a].child[b] # kid
  <2>1. Belongs(in, lf, a, b, Subst(in[a].child[b], x, y))
    BY <1>h, <1>7 DEF Tree, Slots
  <2>2. Subst(in[a].child[b], x, y) # kid
    BY <1>h, <1>4, <1>7, <2>1 DEF Belongs
  <2>3. Subst(in[a].child[b], x, y) = in[a].child[b]
    BY <1>h, <1>7, <2>2 DEF Subst
  <2> QED
    BY <1>h, <2>1, <2>2, <2>3
\* Where p hangs.
<1>8. p = r \/ /\ g \in DOMAIN in /\ g # p /\ p.path[in[g].depth] \in Byte
               /\ in[g].child[p.path[in[g].depth]] = p
               /\ in[p].depth = in[g].depth + 1
  <2> SUFFICES ASSUME p # r
               PROVE  /\ g \in DOMAIN in /\ g # p /\ p.path[in[g].depth] \in Byte
                      /\ in[g].child[p.path[in[g].depth]] = p
                      /\ in[p].depth = in[g].depth + 1
    OBVIOUS
  <2> DEFINE b == p.path[in[g].depth]
  <2>1. /\ g \in DOMAIN in /\ b \in Byte /\ in[g].child[b] # Null
        /\ Subst(in[g].child[b], x, y) = p
    BY <1>h, <1>4 DEF Tree, Places, Hangs
  <2>2. in[p].depth = in[g].depth + 1
    BY <1>h, <2>1 DEF Tree, Slots, Belongs
  <2>3. g # p
    BY <1>h, <2>2, HeapFacts
  <2>4. in[g].child[b] = p
    BY <1>h, <1>7, <2>1, <2>3
  <2> QED
    BY <1>h, <2>1, <2>2, <2>3, <2>4
<1>9. r = p <=> g = Dummy
  BY <1>h, <1>0, <1>4, <1>8 DEF Tree, RootFits, Nodes
<1>10. Depths(in2)
  BY <1>h, <1>1 DEF Tree, Depths
<1>11. Slots(in2, lf2, p, kid)
  <2> SUFFICES ASSUME NEW a \in DOMAIN in2, NEW b \in Byte, in2[a].child[b] # Null
               PROVE  Belongs(in2, lf2, a, b, Subst(in2[a].child[b], p, kid))
    BY <1>h DEF Slots
  <2> DEFINE c == in[a].child[b]
  <2>1. a \in DOMAIN in /\ a # p /\ in2[a] = in[a] /\ c # Null
    BY <1>h, <1>1
  <2>2. Belongs(in, lf, a, b, c) /\ c # kid
    BY <1>h, <1>7, <2>1
  <2>3. CASE c = p
    <3>1. /\ g = a /\ Agree(p.path, a.path, in[a].depth) /\ p.path[in[a].depth] = b
          /\ in[p].depth = in[a].depth + 1 /\ in[a].depth \in Nat
      BY <1>h, <1>4, <2>1, <2>2, <2>3, HeapFacts DEF Belongs
    <3>2. Agree(kid.path, p.path, in[a].depth) /\ kid.path[in[a].depth] = p.path[in[a].depth]
      <4>1. in[a].depth \in 0..(in[p].depth - 1)
        BY <1>h, <3>1
      <4> QED
        BY <1>h, <1>6, <3>1, <4>1, AgreeLess DEF Agree
    <3>3. Agree(kid.path, a.path, in[a].depth)
      BY <1>h, <3>1, <3>2, AgreeTrans
    <3>4. Subst(in2[a].child[b], p, kid) = kid
      BY <1>h, <2>1, <2>3 DEF Subst
    <3>5. kid \in Nodes(in2, lf2) /\ Par(in2, lf2, kid) = a /\ kid \notin DOMAIN in2
      BY <1>h, <1>0, <1>1, <1>3, <1>4, <3>1
    <3> QED
      BY <1>h, <2>1, <3>1, <3>2, <3>3, <3>4, <3>5 DEF Belongs
  <2>4. CASE c # p
    <3>1. Subst(in2[a].child[b], p, kid) = c
      BY <1>h, <2>1, <2>4 DEF Subst
    <3>2. c \in Nodes(in2, lf2) /\ Par(in2, lf2, c) = a
      BY <1>h, <1>3, <1>4, <2>2, <2>4 DEF Belongs
    <3>3. c \in DOMAIN in2 => c \in DOMAIN in /\ in2[c] = in[c]
      BY <1>h, <1>1
    <3> QED
      BY <1>h, <2>1, <2>2, <3>1, <3>2, <3>3 DEF Belongs
  <2> QED
    BY <1>h, <2>3, <2>4
<1>12. Places(in2, lf2, r2, p, kid)
  <2>1. kid = r2 \/ Hangs(in2, lf2, p, kid, kid)
    <3>1. CASE g = Dummy
      BY <1>h, <3>1
    <3>2. CASE g # Dummy
      <4>1. /\ g \in DOMAIN in2 /\ in2[g] = in[g] /\ p.path[in[g].depth] \in Byte
            /\ in[g].child[p.path[in[g].depth]] = p
            /\ in[p].depth = in[g].depth + 1 /\ in[g].depth \in Nat
        BY <1>h, <1>1, <1>8, <1>9, <3>2, HeapFacts
      <4>2. kid.path[in[g].depth] = p.path[in[g].depth]
        <5>1. in[g].depth \in 0..(in[p].depth - 1)
          BY <1>h, <4>1
        <5> QED
          BY <1>h, <1>6, <5>1 DEF Agree
      <4>3. Par(in2, lf2, kid) = g
        BY <1>h, <1>0, <1>3, <1>4
      <4>4. Subst(p, p, kid) = kid
        BY <1>h DEF Subst
      <4> QED
        BY <1>h, <1>0, <4>1, <4>2, <4>3, <4>4 DEF Hangs
    <3> QED
      BY <1>h, <3>1, <3>2
  <2>2. ASSUME NEW c \in Nodes(in, lf), c # p, c # kid, c # r2  PROVE Hangs(in2, lf2, p, kid, c)
    <3>1. c # r
      BY <1>h, <1>9, <2>2
    <3> DEFINE q == Par(in, lf, c)
               b == c.path[in[q].depth]
    <3>2. /\ q \in DOMAIN in /\ b \in Byte /\ in[q].child[b] # Null
          /\ Subst(in[q].child[b], x, y) = c
      BY <1>h, <2>2, <3>1 DEF Tree, Places, Hangs
    <3>3. q # p
      BY <1>h, <2>2, <3>2
    <3>4. in[q].child[b] = c
      BY <1>h, <1>7, <3>2, <3>3
    <3>5. q \in DOMAIN in2 /\ in2[q] = in[q] /\ Par(in2, lf2, c) = q
      BY <1>h, <1>1, <1>3, <1>4, <2>2, <3>2, <3>3
    <3>6. Subst(c, p, kid) = c
      BY <1>h, <2>2 DEF Subst
    <3> QED
      BY <1>h, <3>2, <3>4, <3>5, <3>6 DEF Hangs
  <2> HIDE DEF r2
  <2> QED
    BY <1>h, <1>3, <2>1, <2>2 DEF Places
<1>13. RootFits(in2, lf2, r2)
  <2>1. CASE g = Dummy
    BY <1>h, <1>0, <1>1, <1>3, <1>4, <2>1 DEF RootFits
  <2>2. CASE g # Dummy /\ r # Null
    <3>1. /\ r \in Nodes(in, lf) /\ Par(in, lf, r) = Dummy
          /\ r \in DOMAIN in => in[r].depth = 0
      BY <1>h, <2>2 DEF Tree, RootFits
    <3> QED
      BY <1>h, <1>1, <1>3, <1>4, <1>5, <1>9, <2>2, <3>1 DEF RootFits
  <2>3. CASE g # Dummy /\ r = Null
    BY <1>h, <2>3 DEF RootFits
  <2> QED
    BY <1>h, <2>1, <2>2, <2>3
<1>14. Tree(in2, lf2, r2, p, kid)
  BY <1>h, <1>10, <1>11, <1>12, <1>13 DEF Tree
<1> QED
  BY <1>14 DEF in2, lf2, Raised

-----------------------------------------------------------------------------
(* How many children a node has.                                           *)

\* A node has finitely many children.
LEMMA OccupiedFinite ==
    ASSUME NEW n \in InnerNode
    PROVE  /\ IsFiniteSet(Occupied(n)) /\ Cardinality(Occupied(n)) \in Nat
           /\ Cardinality(Occupied(n)) = 0 <=> Occupied(n) = {}
           /\ Cardinality(Occupied(n)) = 1 <=> \E b : Occupied(n) = {b}
<1>1. IsFiniteSet(Byte)
  BY FS_Interval, SizesAssumption DEF Byte
<1>2. IsFiniteSet(Occupied(n))
  BY <1>1, FS_Subset DEF Occupied
<1> QED
  BY <1>2, FS_CardinalityType, FS_EmptySet, FS_Singleton

\* insert() adds one to the count and fills one slot.
LEMMA InsertCounts ==
    ASSUME NEW n \in InnerNode, NEW b \in Byte, n.child[b] = Null, NEW c, c # Null
    PROVE  /\ Cardinality(Occupied(InsertChild(n, b, c))) = Cardinality(Occupied(n)) + 1
           /\ InsertChild(n, b, c).count = n.count + 1
<1>1. Occupied(InsertChild(n, b, c)) = Occupied(n) \cup {b} /\ b \notin Occupied(n)
  BY DEF Occupied, InsertChild, InnerNode
<1>2. InsertChild(n, b, c).count = n.count + 1
  BY DEF InsertChild, InnerNode
<1> QED
  BY <1>1, <1>2, OccupiedFinite, FS_AddElement

\* erase() takes one off the count and empties one slot.
LEMMA EraseCounts ==
    ASSUME NEW n \in InnerNode, NEW b \in Byte, n.child[b] # Null
    PROVE  /\ Cardinality(Occupied(EraseChild(n, b))) = Cardinality(Occupied(n)) - 1
           /\ EraseChild(n, b).count = n.count - 1
<1>1. Occupied(EraseChild(n, b)) = Occupied(n) \ {b} /\ b \in Occupied(n)
  BY DEF Occupied, EraseChild, InnerNode
<1>2. EraseChild(n, b).count = n.count - 1
  BY DEF EraseChild, InnerNode
<1> QED
  BY <1>1, <1>2, OccupiedFinite, FS_RemoveElement

\* update_child_ptr changes neither the count nor which slots are in use.
LEMMA UpdateCounts ==
    ASSUME NEW n \in InnerNode, NEW b, NEW c, c # Null
    PROVE  /\ Occupied(UpdateChild(n, b, c)) = Occupied(n)
           /\ UpdateChild(n, b, c).count = n.count
BY DEF Occupied, UpdateChild, InnerNode

\* A new one-way node counts one child and has one.
LEMMA OneWayCounts ==
    ASSUME NEW p, NEW d, NEW b \in Byte, NEW c, c # Null
    PROVE  /\ Cardinality(Occupied(OneWay(p, d, b, c))) = 1
           /\ OneWay(p, d, b, c).count = 1
<1>1. Occupied(OneWay(p, d, b, c)) = {b}
  BY DEF Occupied, OneWay, NoChildren
<1>2. OneWay(p, d, b, c).count = 1
  BY DEF OneWay
<1> QED
  BY <1>1, <1>2, FS_Singleton

\* The slot for a node in its parent is written.
Hung(in, y, p) == [in EXCEPT ![p] = UpdateChild(in[p], y.path[in[p].depth], y)]

\* The slot of a node, rewritten, holds an inner node if it did.
LEMMA RelinkedSizes ==
    ASSUME NEW in, NEW lf, NEW r, NEW x, NEW y, Heaps(in, lf), Tree(in, lf, r, x, y),
           y \in Nodes(in, lf), NEW p \in DOMAIN in, Par(in, lf, y) = p, Counted(in)
    PROVE  /\ DOMAIN Hung(in, y, p) = DOMAIN in
           /\ Counted(Hung(in, y, p))
           /\ \A a \in DOMAIN in : /\ Hung(in, y, p)[a].count = in[a].count
                                   /\ Hung(in, y, p)[a].depth = in[a].depth
                                   /\ Fits(in, x, y, a) => Fits(Hung(in, y, p), Null, Null, a)
<1> DEFINE s   == y.path[in[p].depth]
           in2 == [in EXCEPT ![p] = UpdateChild(in[p], s, y)]
<1>1. y # Null
  BY HeapFacts
<1>2. Hangs(in, lf, x, y, y)
  <2>1. y = r => Par(in, lf, r) = Dummy
    BY HeapFacts DEF Tree, RootFits
  <2>2. p # Dummy
    BY HeapFacts DEF Nodes
  <2> QED
    BY <2>1, <2>2 DEF Tree, Places
<1>3. in[p].child[s] # Null /\ Subst(in[p].child[s], x, y) = y
  BY <1>2 DEF Hangs
<1>4. /\ DOMAIN in2 = DOMAIN in
      /\ \A a \in DOMAIN in : /\ in2[a].depth = in[a].depth /\ in2[a].parent = in[a].parent
                              /\ in2[a].count = in[a].count
  BY HeapFacts DEF UpdateChild, InnerNode
<1>5. \A a \in DOMAIN in : \A b \in Byte :
          in2[a].child[b] = IF a = p /\ b = s THEN y ELSE in[a].child[b]
  BY <1>3, HeapFacts DEF UpdateChild, InnerNode
<1> HIDE DEF in2, s
<1>6. ASSUME NEW a \in DOMAIN in  PROVE Occupied(in2[a]) = Occupied(in[a])
  BY <1>1, <1>3, <1>5 DEF Occupied
<1>7. Counted(in2)
  BY <1>4, <1>6 DEF Counted
<1>8. ASSUME NEW a \in DOMAIN in, Fits(in, x, y, a)  PROVE Fits(in2, Null, Null, a)
  <2>1. ASSUME NEW b \in Byte, in2[a].child[b] # Null,
               in[a].child[b] # Null => Subst(in[a].child[b], x, y) \in DOMAIN in
        PROVE  Subst(in2[a].child[b], Null, Null) \in DOMAIN in2
    <3>1. CASE a = p /\ b = s
      BY <1>3, <1>4, <1>5, <2>1, <3>1, PlainSubst
    <3>2. CASE ~ (a = p /\ b = s)
      <4>1. in2[a].child[b] = in[a].child[b]
        BY <1>5, <3>2
      <4>2. Belongs(in, lf, a, b, Subst(in[a].child[b], x, y))
        BY <2>1, <4>1 DEF Tree, Slots
      <4>3. Subst(in[a].child[b], x, y) # y
        BY <3>2, <4>2 DEF Belongs, s
      <4>4. Subst(in[a].child[b], x, y) = in[a].child[b]
        BY <4>3 DEF Subst
      <4> QED
        BY <1>4, <2>1, <4>1, <4>4, PlainSubst
    <3> QED
      BY <3>1, <3>2
  <2> QED
    BY <1>4, <1>8, <2>1 DEF Fits
<1>9. /\ DOMAIN in2 = DOMAIN in
      /\ Counted(in2)
      /\ \A a \in DOMAIN in : /\ in2[a].count = in[a].count
                              /\ in2[a].depth = in[a].depth
                              /\ Fits(in, x, y, a) => Fits(in2, Null, Null, a)
  BY <1>4, <1>7, <1>8
<1>10. Hung(in, y, p) = in2
  BY DEF Hung, in2, s
<1> QED
  BY <1>9, <1>10

\* The root is in no slot, and so is what it replaces.
LEMMA RootRelinkedSizes ==
    ASSUME NEW in, NEW lf, NEW r, NEW x, NEW y, Heaps(in, lf), Tree(in, lf, r, x, y),
           Par(in, lf, y) = Dummy, NEW a \in DOMAIN in, Fits(in, x, y, a)
    PROVE  Fits(in, Null, Null, a)
<1>1. Dummy \notin DOMAIN in
  BY HeapFacts DEF Nodes
<1>2. ASSUME NEW b \in Byte, in[a].child[b] # Null
      PROVE  Subst(in[a].child[b], Null, Null) = Subst(in[a].child[b], x, y)
  <2>1. Belongs(in, lf, a, b, Subst(in[a].child[b], x, y))
    BY <1>2 DEF Tree, Slots
  <2>2. Subst(in[a].child[b], x, y) # y
    BY <1>1, <2>1 DEF Belongs
  <2> QED
    BY <2>2, PlainSubst DEF Subst
<1> QED
  BY <1>2 DEF Fits

\* A deleted node is in no slot, so it may be read as anything.
LEMMA RereadSizes ==
    ASSUME NEW in, NEW lf, NEW r, NEW x, NEW y, Tree(in, lf, r, Null, Null),
           x \notin Nodes(in, lf), NEW a \in DOMAIN in
    PROVE  Fits(in, Null, Null, a) <=> Fits(in, x, y, a)
<1>1. ASSUME NEW b \in Byte, in[a].child[b] # Null
      PROVE  Subst(in[a].child[b], x, y) = Subst(in[a].child[b], Null, Null)
  BY <1>1, PlainSubst DEF Tree, Slots, Belongs, Subst
<1> QED
  BY <1>1 DEF Fits

\* The heaps after a node was copied into layout t and its children adopted.
RetypedInner(in, old, t, made) ==
    LET new == [old EXCEPT !.type = t]
    IN  Adopt(Free(Allocate(in, new, made), old), Children(in[old]), new)

RetypedLeaf(in, lf, old, t) == Adopt(lf, Children(in[old]), [old EXCEPT !.type = t])

\* What is as it was when new, of layout t, stands for old.
Recast(in, lf, old, new, t, in2, lf2) ==
    /\ DOMAIN in2 = (DOMAIN in \ {old}) \cup {new}
    /\ DOMAIN lf2 = DOMAIN lf
    /\ new \notin Nodes(in, lf) /\ new.path = old.path /\ new.type = t
    /\ in2[new].depth = in[old].depth /\ in2[new].child = in[old].child
    /\ in2[new].parent = in[old].parent /\ in2[new].count = in[old].count
    /\ \A a \in DOMAIN in \ {old} : in2[a].depth = in[a].depth
    /\ Counted(in2)
    /\ \A a \in DOMAIN in \ {old} :
           Fits(in, Null, Null, a) => Fits(in2, old, new, a)
    /\ \A l \in DOMAIN lf : lf2[l].value = lf[l].value

\* A copy with another layout has the old children; the other nodes still have
\* inner nodes where they had them.
LEMMA RetypedSizes ==
    ASSUME NEW in, NEW lf, NEW r, Heaps(in, lf), Tree(in, lf, r, Null, Null), Counted(in),
           NEW old \in DOMAIN in, NEW t \in InnerTypes,
           [old EXCEPT !.type = t] \notin DOMAIN in,
           NEW made \in InnerNode, made.parent = in[old].parent,
           made.depth = in[old].depth, made.child = in[old].child, made.count = in[old].count
    PROVE  Recast(in, lf, old, [old EXCEPT !.type = t], t,
                  RetypedInner(in, old, t, made), RetypedLeaf(in, lf, old, t))
<1> DEFINE new  == [old EXCEPT !.type = t]
           kids == Children(in[old])
           in2  == Adopt(Free(Allocate(in, new, made), old), kids, new)
           lf2  == Adopt(lf, kids, new)
<1>0. /\ new \in InnerAddr /\ new.path = old.path /\ new # Null /\ new # old
      /\ new \notin DOMAIN lf /\ old # Null /\ old \notin DOMAIN lf /\ new.type = t
  BY HeapFacts, RetypedNode, PointerKinds DEF InnerAddr
<1>1. /\ DOMAIN in2 = (DOMAIN in \ {old}) \cup {new}
      /\ \A a \in DOMAIN in \ {old} : /\ in2[a].depth = in[a].depth
                                      /\ in2[a].child = in[a].child
                                      /\ in2[a].count = in[a].count
  BY <1>0, HeapFacts DEF Adopt, Free, Allocate, InnerNode
<1>2. \A c \in kids : c \in Nodes(in, lf) /\ Par(in, lf, c) = old
  BY PlainSubst DEF Children, Occupied, Tree, Slots, Belongs
<1>3. new \notin kids
  BY <1>0, <1>2, HeapFacts DEF Nodes
<1>4. /\ in2[new].depth = in[old].depth /\ in2[new].child = in[old].child
      /\ in2[new].parent = in[old].parent /\ in2[new].count = in[old].count
  BY <1>0, <1>3, HeapFacts DEF Adopt, Free, Allocate, InnerNode
<1>5. DOMAIN lf2 = DOMAIN lf /\ \A l \in DOMAIN lf : lf2[l].value = lf[l].value
  BY HeapFacts DEF Adopt, LeafNode
<1> HIDE DEF in2, lf2, new, kids
<1>6. new \notin Nodes(in, lf)
  BY <1>0 DEF Nodes, new
<1>7. Counted(in2)
  <2> SUFFICES ASSUME NEW a \in DOMAIN in2
               PROVE  in2[a].count = Cardinality(Occupied(in2[a]))
    BY DEF Counted
  <2>1. CASE a = new
    <3>1. Occupied(in2[new]) = Occupied(in[old])
      BY <1>4 DEF Occupied
    <3> QED
      BY <1>4, <2>1, <3>1 DEF Counted
  <2>2. CASE a # new
    <3>1. a \in DOMAIN in \ {old} /\ Occupied(in2[a]) = Occupied(in[a])
      BY <1>1, <2>2 DEF Occupied
    <3> QED
      BY <1>1, <3>1 DEF Counted
  <2> QED
    BY <2>1, <2>2
<1>8. ASSUME NEW a \in DOMAIN in \ {old}, Fits(in, Null, Null, a)
      PROVE  Fits(in2, old, new, a)
  <2>1. ASSUME NEW b \in Byte, Subst(in[a].child[b], Null, Null) \in DOMAIN in
        PROVE  Subst(in2[a].child[b], old, new) \in DOMAIN in2
    <3>1. in2[a].child[b] \in DOMAIN in
      BY <1>1, <2>1, PlainSubst
    <3> QED
      BY <1>1, <3>1 DEF Subst
  <2> QED
    BY <1>1, <1>8, <2>1 DEF Fits
<1>9. /\ DOMAIN in2 = (DOMAIN in \ {old}) \cup {new}
      /\ DOMAIN lf2 = DOMAIN lf
      /\ new \notin Nodes(in, lf) /\ new.path = old.path /\ new.type = t
      /\ in2[new].depth = in[old].depth /\ in2[new].child = in[old].child
      /\ in2[new].parent = in[old].parent /\ in2[new].count = in[old].count
      /\ \A a \in DOMAIN in \ {old} : in2[a].depth = in[a].depth
      /\ Counted(in2)
      /\ \A a \in DOMAIN in \ {old} :
             Fits(in, Null, Null, a) => Fits(in2, old, new, a)
      /\ \A l \in DOMAIN lf : lf2[l].value = lf[l].value
  BY <1>0, <1>1, <1>4, <1>5, <1>6, <1>7, <1>8
<1>10. in2 = RetypedInner(in, old, t, made) /\ lf2 = RetypedLeaf(in, lf, old, t)
  BY DEF in2, lf2, new, kids, RetypedInner, RetypedLeaf
<1> QED
  BY <1>9, <1>10 DEF new, Recast

\* A one-way node that is taken away leaves at most its parent with a single
\* leaf.
LEMMA OneWayGoneSizes ==
    ASSUME NEW in, NEW lf, NEW r, NEW x, NEW y, Heaps(in, lf), Tree(in, lf, r, x, y),
           NEW kid \in DOMAIN lf, NEW p \in DOMAIN in, lf[kid].parent = p,
           x = Null \/ y = kid, Counted(in)
    PROVE  LET in2 == Free(in, p)
           IN  /\ Counted(in2)
               /\ \A a \in DOMAIN in \ {p} :
                      Fits(in, x, y, a) => \/ Fits(in2, p, kid, a)
                                           \/ a = in[p].parent /\ OneWayed(in2, a)
<1> DEFINE in2 == Free(in, p)
<1>1. DOMAIN in2 = DOMAIN in \ {p} /\ \A a \in DOMAIN in2 : in2[a] = in[a]
  BY DEF Free
<1> HIDE DEF in2
<1>2. Counted(in2)
  BY <1>1 DEF Counted
<1>3. ASSUME NEW a \in DOMAIN in \ {p}, Fits(in, x, y, a)
      PROVE  Fits(in2, p, kid, a) \/ (a = in[p].parent /\ OneWayed(in2, a))
  <2>1. CASE in[a].count \in MinSize(a.type)..MaxSize(a.type)
    BY <1>1, <2>1 DEF Fits
  <2>2. CASE OneWayed(in, a) /\ a = in[p].parent
    BY <1>1, <2>2 DEF OneWayed
  <2>3. CASE a # in[p].parent
    <3>1. ASSUME NEW b \in Byte, in[a].child[b] # Null,
                 Subst(in[a].child[b], x, y) \in DOMAIN in
          PROVE  Subst(in2[a].child[b], p, kid) \in DOMAIN in2
      <4> DEFINE c == in[a].child[b]
      <4>1. Belongs(in, lf, a, b, Subst(c, x, y))
        BY <3>1 DEF Tree, Slots
      <4>2. kid \notin DOMAIN in /\ p \notin DOMAIN lf
        BY HeapFacts
      <4>3. Subst(c, x, y) # kid /\ Subst(c, x, y) # p
        BY <2>3, <3>1, <4>1, <4>2 DEF Belongs, Par
      <4>4. Subst(c, x, y) = c
        BY <3>1, <4>3 DEF Subst
      <4>5. in2[a].child[b] = c
        BY <1>1
      <4>6. Subst(c, p, kid) = c
        BY <4>3, <4>4 DEF Subst
      <4> QED
        BY <1>1, <3>1, <4>3, <4>4, <4>5, <4>6
    <3> QED
      BY <1>1, <1>3, <3>1 DEF Fits
  <2> QED
    BY <1>3, <2>1, <2>2, <2>3 DEF Fits, OneWayed
<1>4. /\ Counted(in2)
      /\ \A a \in DOMAIN in \ {p} :
             Fits(in, x, y, a) => \/ Fits(in2, p, kid, a)
                                  \/ a = in[p].parent /\ OneWayed(in2, a)
  BY <1>2, <1>3
<1> QED
  BY <1>4 DEF in2

\* The heaps stay typed when a node is copied into another layout.
LEMMA RetypedHeaps ==
    ASSUME NEW in, NEW lf, Heaps(in, lf), NEW old \in DOMAIN in, NEW t \in InnerTypes,
           NEW made \in InnerNode
    PROVE  LET new  == [old EXCEPT !.type = t]
               kids == Children(in[old])
           IN  Heaps(Adopt(Free(Allocate(in, new, made), old), kids, new), Adopt(lf, kids, new))
<1> DEFINE new  == [old EXCEPT !.type = t]
           kids == Children(in[old])
           more == Allocate(in, new, made)
           less == Free(more, old)
<1>1. new \in InnerAddr /\ new \in Ptr
  BY HeapFacts, RetypedNode, PointerKinds
<1>2. IsHeap(in, InnerAddr, InnerNode) /\ IsHeap(lf, LeafAddr, LeafNode)
  BY DEF Heaps
<1> HIDE DEF new, kids
<1>3. IsHeap(more, InnerAddr, InnerNode)
  BY <1>1, <1>2, AllocateHeap
<1> HIDE DEF more
<1>4. IsHeap(less, InnerAddr, InnerNode)
  BY <1>3, FreeHeap
<1> HIDE DEF less
<1>5. IsHeap(Adopt(less, kids, new), InnerAddr, InnerNode)
  BY <1>1, <1>4, AdoptInner
<1>6. IsHeap(Adopt(lf, kids, new), LeafAddr, LeafNode)
  BY <1>1, <1>2, AdoptLeaf
<1>7. Heaps(Adopt(less, kids, new), Adopt(lf, kids, new))
  BY <1>5, <1>6 DEF Heaps
<1> QED
  BY <1>7 DEF less, more, new, kids

\* The inner nodes after PointTo(h, p, k, y).
HungAt(h, p, k, y) ==
    IF p = Dummy THEN h ELSE [h EXCEPT ![p] = UpdateChild(h[p], k[h[p].depth], y)]

\* What is needed to hang up y with PointTo(h, p, k, y).
ReadyToHang(h, lf, r, x, y, p, k) ==
    /\ Heaps(h, lf) /\ Tree(h, lf, r, x, y) /\ Counted(h)
    /\ y \in Nodes(h, lf) /\ p = Par(h, lf, y)
    /\ p # Dummy => p \in DOMAIN h /\ Agree(y.path, k, h[p].depth + 1)

\* PointTo: the tree reads as it is, and every node that fitted fits.
LEMMA HungUp ==
    ASSUME NEW h, NEW lf, NEW r, NEW x, NEW y, NEW p, NEW k, ReadyToHang(h, lf, r, x, y, p, k)
    PROVE  LET in2 == HungAt(h, p, k, y)
           IN  /\ Tree(in2, lf, IF p = Dummy THEN y ELSE r, Null, Null)
               /\ Counted(in2)
               /\ DOMAIN in2 = DOMAIN h
               /\ \A a \in DOMAIN h : /\ in2[a].count = h[a].count /\ in2[a].depth = h[a].depth
                                      /\ a # p => in2[a] = h[a]
                                      /\ Fits(h, x, y, a) => Fits(in2, Null, Null, a)
<1> DEFINE in2 == HungAt(h, p, k, y)
           r2  == IF p = Dummy THEN y ELSE r
<1>1. /\ Heaps(h, lf) /\ Tree(h, lf, r, x, y) /\ Counted(h)
      /\ y \in Nodes(h, lf) /\ p = Par(h, lf, y)
      /\ p # Dummy => p \in DOMAIN h /\ Agree(y.path, k, h[p].depth + 1)
  BY DEF ReadyToHang
<1>2. CASE p = Dummy
  <2>1. in2 = h /\ r2 = y
    BY <1>2 DEF HungAt
  <2>2. y = r /\ Tree(h, lf, r, Null, Null)
    BY <1>1, <1>2, RootRelinked
  <2>3. \A a \in DOMAIN h : Fits(h, x, y, a) => Fits(h, Null, Null, a)
    BY <1>1, <1>2, RootRelinkedSizes
  <2> QED
    BY <1>1, <2>1, <2>2, <2>3
<1>3. CASE p # Dummy
  <2> DEFINE s   == y.path[h[p].depth]
             in3 == Hung(h, y, p)
  <2>1. s = k[h[p].depth]
    <3>1. h[p].depth \in Nat
      BY <1>1, <1>3, HeapFacts
    <3>2. h[p].depth \in 0..((h[p].depth + 1) - 1)
      BY <3>1
    <3> QED
      BY <1>1, <1>3, <3>2 DEF Agree
  <2>2. in2 = in3 /\ r2 = r
    BY <1>3, <2>1 DEF Hung, HungAt
  <2>3. Tree(in3, lf, r, Null, Null)
    BY <1>1, <1>3, Relinked DEF Hung
  <2>4. /\ DOMAIN in3 = DOMAIN h /\ Counted(in3)
        /\ \A a \in DOMAIN h : /\ in3[a].count = h[a].count /\ in3[a].depth = h[a].depth
                               /\ Fits(h, x, y, a) => Fits(in3, Null, Null, a)
    BY <1>1, <1>3, RelinkedSizes
  <2>5. \A a \in DOMAIN h : a # p => in3[a] = h[a]
    BY DEF Hung
  <2> HIDE DEF in2, in3, s, r2
  <2>6. Tree(in2, lf, r2, Null, Null)
    BY <2>2, <2>3
  <2>7. /\ Counted(in2) /\ DOMAIN in2 = DOMAIN h
        /\ \A a \in DOMAIN h : /\ in2[a].count = h[a].count /\ in2[a].depth = h[a].depth
                               /\ a # p => in2[a] = h[a]
                               /\ Fits(h, x, y, a) => Fits(in2, Null, Null, a)
    BY <2>2, <2>4, <2>5
  <2> QED
    BY <2>6, <2>7 DEF in2, r2
<1> QED
  BY <1>2, <1>3

\* A node that fits or is one-way is at most one child short.
LEMMA NearlyAll ==
    ASSUME NEW in, NEW a \in DOMAIN in, in[a].count \in Int, a.type \in InnerTypes,
           NEW x, NEW y, Fits(in, x, y, a) \/ OneWayed(in, a)
    PROVE  Nearly(in, a)
<1>1. MaxSize(a.type) \in Nat /\ MinSize(a.type) \in Nat
  BY SizeTypes
<1>2. a.type = "node_4" => MinSize(a.type) = 2 /\ MaxSize(a.type) >= 2
  BY SizesAssumption DEF MinSize, MaxSize
<1>3. in[a].count \in MinSize(a.type)..MaxSize(a.type) \/ OneWayed(in, a)
  BY DEF Fits, OneWayed
<1> QED
  BY <1>1, <1>2, <1>3 DEF Nearly, OneWayed

-----------------------------------------------------------------------------
(* The order of the keys.                                                  *)

\* The chunks of a key are numbers.
LEMMA KeyChunks ==
    ASSUME NEW k \in Keys
    PROVE  /\ k \in [Chunks -> Byte]
           /\ \A i \in Chunks : k[i] \in Nat
           /\ Chunks = 0..(KeyLen - 1) /\ Chunks \subseteq Nat /\ KeyLen \in Nat /\ 0 \in Chunks
BY KeysAssumption, KeyLenAssumption, SizesAssumption DEF Chunks, Byte

\* No key is the empty path that stands for no key.
LEMMA NoPathIsNoKey == NoPath \notin Keys
<1>1. ASSUME NoPath \in Keys  PROVE FALSE
  <2>1. DOMAIN NoPath = Chunks /\ 0 \in Chunks
    BY <1>1, KeyChunks
  <2>2. DOMAIN NoPath = {}
    BY DEF NoPath
  <2> QED
    BY <2>1, <2>2
<1> QED
  BY <1>1

\* The order looks at the first chunk in which two keys differ.
LEMMA LessAt ==
    ASSUME NEW a \in Keys, NEW b \in Keys, NEW d \in Chunks, Agree(a, b, d), a[d] # b[d]
    PROVE  Less(a, b) <=> a[d] < b[d]
<1>1. /\ \A i \in Chunks : a[i] \in Nat /\ b[i] \in Nat
      /\ d \in Nat /\ Chunks \subseteq Nat
  BY KeyChunks
<1>2. \A i \in Nat : i < d => a[i] = b[i]
  BY <1>1 DEF Agree
<1>3. ASSUME a[d] < b[d]  PROVE Less(a, b)
  BY <1>1, <1>2, <1>3 DEF Less
<1>4. ASSUME Less(a, b)  PROVE a[d] < b[d]
  <2>1. PICK i \in Chunks : a[i] < b[i] /\ \A j \in 0..(i - 1) : a[j] = b[j]
    BY <1>4 DEF Less
  <2>2. i >= d
    BY <1>1, <1>2, <2>1
  <2>3. ~ (i > d)
    BY <1>1, <2>1
  <2> QED
    BY <1>1, <2>1, <2>2, <2>3
<1> QED
  BY <1>3, <1>4

\* Two keys that differ have a first chunk in which they do.
LEMMA Differ ==
    ASSUME NEW a \in Keys, NEW b \in Keys, a # b
    PROVE  \E d \in Chunks : Agree(a, b, d) /\ a[d] # b[d]
<1> DEFINE D == {i \in Chunks : a[i] # b[i]}
<1>1. /\ a \in [Chunks -> Byte] /\ b \in [Chunks -> Byte]
      /\ Chunks = 0..(KeyLen - 1) /\ Chunks \subseteq Nat /\ KeyLen \in Nat
  BY KeyChunks
<1>2. D # {} /\ D \in SUBSET Nat
  BY <1>1
<1>3. Min(D) \in D /\ \A i \in D : Min(D) =< i
  BY <1>2, MinOfBytes
<1>4. ASSUME NEW i \in 0..(Min(D) - 1)  PROVE a[i] = b[i]
  <2>1. Min(D) \in Chunks /\ Min(D) \in Nat /\ i \in Chunks /\ ~ (Min(D) =< i)
    BY <1>1, <1>3
  <2> QED
    BY <1>3, <2>1
<1> QED
  BY <1>3, <1>4 DEF Agree

\* It is a strict total order.
LEMMA LessIsTotal ==
    ASSUME NEW a \in Keys, NEW b \in Keys
    PROVE  /\ ~ Less(a, a)
           /\ ~ (Less(a, b) /\ Less(b, a))
           /\ a # b => Less(a, b) \/ Less(b, a)
<1>1. \A k \in Keys : \A i \in Chunks : k[i] \in Nat
  BY KeyChunks
<1>2. ~ Less(a, a)
  BY <1>1 DEF Less
<1>3. ASSUME a # b  PROVE (Less(a, b) \/ Less(b, a)) /\ ~ (Less(a, b) /\ Less(b, a))
  <2>1. PICK d \in Chunks : Agree(a, b, d) /\ a[d] # b[d]
    BY <1>3, Differ
  <2>2. Agree(b, a, d) /\ a[d] \in Nat /\ b[d] \in Nat
    BY <1>1, <2>1 DEF Agree
  <2> QED
    BY <2>1, <2>2, LessAt
<1> QED
  BY <1>2, <1>3

\* Keys that agree further with each other than with a third lie on the same
\* side of it.
LEMMA SameSide ==
    ASSUME NEW a \in Keys, NEW b \in Keys, NEW c \in Keys, NEW d \in 0..KeyLen,
           Agree(a, b, d), ~ Agree(a, c, d)
    PROVE  (Less(a, c) <=> Less(b, c)) /\ (Less(c, a) <=> Less(c, b))
<1>1. Chunks \subseteq Nat /\ KeyLen \in Nat /\ d \in Nat
  BY KeyChunks
<1>2. a # c
  BY DEF Agree
<1>3. PICK e \in Chunks : Agree(a, c, e) /\ a[e] # c[e]
  BY <1>2, Differ
<1>4. e < d /\ e \in Nat
  <2> SUFFICES ASSUME ~ (e < d)  PROVE FALSE
    BY <1>1
  <2> QED
    BY <1>1, <1>3, AgreeLess
<1>5. Agree(b, c, e) /\ b[e] = a[e] /\ Agree(c, a, e) /\ Agree(c, b, e)
  BY <1>1, <1>3, <1>4 DEF Agree
<1> QED
  BY <1>3, <1>5, LessAt

\* What lies between two keys begins with the chunks they share.
LEMMA Between ==
    ASSUME NEW a \in Keys, NEW b \in Keys, NEW c \in Keys, NEW d \in 0..KeyLen,
           Agree(a, c, d), Less(a, b), Less(b, c)
    PROVE  Agree(a, b, d)
<1> SUFFICES ASSUME ~ Agree(a, b, d)  PROVE FALSE
  OBVIOUS
<1>1. Less(c, b)
  BY SameSide
<1> QED
  BY <1>1, LessIsTotal
=============================================================================
