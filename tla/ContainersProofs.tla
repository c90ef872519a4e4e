-------------------------- MODULE ContainersProofs --------------------------
(***************************************************************************)
(* Theorems about Containers: whose each node of the heap is while whole   *)
(* trees are copied, moved, swapped and destroyed, what is lost and where, *)
(* and that every operation does what Maps says.                           *)
(*                                                                         *)
(* The inductive invariant Inv has three parts.  Heap: a pointer to a      *)
(* child leads to a live node of the same tree, further down, also in what *)
(* has leaked.  Objects: the trees of two containers are apart, and the    *)
(* nodes with the number of a tree are those that its root leads to.       *)
(* JobFits: the stack of a running copy is a path in the source, and what  *)
(* is made so far is the part of the source that it has left behind.  The  *)
(* refinement adds TrueCopy, that the leaves of the copy have the values   *)
(* of those they are copied from.                                          *)
(***************************************************************************)
EXTENDS Containers, TLAPS, FiniteSetTheorems, WellFoundedInduction, SequenceTheorems

-----------------------------------------------------------------------------
(* The trees in the heap.                                                  *)

Addr == [kind : {"inner", "leaf"}, tree : Trees, path : Seq(Byte)]
DummyAddr == [kind : {"dummy"}, tree : Dummies, path : {<<>>}]
Ptr == Addr \cup DummyAddr \cup {Null}

Par(in, lf, a) == IF a \in DOMAIN in THEN in[a].parent ELSE lf[a].parent

\* The nodes that were made for tree t.
OwnIn(in, lf, t) == {a \in DOMAIN in \cup DOMAIN lf : a.tree = t}

\* Node y belongs into slot b of node a.
Fits(a, b, y) == y.tree = a.tree /\ Len(a.path) < Len(y.path) /\ y.path[Len(a.path) + 1] = b

\* Each pointer to a child is to a node of the same tree, further down.  That
\* holds also of what has leaked.
WellHeap(in, lf) ==
    LET all == DOMAIN in \cup DOMAIN lf
    IN  /\ in \in [DOMAIN in -> [parent : Ptr, child : [Byte -> all \cup {Null}]]]
        /\ lf \in [DOMAIN lf -> [parent : Ptr, value : Values]]
        /\ \A a \in all : /\ a \in Addr /\ a = NodeAt(a.tree, a.path)
                          /\ (a \in DOMAIN lf <=> a.kind = "leaf")
                          /\ Len(a.path) <= KeyLen
        /\ DOMAIN in \cap DOMAIN lf = {}
        /\ \A a \in DOMAIN in, b \in Byte :
              in[a].child[b] # Null => Fits(a, b, in[a].child[b])

\* The nodes of tree r.tree are the tree below r.
JoinedIn(in, lf, r) ==
    /\ r \in DOMAIN in \cup DOMAIN lf
    /\ Par(in, lf, r) \in DummyAddr
    /\ \A a \in DOMAIN in, b \in Byte :
          a.tree = r.tree /\ in[a].child[b] # Null => Par(in, lf, in[a].child[b]) = a
    /\ \A a \in OwnIn(in, lf, r.tree) \ {r} :
          /\ Par(in, lf, a) \in DOMAIN in
          /\ \E b \in Byte : in[Par(in, lf, a)].child[b] = a

\* What a container with root r, count n and dummy node d has.
HoldsIn(in, lf, dr, r, n, d) ==
    IF r = Null THEN n = 0
    ELSE /\ JoinedIn(in, lf, r)
         /\ Par(in, lf, r) = d /\ dr[d] = r
         /\ n = Cardinality(OwnIn(in, lf, r.tree) \cap DOMAIN lf)

Own(t)    == OwnIn(inner, leaf, t)
Heap      == WellHeap(inner, leaf)
Joined(r) == JoinedIn(inner, leaf, r)
Holds(c)  == HoldsIn(inner, leaf, dummyRoot, root[c], size[c], dummy[c])

ObjectTypes ==
    /\ alive \subseteq Containers
    /\ root \in [Containers -> Ptr] /\ size \in [Containers -> Nat]
    /\ dummy \in [Containers -> DummyAddr \cup {Null}]
    /\ \A c \in Containers \ alive : root[c] = Null /\ size[c] = 0 /\ dummy[c] = Null
    /\ \A c \in alive : dummy[c] \in DummyAddr /\ dummy[c] \in DOMAIN dummyRoot

Apart ==
    /\ \A c, x \in alive : c # x => dummy[c] # dummy[x]
    /\ \A c, x \in alive :
          c # x /\ root[c] # Null /\ root[x] # Null => root[c].tree # root[x].tree

Objects == ObjectTypes /\ Apart /\ \A c \in alive : Holds(c)

-----------------------------------------------------------------------------
(* A copy under way.                                                       *)

OnStack(st, a) == \E i \in DOMAIN st : st[i].src = a
ToDo(st, a, b) == \E i \in DOMAIN st : st[i].src = a /\ b \in st[i].todo

\* The container that is copied and the one that is made.
Parties ==
    /\ job = Copying(job.op, job.to, job.from, job.tree, job.stack)
    /\ job.op \in {"construct", "assign"} /\ job.tree \in Trees
    /\ job.to \in Containers /\ job.from \in alive /\ job.to # job.from
    /\ job.op = "assign" <=> job.to \in alive
    /\ root[job.from] # Null /\ root[job.to] = Null
    /\ \A c \in alive : root[c] # Null => root[c].tree # job.tree

\* The stack is a path from r in the tree that is copied.
StackIn(in, lf, st, r, t) ==
    /\ st \in Seq([src : OwnIn(in, lf, r.tree), todo : SUBSET Byte])
    /\ st # <<>> /\ st[1].src = r
    /\ \A i \in DOMAIN st :
          /\ New(t, st[i].src) \in DOMAIN in \cup DOMAIN lf
          /\ st[i].src \in DOMAIN lf => st[i].todo = {} /\ Len(st) = 1
          /\ st[i].src \in DOMAIN in => \A b \in st[i].todo : in[st[i].src].child[b] # Null
    /\ \A i, j \in DOMAIN st : i < j => Len(st[i].src.path) < Len(st[j].src.path)
    /\ \A i \in 1..(Len(st) - 1) :
          \E b \in Byte \ st[i].todo : in[st[i].src].child[b] = st[i + 1].src

\* What slot b of node a has become in the copy.
SlotCopied(in, lf, st, t, a, b) ==
    LET k == in[a].child[b]
        m == in[New(t, a)].child[b]
    IN  IF k = Null THEN m = Null
        ELSE IF ToDo(st, a, b) THEN m = Null /\ New(t, k) \notin DOMAIN in \cup DOMAIN lf
        ELSE IF OnStack(st, k) THEN m = Null
        ELSE m = New(t, k) /\ m \in DOMAIN in \cup DOMAIN lf /\ Par(in, lf, m) = New(t, a)

\* Tree t is a part of a copy of the tree below r, and no node is copied
\* before the one it hangs from.
CopyIn(in, lf, st, r, t) ==
    /\ \A y \in OwnIn(in, lf, t) : \E a \in OwnIn(in, lf, r.tree) : y = New(t, a)
    /\ \A a \in OwnIn(in, lf, r.tree) \cap DOMAIN in, b \in Byte :
          New(t, a) \in DOMAIN in => SlotCopied(in, lf, st, t, a, b)
    /\ \A a \in OwnIn(in, lf, r.tree) \ {r} :
          New(t, a) \in DOMAIN in \cup DOMAIN lf =>
             New(t, Par(in, lf, a)) \in DOMAIN in \cup DOMAIN lf

JobFits ==
    Idle \/ /\ Parties
            /\ StackIn(inner, leaf, job.stack, root[job.from], job.tree)
            /\ CopyIn(inner, leaf, job.stack, root[job.from], job.tree)

Inv == Heap /\ Objects /\ JobFits

-----------------------------------------------------------------------------
(* Numbers, sequences and what a traversal comes to.                       *)

\* A set of numbers that is not empty has a smallest one.
LEMMA MinOfBytes ==
    ASSUME NEW S \in SUBSET Nat, S # {}
    PROVE  /\ Min(S) \in S
           /\ \A x \in S : Min(S) =< x
<1> DEFINE Smaller == {p \in Nat \X Nat : p[1] < p[2]}
<1>1. IsWellFoundedOn(Smaller, Nat)
  BY NatLessThanWellFounded DEF OpToRel
<1>2. PICK m \in S : \A x \in S : ~ (<<x, m>> \in Smaller)
  BY <1>1, WFMin
<1>3. ASSUME NEW x \in S, x < m  PROVE FALSE
  <2>1. <<x, m>> \in Nat \X Nat /\ <<x, m>>[1] < <<x, m>>[2]
    BY <1>3
  <2> QED
    BY <1>2, <2>1
<1>4. \A x \in S : m =< x
  BY <1>3
<1> QED
  BY <1>4 DEF Min

LEMMA KeyShape ==
    /\ KeyLen \in Nat
    /\ \A k \in Keys : k \in Seq(Byte) /\ Len(k) = KeyLen /\ KeyLen > 0
<1>1. PICK l : l = CHOOSE k \in Keys : TRUE
  OBVIOUS
<1>2. l \in Keys /\ KeyLen = Len(l)
  BY <1>1, ShapeAssumption DEF KeyLen
<1>3. \A k \in Keys : k \in Seq(Byte) /\ Len(k) = KeyLen /\ k # <<>>
  BY <1>2, ShapeAssumption
<1>4. \A k \in Keys : Len(k) \in Nat /\ Len(k) > 0
  BY <1>3
<1> QED
  BY <1>2, <1>3, <1>4

\* The levels of a traversal from a, down to level n.
Levels(g, a, n) ==
    g = [d \in 0..n |-> IF d = 0 THEN {a} ELSE g[d - 1] \cup Kids(g[d - 1])]

LEMMA LevelsUpTo ==
    ASSUME NEW a, NEW n \in Nat
    PROVE  \E g : Levels(g, a, n)
<1> DEFINE Bad == {m \in Nat : ~ \E g : Levels(g, a, m)}
<1>1. SUFFICES ASSUME Bad # {}  PROVE FALSE
  OBVIOUS
<1>2. PICK m \in Bad : \A x \in Bad : m =< x
  BY <1>1, MinOfBytes
<1>3. CASE m = 0
  <2>1. Levels([d \in 0..0 |-> {a}], a, 0)
    BY DEF Levels
  <2> QED
    BY <1>2, <1>3, <2>1
<1>4. CASE m > 0
  <2>0. m \in Nat /\ m - 1 \in Nat /\ ~ (m =< m - 1)
    BY <1>4
  <2>1. m - 1 \in Nat /\ m - 1 \notin Bad
    BY <1>2, <2>0
  <2>2. PICK f : Levels(f, a, m - 1)
    BY <2>1
  <2> DEFINE g == [d \in 0..m |-> IF d = m THEN f[m - 1] \cup Kids(f[m - 1]) ELSE f[d]]
  <2>3. \A d \in 0..m : g[d] = IF d = 0 THEN {a} ELSE g[d - 1] \cup Kids(g[d - 1])
    <3> SUFFICES ASSUME NEW d \in 0..m
                 PROVE  g[d] = IF d = 0 THEN {a} ELSE g[d - 1] \cup Kids(g[d - 1])
      OBVIOUS
    <3>1. CASE d = m
      <4>1. m - 1 \in 0..m /\ m - 1 # m /\ m \in 0..m
        BY <1>4
      <4>2. g[m - 1] = f[m - 1]
        BY <4>1
      <4> QED
        BY <1>4, <3>1, <4>1, <4>2
    <3>2. CASE d # m
      <4>1. d \in 0..(m - 1) /\ g[d] = f[d]
        BY <3>2
      <4>2. d # 0 => d - 1 \in 0..m /\ d - 1 # m /\ g[d - 1] = f[d - 1]
        BY <3>2
      <4> QED
        BY <2>2, <4>1, <4>2 DEF Levels
    <3> QED
      BY <3>1, <3>2
  <2>4. Levels(g, a, m)
    BY <2>3 DEF Levels
  <2> QED
    BY <1>2, <2>4
<1> QED
  BY <1>2, <1>3, <1>4

LEMMA ReachLevels ==
    ASSUME NEW a
    PROVE  \E g : Levels(g, a, KeyLen) /\ Reach(a) = g[KeyLen] \ {Null}
<1>1. \E g : Levels(g, a, KeyLen)
  BY KeyShape, LevelsUpTo
<1> QED
  BY <1>1 DEF Reach, Levels

LEMMA KidsAre ==
    ASSUME NEW S, NEW y
    PROVE  y \in Kids(S) <=> /\ y # Null
                             /\ \E x \in S \cap DOMAIN inner : y \in Range(inner[x].child)
<1>1. PICK U : U = UNION {Range(inner[x].child) : x \in S \cap DOMAIN inner}
  OBVIOUS
<1>2. y \in U <=> \E x \in S \cap DOMAIN inner : y \in Range(inner[x].child)
  BY <1>1
<1>3. Kids(S) = U \ {Null}
  BY <1>1 DEF Kids
<1> QED
  BY <1>2, <1>3

\* A traversal stays in a set that leads to no other node.
LEMMA ReachStays ==
    ASSUME NEW a, NEW T, a \in T,
           \A x \in T \cap DOMAIN inner : Range(inner[x].child) \subseteq T \cup {Null}
    PROVE  Reach(a) \subseteq T
<1>1. PICK g : Levels(g, a, KeyLen) /\ Reach(a) = g[KeyLen] \ {Null}
  BY ReachLevels
<1> DEFINE Bad == {d \in 0..KeyLen : ~ (g[d] \subseteq T)}
<1>2. KeyLen \in 0..KeyLen /\ Bad \in SUBSET Nat
  BY KeyShape
<1>3. ASSUME Bad # {}  PROVE FALSE
  <2>1. PICK m \in Bad : \A x \in Bad : m =< x
    BY <1>2, <1>3, MinOfBytes
  <2>2. m \in 0..KeyLen /\ ~ (g[m] \subseteq T)
    OBVIOUS
  <2>3. g[m] = IF m = 0 THEN {a} ELSE g[m - 1] \cup Kids(g[m - 1])
    BY <1>1, <2>2 DEF Levels
  <2>4. m # 0
    BY <2>2, <2>3
  <2>5. m - 1 \in 0..KeyLen /\ m - 1 \notin Bad
    BY <1>2, <2>1, <2>2, <2>4
  <2>6. g[m - 1] \subseteq T
    BY <2>5
  <2>7. Kids(g[m - 1]) \subseteq T
    BY <2>6, KidsAre
  <2> QED
    BY <2>2, <2>3, <2>4, <2>6, <2>7
<1> QED
  BY <1>1, <1>2, <1>3

\* It comes to every node of a set in which each but the first is in a slot of
\* one with a shorter path.
LEMMA ReachCovers ==
    ASSUME NEW a, NEW T, Null \notin T,
           \A y \in T : Len(y.path) \in 0..KeyLen,
           \A y \in T \ {a} : \E x \in T \cap DOMAIN inner :
              y \in Range(inner[x].child) /\ Len(x.path) < Len(y.path)
    PROVE  T \subseteq Reach(a)
<1>1. PICK g : Levels(g, a, KeyLen) /\ Reach(a) = g[KeyLen] \ {Null}
  BY ReachLevels
<1> DEFINE Bad == {d \in 0..KeyLen : \E y \in T : Len(y.path) =< d /\ y \notin g[d]}
<1>2. KeyLen \in 0..KeyLen /\ Bad \in SUBSET Nat
  BY KeyShape
<1>3. ASSUME Bad # {}  PROVE FALSE
  <2>1. PICK m \in Bad : \A x \in Bad : m =< x
    BY <1>2, <1>3, MinOfBytes
  <2>2. PICK y \in T : m \in 0..KeyLen /\ Len(y.path) =< m /\ y \notin g[m]
    BY <2>1
  <2>3. g[m] = IF m = 0 THEN {a} ELSE g[m - 1] \cup Kids(g[m - 1])
    BY <1>1, <2>2 DEF Levels
  <2>4. KeyLen \in Nat /\ Len(y.path) \in 0..KeyLen /\ g[0] = {a}
    BY <1>1, KeyShape DEF Levels
  <2>5. CASE y = a
    <3>1. m # 0
      BY <2>2, <2>3, <2>5
    <3>2. m - 1 \in 0..KeyLen /\ m - 1 \notin Bad
      BY <1>2, <2>1, <2>2, <3>1
    <3>3. CASE Len(y.path) =< m - 1
      BY <2>2, <2>3, <3>1, <3>2, <3>3
    <3>4. CASE Len(y.path) = m
      <4> DEFINE Lost == {d \in 0..KeyLen : a \notin g[d]}
      <4>1. m \in Lost
        BY <2>2, <2>5
      <4>2. PICK z \in Lost : \A x \in Lost : z =< x
        <5>1. Lost \in SUBSET Nat /\ Lost # {}
          BY <4>1, <1>2
        <5> HIDE DEF Lost
        <5> QED
          BY <5>1, MinOfBytes
      <4>3. z \in 0..KeyLen /\ a \notin g[z] /\ z # 0
        BY <2>4, <4>2
      <4>4. z - 1 \in 0..KeyLen /\ z - 1 \notin Lost
        BY <2>4, <4>2, <4>3
      <4>5. g[z] = g[z - 1] \cup Kids(g[z - 1])
        BY <1>1, <4>3 DEF Levels
      <4> QED
        BY <4>3, <4>4, <4>5
    <3> QED
      BY <2>2, <2>4, <3>3, <3>4
  <2>6. CASE y # a
    <3>1. PICK x \in T \cap DOMAIN inner :
             y \in Range(inner[x].child) /\ Len(x.path) < Len(y.path)
      BY <2>6
    <3>2. Len(x.path) \in 0..KeyLen
      OBVIOUS
    <3>3. m # 0 /\ m - 1 \in 0..KeyLen /\ Len(x.path) =< m - 1
      BY <2>2, <2>4, <3>1, <3>2
    <3>4. m - 1 \notin Bad
      BY <1>2, <2>1, <2>2, <3>3
    <3>5. x \in g[m - 1]
      BY <3>3, <3>4
    <3>6. y \in Kids(g[m - 1])
      BY <3>1, <3>5, KidsAre
    <3> QED
      BY <2>2, <2>3, <3>3, <3>6
  <2> QED
    BY <2>5, <2>6
<1>4. \A y \in T : Len(y.path) =< KeyLen
  BY KeyShape
<1> QED
  BY <1>1, <1>2, <1>3, <1>4

\* What a heap says of its nodes.
LEMMA HeapFacts ==
    ASSUME Heap
    PROVE  /\ \A a \in Nodes : /\ a.tree \in Trees /\ a.path \in Seq(Byte)
                               /\ Len(a.path) \in 0..KeyLen
                               /\ a.kind \in {"inner", "leaf"}
           /\ \A a \in DOMAIN inner : a \in Nodes /\ a.kind = "inner" /\ a \notin DOMAIN leaf
           /\ \A a \in DOMAIN leaf : a \in Nodes /\ a.kind = "leaf" /\ a \notin DOMAIN inner
           /\ Null \notin Nodes /\ Null \notin DOMAIN inner
           /\ \A a \in DOMAIN inner : /\ inner[a].parent \in Ptr
                                      /\ inner[a].child \in [Byte -> Nodes \cup {Null}]
           /\ \A a \in DOMAIN leaf : leaf[a].parent \in Ptr /\ leaf[a].value \in Values
<1>1. \A a \in Nodes : a \in Addr /\ Len(a.path) <= KeyLen /\ (a \in DOMAIN leaf <=> a.kind = "leaf")
  BY DEF Heap, WellHeap, Nodes
<1>2. \A a \in Nodes : /\ a.tree \in Trees /\ a.path \in Seq(Byte)
                       /\ a.kind \in {"inner", "leaf"}
  BY <1>1 DEF Addr
<1>3. \A a \in Nodes : Len(a.path) \in 0..KeyLen
  <2> SUFFICES ASSUME NEW a \in Nodes  PROVE Len(a.path) \in 0..KeyLen
    OBVIOUS
  <2>1. Len(a.path) \in Nat /\ Len(a.path) <= KeyLen /\ KeyLen \in Nat
    BY <1>1, <1>2, KeyShape
  <2> QED
    BY <2>1
<1>4. \A a \in DOMAIN leaf : a \in Nodes /\ a.kind = "leaf"
  BY <1>1 DEF Nodes
<1>5. Null \notin Nodes
  BY <1>2 DEF Null
<1>6. \A a \in DOMAIN inner : inner[a] \in [parent : Ptr, child : [Byte -> Nodes \cup {Null}]]
  BY DEF Heap, WellHeap, Nodes
<1>7. \A a \in DOMAIN leaf : leaf[a] \in [parent : Ptr, value : Values]
  BY DEF Heap, WellHeap, Nodes
<1>8. \A a \in DOMAIN inner : a \in Nodes /\ a \notin DOMAIN leaf
  <2>1. DOMAIN inner \cap DOMAIN leaf = {}
    BY DEF Heap, WellHeap, Nodes
  <2> QED
    BY <2>1 DEF Nodes
<1>9. \A a \in DOMAIN inner : a.kind = "inner"
  BY <1>1, <1>2, <1>8
<1> QED
  BY <1>2, <1>3, <1>4, <1>5, <1>6, <1>7, <1>8, <1>9 DEF Nodes

LEMMA NullReach ==
    ASSUME Heap
    PROVE  Reach(Null) = {}
<1>1. {Null} \cap DOMAIN inner = {}
  BY HeapFacts
<1>2. Reach(Null) \subseteq {Null}
  BY <1>1, ReachStays
<1>3. Null \notin Reach(Null)
  BY ReachLevels
<1> QED
  BY <1>2, <1>3

\* A traversal from the root of a tree comes to the nodes of the tree.
LEMMA TreeIsOwn ==
    ASSUME Heap, NEW r, Joined(r)
    PROVE  Reach(r) = Own(r.tree)
<1>1. r \in Nodes /\ r \in Own(r.tree) /\ Null \notin Own(r.tree)
  BY HeapFacts DEF Joined, JoinedIn, Own, OwnIn, Nodes
<1>2. \A x \in Own(r.tree) \cap DOMAIN inner : Range(inner[x].child) \subseteq Own(r.tree) \cup {Null}
  <2> SUFFICES ASSUME NEW x \in Own(r.tree) \cap DOMAIN inner, NEW y \in Range(inner[x].child)
               PROVE  y \in Own(r.tree) \cup {Null}
    OBVIOUS
  <2>1. x.tree = r.tree /\ inner[x].child \in [Byte -> Nodes \cup {Null}]
    BY HeapFacts DEF Own, OwnIn, Nodes
  <2>2. PICK b \in Byte : y = inner[x].child[b]
    BY <2>1 DEF Range
  <2>3. y # Null => Fits(x, b, y)
    BY <2>2 DEF Heap, WellHeap
  <2> QED
    BY <2>1, <2>2, <2>3 DEF Own, OwnIn, Nodes, Fits
<1>3. \A y \in Own(r.tree) : Len(y.path) \in 0..KeyLen
  BY HeapFacts DEF Own, OwnIn, Nodes
<1>4. \A y \in Own(r.tree) \ {r} : \E x \in Own(r.tree) \cap DOMAIN inner :
         y \in Range(inner[x].child) /\ Len(x.path) < Len(y.path)
  <2> SUFFICES ASSUME NEW y \in Own(r.tree) \ {r}
               PROVE  \E x \in Own(r.tree) \cap DOMAIN inner :
                         y \in Range(inner[x].child) /\ Len(x.path) < Len(y.path)
    OBVIOUS
  <2>1. PICK x : x = ParentOf(y)
    OBVIOUS
  <2>2. x \in DOMAIN inner /\ \E b \in Byte : inner[x].child[b] = y
    BY <2>1 DEF Joined, JoinedIn, Own, ParentOf, Par
  <2>3. PICK b \in Byte : inner[x].child[b] = y
    BY <2>2
  <2>4. inner[x].child \in [Byte -> Nodes \cup {Null}] /\ y # Null /\ x \in Nodes
    BY <1>1, <2>2, HeapFacts
  <2>5. Fits(x, b, y)
    BY <2>2, <2>3, <2>4 DEF Heap, WellHeap
  <2>6. y \in Range(inner[x].child)
    BY <2>3, <2>4 DEF Range
  <2> QED
    BY <2>2, <2>4, <2>5, <2>6 DEF Own, OwnIn, Nodes, Fits
<1>5. Reach(r) \subseteq Own(r.tree)
  BY <1>1, <1>2, ReachStays
<1>6. Own(r.tree) \subseteq Reach(r)
  BY <1>1, <1>3, <1>4, ReachCovers
<1> QED
  BY <1>5, <1>6

-----------------------------------------------------------------------------
(* Prefixes.                                                               *)

LEMMA PrefixMeans ==
    ASSUME NEW s \in Seq(Byte), NEW t \in Seq(Byte)
    PROVE  IsPrefix(s, t) <=> Len(s) <= Len(t) /\ \A i \in 1..Len(s) : s[i] = t[i]
<1>1. Len(s) \in Nat /\ Len(t) \in Nat
  OBVIOUS
<1>2. CASE Len(s) <= Len(t)
  <2>1. /\ SubSeq(s, 1, Len(s)) = [i \in 1..Len(s) |-> s[i]]
        /\ SubSeq(t, 1, Len(s)) = [i \in 1..Len(s) |-> t[i]]
    BY <1>1, <1>2
  <2> QED
    BY <1>2, <2>1 DEF IsPrefix
<1>3. CASE ~ (Len(s) <= Len(t))
  BY <1>3 DEF IsPrefix
<1> QED
  BY <1>2, <1>3

LEMMA SameSeq ==
    ASSUME NEW s \in Seq(Byte), NEW t \in Seq(Byte), IsPrefix(s, t), Len(t) <= Len(s)
    PROVE  s = t
<1>1. Len(s) \in Nat /\ Len(t) \in Nat /\ Len(s) <= Len(t) /\ \A i \in 1..Len(s) : s[i] = t[i]
  BY PrefixMeans
<1>2. Len(s) = Len(t)
  BY <1>1
<1> QED
  BY <1>1, <1>2

LEMMA PrefixFacts ==
    ASSUME NEW s \in Seq(Byte), NEW t \in Seq(Byte)
    PROVE  /\ IsPrefix(s, s) /\ IsPrefix(<<>>, s)
           /\ IsStrictPrefix(s, t) <=> IsPrefix(s, t) /\ Len(s) < Len(t)
<1>1. IsPrefix(s, s)
  BY PrefixMeans
<1>2. IsPrefix(<<>>, s)
  <2>1. PICK e : e = <<>>
    OBVIOUS
  <2>2. e \in Seq(Byte) /\ Len(e) = 0 /\ Len(s) \in Nat
    BY <2>1
  <2>3. Len(e) <= Len(s) /\ \A i \in 1..Len(e) : e[i] = s[i]
    BY <2>2
  <2> QED
    BY <2>1, <2>2, <2>3, PrefixMeans
<1>3. Len(s) \in Nat /\ Len(t) \in Nat
  OBVIOUS
<1>4. IsStrictPrefix(s, t) <=> IsPrefix(s, t) /\ Len(s) < Len(t)
  <2>1. IsStrictPrefix(s, t) <=> IsPrefix(s, t) /\ s # t
    BY DEF IsStrictPrefix
  <2>2. IsPrefix(s, t) => Len(s) <= Len(t)
    BY PrefixMeans
  <2>3. IsPrefix(s, t) /\ Len(t) <= Len(s) => s = t
    BY SameSeq
  <2> QED
    BY <1>3, <2>1, <2>2, <2>3
<1> QED
  BY <1>1, <1>2, <1>4

LEMMA PrefixChain ==
    ASSUME NEW s \in Seq(Byte), NEW t \in Seq(Byte), NEW u \in Seq(Byte)
    PROVE  /\ IsPrefix(s, t) /\ IsPrefix(t, u) => IsPrefix(s, u)
           /\ IsPrefix(s, u) /\ IsPrefix(t, u) /\ Len(s) <= Len(t) => IsPrefix(s, t)
<1>1. Len(s) \in Nat /\ Len(t) \in Nat /\ Len(u) \in Nat
  OBVIOUS
<1>2. ASSUME IsPrefix(s, t), IsPrefix(t, u)  PROVE IsPrefix(s, u)
  <2>1. Len(s) <= Len(t) /\ Len(t) <= Len(u)
    BY <1>2, PrefixMeans
  <2>2. (\A i \in 1..Len(s) : s[i] = t[i]) /\ (\A i \in 1..Len(t) : t[i] = u[i])
    BY <1>2, PrefixMeans
  <2>3. Len(s) <= Len(u) /\ \A i \in 1..Len(s) : s[i] = u[i]
    BY <1>1, <2>1, <2>2
  <2> QED
    BY <2>3, PrefixMeans
<1>3. ASSUME IsPrefix(s, u), IsPrefix(t, u), Len(s) <= Len(t)  PROVE IsPrefix(s, t)
  <2>1. (\A i \in 1..Len(s) : s[i] = u[i]) /\ (\A i \in 1..Len(t) : t[i] = u[i])
    BY <1>3, PrefixMeans
  <2>2. \A i \in 1..Len(s) : s[i] = t[i]
    BY <1>1, <1>3, <2>1
  <2> QED
    BY <1>3, <2>2, PrefixMeans
<1> QED
  BY <1>2, <1>3

LEMMA LongerPrefix ==
    ASSUME NEW s \in Seq(Byte), NEW u \in Seq(Byte), NEW b \in Byte
    PROVE  /\ Append(s, b) \in Seq(Byte) /\ Len(Append(s, b)) = Len(s) + 1
           /\ IsPrefix(Append(s, b), u) <=> /\ IsPrefix(s, u) /\ Len(s) < Len(u)
                                            /\ u[Len(s) + 1] = b
<1> DEFINE t == Append(s, b)
<1>1. /\ t \in Seq(Byte) /\ Len(t) = Len(s) + 1 /\ t[Len(s) + 1] = b
      /\ \A i \in 1..Len(s) : t[i] = s[i]
      /\ Len(s) \in Nat /\ Len(u) \in Nat
  OBVIOUS
<1> HIDE DEF t
<1>2. IsPrefix(t, u) <=> Len(t) <= Len(u) /\ \A i \in 1..Len(t) : t[i] = u[i]
  BY <1>1, PrefixMeans
<1>3. IsPrefix(s, u) <=> Len(s) <= Len(u) /\ \A i \in 1..Len(s) : s[i] = u[i]
  BY <1>1, PrefixMeans
<1>4. ASSUME IsPrefix(t, u)  PROVE IsPrefix(s, u) /\ Len(s) < Len(u) /\ u[Len(s) + 1] = b
  <2>1. Len(s) < Len(u) /\ Len(s) + 1 \in 1..Len(t)
    BY <1>1, <1>2, <1>4
  <2>2. \A i \in 1..Len(s) : i \in 1..Len(t)
    BY <1>1
  <2> QED
    BY <1>1, <1>2, <1>3, <1>4, <2>1, <2>2
<1>5. ASSUME IsPrefix(s, u), Len(s) < Len(u), u[Len(s) + 1] = b  PROVE IsPrefix(t, u)
  <2>1. \A i \in 1..Len(t) : i \in 1..Len(s) \/ i = Len(s) + 1
    BY <1>1
  <2> QED
    BY <1>1, <1>2, <1>3, <1>5, <2>1
<1> QED
  BY <1>1, <1>4, <1>5 DEF t

\* What two different keys have in common, and where they part.
LEMMA CommonPrefix ==
    ASSUME NEW k \in Keys, NEW l \in Keys, k # l
    PROVE  \E p \in Seq(Byte) :
              /\ Len(p) < KeyLen /\ IsPrefix(p, k) /\ IsPrefix(p, l)
              /\ p = SubSeq(k, 1, Len(p))
              /\ k[Len(p) + 1] # l[Len(p) + 1]
              /\ \A q \in Seq(Byte) : IsPrefix(q, k) /\ IsPrefix(q, l) => IsPrefix(q, p)
<1>1. k \in Seq(Byte) /\ l \in Seq(Byte) /\ Len(k) = KeyLen /\ Len(l) = KeyLen /\ KeyLen \in Nat
  BY KeyShape
<1> DEFINE D == {i \in 1..KeyLen : k[i] # l[i]}
<1>2. D # {}
  BY <1>1
<1>3. D \in SUBSET Nat
  BY <1>1
<1>4. PICK m \in D : \A x \in D : m =< x
  BY <1>2, <1>3, MinOfBytes
<1>5. m \in 1..KeyLen /\ k[m] # l[m]
  OBVIOUS
<1>6. \A i \in 1..(m - 1) : k[i] = l[i]
  <2> SUFFICES ASSUME NEW i \in 1..(m - 1)  PROVE k[i] = l[i]
    OBVIOUS
  <2>1. i \in 1..KeyLen /\ ~ (m =< i)
    BY <1>1, <1>5
  <2>2. i \notin D
    BY <1>4, <2>1
  <2> QED
    BY <2>1, <2>2
<1> HIDE DEF D
<1> DEFINE p == SubSeq(k, 1, m - 1)
<1>7. /\ p \in Seq(Byte) /\ Len(p) = m - 1 /\ \A i \in 1..(m - 1) : p[i] = k[i]
  BY <1>1, <1>5
<1>8. p = SubSeq(k, 1, Len(p))
  BY <1>7
<1> HIDE DEF p
<1>9. Len(p) < KeyLen /\ k[Len(p) + 1] # l[Len(p) + 1]
  BY <1>1, <1>5, <1>7
<1>10. IsPrefix(p, k) /\ IsPrefix(p, l)
  <2>1. Len(p) <= Len(k) /\ Len(p) <= Len(l)
    BY <1>1, <1>7, <1>9
  <2>2. \A i \in 1..Len(p) : p[i] = k[i] /\ p[i] = l[i]
    BY <1>6, <1>7
  <2>3. IsPrefix(p, k)
    BY <1>1, <1>7, <2>1, <2>2, PrefixMeans
  <2>4. IsPrefix(p, l)
    BY <1>1, <1>7, <2>1, <2>2, PrefixMeans
  <2> QED
    BY <2>3, <2>4
<1>11. ASSUME NEW q \in Seq(Byte), IsPrefix(q, k), IsPrefix(q, l)  PROVE IsPrefix(q, p)
  <2>1. Len(q) \in Nat /\ \A i \in 1..Len(q) : q[i] = k[i] /\ q[i] = l[i]
    BY <1>1, <1>11, PrefixMeans
  <2>2. Len(q) <= m - 1
    BY <1>5, <2>1
  <2>3. Len(q) <= Len(p)
    BY <1>7, <2>2
  <2> QED
    BY <1>1, <1>7, <1>10, <1>11, <2>3, PrefixChain
<1> QED
  BY <1>7, <1>8, <1>9, <1>10, <1>11

LEMMA TwoOf ==
    ASSUME NEW T, IsFiniteSet(T)
    PROVE  Cardinality(T) > 1 <=> \E x, y \in T : x # y
<1>1. Cardinality(T) \in Nat
  BY FS_CardinalityType
<1>2. ASSUME NEW x \in T
      PROVE  /\ IsFiniteSet(T \ {x}) /\ Cardinality(T \ {x}) = Cardinality(T) - 1
             /\ Cardinality(T \ {x}) = 0 <=> T \ {x} = {}
             /\ Cardinality(T \ {x}) \in Nat
  BY FS_RemoveElement, FS_EmptySet, FS_CardinalityType
<1>3. ASSUME Cardinality(T) > 1  PROVE \E x, y \in T : x # y
  <2>1. T # {}
    BY <1>3, FS_EmptySet
  <2>2. PICK x \in T : TRUE
    BY <2>1
  <2>3. PICK U : U = T \ {x}
    OBVIOUS
  <2>4. Cardinality(U) = Cardinality(T) - 1 /\ (Cardinality(U) = 0 <=> U = {})
    BY <1>2, <2>2, <2>3
  <2>5. U # {}
    BY <1>1, <1>3, <2>4
  <2> QED
    BY <2>3, <2>5
<1>4. ASSUME NEW x \in T, NEW y \in T, x # y  PROVE Cardinality(T) > 1
  <2>1. PICK U : U = T \ {x}
    OBVIOUS
  <2>2. Cardinality(U) = Cardinality(T) - 1 /\ (Cardinality(U) = 0 <=> U = {}) /\ Cardinality(U) \in Nat
    BY <1>2, <2>1
  <2>3. U # {}
    BY <1>4, <2>1
  <2> QED
    BY <1>1, <2>2, <2>3
<1> QED
  BY <1>3, <1>4

-----------------------------------------------------------------------------
(* The shape of a tree that is built from a set of keys.                   *)

Paths(S)    == InnerPaths(S) \cup S
Above(S, y) == {q \in InnerPaths(S) : IsStrictPrefix(q, y)}
Longest(A)  == CHOOSE q \in A : \A r \in A : Len(r) <= Len(q)

\* An inner node stands where two keys go together.
LEMMA InnerPathMeans ==
    ASSUME NEW S \in SUBSET Keys, NEW p \in InnerPaths(S)
    PROVE  /\ p \in Seq(Byte) /\ Len(p) \in Nat /\ Len(p) < KeyLen
           /\ \E k, l \in S : k # l /\ IsPrefix(p, k) /\ IsPrefix(p, l)
<1>1. PICK k \in S : \E d \in 0..(Len(k) - 1) : p = SubSeq(k, 1, d)
  BY DEF InnerPaths
<1>2. PICK d \in 0..(Len(k) - 1) : p = SubSeq(k, 1, d)
  BY <1>1
<1>3. k \in Seq(Byte) /\ Len(k) = KeyLen /\ KeyLen \in Nat
  BY KeyShape
<1>4. p \in Seq(Byte) /\ Len(p) = d
  BY <1>2, <1>3
<1>5. IF PathCompression THEN Cardinality(Branching(S, p)) > 1
                         ELSE Cardinality(Under(S, p)) > 1
  BY DEF InnerPaths
<1>6. CASE PathCompression
  <2>1. IsFiniteSet(Branching(S, p))
    BY FS_Subset, ShapeAssumption DEF Branching
  <2>2. PICK b, c \in Branching(S, p) : b # c
    BY <1>5, <1>6, <2>1, TwoOf
  <2>3. b \in Byte /\ c \in Byte /\ Under(S, Append(p, b)) # {} /\ Under(S, Append(p, c)) # {}
    BY DEF Branching
  <2>4. PICK x \in S : IsPrefix(Append(p, b), x)
    BY <2>3 DEF Under
  <2>5. PICK y \in S : IsPrefix(Append(p, c), y)
    BY <2>3 DEF Under
  <2>6. x \in Seq(Byte) /\ y \in Seq(Byte)
    BY KeyShape
  <2>7. /\ IsPrefix(p, x) /\ x[Len(p) + 1] = b
        /\ IsPrefix(p, y) /\ y[Len(p) + 1] = c
    BY <1>4, <2>3, <2>4, <2>5, <2>6, LongerPrefix
  <2> QED
    BY <1>2, <1>3, <1>4, <2>2, <2>7
<1>7. CASE ~ PathCompression
  <2>1. IsFiniteSet(Under(S, p))
    <3>1. IsFiniteSet(S)
      BY FS_Subset, ShapeAssumption
    <3> QED
      BY <3>1, FS_Subset DEF Under
  <2>2. PICK x, y \in Under(S, p) : x # y
    BY <1>5, <1>7, <2>1, TwoOf
  <2> QED
    BY <1>2, <1>3, <1>4, <2>2 DEF Under
<1> QED
  BY <1>6, <1>7

LEMMA PathShape ==
    ASSUME NEW S \in SUBSET Keys, NEW y \in Paths(S)
    PROVE  y \in Seq(Byte) /\ Len(y) \in 0..KeyLen /\ (Len(y) = KeyLen <=> y \in S)
<1>1. KeyLen \in Nat /\ \A k \in S : k \in Seq(Byte) /\ Len(k) = KeyLen
  BY KeyShape
<1>2. CASE y \in S
  BY <1>1, <1>2
<1>3. CASE y \in InnerPaths(S)
  <2>1. y \in Seq(Byte) /\ Len(y) \in Nat /\ Len(y) < KeyLen
    BY <1>3, InnerPathMeans
  <2> QED
    BY <1>1, <2>1
<1> QED
  BY <1>2, <1>3 DEF Paths

\* Where two keys part there is an inner node.
LEMMA PartingNode ==
    ASSUME NEW S \in SUBSET Keys, NEW k \in S, NEW l \in S, k # l
    PROVE  \E p \in InnerPaths(S) :
              /\ IsPrefix(p, k) /\ IsPrefix(p, l)
              /\ \A q \in Seq(Byte) : IsPrefix(q, k) /\ IsPrefix(q, l) => IsPrefix(q, p)
<1>1. PICK p \in Seq(Byte) :
         /\ Len(p) < KeyLen /\ IsPrefix(p, k) /\ IsPrefix(p, l)
         /\ p = SubSeq(k, 1, Len(p))
         /\ k[Len(p) + 1] # l[Len(p) + 1]
         /\ \A q \in Seq(Byte) : IsPrefix(q, k) /\ IsPrefix(q, l) => IsPrefix(q, p)
  BY CommonPrefix
<1>2. /\ k \in Seq(Byte) /\ Len(k) = KeyLen /\ KeyLen \in Nat
      /\ l \in Seq(Byte) /\ Len(l) = KeyLen
  BY KeyShape
<1>3. Len(p) \in 0..(Len(k) - 1) /\ Len(p) + 1 \in 1..KeyLen
  BY <1>1, <1>2
<1>4. p \in UNION {{SubSeq(x, 1, d) : d \in 0..(Len(x) - 1)} : x \in S}
  <2>1. PICK T : T = {SubSeq(k, 1, e) : e \in 0..(Len(k) - 1)}
    OBVIOUS
  <2>2. PICK n \in 0..(Len(k) - 1) : p = SubSeq(k, 1, n)
    BY <1>1, <1>3
  <2>3. p \in T
    BY <2>1, <2>2
  <2>4. T \in {{SubSeq(x, 1, d) : d \in 0..(Len(x) - 1)} : x \in S}
    BY <2>1
  <2> QED
    BY <2>3, <2>4
<1>5. Cardinality(Branching(S, p)) > 1
  <2>1. IsFiniteSet(Branching(S, p))
    BY FS_Subset, ShapeAssumption DEF Branching
  <2>2. k[Len(p) + 1] \in Byte /\ l[Len(p) + 1] \in Byte
    BY <1>2, <1>3
  <2>3. IsPrefix(Append(p, k[Len(p) + 1]), k) /\ IsPrefix(Append(p, l[Len(p) + 1]), l)
    BY <1>1, <1>2, <2>2, LongerPrefix
  <2>4. k[Len(p) + 1] \in Branching(S, p) /\ l[Len(p) + 1] \in Branching(S, p)
    BY <2>2, <2>3 DEF Branching, Under
  <2> QED
    BY <1>1, <2>1, <2>4, TwoOf
<1>6. Cardinality(Under(S, p)) > 1
  <2>1. IsFiniteSet(Under(S, p))
    <3>1. IsFiniteSet(S)
      BY FS_Subset, ShapeAssumption
    <3> QED
      BY <3>1, FS_Subset DEF Under
  <2>2. k \in Under(S, p) /\ l \in Under(S, p)
    BY <1>1 DEF Under
  <2> QED
    BY <2>1, <2>2, TwoOf
<1>7. p \in InnerPaths(S)
  BY <1>4, <1>5, <1>6 DEF InnerPaths
<1> QED
  BY <1>1, <1>7

\* Of the nodes below q the top one is above all others.
LEMMA TopIsAbove ==
    ASSUME NEW S \in SUBSET Keys, NEW q \in Seq(Byte), Under(S, q) # {}
    PROVE  /\ Top(S, q) \in Paths(S) /\ IsPrefix(q, Top(S, q))
           /\ \A y \in Paths(S) : IsPrefix(q, y) => IsPrefix(Top(S, q), y)
<1>1. IsFiniteSet(Under(S, q)) /\ Cardinality(Under(S, q)) \in Nat /\ Cardinality(Under(S, q)) # 0
  <2>1. IsFiniteSet(S)
    BY FS_Subset, ShapeAssumption
  <2>2. IsFiniteSet(Under(S, q))
    BY <2>1, FS_Subset DEF Under
  <2> QED
    BY <2>2, FS_EmptySet, FS_CardinalityType
<1>2. PICK x : x = Top(S, q)
  OBVIOUS
<1>3. CASE Cardinality(Under(S, q)) = 1
  <2>1. PICK k : Under(S, q) = {k}
    BY <1>1, <1>3, FS_Singleton
  <2>2. k \in S /\ IsPrefix(q, k) /\ \A l \in S : IsPrefix(q, l) => l = k
    BY <2>1 DEF Under
  <2>3. x = CHOOSE l \in S : IsPrefix(q, l)
    BY <1>2, <1>3 DEF Top
  <2>4. x = k
    BY <2>2, <2>3
  <2>5. ASSUME NEW y \in Paths(S), IsPrefix(q, y)  PROVE IsPrefix(k, y)
    <3>1. k \in Seq(Byte) /\ y \in Seq(Byte)
      BY <2>2, KeyShape, PathShape
    <3>2. CASE y \in S
      BY <2>2, <2>5, <3>1, <3>2, PrefixFacts
    <3>3. CASE y \in InnerPaths(S)
      <4>1. PICK l, m \in S : l # m /\ IsPrefix(y, l) /\ IsPrefix(y, m)
        BY <3>3, InnerPathMeans
      <4>2. l \in Seq(Byte) /\ m \in Seq(Byte)
        BY KeyShape
      <4>3. IsPrefix(q, l) /\ IsPrefix(q, m)
        BY <2>5, <3>1, <4>1, <4>2, PrefixChain
      <4> QED
        BY <2>2, <4>1, <4>3
    <3> QED
      BY <3>2, <3>3 DEF Paths
  <2> QED
    BY <1>2, <2>2, <2>4, <2>5 DEF Paths
<1>4. CASE Cardinality(Under(S, q)) # 1
  <2>1. PICK k, l \in Under(S, q) : k # l
    BY <1>1, <1>4, TwoOf
  <2>2. k \in S /\ l \in S /\ IsPrefix(q, k) /\ IsPrefix(q, l)
    BY DEF Under
  <2> DEFINE I == {p \in InnerPaths(S) : IsPrefix(q, p)}
             N == {Len(p) : p \in I}
  <2>3. I # {} /\ \A p \in I : p \in Seq(Byte) /\ Len(p) \in Nat
    BY <2>1, <2>2, PartingNode, InnerPathMeans
  <2>4. N \in SUBSET Nat /\ N # {}
    BY <2>3
  <2>5. PICK n \in N : \A y \in N : n =< y
    BY <2>4, MinOfBytes
  <2>6. \E p \in I : \A r \in I : Len(p) <= Len(r)
    BY <2>5
  <2>7. x = CHOOSE p \in InnerPaths(S) :
               IsPrefix(q, p) /\ \A r \in InnerPaths(S) : IsPrefix(q, r) => Len(p) <= Len(r)
    BY <1>2, <1>4 DEF Top
  <2>8. /\ x \in InnerPaths(S) /\ IsPrefix(q, x)
        /\ \A r \in InnerPaths(S) : IsPrefix(q, r) => Len(x) <= Len(r)
    BY <2>6, <2>7
  <2> HIDE DEF I, N
  <2>9. x \in Seq(Byte)
    BY <2>8, InnerPathMeans
  <2>10. ASSUME NEW z \in S, IsPrefix(q, z)  PROVE IsPrefix(x, z)
    <3>1. PICK w \in S : IsPrefix(x, w)
      BY <2>8, InnerPathMeans
    <3>2. z \in Seq(Byte) /\ w \in Seq(Byte)
      BY KeyShape
    <3>3. CASE z = w
      BY <3>1, <3>3
    <3>4. CASE z # w
      <4>1. PICK p \in InnerPaths(S) :
              /\ IsPrefix(p, z) /\ IsPrefix(p, w)
              /\ \A r \in Seq(Byte) : IsPrefix(r, z) /\ IsPrefix(r, w) => IsPrefix(r, p)
        BY <3>4, PartingNode
      <4>2. p \in Seq(Byte)
        BY InnerPathMeans
      <4>3. IsPrefix(q, w)
        BY <2>8, <2>9, <3>1, <3>2, PrefixChain
      <4>4. IsPrefix(q, p)
        BY <2>10, <4>1, <4>3
      <4>5. IsPrefix(x, p)
        BY <2>8, <2>9, <3>1, <3>2, <4>1, <4>2, <4>4, PrefixChain
      <4> QED
        BY <2>9, <3>2, <4>1, <4>2, <4>5, PrefixChain
    <3> QED
      BY <3>3, <3>4
  <2>11. ASSUME NEW y \in Paths(S), IsPrefix(q, y)  PROVE IsPrefix(x, y)
    <3>1. CASE y \in S
      BY <2>10, <2>11, <3>1
    <3>2. CASE y \in InnerPaths(S)
      <4>1. y \in Seq(Byte) /\ \E z \in S : IsPrefix(y, z)
        BY <3>2, InnerPathMeans
      <4>2. PICK z \in S : IsPrefix(y, z)
        BY <4>1
      <4>3. z \in Seq(Byte)
        BY KeyShape
      <4>4. IsPrefix(q, z)
        BY <2>11, <4>1, <4>2, <4>3, PrefixChain
      <4>5. IsPrefix(x, z) /\ Len(x) <= Len(y)
        BY <2>8, <2>10, <2>11, <3>2, <4>4
      <4> QED
        BY <2>9, <4>1, <4>2, <4>3, <4>5, PrefixChain
    <3> QED
      BY <3>1, <3>2 DEF Paths
  <2> QED
    BY <1>2, <2>8, <2>11 DEF Paths
<1> QED
  BY <1>3, <1>4

\* Of the nodes above y one is below all others.
LEMMA LongestAbove ==
    ASSUME NEW S \in SUBSET Keys, NEW y \in Paths(S), Above(S, y) # {}
    PROVE  /\ Longest(Above(S, y)) \in Above(S, y)
           /\ \A r \in Above(S, y) : Len(r) <= Len(Longest(Above(S, y)))
<1> DEFINE N == {n \in Nat : \E r \in Above(S, y) : n = KeyLen - Len(r)}
<1>1. \A r \in Above(S, y) : Len(r) \in Nat /\ Len(r) < KeyLen
  BY InnerPathMeans DEF Above
<1>2. KeyLen \in Nat
  BY KeyShape
<1>3. \A r \in Above(S, y) : KeyLen - Len(r) \in N
  <2>1. \A r \in Above(S, y) : KeyLen - Len(r) \in Nat
    BY <1>1, <1>2
  <2> QED
    BY <2>1
<1>4. N \in SUBSET Nat /\ N # {}
  BY <1>3
<1>5. PICK n \in N : \A m \in N : n =< m
  BY <1>4, MinOfBytes
<1>6. PICK r \in Above(S, y) : n = KeyLen - Len(r)
  OBVIOUS
<1> HIDE DEF N
<1>7. \A z \in Above(S, y) : Len(z) <= Len(r)
  BY <1>1, <1>2, <1>3, <1>5, <1>6
<1> QED
  BY <1>6, <1>7 DEF Longest

\* The nodes above y are those it hangs from, one below the other.
LEMMA AboveFacts ==
    ASSUME NEW S \in SUBSET Keys, NEW y \in Paths(S), NEW r \in Above(S, y)
    PROVE  /\ r \in InnerPaths(S) /\ r \in Paths(S) /\ r \in Seq(Byte) /\ y \in Seq(Byte)
           /\ Len(r) \in Nat /\ Len(y) \in Nat
           /\ IsPrefix(r, y) /\ Len(r) < Len(y)
<1>1. r \in InnerPaths(S) /\ IsStrictPrefix(r, y)
  BY DEF Above
<1>2. r \in Seq(Byte) /\ y \in Seq(Byte)
  BY <1>1, InnerPathMeans, PathShape
<1>3. Len(r) \in Nat /\ Len(y) \in Nat
  BY <1>2
<1> QED
  BY <1>1, <1>2, <1>3, PrefixFacts DEF Paths

LEMMA IsAbove ==
    ASSUME NEW S \in SUBSET Keys, NEW y \in Paths(S), NEW r \in Paths(S),
           IsPrefix(r, y), r # y
    PROVE  r \in Above(S, y)
<1>1. /\ r \in Seq(Byte) /\ y \in Seq(Byte) /\ KeyLen \in Nat
      /\ Len(r) \in 0..KeyLen /\ Len(y) \in 0..KeyLen /\ (Len(r) = KeyLen <=> r \in S)
  BY PathShape, KeyShape
<1>2. IsStrictPrefix(r, y)
  BY DEF IsStrictPrefix
<1>3. Len(r) < Len(y)
  BY <1>1, <1>2, PrefixFacts
<1>4. r \notin S
  BY <1>1, <1>3
<1> QED
  BY <1>2, <1>4 DEF Above, Paths

\* The node in slot b of p hangs from p.
LEMMA ChildHangs ==
    ASSUME NEW S \in SUBSET Keys, NEW p \in InnerPaths(S), NEW b \in Branching(S, p)
    PROVE  LET x == Top(S, Append(p, b))
           IN  /\ x \in Paths(S) /\ IsPrefix(p, x) /\ Len(p) < Len(x) /\ x[Len(p) + 1] = b
               /\ p \in Above(S, x)
               /\ Longest(Above(S, x)) = p
<1>1. PICK x : x = Top(S, Append(p, b))
  OBVIOUS
<1>2. b \in Byte /\ Under(S, Append(p, b)) # {}
  BY DEF Branching
<1>3. p \in Seq(Byte) /\ Len(p) \in Nat /\ p \in Paths(S)
  BY InnerPathMeans DEF Paths
<1>4. PICK q : q = Append(p, b)
  OBVIOUS
<1>5. q \in Seq(Byte) /\ Len(q) = Len(p) + 1
  BY <1>2, <1>3, <1>4, LongerPrefix
<1>6. /\ x \in Paths(S) /\ IsPrefix(q, x)
      /\ \A y \in Paths(S) : IsPrefix(q, y) => IsPrefix(x, y)
  BY <1>1, <1>2, <1>4, <1>5, TopIsAbove
<1>7. x \in Seq(Byte) /\ Len(x) \in Nat
  BY <1>6, PathShape
<1>8. IsPrefix(p, x) /\ Len(p) < Len(x) /\ x[Len(p) + 1] = b
  BY <1>2, <1>3, <1>4, <1>6, <1>7, LongerPrefix
<1>9. p \in Above(S, x)
  BY <1>3, <1>6, <1>8, IsAbove
<1>10. ASSUME NEW r \in Above(S, x)  PROVE Len(r) <= Len(p)
  <2>1. /\ r \in Paths(S) /\ r \in Seq(Byte) /\ Len(r) \in Nat
        /\ IsPrefix(r, x) /\ Len(r) < Len(x)
    BY <1>6, AboveFacts
  <2>2. CASE Len(q) <= Len(r)
    <3>1. IsPrefix(q, r)
      BY <1>5, <1>6, <1>7, <2>1, <2>2, PrefixChain
    <3>2. IsPrefix(x, r)
      BY <1>6, <2>1, <3>1
    <3>3. Len(x) <= Len(r)
      BY <1>7, <2>1, <3>2, PrefixMeans
    <3> QED
      BY <1>7, <2>1, <3>3
  <2> QED
    BY <1>3, <1>5, <2>1, <2>2
<1>11. PICK m : m = Longest(Above(S, x))
  OBVIOUS
<1>12. m \in Above(S, x) /\ Len(p) <= Len(m)
  BY <1>6, <1>9, <1>11, LongestAbove
<1>13. m \in Seq(Byte) /\ IsPrefix(m, x) /\ Len(m) <= Len(p) /\ Len(m) \in Nat
  BY <1>6, <1>10, <1>12, AboveFacts
<1>14. IsPrefix(p, m)
  BY <1>3, <1>7, <1>8, <1>12, <1>13, PrefixChain
<1>15. m = p
  BY <1>3, <1>13, <1>14, SameSeq
<1> QED
  BY <1>1, <1>6, <1>8, <1>9, <1>11, <1>15

\* The top node of all hangs from none, and any other is in the slot of the
\* one it hangs from.
LEMMA TopOfAll ==
    ASSUME NEW S \in SUBSET Keys, S # {}
    PROVE  /\ Top(S, <<>>) \in Paths(S)
           /\ \A y \in Paths(S) : Above(S, y) = {} <=> y = Top(S, <<>>)
<1>1. PICK e : e = <<>>
  OBVIOUS
<1>2. e \in Seq(Byte) /\ \A s \in Seq(Byte) : IsPrefix(e, s)
  BY <1>1, PrefixFacts
<1>3. PICK x : x = Top(S, e)
  OBVIOUS
<1>4. Under(S, e) # {}
  <2>1. \A k \in S : k \in Seq(Byte)
    BY KeyShape
  <2> QED
    BY <1>2, <2>1 DEF Under
<1>5. x \in Paths(S) /\ \A y \in Paths(S) : IsPrefix(x, y)
  <2>1. \A y \in Paths(S) : IsPrefix(e, y)
    BY <1>2, PathShape
  <2> QED
    BY <1>2, <1>3, <1>4, <2>1, TopIsAbove
<1>6. ASSUME NEW y \in Paths(S), Above(S, y) = {}  PROVE y = x
  BY <1>5, <1>6, IsAbove
<1>7. ASSUME NEW r \in Above(S, x)  PROVE FALSE
  <2>1. r \in Paths(S) /\ r \in Seq(Byte) /\ x \in Seq(Byte)
        /\ Len(r) < Len(x) /\ Len(r) \in Nat /\ Len(x) \in Nat
    BY <1>5, AboveFacts
  <2>2. Len(x) <= Len(r)
    BY <1>5, <2>1, PrefixMeans
  <2> QED
    BY <2>1, <2>2
<1> QED
  BY <1>1, <1>3, <1>5, <1>6, <1>7

LEMMA InItsSlot ==
    ASSUME NEW S \in SUBSET Keys, NEW y \in Paths(S), Above(S, y) # {}
    PROVE  LET p == Longest(Above(S, y))
           IN  /\ p \in InnerPaths(S)
               /\ \E b \in Branching(S, p) : Top(S, Append(p, b)) = y
<1>1. PICK p : p = Longest(Above(S, y))
  OBVIOUS
<1>2. p \in Above(S, y) /\ \A r \in Above(S, y) : Len(r) <= Len(p)
  BY <1>1, LongestAbove
<1>3. /\ p \in InnerPaths(S) /\ p \in Seq(Byte) /\ y \in Seq(Byte)
      /\ Len(p) \in Nat /\ Len(y) \in Nat /\ IsPrefix(p, y) /\ Len(p) < Len(y)
  BY <1>2, AboveFacts
<1>4. PICK b : b = y[Len(p) + 1]
  OBVIOUS
<1>5. b \in Byte
  BY <1>3, <1>4
<1>6. PICK q : q = Append(p, b)
  OBVIOUS
<1>7. q \in Seq(Byte) /\ Len(q) = Len(p) + 1 /\ IsPrefix(q, y)
  BY <1>3, <1>4, <1>5, <1>6, LongerPrefix
<1>8. PICK k \in S : IsPrefix(y, k)
  <2>1. CASE y \in S
    BY <1>3, <2>1, PrefixFacts
  <2>2. CASE y \in InnerPaths(S)
    BY <2>2, InnerPathMeans
  <2> QED
    BY <2>1, <2>2 DEF Paths
<1>9. IsPrefix(q, k)
  <2>1. k \in Seq(Byte)
    BY KeyShape
  <2> QED
    BY <1>3, <1>7, <1>8, <2>1, PrefixChain
<1>10. Under(S, q) # {}
  BY <1>9 DEF Under
<1>11. b \in Branching(S, p)
  BY <1>5, <1>6, <1>10 DEF Branching
<1>12. PICK x : x = Top(S, q)
  OBVIOUS
<1>13. x \in Paths(S) /\ IsPrefix(q, x) /\ IsPrefix(x, y)
  BY <1>7, <1>10, <1>12, TopIsAbove
<1>14. ASSUME x # y  PROVE FALSE
  <2>1. x \in Above(S, y)
    BY <1>13, <1>14, IsAbove
  <2>2. Len(x) <= Len(p)
    BY <1>2, <2>1
  <2>3. x \in Seq(Byte) /\ Len(x) \in Nat
    BY <1>13, PathShape
  <2>4. Len(q) <= Len(x)
    BY <1>7, <1>13, <2>3, PrefixMeans
  <2> QED
    BY <1>3, <1>7, <2>2, <2>3, <2>4
<1> QED
  BY <1>1, <1>3, <1>6, <1>11, <1>12, <1>14

\* The node that the one at path y hangs from.
HangsFrom(t, S, up, y) ==
    IF Above(S, y) = {} THEN up ELSE NodeAt(t, Longest(Above(S, y)))

ChildrenAt(t, S, p) ==
    [b \in Byte |-> IF b \in Branching(S, p) THEN NodeAt(t, Top(S, Append(p, b))) ELSE Null]

LEMMA NodeShape ==
    ASSUME NEW t, NEW S \in SUBSET Keys, NEW y \in Paths(S)
    PROVE  /\ NodeAt(t, y).tree = t /\ NodeAt(t, y).path = y
           /\ NodeAt(t, y).kind = IF y \in S THEN "leaf" ELSE "inner"
           /\ NodeAt(t, y) # Null
           /\ t \in Trees => NodeAt(t, y) \in Addr
<1>1. y \in Keys <=> y \in S
  <2>1. y \in Keys => Len(y) = KeyLen
    BY KeyShape
  <2> QED
    BY <2>1, PathShape
<1>2. y \in Seq(Byte)
  BY PathShape
<1> QED
  BY <1>1, <1>2 DEF NodeAt, Addr, Null

LEMMA BuiltInnerIs ==
    ASSUME NEW t, NEW S \in SUBSET Keys, NEW up
    PROVE  /\ DOMAIN BuiltInner(t, S, up) = {NodeAt(t, p) : p \in InnerPaths(S)}
           /\ \A p \in InnerPaths(S) :
                 LET n == BuiltInner(t, S, up)[NodeAt(t, p)]
                 IN  /\ n = [parent |-> n.parent, child |-> n.child]
                     /\ n.parent = HangsFrom(t, S, up, p) /\ n.child = ChildrenAt(t, S, p)
<1>1. DOMAIN BuiltInner(t, S, up) = {NodeAt(t, p) : p \in InnerPaths(S)}
  BY DEF BuiltInner
<1>2. ASSUME NEW p \in InnerPaths(S)
      PROVE  LET n == BuiltInner(t, S, up)[NodeAt(t, p)]
             IN  /\ n = [parent |-> n.parent, child |-> n.child]
                 /\ n.parent = HangsFrom(t, S, up, p) /\ n.child = ChildrenAt(t, S, p)
  <2>1. PICK a : a = NodeAt(t, p)
    OBVIOUS
  <2>2. a \in {NodeAt(t, q) : q \in InnerPaths(S)} /\ a.path = p
    BY <2>1 DEF NodeAt
  <2>3. BuiltInner(t, S, up)[a] =
           [parent |-> HangsFrom(t, S, up, a.path), child |-> ChildrenAt(t, S, a.path)]
    BY <2>2 DEF BuiltInner, HangsFrom, ChildrenAt, Above, Longest
  <2>4. PICK n : n = BuiltInner(t, S, up)[NodeAt(t, p)]
    OBVIOUS
  <2>5. n = [parent |-> HangsFrom(t, S, up, p), child |-> ChildrenAt(t, S, p)]
    BY <2>1, <2>2, <2>3, <2>4
  <2>6. /\ n = [parent |-> n.parent, child |-> n.child]
        /\ n.parent = HangsFrom(t, S, up, p) /\ n.child = ChildrenAt(t, S, p)
    BY <2>5
  <2> QED
    BY <2>4, <2>6
<1> QED
  BY <1>1, <1>2

LeavesFit(lf, t, R, up) ==
    /\ DOMAIN lf = {NodeAt(t, k) : k \in DOMAIN R}
    /\ \A k \in DOMAIN R :
          LET n == lf[NodeAt(t, k)]
          IN  /\ n = [parent |-> n.parent, value |-> n.value]
              /\ n.parent = HangsFrom(t, DOMAIN R, up, k) /\ n.value = R[k]

LEMMA BuiltLeavesAre ==
    ASSUME NEW t, NEW R, DOMAIN R \in SUBSET Keys, NEW up
    PROVE  LeavesFit(BuiltLeaves(t, R, up), t, R, up)
<1>1. DOMAIN BuiltLeaves(t, R, up) = {NodeAt(t, k) : k \in DOMAIN R}
  BY DEF BuiltLeaves
<1>2. ASSUME NEW k \in DOMAIN R
      PROVE  LET n == BuiltLeaves(t, R, up)[NodeAt(t, k)]
             IN  /\ n = [parent |-> n.parent, value |-> n.value]
                 /\ n.parent = HangsFrom(t, DOMAIN R, up, k) /\ n.value = R[k]
  <2>1. PICK a : a = NodeAt(t, k)
    OBVIOUS
  <2>2. a \in {NodeAt(t, l) : l \in DOMAIN R} /\ a.path = k
    BY <2>1 DEF NodeAt
  <2>3. PICK S : S = DOMAIN R
    OBVIOUS
  <2>4. {q \in InnerPaths(S) : IsPrefix(q, k)} = Above(S, k)
    <3>1. ASSUME NEW q \in InnerPaths(S)  PROVE q # k
      <4>1. Len(q) < KeyLen /\ Len(k) = KeyLen /\ Len(q) \in Nat /\ KeyLen \in Nat
        BY <2>3, InnerPathMeans, KeyShape
      <4> QED
        BY <4>1
    <3> QED
      BY <3>1 DEF Above, IsStrictPrefix
  <2>5. BuiltLeaves(t, R, up)[a] =
           [parent |-> IF {q \in InnerPaths(DOMAIN R) : IsPrefix(q, a.path)} = {} THEN up
                       ELSE NodeAt(t, Longest({q \in InnerPaths(DOMAIN R) : IsPrefix(q, a.path)})),
            value |-> R[a.path]]
    BY <2>2 DEF BuiltLeaves, Longest
  <2>6. PICK n : n = BuiltLeaves(t, R, up)[NodeAt(t, k)]
    OBVIOUS
  <2>7. PICK h : h = HangsFrom(t, DOMAIN R, up, k)
    OBVIOUS
  <2>8. n = [parent |-> h, value |-> R[k]]
    BY <2>1, <2>2, <2>3, <2>4, <2>5, <2>6, <2>7 DEF HangsFrom
  <2>9. n = [parent |-> n.parent, value |-> n.value] /\ n.parent = h /\ n.value = R[k]
    BY <2>8
  <2> QED
    BY <2>6, <2>7, <2>9
<1> QED
  BY <1>1, <1>2 DEF LeavesFit

\* The nodes of in and lf are those of tree t, with r on top of it below up.
TreeOf(in, lf, t, r, up) ==
    LET all == DOMAIN in \cup DOMAIN lf
    IN  /\ DOMAIN in \cap DOMAIN lf = {}
        /\ \A a \in all : /\ a \in Addr /\ a.tree = t /\ a = NodeAt(a.tree, a.path)
                          /\ (a \in DOMAIN lf <=> a.kind = "leaf")
                          /\ Len(a.path) <= KeyLen
        /\ in \in [DOMAIN in -> [parent : Ptr, child : [Byte -> all \cup {Null}]]]
        /\ lf \in [DOMAIN lf -> [parent : Ptr, value : Values]]
        /\ \A a \in DOMAIN in, b \in Byte : in[a].child[b] # Null =>
              Fits(a, b, in[a].child[b]) /\ Par(in, lf, in[a].child[b]) = a
        /\ r \in all /\ Par(in, lf, r) = up
        /\ \A a \in all \ {r} : /\ Par(in, lf, a) \in DOMAIN in
                                /\ \E b \in Byte : in[Par(in, lf, a)].child[b] = a

LEMMA BuiltIsTree ==
    ASSUME NEW t \in Trees, NEW R \in Ranges, NEW up \in DummyAddr
    PROVE  /\ TreeOf(BuiltInner(t, DOMAIN R, up), BuiltLeaves(t, R, up), t,
                     NodeAt(t, Top(DOMAIN R, <<>>)), up)
           /\ Cardinality(DOMAIN BuiltLeaves(t, R, up)) = Cardinality(DOMAIN R)
           /\ Cardinality(DOMAIN R) \in Nat
<1>1. PICK S : S = DOMAIN R
  OBVIOUS
<1>2. S \in SUBSET Keys /\ S # {} /\ \A k \in S : R[k] \in Values
  BY <1>1, ShapeAssumption DEF Range
<1>3. PICK in : in = BuiltInner(t, S, up)
  OBVIOUS
<1>4. PICK lf : lf = BuiltLeaves(t, R, up)
  OBVIOUS
<1>5. PICK all : all = DOMAIN in \cup DOMAIN lf
  OBVIOUS
<1>6. DOMAIN in = {NodeAt(t, p) : p \in InnerPaths(S)}
  BY <1>2, <1>3, BuiltInnerIs
<1>26. \A p \in InnerPaths(S) :
          LET n == in[NodeAt(t, p)]
          IN  /\ n = [parent |-> n.parent, child |-> n.child]
              /\ n.parent = HangsFrom(t, S, up, p) /\ n.child = ChildrenAt(t, S, p)
  BY <1>2, <1>3, BuiltInnerIs
<1>28. LeavesFit(lf, t, R, up)
  <2>1. DOMAIN R \in SUBSET Keys
    BY <1>1, <1>2
  <2>2. LeavesFit(BuiltLeaves(t, R, up), t, R, up)
    BY <2>1, BuiltLeavesAre
  <2> QED
    BY <1>4, <2>2
<1>7. DOMAIN lf = {NodeAt(t, k) : k \in S}
  BY <1>1, <1>28 DEF LeavesFit
<1>27. \A k \in S :
          LET n == lf[NodeAt(t, k)]
          IN  /\ n = [parent |-> n.parent, value |-> n.value]
              /\ n.parent = HangsFrom(t, S, up, k) /\ n.value = R[k]
  BY <1>1, <1>28 DEF LeavesFit
<1>8. \A y \in Paths(S) : /\ NodeAt(t, y).tree = t /\ NodeAt(t, y).path = y
                          /\ NodeAt(t, y).kind = IF y \in S THEN "leaf" ELSE "inner"
                          /\ NodeAt(t, y) # Null
                          /\ NodeAt(t, y) \in Addr
  BY <1>2, NodeShape
<1>25. \A y \in InnerPaths(S) : y \notin S
  <2> SUFFICES ASSUME NEW y \in InnerPaths(S)  PROVE y \notin S
    OBVIOUS
  <2>1. y \in Paths(S) /\ Len(y) < KeyLen /\ Len(y) \in Nat /\ KeyLen \in Nat
    BY <1>2, InnerPathMeans, KeyShape DEF Paths
  <2>2. y \in S => Len(y) = KeyLen
    BY <1>2, <2>1, PathShape
  <2> QED
    BY <2>1, <2>2
<1>9. \A y \in Paths(S) : /\ NodeAt(t, y) \in all
                          /\ NodeAt(t, y) \in DOMAIN lf <=> y \in S
                          /\ NodeAt(t, y) \in DOMAIN in <=> y \in InnerPaths(S)
  <2> SUFFICES ASSUME NEW y \in Paths(S)
               PROVE  /\ NodeAt(t, y) \in all
                      /\ NodeAt(t, y) \in DOMAIN lf <=> y \in S
                      /\ NodeAt(t, y) \in DOMAIN in <=> y \in InnerPaths(S)
    OBVIOUS
  <2>2. \A z \in Paths(S) : NodeAt(t, z) = NodeAt(t, y) => z = y
    BY <1>8
  <2>3. NodeAt(t, y) \in DOMAIN lf <=> y \in S
    BY <1>7, <2>2 DEF Paths
  <2>4. NodeAt(t, y) \in DOMAIN in <=> y \in InnerPaths(S)
    BY <1>6, <2>2 DEF Paths
  <2> QED
    BY <1>5, <2>3, <2>4 DEF Paths
<1>10. \A a \in all : \E y \in Paths(S) : a = NodeAt(t, y)
  BY <1>5, <1>6, <1>7 DEF Paths
<1>11. \A y \in Paths(S) : Par(in, lf, NodeAt(t, y)) = HangsFrom(t, S, up, y)
  <2> SUFFICES ASSUME NEW y \in Paths(S)
               PROVE  Par(in, lf, NodeAt(t, y)) = HangsFrom(t, S, up, y)
    OBVIOUS
  <2>1. PICK a : a = NodeAt(t, y)
    OBVIOUS
  <2>2. CASE y \in InnerPaths(S)
    <3>1. a \in DOMAIN in /\ in[a].parent = HangsFrom(t, S, up, y)
      BY <1>6, <1>26, <2>1, <2>2
    <3> QED
      BY <2>1, <3>1 DEF Par
  <2>3. CASE y \in S
    <3>1. a \notin DOMAIN in
      BY <1>9, <1>25, <2>1, <2>3
    <3>2. lf[a].parent = HangsFrom(t, S, up, y)
      BY <1>27, <2>1, <2>3
    <3> QED
      BY <2>1, <3>1, <3>2 DEF Par
  <2> QED
    BY <2>2, <2>3 DEF Paths
<1>12. \A y \in Paths(S) : HangsFrom(t, S, up, y) \in Ptr
  <2> SUFFICES ASSUME NEW y \in Paths(S)  PROVE HangsFrom(t, S, up, y) \in Ptr
    OBVIOUS
  <2>1. CASE Above(S, y) = {}
    BY <2>1 DEF HangsFrom, Ptr
  <2>2. CASE Above(S, y) # {}
    <3>1. PICK p : p = Longest(Above(S, y))
      OBVIOUS
    <3>2. p \in Paths(S)
      BY <1>2, <2>2, <3>1, InItsSlot DEF Paths
    <3> QED
      BY <1>8, <2>2, <3>1, <3>2 DEF HangsFrom, Ptr
  <2> QED
    BY <2>1, <2>2
<1>13. ASSUME NEW p \in InnerPaths(S), NEW b \in Byte, in[NodeAt(t, p)].child[b] # Null
       PROVE  /\ in[NodeAt(t, p)].child[b] \in all
              /\ Fits(NodeAt(t, p), b, in[NodeAt(t, p)].child[b])
              /\ Par(in, lf, in[NodeAt(t, p)].child[b]) = NodeAt(t, p)
  <2>1. b \in Branching(S, p) /\ in[NodeAt(t, p)].child[b] = NodeAt(t, Top(S, Append(p, b)))
    <3>1. in[NodeAt(t, p)].child = ChildrenAt(t, S, p)
      BY <1>26
    <3> QED
      BY <1>13, <3>1 DEF ChildrenAt
  <2>2. PICK x : x = Top(S, Append(p, b))
    OBVIOUS
  <2>3. /\ x \in Paths(S) /\ IsPrefix(p, x) /\ Len(p) < Len(x) /\ x[Len(p) + 1] = b
        /\ p \in Above(S, x) /\ Longest(Above(S, x)) = p
    BY <1>2, <2>1, <2>2, ChildHangs
  <2>4. HangsFrom(t, S, up, x) = NodeAt(t, p)
    BY <2>3 DEF HangsFrom
  <2>5. p \in Paths(S)
    BY DEF Paths
  <2> QED
    BY <1>8, <1>9, <1>11, <2>1, <2>2, <2>3, <2>4, <2>5 DEF Fits
<1>14. DOMAIN in \cap DOMAIN lf = {}
  BY <1>6, <1>9, <1>25 DEF Paths
<1>15. \A a \in all : /\ a \in Addr /\ a.tree = t /\ a = NodeAt(a.tree, a.path)
                      /\ (a \in DOMAIN lf <=> a.kind = "leaf")
                      /\ Len(a.path) <= KeyLen
  <2> SUFFICES ASSUME NEW a \in all
               PROVE  /\ a \in Addr /\ a.tree = t /\ a = NodeAt(a.tree, a.path)
                      /\ (a \in DOMAIN lf <=> a.kind = "leaf")
                      /\ Len(a.path) <= KeyLen
    OBVIOUS
  <2>1. PICK y \in Paths(S) : a = NodeAt(t, y)
    BY <1>10
  <2>2. Len(y) <= KeyLen
    BY <1>2, PathShape, KeyShape
  <2>3. a.tree = t /\ a.path = y /\ a.kind = IF y \in S THEN "leaf" ELSE "inner"
    BY <1>8, <2>1
  <2> QED
    BY <1>8, <1>9, <2>1, <2>2, <2>3
<1>16. in \in [DOMAIN in -> [parent : Ptr, child : [Byte -> all \cup {Null}]]]
  <2>1. ASSUME NEW a \in DOMAIN in
        PROVE  in[a] \in [parent : Ptr, child : [Byte -> all \cup {Null}]]
    <3>1. PICK p \in InnerPaths(S) : a = NodeAt(t, p)
      BY <1>6
    <3>2. in[a] = [parent |-> HangsFrom(t, S, up, p), child |-> ChildrenAt(t, S, p)]
      BY <1>26, <3>1
    <3>3. HangsFrom(t, S, up, p) \in Ptr
      BY <1>12 DEF Paths
    <3>4. ChildrenAt(t, S, p) \in [Byte -> all \cup {Null}]
      <4>1. \A b \in Byte : ChildrenAt(t, S, p)[b] \in all \cup {Null}
        BY <1>13, <3>1, <3>2
      <4> QED
        BY <4>1 DEF ChildrenAt
    <3> QED
      BY <3>2, <3>3, <3>4
  <2>2. in = [a \in DOMAIN in |-> in[a]]
    BY <1>3 DEF BuiltInner
  <2> QED
    BY <2>1, <2>2
<1>17. lf \in [DOMAIN lf -> [parent : Ptr, value : Values]]
  <2>1. ASSUME NEW a \in DOMAIN lf
        PROVE  lf[a] \in [parent : Ptr, value : Values]
    <3>1. PICK k \in S : a = NodeAt(t, k)
      BY <1>7
    <3>2. lf[a] = [parent |-> HangsFrom(t, S, up, k), value |-> R[k]]
      BY <1>27, <3>1
    <3>3. HangsFrom(t, S, up, k) \in Ptr
      BY <1>12 DEF Paths
    <3> QED
      BY <1>2, <3>2, <3>3
  <2>2. lf = [a \in DOMAIN lf |-> lf[a]]
    BY <1>4 DEF BuiltLeaves
  <2> QED
    BY <2>1, <2>2
<1>18. \A a \in DOMAIN in, b \in Byte : in[a].child[b] # Null =>
          Fits(a, b, in[a].child[b]) /\ Par(in, lf, in[a].child[b]) = a
  BY <1>6, <1>13
<1>19. PICK y \in Paths(S) : y = Top(S, <<>>)
  BY <1>2, TopOfAll
<1>20. PICK r : r = NodeAt(t, y)
  OBVIOUS
<1>21. r \in all /\ Par(in, lf, r) = up
  <2>1. Above(S, y) = {}
    BY <1>2, <1>19, TopOfAll
  <2>2. HangsFrom(t, S, up, y) = up
    BY <2>1 DEF HangsFrom
  <2> QED
    BY <1>9, <1>11, <1>20, <2>2
<1>22. ASSUME NEW a \in all \ {r}
       PROVE  /\ Par(in, lf, a) \in DOMAIN in
              /\ \E b \in Byte : in[Par(in, lf, a)].child[b] = a
  <2>1. PICK x \in Paths(S) : a = NodeAt(t, x)
    BY <1>10
  <2>2. x # y
    BY <1>20, <2>1
  <2>3. Above(S, x) # {}
    BY <1>2, <1>19, <2>2, TopOfAll
  <2>4. PICK p : p = Longest(Above(S, x))
    OBVIOUS
  <2>5. p \in InnerPaths(S) /\ \E b \in Branching(S, p) : Top(S, Append(p, b)) = x
    BY <1>2, <2>3, <2>4, InItsSlot
  <2>6. PICK b \in Branching(S, p) : Top(S, Append(p, b)) = x
    BY <2>5
  <2>7. Par(in, lf, a) = NodeAt(t, p)
    BY <1>11, <2>1, <2>3, <2>4 DEF HangsFrom
  <2>8. b \in Byte
    BY DEF Branching
  <2>9. in[NodeAt(t, p)].child[b] = a
    <3>1. in[NodeAt(t, p)].child = ChildrenAt(t, S, p)
      BY <1>26, <2>5
    <3> QED
      BY <2>1, <2>6, <2>8, <3>1 DEF ChildrenAt
  <2> QED
    BY <1>6, <2>5, <2>7, <2>8, <2>9
<1>23. TreeOf(in, lf, t, r, up)
  BY <1>5, <1>14, <1>15, <1>16, <1>17, <1>18, <1>21, <1>22 DEF TreeOf
<1>24. Cardinality(DOMAIN lf) = Cardinality(S) /\ Cardinality(S) \in Nat
  <2>1. IsFiniteSet(S) /\ Cardinality(S) \in Nat
    BY <1>2, FS_Subset, FS_CardinalityType, ShapeAssumption
  <2> DEFINE f == [k \in S |-> NodeAt(t, k)]
  <2>2. f \in [S -> DOMAIN lf] /\ \A k, l \in S : f[k] = f[l] => k = l
    BY <1>7, <1>8 DEF Paths
  <2>3. \A a \in DOMAIN lf : \E k \in S : f[k] = a
    BY <1>7
  <2>4. f \in Bijection(S, DOMAIN lf)
    BY <2>2, <2>3 DEF Bijection, Injection, Surjection, IsInjective
  <2>5. ExistsBijection(S, DOMAIN lf)
    BY <2>4 DEF ExistsBijection
  <2> QED
    BY <2>1, <2>5, FS_Bijection
<1> QED
  BY <1>1, <1>3, <1>4, <1>19, <1>20, <1>23, <1>24

-----------------------------------------------------------------------------
(* What the operations do to the heap.                                     *)

LEMMA WellFacts ==
    ASSUME NEW in, NEW lf, WellHeap(in, lf)
    PROVE  /\ \A a \in DOMAIN in \cup DOMAIN lf :
                 /\ a \in Addr /\ a.tree \in Trees /\ a.path \in Seq(Byte)
                 /\ a = NodeAt(a.tree, a.path)
                 /\ Len(a.path) \in Nat /\ Len(a.path) <= KeyLen
                 /\ (a \in DOMAIN lf <=> a.kind = "leaf")
                 /\ a # Null /\ Par(in, lf, a) \in Ptr
           /\ \A a \in DOMAIN in : a \notin DOMAIN lf
           /\ \A a \in DOMAIN in : /\ in[a] = [parent |-> in[a].parent, child |-> in[a].child]
                                   /\ in[a].parent \in Ptr
                                   /\ in[a].child \in [Byte -> DOMAIN in \cup DOMAIN lf \cup {Null}]
           /\ \A a \in DOMAIN lf : /\ lf[a] = [parent |-> lf[a].parent, value |-> lf[a].value]
                                   /\ lf[a].parent \in Ptr /\ lf[a].value \in Values
           /\ \A a \in DOMAIN in, b \in Byte : in[a].child[b] # Null =>
                 /\ in[a].child[b] \in DOMAIN in \cup DOMAIN lf
                 /\ in[a].child[b].tree = a.tree
                 /\ Len(a.path) < Len(in[a].child[b].path)
                 /\ in[a].child[b].path[Len(a.path) + 1] = b
<1>1. PICK all : all = DOMAIN in \cup DOMAIN lf
  OBVIOUS
<1>2. \A a \in all : /\ a \in Addr /\ a = NodeAt(a.tree, a.path)
                     /\ (a \in DOMAIN lf <=> a.kind = "leaf")
                     /\ Len(a.path) <= KeyLen
  BY <1>1 DEF WellHeap
<1>3. \A a \in all : /\ a.tree \in Trees /\ a.path \in Seq(Byte) /\ a # Null
  BY <1>2 DEF Addr, Null
<1>4. \A a \in all : Len(a.path) \in Nat
  BY <1>3
<1>5. DOMAIN in \cap DOMAIN lf = {}
  BY DEF WellHeap
<1>6. \A a \in DOMAIN in : in[a] \in [parent : Ptr, child : [Byte -> all \cup {Null}]]
  BY <1>1 DEF WellHeap
<1>7. \A a \in DOMAIN lf : lf[a] \in [parent : Ptr, value : Values]
  BY DEF WellHeap
<1>8. \A a \in DOMAIN in : /\ in[a] = [parent |-> in[a].parent, child |-> in[a].child]
                           /\ in[a].parent \in Ptr
                           /\ in[a].child \in [Byte -> all \cup {Null}]
  BY <1>6
<1>9. \A a \in DOMAIN lf : /\ lf[a] = [parent |-> lf[a].parent, value |-> lf[a].value]
                           /\ lf[a].parent \in Ptr /\ lf[a].value \in Values
  BY <1>7
<1>10. \A a \in DOMAIN in, b \in Byte : in[a].child[b] # Null => Fits(a, b, in[a].child[b])
  BY DEF WellHeap
<1>11. \A a \in DOMAIN in, b \in Byte : in[a].child[b] # Null =>
          /\ in[a].child[b] \in all /\ in[a].child[b].tree = a.tree
          /\ Len(a.path) < Len(in[a].child[b].path)
          /\ in[a].child[b].path[Len(a.path) + 1] = b
  BY <1>8, <1>10 DEF Fits
<1>12. \A a \in all : Par(in, lf, a) \in Ptr
  BY <1>1, <1>8, <1>9 DEF Par
<1> QED
  BY <1>1, <1>2, <1>3, <1>4, <1>5, <1>8, <1>9, <1>11, <1>12

\* Nothing happens to tree t.
Stays(in, lf, in2, lf2, t) ==
    /\ OwnIn(in2, lf2, t) = OwnIn(in, lf, t)
    /\ \A a \in OwnIn(in, lf, t) :
          /\ a \in DOMAIN in2 <=> a \in DOMAIN in
          /\ a \in DOMAIN lf2 <=> a \in DOMAIN lf
          /\ a \in DOMAIN in => in2[a] = in[a]
          /\ a \in DOMAIN lf => lf2[a] = lf[a]

\* Below r everything is as it was.
StillJoined(in, lf, in2, lf2, r) ==
    /\ JoinedIn(in2, lf2, r) /\ Par(in2, lf2, r) = Par(in, lf, r)
    /\ OwnIn(in2, lf2, r.tree) \cap DOMAIN lf2 = OwnIn(in, lf, r.tree) \cap DOMAIN lf

LEMMA JoinedStays ==
    ASSUME NEW in, NEW lf, NEW in2, NEW lf2, NEW r,
           WellHeap(in, lf), JoinedIn(in, lf, r), Stays(in, lf, in2, lf2, r.tree)
    PROVE  StillJoined(in, lf, in2, lf2, r)
<1>1. PICK O : O = OwnIn(in, lf, r.tree)
  OBVIOUS
<1>2. OwnIn(in2, lf2, r.tree) = O
  BY <1>1 DEF Stays
<1>3. \A a \in O : /\ a \in DOMAIN in2 <=> a \in DOMAIN in
                   /\ a \in DOMAIN lf2 <=> a \in DOMAIN lf
                   /\ a \in DOMAIN in => in2[a] = in[a]
                   /\ a \in DOMAIN lf => lf2[a] = lf[a]
  BY <1>1 DEF Stays
<1>4. \A a \in O : /\ a \in DOMAIN in \/ a \in DOMAIN lf
                   /\ a \in DOMAIN in2 \/ a \in DOMAIN lf2
                   /\ a.tree = r.tree
  BY <1>1, <1>2 DEF OwnIn
<1>5. \A a \in O : Par(in2, lf2, a) = Par(in, lf, a)
  BY <1>3, <1>4 DEF Par
<1>6. r \in O /\ r \in DOMAIN in2 \cup DOMAIN lf2
  <2>1. r \in O
    BY <1>1 DEF JoinedIn, OwnIn
  <2> QED
    BY <1>4, <2>1
<1>7. \A a : a \in DOMAIN in2 /\ a.tree = r.tree => a \in O /\ a \in DOMAIN in
  BY <1>2, <1>3 DEF OwnIn
<1>8. \A a \in DOMAIN in, b \in Byte :
         a.tree = r.tree /\ in[a].child[b] # Null => in[a].child[b] \in O
  BY <1>1, WellFacts DEF OwnIn
<1>9. ASSUME NEW a \in DOMAIN in2, NEW b \in Byte, a.tree = r.tree, in2[a].child[b] # Null
      PROVE  Par(in2, lf2, in2[a].child[b]) = a
  <2>1. a \in O /\ a \in DOMAIN in /\ in2[a] = in[a]
    BY <1>3, <1>7, <1>9
  <2>2. in[a].child[b] \in O /\ Par(in, lf, in[a].child[b]) = a
    BY <1>8, <1>9, <2>1 DEF JoinedIn
  <2> QED
    BY <1>5, <2>1, <2>2
<1>10. ASSUME NEW a \in O \ {r}
       PROVE  /\ Par(in2, lf2, a) \in DOMAIN in2
              /\ \E b \in Byte : in2[Par(in2, lf2, a)].child[b] = a
  <2>1. PICK p : p = Par(in, lf, a)
    OBVIOUS
  <2>2. p \in DOMAIN in /\ \E b \in Byte : in[p].child[b] = a
    BY <1>1, <2>1 DEF JoinedIn
  <2>3. PICK b \in Byte : in[p].child[b] = a
    BY <2>2
  <2>4. a # Null /\ a.tree = r.tree
    BY <1>4, WellFacts
  <2>5. p.tree = r.tree
    BY <2>2, <2>3, <2>4, WellFacts
  <2>6. p \in O
    BY <1>1, <2>2, <2>5 DEF OwnIn
  <2> QED
    BY <1>3, <1>5, <2>1, <2>2, <2>3, <2>6
<1>11. JoinedIn(in2, lf2, r)
  <2>1. Par(in2, lf2, r) \in DummyAddr
    BY <1>5, <1>6 DEF JoinedIn
  <2> QED
    BY <1>2, <1>6, <1>9, <1>10, <2>1 DEF JoinedIn
<1> QED
  BY <1>1, <1>2, <1>3, <1>5, <1>6, <1>11 DEF StillJoined

LEMMA HoldStays ==
    ASSUME NEW in, NEW lf, NEW in2, NEW lf2, NEW dr, NEW dr2, NEW r, NEW n, NEW d,
           WellHeap(in, lf), HoldsIn(in, lf, dr, r, n, d),
           r # Null => Stays(in, lf, in2, lf2, r.tree) /\ dr2[d] = dr[d]
    PROVE  HoldsIn(in2, lf2, dr2, r, n, d)
<1>1. CASE r = Null
  BY <1>1 DEF HoldsIn
<1>2. CASE r # Null
  <2>1. /\ JoinedIn(in, lf, r) /\ Par(in, lf, r) = d /\ dr[d] = r
        /\ n = Cardinality(OwnIn(in, lf, r.tree) \cap DOMAIN lf)
    BY <1>2 DEF HoldsIn
  <2>2. /\ JoinedIn(in2, lf2, r) /\ Par(in2, lf2, r) = Par(in, lf, r)
        /\ OwnIn(in2, lf2, r.tree) \cap DOMAIN lf2 = OwnIn(in, lf, r.tree) \cap DOMAIN lf
    <3>1. Stays(in, lf, in2, lf2, r.tree)
      BY <1>2
    <3>2. JoinedIn(in, lf, r)
      BY <2>1
    <3>3. StillJoined(in, lf, in2, lf2, r)
      BY <3>1, <3>2, JoinedStays
    <3> QED
      BY <3>3 DEF StillJoined
  <2>3. dr2[d] = r
    BY <1>2, <2>1
  <2> QED
    BY <1>2, <2>1, <2>2, <2>3 DEF HoldsIn
<1> QED
  BY <1>1, <1>2

\* The nodes of a tree are deleted.
LEMMA TreeDeleted ==
    ASSUME NEW in, NEW lf, NEW t, WellHeap(in, lf)
    PROVE  LET in2 == Without(in, OwnIn(in, lf, t))
               lf2 == Without(lf, OwnIn(in, lf, t))
           IN  /\ WellHeap(in2, lf2)
               /\ OwnIn(in2, lf2, t) = {}
               /\ \A u : u # t => Stays(in, lf, in2, lf2, u)
<1>1. PICK in2 : in2 = Without(in, OwnIn(in, lf, t))
  OBVIOUS
<1>2. PICK lf2 : lf2 = Without(lf, OwnIn(in, lf, t))
  OBVIOUS
<1>3. /\ DOMAIN in2 = {a \in DOMAIN in : a.tree # t}
      /\ \A a \in DOMAIN in2 : in2[a] = in[a]
      /\ in2 = [a \in DOMAIN in2 |-> in2[a]]
  BY <1>1 DEF Without, OwnIn
<1>4. /\ DOMAIN lf2 = {a \in DOMAIN lf : a.tree # t}
      /\ \A a \in DOMAIN lf2 : lf2[a] = lf[a]
      /\ lf2 = [a \in DOMAIN lf2 |-> lf2[a]]
  BY <1>2 DEF Without, OwnIn
<1>5. PICK all : all = DOMAIN in2 \cup DOMAIN lf2
  OBVIOUS
<1>6. \A a \in all : a \in DOMAIN in \cup DOMAIN lf /\ a.tree # t
  BY <1>3, <1>4, <1>5
<1>7. \A a \in DOMAIN in2, b \in Byte : in2[a].child[b] # Null =>
         in2[a].child[b] \in all /\ Fits(a, b, in2[a].child[b])
  <2> SUFFICES ASSUME NEW a \in DOMAIN in2, NEW b \in Byte, in2[a].child[b] # Null
               PROVE  in2[a].child[b] \in all /\ Fits(a, b, in2[a].child[b])
    OBVIOUS
  <2>1. PICK y : y = in2[a].child[b]
    OBVIOUS
  <2>2. a \in DOMAIN in /\ a.tree # t /\ y = in[a].child[b] /\ y # Null
    BY <1>3, <2>1
  <2>3. y \in DOMAIN in \cup DOMAIN lf /\ y.tree = a.tree
    BY <2>2, WellFacts
  <2>4. Fits(a, b, y)
    BY <2>2 DEF WellHeap
  <2> QED
    BY <1>3, <1>4, <1>5, <2>1, <2>2, <2>3, <2>4
<1>8. in2 \in [DOMAIN in2 -> [parent : Ptr, child : [Byte -> all \cup {Null}]]]
  <2> SUFFICES ASSUME NEW a \in DOMAIN in2
               PROVE  in2[a] \in [parent : Ptr, child : [Byte -> all \cup {Null}]]
    BY <1>3
  <2>1. /\ a \in DOMAIN in /\ in2[a] = in[a]
        /\ in[a] = [parent |-> in[a].parent, child |-> in[a].child] /\ in[a].parent \in Ptr
        /\ in[a].child \in [Byte -> DOMAIN in \cup DOMAIN lf \cup {Null}]
    BY <1>3, WellFacts
  <2>2. \A b \in Byte : in[a].child[b] \in all \cup {Null}
    BY <1>7, <2>1
  <2>3. in[a].child \in [Byte -> all \cup {Null}]
    BY <2>1, <2>2
  <2> QED
    BY <2>1, <2>3
<1>9. lf2 \in [DOMAIN lf2 -> [parent : Ptr, value : Values]]
  <2> SUFFICES ASSUME NEW a \in DOMAIN lf2  PROVE lf2[a] \in [parent : Ptr, value : Values]
    BY <1>4
  <2>1. a \in DOMAIN lf /\ lf2[a] = lf[a]
    BY <1>4
  <2> QED
    BY <2>1 DEF WellHeap
<1>10. \A a \in all : /\ a \in Addr /\ a = NodeAt(a.tree, a.path)
                      /\ (a \in DOMAIN lf2 <=> a.kind = "leaf")
                      /\ Len(a.path) <= KeyLen
  <2> SUFFICES ASSUME NEW a \in all
               PROVE  /\ a \in Addr /\ a = NodeAt(a.tree, a.path)
                      /\ (a \in DOMAIN lf2 <=> a.kind = "leaf")
                      /\ Len(a.path) <= KeyLen
    OBVIOUS
  <2>1. /\ a \in Addr /\ a = NodeAt(a.tree, a.path)
        /\ (a \in DOMAIN lf <=> a.kind = "leaf") /\ Len(a.path) <= KeyLen /\ a.tree # t
    BY <1>6, WellFacts
  <2> QED
    BY <1>4, <2>1
<1>11. DOMAIN in2 \cap DOMAIN lf2 = {}
  BY <1>3, <1>4, WellFacts
<1>12. WellHeap(in2, lf2)
  BY <1>5, <1>7, <1>8, <1>9, <1>10, <1>11 DEF WellHeap
<1>13. OwnIn(in2, lf2, t) = {}
  BY <1>5, <1>6 DEF OwnIn
<1>14. ASSUME NEW u, u # t  PROVE Stays(in, lf, in2, lf2, u)
  <2>1. OwnIn(in2, lf2, u) = OwnIn(in, lf, u)
    BY <1>3, <1>4, <1>14 DEF OwnIn
  <2>2. \A a \in OwnIn(in, lf, u) : a.tree # t
    BY <1>14 DEF OwnIn
  <2> QED
    BY <1>3, <1>4, <2>1, <2>2 DEF Stays
<1> QED
  BY <1>1, <1>2, <1>12, <1>13, <1>14

\* The nodes of tree r.tree are the tree below r, wherever r hangs.
Hung(in, lf, r) ==
    /\ r \in DOMAIN in \cup DOMAIN lf
    /\ \A a \in DOMAIN in, b \in Byte :
          a.tree = r.tree /\ in[a].child[b] # Null =>
             Par(in, lf, in[a].child[b]) = a /\ in[a].child[b] # r
    /\ \A a \in OwnIn(in, lf, r.tree) \ {r} :
          /\ Par(in, lf, a) \in DOMAIN in
          /\ \E b \in Byte : in[Par(in, lf, a)].child[b] = a

LEMMA JoinedHung ==
    ASSUME NEW in, NEW lf, NEW r, WellHeap(in, lf), JoinedIn(in, lf, r)
    PROVE  Hung(in, lf, r)
<1>1. ASSUME NEW a \in DOMAIN in, NEW b \in Byte, a.tree = r.tree, in[a].child[b] # Null
      PROVE  Par(in, lf, in[a].child[b]) = a /\ in[a].child[b] # r
  <2>1. Par(in, lf, in[a].child[b]) = a
    BY <1>1 DEF JoinedIn
  <2>2. a.kind \in {"inner", "leaf"}
    BY WellFacts DEF Addr
  <2>3. Par(in, lf, r).kind = "dummy"
    BY DEF JoinedIn, DummyAddr
  <2> QED
    BY <2>1, <2>2, <2>3
<1>2. r \in DOMAIN in \cup DOMAIN lf
  BY DEF JoinedIn
<1>3. \A a \in OwnIn(in, lf, r.tree) \ {r} :
         /\ Par(in, lf, a) \in DOMAIN in
         /\ \E b \in Byte : in[Par(in, lf, a)].child[b] = a
  BY DEF JoinedIn
<1> QED
  BY <1>1, <1>2, <1>3 DEF Hung

\* The root of a tree gets another parent.
LEMMA Rehung ==
    ASSUME NEW in, NEW lf, NEW r, NEW d \in DummyAddr,
           WellHeap(in, lf), Hung(in, lf, r)
    PROVE  LET in2 == Hang(in, r, d)
               lf2 == Hang(lf, r, d)
           IN  /\ WellHeap(in2, lf2)
               /\ JoinedIn(in2, lf2, r) /\ Par(in2, lf2, r) = d
               /\ OwnIn(in2, lf2, r.tree) = OwnIn(in, lf, r.tree)
               /\ DOMAIN lf2 = DOMAIN lf /\ DOMAIN in2 = DOMAIN in
               /\ \A u : u # r.tree => Stays(in, lf, in2, lf2, u)
<1>1. PICK in2 : in2 = Hang(in, r, d)
  OBVIOUS
<1>2. PICK lf2 : lf2 = Hang(lf, r, d)
  OBVIOUS
<1>3. /\ DOMAIN in2 = DOMAIN in
      /\ \A a \in DOMAIN in : in2[a] = IF a = r THEN [in[a] EXCEPT !.parent = d] ELSE in[a]
      /\ in2 = [a \in DOMAIN in |-> in2[a]]
  BY <1>1 DEF Hang
<1>4. /\ DOMAIN lf2 = DOMAIN lf
      /\ \A a \in DOMAIN lf : lf2[a] = IF a = r THEN [lf[a] EXCEPT !.parent = d] ELSE lf[a]
      /\ lf2 = [a \in DOMAIN lf |-> lf2[a]]
  BY <1>2 DEF Hang
<1>5. PICK all : all = DOMAIN in \cup DOMAIN lf
  OBVIOUS
<1>6. d \in Ptr
  BY DEF Ptr
<1>7. ASSUME NEW a \in DOMAIN in
      PROVE  /\ in2[a] = [parent |-> in2[a].parent, child |-> in2[a].child]
             /\ in2[a].child = in[a].child
             /\ in2[a].parent = IF a = r THEN d ELSE in[a].parent
             /\ in2[a].parent \in Ptr
  <2>1. PICK p, k : p = in[a].parent /\ k = in[a].child
    OBVIOUS
  <2>2. in[a] = [parent |-> p, child |-> k] /\ p \in Ptr
    BY <2>1, WellFacts
  <2>3. in2[a] = [parent |-> IF a = r THEN d ELSE p, child |-> k]
    BY <1>3, <2>2
  <2> QED
    BY <1>6, <2>1, <2>2, <2>3
<1>8. ASSUME NEW a \in DOMAIN lf
      PROVE  /\ lf2[a] = [parent |-> lf2[a].parent, value |-> lf2[a].value]
             /\ lf2[a].value = lf[a].value
             /\ lf2[a].parent = IF a = r THEN d ELSE lf[a].parent
             /\ lf2[a].parent \in Ptr
  <2>1. PICK p, k : p = lf[a].parent /\ k = lf[a].value
    OBVIOUS
  <2>2. lf[a] = [parent |-> p, value |-> k] /\ p \in Ptr
    BY <2>1, WellFacts
  <2>3. lf2[a] = [parent |-> IF a = r THEN d ELSE p, value |-> k]
    BY <1>4, <2>2
  <2> QED
    BY <1>6, <2>1, <2>2, <2>3
<1>9. in2 \in [DOMAIN in2 -> [parent : Ptr, child : [Byte -> all \cup {Null}]]]
  <2> SUFFICES ASSUME NEW a \in DOMAIN in
               PROVE  in2[a] \in [parent : Ptr, child : [Byte -> all \cup {Null}]]
    BY <1>3
  <2>1. PICK p, k : p = in2[a].parent /\ k = in2[a].child
    OBVIOUS
  <2>2. in2[a] = [parent |-> p, child |-> k] /\ p \in Ptr /\ k = in[a].child
    BY <1>7, <2>1
  <2>3. k \in [Byte -> all \cup {Null}]
    BY <1>5, <2>2, WellFacts
  <2> QED
    BY <2>2, <2>3
<1>10. lf2 \in [DOMAIN lf2 -> [parent : Ptr, value : Values]]
  <2> SUFFICES ASSUME NEW a \in DOMAIN lf  PROVE lf2[a] \in [parent : Ptr, value : Values]
    BY <1>4
  <2>1. PICK p, k : p = lf2[a].parent /\ k = lf2[a].value
    OBVIOUS
  <2>2. lf2[a] = [parent |-> p, value |-> k] /\ p \in Ptr /\ k = lf[a].value
    BY <1>8, <2>1
  <2>3. k \in Values
    BY <2>2, WellFacts
  <2> QED
    BY <2>2, <2>3
<1>11. WellHeap(in2, lf2)
  <2>1. \A a \in all : /\ a \in Addr /\ a = NodeAt(a.tree, a.path)
                       /\ (a \in DOMAIN lf2 <=> a.kind = "leaf")
                       /\ Len(a.path) <= KeyLen
    BY <1>4, <1>5 DEF WellHeap
  <2>2. DOMAIN in2 \cap DOMAIN lf2 = {}
    BY <1>3, <1>4 DEF WellHeap
  <2>3. \A a \in DOMAIN in2, b \in Byte : in2[a].child[b] # Null => Fits(a, b, in2[a].child[b])
    BY <1>3, <1>7 DEF WellHeap
  <2> QED
    BY <1>3, <1>4, <1>5, <1>9, <1>10, <2>1, <2>2, <2>3 DEF WellHeap
<1>12. \A a \in all : Par(in2, lf2, a) = IF a = r THEN d ELSE Par(in, lf, a)
  BY <1>3, <1>4, <1>5, <1>7, <1>8 DEF Par
<1>13. \A u : OwnIn(in2, lf2, u) = OwnIn(in, lf, u)
  BY <1>3, <1>4 DEF OwnIn
<1>14. r \in all
  BY <1>5 DEF Hung
<1>15. JoinedIn(in2, lf2, r)
  <2>1. r \in DOMAIN in2 \cup DOMAIN lf2 /\ Par(in2, lf2, r) \in DummyAddr
    BY <1>3, <1>4, <1>5, <1>12, <1>14
  <2>2. ASSUME NEW a \in DOMAIN in2, NEW b \in Byte, a.tree = r.tree, in2[a].child[b] # Null
        PROVE  Par(in2, lf2, in2[a].child[b]) = a
    <3>1. PICK y : y = in2[a].child[b]
      OBVIOUS
    <3>2. a \in DOMAIN in /\ y = in[a].child[b] /\ y # Null
      BY <1>3, <1>7, <2>2, <3>1
    <3>3. Par(in, lf, y) = a /\ y # r
      BY <2>2, <3>2 DEF Hung
    <3>4. y \in all
      BY <1>5, <3>2, WellFacts
    <3> QED
      BY <1>12, <3>1, <3>3, <3>4
  <2>3. ASSUME NEW a \in OwnIn(in2, lf2, r.tree) \ {r}
        PROVE  /\ Par(in2, lf2, a) \in DOMAIN in2
               /\ \E b \in Byte : in2[Par(in2, lf2, a)].child[b] = a
    <3>1. a \in OwnIn(in, lf, r.tree) \ {r}
      BY <1>13
    <3>2. PICK p : p = Par(in, lf, a)
      OBVIOUS
    <3>3. p \in DOMAIN in /\ \E b \in Byte : in[p].child[b] = a
      BY <3>1, <3>2 DEF Hung
    <3>4. a \in all /\ a # r
      BY <1>5, <3>1 DEF OwnIn
    <3>5. Par(in2, lf2, a) = p
      BY <1>12, <3>2, <3>4
    <3> QED
      BY <1>3, <1>7, <3>3, <3>5
  <2> QED
    BY <2>1, <2>2, <2>3 DEF JoinedIn
<1>16. ASSUME NEW u, u # r.tree  PROVE Stays(in, lf, in2, lf2, u)
  <2>1. \A a \in OwnIn(in, lf, u) : a # r
    BY <1>16 DEF OwnIn
  <2> QED
    BY <1>3, <1>4, <1>13, <2>1 DEF Stays
<1> QED
  BY <1>1, <1>2, <1>3, <1>4, <1>11, <1>12, <1>13, <1>14, <1>15, <1>16

\* Tree t is added, with r on top of it below up and the leaves L.
Added(in, lf, in3, lf3, t, r, up, L) ==
    /\ WellHeap(in3, lf3)
    /\ JoinedIn(in3, lf3, r) /\ Par(in3, lf3, r) = up
    /\ r.tree = t /\ r \in Addr
    /\ OwnIn(in3, lf3, t) \cap DOMAIN lf3 = L
    /\ \A u : u # t => Stays(in, lf, in3, lf3, u)

LEMMA TreeAdded ==
    ASSUME NEW in, NEW lf, NEW in2, NEW lf2, NEW t, NEW r, NEW up \in DummyAddr,
           WellHeap(in, lf), OwnIn(in, lf, t) = {}, TreeOf(in2, lf2, t, r, up)
    PROVE  Added(in, lf, With(in, in2), With(lf, lf2), t, r, up, DOMAIN lf2)
<1>1. PICK in3 : in3 = With(in, in2)
  OBVIOUS
<1>2. PICK lf3 : lf3 = With(lf, lf2)
  OBVIOUS
<1>3. PICK all, all2, all3 : /\ all = DOMAIN in \cup DOMAIN lf
                             /\ all2 = DOMAIN in2 \cup DOMAIN lf2
                             /\ all3 = DOMAIN in3 \cup DOMAIN lf3
  OBVIOUS
<1>4. /\ DOMAIN in3 = DOMAIN in \cup DOMAIN in2
      /\ \A a \in DOMAIN in3 : in3[a] = IF a \in DOMAIN in2 THEN in2[a] ELSE in[a]
      /\ in3 = [a \in DOMAIN in3 |-> in3[a]]
  BY <1>1 DEF With
<1>5. /\ DOMAIN lf3 = DOMAIN lf \cup DOMAIN lf2
      /\ \A a \in DOMAIN lf3 : lf3[a] = IF a \in DOMAIN lf2 THEN lf2[a] ELSE lf[a]
      /\ lf3 = [a \in DOMAIN lf3 |-> lf3[a]]
  BY <1>2 DEF With
<1>6. /\ \A a \in all : a.tree # t
      /\ \A a \in all2 : a.tree = t
      /\ all3 = all \cup all2
  <2>1. \A a \in all2 : a.tree = t
    BY <1>3 DEF TreeOf
  <2> QED
    BY <1>3, <1>4, <1>5, <2>1 DEF OwnIn
<1>7. /\ \A a \in DOMAIN in : a \notin all2 /\ a \in all
      /\ \A a \in DOMAIN lf : a \notin all2 /\ a \in all
      /\ \A a \in DOMAIN in2 : a \notin all /\ a \in all2
      /\ \A a \in DOMAIN lf2 : a \notin all /\ a \in all2
  BY <1>3, <1>6
<1>8. /\ \A a \in DOMAIN in : in3[a] = in[a] /\ a \in DOMAIN in3
      /\ \A a \in DOMAIN in2 : in3[a] = in2[a] /\ a \in DOMAIN in3
      /\ \A a \in DOMAIN lf : lf3[a] = lf[a] /\ a \in DOMAIN lf3
      /\ \A a \in DOMAIN lf2 : lf3[a] = lf2[a] /\ a \in DOMAIN lf3
  BY <1>3, <1>4, <1>5, <1>7
<1>9. \A a \in all2 : /\ a \in Addr /\ a = NodeAt(a.tree, a.path)
                      /\ (a \in DOMAIN lf2 <=> a.kind = "leaf")
                      /\ Len(a.path) <= KeyLen
  BY <1>3 DEF TreeOf
<1>10. \A a \in all : /\ a \in Addr /\ a = NodeAt(a.tree, a.path)
                      /\ (a \in DOMAIN lf <=> a.kind = "leaf")
                      /\ Len(a.path) <= KeyLen
  BY <1>3 DEF WellHeap
<1>11. \A a \in all3 : /\ a \in Addr /\ a = NodeAt(a.tree, a.path)
                       /\ (a \in DOMAIN lf3 <=> a.kind = "leaf")
                       /\ Len(a.path) <= KeyLen
  <2> SUFFICES ASSUME NEW a \in all3
               PROVE  /\ a \in Addr /\ a = NodeAt(a.tree, a.path)
                      /\ (a \in DOMAIN lf3 <=> a.kind = "leaf")
                      /\ Len(a.path) <= KeyLen
    OBVIOUS
  <2>1. CASE a \in all
    <3>1. a \in DOMAIN lf3 <=> a \in DOMAIN lf
      BY <1>5, <1>7, <2>1
    <3> QED
      BY <1>10, <2>1, <3>1
  <2>2. CASE a \in all2
    <3>1. a \in DOMAIN lf3 <=> a \in DOMAIN lf2
      BY <1>5, <1>7, <2>2
    <3> QED
      BY <1>9, <2>2, <3>1
  <2> QED
    BY <1>6, <2>1, <2>2
<1>12. DOMAIN in3 \cap DOMAIN lf3 = {}
  <2>1. DOMAIN in \cap DOMAIN lf = {} /\ DOMAIN in2 \cap DOMAIN lf2 = {}
    BY DEF WellHeap, TreeOf
  <2> QED
    BY <1>4, <1>5, <1>7, <2>1
<1>13. /\ in \in [DOMAIN in -> [parent : Ptr, child : [Byte -> all \cup {Null}]]]
       /\ in2 \in [DOMAIN in2 -> [parent : Ptr, child : [Byte -> all2 \cup {Null}]]]
       /\ lf \in [DOMAIN lf -> [parent : Ptr, value : Values]]
       /\ lf2 \in [DOMAIN lf2 -> [parent : Ptr, value : Values]]
  BY <1>3 DEF WellHeap, TreeOf
<1>14. in3 \in [DOMAIN in3 -> [parent : Ptr, child : [Byte -> all3 \cup {Null}]]]
  <2> SUFFICES ASSUME NEW a \in DOMAIN in3
               PROVE  in3[a] \in [parent : Ptr, child : [Byte -> all3 \cup {Null}]]
    BY <1>4
  <2>1. \/ in3[a] \in [parent : Ptr, child : [Byte -> all \cup {Null}]]
        \/ in3[a] \in [parent : Ptr, child : [Byte -> all2 \cup {Null}]]
    BY <1>4, <1>8, <1>13
  <2> QED
    BY <1>6, <2>1
<1>15. lf3 \in [DOMAIN lf3 -> [parent : Ptr, value : Values]]
  <2> SUFFICES ASSUME NEW a \in DOMAIN lf3  PROVE lf3[a] \in [parent : Ptr, value : Values]
    BY <1>5
  <2> QED
    BY <1>5, <1>8, <1>13
<1>16. ASSUME NEW a \in DOMAIN in3, NEW b \in Byte, in3[a].child[b] # Null
       PROVE  /\ Fits(a, b, in3[a].child[b])
              /\ a.tree = t => Par(in3, lf3, in3[a].child[b]) = a
  <2>1. CASE a \in DOMAIN in
    <3>1. in3[a] = in[a] /\ a.tree # t
      BY <1>6, <1>7, <1>8, <2>1
    <3> QED
      BY <1>16, <2>1, <3>1 DEF WellHeap
  <2>2. CASE a \in DOMAIN in2
    <3>1. in3[a] = in2[a]
      BY <1>8, <2>2
    <3>2. PICK y : y = in2[a].child[b]
      OBVIOUS
    <3>3. y # Null /\ Fits(a, b, y) /\ Par(in2, lf2, y) = a
      BY <1>16, <2>2, <3>1, <3>2 DEF TreeOf
    <3>4. y \in all2
      BY <1>13, <2>2, <3>2, <3>3
    <3>5. Par(in3, lf3, y) = Par(in2, lf2, y)
      BY <1>3, <1>4, <1>7, <1>8, <3>4 DEF Par
    <3> QED
      BY <3>1, <3>2, <3>3, <3>5
  <2> QED
    BY <1>4, <2>1, <2>2
<1>17. WellHeap(in3, lf3)
  BY <1>3, <1>11, <1>12, <1>14, <1>15, <1>16 DEF WellHeap
<1>18. \A a \in all2 : Par(in3, lf3, a) = Par(in2, lf2, a)
  BY <1>3, <1>4, <1>7, <1>8 DEF Par
<1>19. OwnIn(in3, lf3, t) = all2
  BY <1>3, <1>6 DEF OwnIn
<1>20. r \in all2 /\ Par(in3, lf3, r) = up /\ r.tree = t
  <2>1. r \in all2 /\ Par(in2, lf2, r) = up
    BY <1>3 DEF TreeOf
  <2> QED
    BY <1>6, <1>18, <2>1
<1>21. ASSUME NEW a \in all2 \ {r}
       PROVE  /\ Par(in3, lf3, a) \in DOMAIN in3
              /\ \E b \in Byte : in3[Par(in3, lf3, a)].child[b] = a
  <2>1. /\ Par(in2, lf2, a) \in DOMAIN in2
        /\ \E b \in Byte : in2[Par(in2, lf2, a)].child[b] = a
    BY <1>3 DEF TreeOf
  <2> QED
    BY <1>8, <1>18, <2>1
<1>22. JoinedIn(in3, lf3, r)
  <2>1. r \in DOMAIN in3 \cup DOMAIN lf3
    BY <1>3, <1>6, <1>20
  <2> QED
    BY <1>16, <1>19, <1>20, <1>21, <2>1 DEF JoinedIn
<1>23. OwnIn(in3, lf3, t) \cap DOMAIN lf3 = DOMAIN lf2
  BY <1>5, <1>7, <1>19
<1>24. ASSUME NEW u, u # t  PROVE Stays(in, lf, in3, lf3, u)
  <2>1. OwnIn(in3, lf3, u) = OwnIn(in, lf, u)
    BY <1>3, <1>6, <1>24 DEF OwnIn
  <2>2. \A a \in OwnIn(in, lf, u) : a \in all
    BY <1>3 DEF OwnIn
  <2>3. \A a \in all : /\ a \in DOMAIN in3 <=> a \in DOMAIN in
                       /\ a \in DOMAIN lf3 <=> a \in DOMAIN lf
    BY <1>4, <1>5, <1>7
  <2> QED
    BY <1>8, <2>1, <2>2, <2>3 DEF Stays
<1> QED
  BY <1>1, <1>2, <1>9, <1>17, <1>20, <1>22, <1>23, <1>24 DEF Added

-----------------------------------------------------------------------------
(* What the operations do to the containers.                               *)

\* Container x has what it had.
Kept(x) ==
    /\ root'[x] = root[x] /\ size'[x] = size[x] /\ dummy'[x] = dummy[x]
    /\ root[x] # Null => /\ Stays(inner, leaf, inner', leaf', root[x].tree)
                         /\ dummyRoot'[dummy[x]] = dummyRoot[dummy[x]]

LEMMA KeptHolds ==
    ASSUME Heap, NEW x, Holds(x), Kept(x)
    PROVE  Holds(x)'
<1>1. HoldsIn(inner', leaf', dummyRoot', root[x], size[x], dummy[x])
  BY HoldStays DEF Heap, Holds, Kept
<1> QED
  BY <1>1 DEF Holds, Kept

\* Which trees there are, without a look at the heap.
LEMMA ObjectFacts ==
    ASSUME Heap, Objects
    PROVE  /\ \A c \in Containers \ alive : root[c] = Null
           /\ \A c \in alive : /\ c \in Containers
                               /\ dummy[c] \in DummyAddr /\ dummy[c] \in DOMAIN dummyRoot
                               /\ root[c] = Null => size[c] = 0
                               /\ root[c] # Null => /\ root[c] \in Nodes /\ root[c].tree \in Trees
                                                    /\ Joined(root[c])
                                                    /\ Tree(c) = Own(root[c].tree)
           /\ \A c \in Containers : root[c] = Null => Tree(c) = {}
           /\ \A c, x \in alive : c # x => dummy[c] # dummy[x]
           /\ \A c, x \in alive :
                 c # x /\ root[c] # Null /\ root[x] # Null => root[c].tree # root[x].tree
<1>1. \A c \in alive : root[c] = Null => size[c] = 0
  BY DEF Objects, Holds, HoldsIn
<1>2. \A c \in alive : root[c] # Null => Joined(root[c])
  BY DEF Objects, Holds, HoldsIn, Joined
<1>3. \A c \in alive : root[c] # Null => root[c] \in Nodes
  BY <1>2 DEF Joined, JoinedIn, Nodes
<1>4. \A c \in alive : root[c] # Null => root[c].tree \in Trees
  BY <1>3, HeapFacts
<1>5. \A c \in alive : root[c] # Null => Tree(c) = Own(root[c].tree)
  BY <1>2, TreeIsOwn DEF Tree
<1>6. \A c \in Containers : root[c] = Null => Tree(c) = {}
  BY NullReach DEF Tree
<1> QED
  BY <1>1, <1>2, <1>3, <1>4, <1>5, <1>6 DEF Objects, ObjectTypes, Apart

\* A container is made empty and gets a new dummy node.
LEMMA InitFits ==
    ASSUME Heap, Objects, NEW c \in Containers, NEW d \in FreshDummy,
           InitContainer(c, d), alive' = alive \cup {c},
           \A x \in alive \ {c} : root[x] # Null => Stays(inner, leaf, inner', leaf', root[x].tree)
    PROVE  Objects'
<1>1. PICK e : e = DummyAt(d)
  OBVIOUS
<1>2. e \in DummyAddr /\ e \notin DOMAIN dummyRoot
  BY <1>1 DEF FreshDummy, Lowest, DummyAddr, DummyAt
<1>3. /\ root' = [root EXCEPT ![c] = Null] /\ size' = [size EXCEPT ![c] = 0]
      /\ dummy' = [dummy EXCEPT ![c] = e]
      /\ dummyRoot' = With(dummyRoot, [x \in {e} |-> Null])
  BY <1>1 DEF InitContainer
<1>4. /\ DOMAIN dummyRoot' = DOMAIN dummyRoot \cup {e}
      /\ \A x \in DOMAIN dummyRoot : dummyRoot'[x] = dummyRoot[x]
  BY <1>2, <1>3 DEF With
<1>5. /\ root \in [Containers -> Ptr] /\ size \in [Containers -> Nat]
      /\ dummy \in [Containers -> DummyAddr \cup {Null}] /\ alive \subseteq Containers
  BY DEF Objects, ObjectTypes
<1>6. /\ \A x \in Containers \ {c} : root'[x] = root[x] /\ size'[x] = size[x] /\ dummy'[x] = dummy[x]
      /\ root'[c] = Null /\ size'[c] = 0 /\ dummy'[c] = e
  BY <1>3, <1>5
<1>7. ObjectTypes'
  <2>1. root' \in [Containers -> Ptr] /\ size' \in [Containers -> Nat]
    BY <1>3, <1>5 DEF Ptr
  <2>2. dummy' \in [Containers -> DummyAddr \cup {Null}]
    BY <1>2, <1>3, <1>5
  <2>3. \A x \in Containers \ alive' : root'[x] = Null /\ size'[x] = 0 /\ dummy'[x] = Null
    BY <1>6 DEF Objects, ObjectTypes
  <2>4. \A x \in alive' : dummy'[x] \in DummyAddr /\ dummy'[x] \in DOMAIN dummyRoot'
    BY <1>2, <1>4, <1>6 DEF Objects, ObjectTypes
  <2> QED
    BY <1>5, <2>1, <2>2, <2>3, <2>4 DEF ObjectTypes
<1>8. Apart'
  <2>1. \A x \in alive : dummy[x] # e
    BY <1>2 DEF Objects, ObjectTypes
  <2>2. \A x, y \in alive' : x # y => dummy'[x] # dummy'[y]
    BY <1>5, <1>6, <2>1 DEF Objects, Apart
  <2>3. \A x, y \in alive' :
           x # y /\ root'[x] # Null /\ root'[y] # Null => root'[x].tree # root'[y].tree
    BY <1>5, <1>6 DEF Objects, Apart
  <2> QED
    BY <2>2, <2>3 DEF Apart
<1>9. ASSUME NEW x \in alive'  PROVE Holds(x)'
  <2>1. CASE x = c
    BY <1>6, <2>1 DEF Holds, HoldsIn
  <2>2. CASE x # c
    <3>1. x \in alive /\ x \in Containers
      BY <1>5, <2>2
    <3>2. dummyRoot'[dummy[x]] = dummyRoot[dummy[x]]
      BY <1>4, <3>1 DEF Objects, ObjectTypes
    <3>3. Kept(x) /\ Holds(x)
      BY <1>6, <2>2, <3>1, <3>2 DEF Kept, Objects
    <3> QED
      BY <3>3, KeptHolds
  <2> QED
    BY <2>1, <2>2
<1> QED
  BY <1>7, <1>8, <1>9 DEF Objects

\* All nodes of a container are deleted.
LEMMA EmptiedAre ==
    ASSUME Heap, Objects, NEW c \in Containers, NEW in, NEW lf,
           in = Without(inner, Tree(c)), lf = Without(leaf, Tree(c))
    PROVE  /\ WellHeap(in, lf)
           /\ \A x \in alive \ {c} : root[x] # Null => Stays(inner, leaf, in, lf, root[x].tree)
<1>1. CASE root[c] = Null
  <2>1. Tree(c) = {}
    BY <1>1, ObjectFacts
  <2>2. in = Without(inner, {}) /\ lf = Without(leaf, {})
    BY <2>1
  <2>3. in = inner /\ lf = leaf
    <3>1. /\ inner = [a \in DOMAIN inner |-> inner[a]] /\ leaf = [a \in DOMAIN leaf |-> leaf[a]]
      BY DEF Heap, WellHeap
    <3> QED
      BY <2>2, <3>1 DEF Without
  <2>4. \A t : Stays(inner, leaf, in, lf, t)
    BY <2>3 DEF Stays
  <2>5. WellHeap(in, lf)
    BY <2>3 DEF Heap
  <2> QED
    BY <2>4, <2>5
<1>2. CASE root[c] # Null
  <2>1. c \in alive
    BY <1>2, ObjectFacts
  <2>2. PICK t : t = root[c].tree
    OBVIOUS
  <2>3. Tree(c) = OwnIn(inner, leaf, t)
    BY <1>2, <2>1, <2>2, ObjectFacts DEF Own
  <2>4. /\ WellHeap(in, lf)
        /\ \A u : u # t => Stays(inner, leaf, in, lf, u)
    BY <2>3, TreeDeleted DEF Heap
  <2>5. \A x \in alive \ {c} : root[x] # Null => root[x].tree # t
    BY <1>2, <2>1, <2>2, ObjectFacts
  <2> QED
    BY <2>4, <2>5
<1> QED
  BY <1>1, <1>2

LEMMA EmptiedHeap ==
    ASSUME Heap, Objects, NEW c \in Containers,
           inner' = Without(inner, Tree(c)), leaf' = Without(leaf, Tree(c))
    PROVE  /\ Heap'
           /\ \A x \in alive \ {c} :
                 root[x] # Null => Stays(inner, leaf, inner', leaf', root[x].tree)
<1>1. PICK in, lf : in = Without(inner, Tree(c)) /\ lf = Without(leaf, Tree(c))
  OBVIOUS
<1>2. /\ WellHeap(in, lf)
      /\ \A x \in alive \ {c} : root[x] # Null => Stays(inner, leaf, in, lf, root[x].tree)
  BY <1>1, EmptiedAre
<1> QED
  BY <1>1, <1>2 DEF Heap

\* Where the objects stay as they are, only the heap is to be looked at.
LEMMA KeptFits ==
    ASSUME Heap, Objects, alive' = alive, root' = root, size' = size, dummy' = dummy,
           dummyRoot' = dummyRoot,
           \A x \in alive : root[x] # Null => Stays(inner, leaf, inner', leaf', root[x].tree)
    PROVE  Objects'
<1>1. \A x \in alive : Holds(x) /\ Kept(x)
  BY DEF Objects, Kept
<1>2. \A x \in alive : Holds(x)'
  BY <1>1, KeptHolds
<1>3. ObjectTypes' /\ Apart'
  BY DEF Objects, ObjectTypes, Apart
<1> QED
  BY <1>2, <1>3 DEF Objects

\* The pointer and the count of one container are reset.
LEMMA ClearedFits ==
    ASSUME Heap, Objects, NEW c \in Containers, alive' = alive,
           root' = [root EXCEPT ![c] = Null], size' = [size EXCEPT ![c] = 0],
           dummy' = dummy, dummyRoot' = dummyRoot,
           \A x \in alive \ {c} : root[x] # Null => Stays(inner, leaf, inner', leaf', root[x].tree)
    PROVE  Objects'
<1>1. /\ root \in [Containers -> Ptr] /\ size \in [Containers -> Nat] /\ alive \subseteq Containers
  BY DEF Objects, ObjectTypes
<1>2. /\ \A x \in Containers \ {c} : root'[x] = root[x] /\ size'[x] = size[x]
      /\ root'[c] = Null /\ size'[c] = 0
  BY <1>1
<1>3. ObjectTypes'
  <2>1. root' \in [Containers -> Ptr] /\ size' \in [Containers -> Nat]
    BY <1>1 DEF Ptr
  <2>2. \A x \in Containers \ alive' : root'[x] = Null /\ size'[x] = 0 /\ dummy'[x] = Null
    BY <1>2 DEF Objects, ObjectTypes
  <2> QED
    BY <2>1, <2>2 DEF Objects, ObjectTypes
<1>4. Apart'
  BY <1>1, <1>2 DEF Objects, Apart
<1>5. ASSUME NEW x \in alive'  PROVE Holds(x)'
  <2>1. CASE x = c
    BY <1>2, <2>1 DEF Holds, HoldsIn
  <2>2. CASE x # c
    <3>1. Kept(x) /\ Holds(x)
      BY <1>1, <1>2, <2>2 DEF Kept, Objects
    <3> QED
      BY <3>1, KeptHolds
  <2> QED
    BY <2>1, <2>2
<1> QED
  BY <1>3, <1>4, <1>5 DEF Objects

LEMMA StaysSame ==
    ASSUME inner' = inner, leaf' = leaf
    PROVE  \A t : Stays(inner, leaf, inner', leaf', t)
  BY DEF Stays

LEMMA IdleFits ==
    ASSUME Idle, job' = job
    PROVE  JobFits'
  BY DEF Idle, JobFits

\* Construction of an empty container, however it comes about.
LEMMA ConstructFits ==
    ASSUME Inv, NEW c \in Containers, NEW x \in Containers,
           Construct(c) \/ MoveEmpty(c, x) \/ CopyEmpty(c, x)
    PROVE  Inv'
<1>1. /\ Idle /\ c \notin alive /\ alive' = alive \cup {c}
      /\ inner' = inner /\ leaf' = leaf /\ job' = job
      /\ \E d \in FreshDummy : InitContainer(c, d)
  BY DEF Construct, MoveEmpty, CopyEmpty
<1>2. PICK d \in FreshDummy : InitContainer(c, d)
  BY <1>1
<1>3. Objects'
  BY <1>1, <1>2, StaysSame, InitFits DEF Inv
<1>4. Heap'
  BY <1>1 DEF Inv, Heap
<1> QED
  BY <1>1, <1>3, <1>4, IdleFits DEF Inv

LEMMA AssignEmptyFits ==
    ASSUME Inv, NEW c \in Containers, NEW x \in Containers, AssignEmpty(c, x)
    PROVE  Inv'
<1>1. /\ Idle /\ c \in alive /\ alive' = alive /\ job' = job
      /\ inner' = Without(inner, Tree(c)) /\ leaf' = Without(leaf, Tree(c))
      /\ \E d \in FreshDummy : InitContainer(c, d)
  BY DEF AssignEmpty
<1>2. PICK d \in FreshDummy : InitContainer(c, d)
  BY <1>1
<1>3. /\ Heap'
      /\ \A y \in alive \ {c} : root[y] # Null => Stays(inner, leaf, inner', leaf', root[y].tree)
  BY <1>1, EmptiedHeap DEF Inv
<1>4. alive' = alive \cup {c}
  BY <1>1
<1>5. Objects'
  BY <1>2, <1>3, <1>4, InitFits DEF Inv
<1> QED
  BY <1>1, <1>3, <1>5, IdleFits DEF Inv

LEMMA ClearFits ==
    ASSUME Inv, NEW c \in Containers, NEW x \in Containers, Clear(c) \/ AssignThrows(c, x)
    PROVE  Inv'
<1>1. /\ Idle /\ alive' = alive /\ job' = job /\ dummy' = dummy /\ dummyRoot' = dummyRoot
      /\ Emptied(c)
  BY DEF Clear, AssignThrows
<1>2. /\ inner' = Without(inner, Tree(c)) /\ leaf' = Without(leaf, Tree(c))
      /\ root' = [root EXCEPT ![c] = Null] /\ size' = [size EXCEPT ![c] = 0]
  BY <1>1 DEF Emptied
<1>3. /\ Heap'
      /\ \A y \in alive \ {c} : root[y] # Null => Stays(inner, leaf, inner', leaf', root[y].tree)
  BY <1>2, EmptiedHeap DEF Inv
<1>4. Objects'
  BY <1>1, <1>2, <1>3, ClearedFits DEF Inv
<1> QED
  BY <1>1, <1>3, <1>4, IdleFits DEF Inv

LEMMA DestroyFits ==
    ASSUME Inv, NEW c \in Containers, Destroy(c)
    PROVE  Inv'
<1>1. /\ Idle /\ c \in alive /\ alive' = alive \ {c} /\ job' = job
      /\ dummy' = [dummy EXCEPT ![c] = Null] /\ dummyRoot' = Without(dummyRoot, {dummy[c]})
      /\ inner' = Without(inner, Tree(c)) /\ leaf' = Without(leaf, Tree(c))
      /\ root' = [root EXCEPT ![c] = Null] /\ size' = [size EXCEPT ![c] = 0]
  BY DEF Destroy, Emptied
<1>2. /\ Heap'
      /\ \A y \in alive \ {c} : root[y] # Null => Stays(inner, leaf, inner', leaf', root[y].tree)
  BY <1>1, EmptiedHeap DEF Inv
<1>3. /\ root \in [Containers -> Ptr] /\ size \in [Containers -> Nat]
      /\ dummy \in [Containers -> DummyAddr \cup {Null}] /\ alive \subseteq Containers
  BY DEF Inv, Objects, ObjectTypes
<1>4. /\ \A x \in Containers \ {c} : root'[x] = root[x] /\ size'[x] = size[x] /\ dummy'[x] = dummy[x]
      /\ root'[c] = Null /\ size'[c] = 0 /\ dummy'[c] = Null
  BY <1>1, <1>3
<1>5. /\ DOMAIN dummyRoot' = DOMAIN dummyRoot \ {dummy[c]}
      /\ \A x \in DOMAIN dummyRoot' : dummyRoot'[x] = dummyRoot[x]
  BY <1>1 DEF Without
<1>6. \A x \in alive \ {c} : /\ dummy[x] \in DummyAddr /\ dummy[x] \in DOMAIN dummyRoot'
                             /\ dummyRoot'[dummy[x]] = dummyRoot[dummy[x]]
  BY <1>1, <1>5 DEF Inv, Objects, ObjectTypes, Apart
<1>7. ObjectTypes'
  <2>1. root' \in [Containers -> Ptr] /\ size' \in [Containers -> Nat]
    BY <1>1, <1>3 DEF Ptr
  <2>2. dummy' \in [Containers -> DummyAddr \cup {Null}]
    BY <1>1, <1>3
  <2>3. \A x \in Containers \ alive' : root'[x] = Null /\ size'[x] = 0 /\ dummy'[x] = Null
    BY <1>1, <1>4 DEF Inv, Objects, ObjectTypes
  <2>4. \A x \in alive' : dummy'[x] \in DummyAddr /\ dummy'[x] \in DOMAIN dummyRoot'
    BY <1>1, <1>3, <1>4, <1>6
  <2> QED
    BY <1>1, <1>3, <2>1, <2>2, <2>3, <2>4 DEF ObjectTypes
<1>8. Apart'
  BY <1>1, <1>3, <1>4 DEF Inv, Objects, Apart
<1>9. ASSUME NEW x \in alive'  PROVE Holds(x)'
  <2>1. x \in alive /\ x # c /\ x \in Containers
    BY <1>1, <1>3
  <2>2. Kept(x) /\ Holds(x)
    BY <1>2, <1>4, <1>6, <2>1 DEF Kept, Inv, Objects
  <2> QED
    BY <2>2, KeptHolds DEF Inv
<1>10. Objects'
  BY <1>7, <1>8, <1>9 DEF Objects
<1> QED
  BY <1>1, <1>2, <1>10, IdleFits DEF Inv

LEMMA SwapFits ==
    ASSUME Inv, NEW c \in Containers, NEW x \in Containers, Swap(c, x)
    PROVE  Inv'
<1>1. /\ Idle /\ c \in alive /\ x \in alive /\ c # x /\ alive' = alive /\ job' = job
      /\ inner' = inner /\ leaf' = leaf /\ dummyRoot' = dummyRoot
  BY DEF Swap
<1>2. /\ root' = [root EXCEPT ![c] = root[x], ![x] = root[c]]
      /\ size' = [size EXCEPT ![c] = size[x], ![x] = size[c]]
      /\ dummy' = [dummy EXCEPT ![c] = dummy[x], ![x] = dummy[c]]
  BY DEF Swap
<1>3. /\ root \in [Containers -> Ptr] /\ size \in [Containers -> Nat]
      /\ dummy \in [Containers -> DummyAddr \cup {Null}] /\ alive \subseteq Containers
  BY DEF Inv, Objects, ObjectTypes
<1>4. /\ \A y \in Containers \ {c, x} :
            root'[y] = root[y] /\ size'[y] = size[y] /\ dummy'[y] = dummy[y]
      /\ root'[c] = root[x] /\ size'[c] = size[x] /\ dummy'[c] = dummy[x]
      /\ root'[x] = root[c] /\ size'[x] = size[c] /\ dummy'[x] = dummy[c]
  BY <1>1, <1>2, <1>3
<1>5. \A y \in alive' : \E z \in alive :
         /\ root'[y] = root[z] /\ size'[y] = size[z] /\ dummy'[y] = dummy[z]
         /\ z = IF y = c THEN x ELSE IF y = x THEN c ELSE y
  BY <1>1, <1>3, <1>4
<1>6. ObjectTypes'
  <2>1. root' \in [Containers -> Ptr] /\ size' \in [Containers -> Nat]
    BY <1>2, <1>3
  <2>2. dummy' \in [Containers -> DummyAddr \cup {Null}]
    BY <1>2, <1>3
  <2>3. \A y \in Containers \ alive' : root'[y] = Null /\ size'[y] = 0 /\ dummy'[y] = Null
    BY <1>1, <1>4 DEF Inv, Objects, ObjectTypes
  <2>4. \A y \in alive' : dummy'[y] \in DummyAddr /\ dummy'[y] \in DOMAIN dummyRoot'
    BY <1>1, <1>5 DEF Inv, Objects, ObjectTypes
  <2> QED
    BY <1>1, <1>3, <2>1, <2>2, <2>3, <2>4 DEF ObjectTypes
<1>7. Apart'
  <2>1. /\ \A y, z \in alive : y # z => dummy[y] # dummy[z]
        /\ \A y, z \in alive : y # z /\ root[y] # Null /\ root[z] # Null => root[y].tree # root[z].tree
    BY DEF Inv, Objects, Apart
  <2>2. ASSUME NEW y \in alive', NEW z \in alive', y # z
        PROVE  /\ dummy'[y] # dummy'[z]
               /\ root'[y] # Null /\ root'[z] # Null => root'[y].tree # root'[z].tree
    <3>1. PICK v \in alive : /\ root'[y] = root[v] /\ dummy'[y] = dummy[v]
                             /\ v = IF y = c THEN x ELSE IF y = x THEN c ELSE y
      BY <1>5
    <3>2. PICK w \in alive : /\ root'[z] = root[w] /\ dummy'[z] = dummy[w]
                             /\ w = IF z = c THEN x ELSE IF z = x THEN c ELSE z
      BY <1>5
    <3>3. v # w
      BY <1>1, <2>2, <3>1, <3>2
    <3> QED
      BY <2>1, <3>1, <3>2, <3>3
  <2> QED
    BY <2>2 DEF Apart
<1>8. ASSUME NEW y \in alive'  PROVE Holds(y)'
  <2>1. PICK z \in alive : root'[y] = root[z] /\ size'[y] = size[z] /\ dummy'[y] = dummy[z]
    BY <1>5
  <2>2. HoldsIn(inner, leaf, dummyRoot, root[z], size[z], dummy[z])
    BY DEF Inv, Objects, Holds
  <2> QED
    BY <1>1, <2>1, <2>2 DEF Holds
<1>9. Objects' /\ Heap'
  BY <1>1, <1>6, <1>7, <1>8 DEF Objects, Heap, Inv
<1> QED
  BY <1>1, <1>9, IdleFits DEF Inv

\* What container c has after it got the root of x.
LEMMA TakenFits ==
    ASSUME Heap, Objects, NEW c \in Containers, NEW x \in alive, NEW d \in DummyAddr,
           Take(c, x, d), dummy' = [dummy EXCEPT ![c] = d], alive' = alive \cup {c},
           \A y \in alive \ {c} : dummy[y] # d,
           root[x] = Null => d \in DOMAIN dummyRoot
    PROVE  Heap' /\ Objects'
<1>1. PICK r : r = root[x]
  OBVIOUS
<1>2. /\ root' = [root EXCEPT ![c] = r, ![x] = Null]
      /\ size' = [size EXCEPT ![c] = size[x], ![x] = 0]
      /\ inner' = Hang(inner, r, d) /\ leaf' = Hang(leaf, r, d)
      /\ dummyRoot' = IF r = Null THEN dummyRoot ELSE With(dummyRoot, [y \in {d} |-> r])
  BY <1>1 DEF Take
<1>3. /\ root \in [Containers -> Ptr] /\ size \in [Containers -> Nat]
      /\ dummy \in [Containers -> DummyAddr \cup {Null}] /\ alive \subseteq Containers
      /\ x \in Containers
  BY DEF Objects, ObjectTypes
<1>4. /\ \A y \in Containers \ {c, x} : root'[y] = root[y] /\ size'[y] = size[y]
      /\ \A y \in Containers \ {c} : dummy'[y] = dummy[y]
      /\ dummy'[c] = d /\ root'[x] = Null /\ size'[x] = 0
      /\ c # x => root'[c] = r /\ size'[c] = size[x]
  BY <1>2, <1>3
<1>5. /\ d \in DOMAIN dummyRoot' /\ \A y \in DOMAIN dummyRoot : y \in DOMAIN dummyRoot'
      /\ \A y \in DOMAIN dummyRoot : y # d => dummyRoot'[y] = dummyRoot[y]
      /\ r # Null => dummyRoot'[d] = r
  BY <1>1, <1>2 DEF With
<1>6. /\ Heap'
      /\ \A u : r # Null /\ u # r.tree => Stays(inner, leaf, inner', leaf', u)
      /\ r = Null => \A u : Stays(inner, leaf, inner', leaf', u)
      /\ r # Null => /\ JoinedIn(inner', leaf', r) /\ Par(inner', leaf', r) = d
                     /\ OwnIn(inner', leaf', r.tree) \cap DOMAIN leaf' = Own(r.tree) \cap DOMAIN leaf
  <2>1. CASE r = Null
    <3>1. r \notin DOMAIN inner /\ r \notin DOMAIN leaf
      BY <2>1, HeapFacts DEF Nodes
    <3>2. /\ inner = [a \in DOMAIN inner |-> inner[a]] /\ leaf = [a \in DOMAIN leaf |-> leaf[a]]
      BY DEF Heap, WellHeap
    <3>3. inner' = inner /\ leaf' = leaf
      BY <1>2, <3>1, <3>2 DEF Hang
    <3>4. \A u : Stays(inner, leaf, inner', leaf', u)
      BY <3>3, StaysSame
    <3>5. Heap'
      BY <3>3 DEF Heap
    <3> QED
      BY <2>1, <3>4, <3>5
  <2>2. CASE r # Null
    <3>1. JoinedIn(inner, leaf, r)
      BY <1>1, <2>2, ObjectFacts DEF Joined
    <3>2. WellHeap(inner, leaf) /\ Hung(inner, leaf, r)
      BY <3>1, JoinedHung DEF Heap
    <3>3. /\ WellHeap(inner', leaf')
          /\ JoinedIn(inner', leaf', r) /\ Par(inner', leaf', r) = d
          /\ OwnIn(inner', leaf', r.tree) = OwnIn(inner, leaf, r.tree)
          /\ DOMAIN leaf' = DOMAIN leaf
          /\ \A u : u # r.tree => Stays(inner, leaf, inner', leaf', u)
      BY <1>2, <3>2, Rehung
    <3> QED
      BY <2>2, <3>3 DEF Heap, Own
  <2> QED
    BY <2>1, <2>2
<1>7. ObjectTypes'
  <2>1. root' \in [Containers -> Ptr]
    <3>1. r \in Ptr /\ Null \in Ptr
      BY <1>1, <1>3 DEF Ptr
    <3> QED
      BY <1>2, <1>3, <3>1
  <2>2. size' \in [Containers -> Nat]
    BY <1>2, <1>3
  <2>3. dummy' \in [Containers -> DummyAddr \cup {Null}]
    BY <1>3
  <2>4. \A y \in Containers \ alive' : root'[y] = Null /\ size'[y] = 0 /\ dummy'[y] = Null
    BY <1>4 DEF Objects, ObjectTypes
  <2>5. \A y \in alive' : dummy'[y] \in DummyAddr /\ dummy'[y] \in DOMAIN dummyRoot'
    BY <1>3, <1>4, <1>5 DEF Objects, ObjectTypes
  <2> QED
    BY <1>3, <2>1, <2>2, <2>3, <2>4, <2>5 DEF ObjectTypes
<1>8. Apart'
  <2>1. \A y, z \in alive' : y # z => dummy'[y] # dummy'[z]
    BY <1>3, <1>4 DEF Objects, Apart
  <2>2. \A y \in alive : y # x /\ root[y] # Null /\ r # Null => root[y].tree # r.tree
    BY <1>1 DEF Objects, Apart
  <2>3. \A y, z \in alive :
           y # z /\ root[y] # Null /\ root[z] # Null => root[y].tree # root[z].tree
    BY DEF Objects, Apart
  <2>4. ASSUME NEW y \in alive', NEW z \in alive', y # z, root'[y] # Null, root'[z] # Null
        PROVE  root'[y].tree # root'[z].tree
    <3>1. y # x /\ z # x
      BY <1>4, <2>4
    <3>2. CASE y = c
      <4>1. root'[y] = r /\ z \in alive /\ root'[z] = root[z]
        BY <1>3, <1>4, <2>4, <3>1, <3>2
      <4> QED
        BY <2>2, <2>4, <3>1, <4>1
    <3>3. CASE z = c
      <4>1. root'[z] = r /\ y \in alive /\ root'[y] = root[y]
        BY <1>3, <1>4, <2>4, <3>1, <3>3
      <4> QED
        BY <2>2, <2>4, <3>1, <4>1
    <3>4. CASE y # c /\ z # c
      <4>1. y \in alive /\ z \in alive /\ root'[y] = root[y] /\ root'[z] = root[z]
        BY <1>3, <1>4, <3>1, <3>4
      <4> QED
        BY <2>3, <2>4, <4>1
    <3> QED
      BY <3>2, <3>3, <3>4
  <2> QED
    BY <2>1, <2>4 DEF Apart
<1>9. ASSUME NEW y \in alive'  PROVE Holds(y)'
  <2>1. CASE y = x
    BY <1>4, <2>1 DEF Holds, HoldsIn
  <2>2. CASE y # x /\ y = c
    <3>0. HoldsIn(inner, leaf, dummyRoot, r, size[x], dummy[x])
      BY <1>1 DEF Objects, Holds
    <3>1. CASE r = Null
      <4>1. size[x] = 0
        BY <3>0, <3>1 DEF HoldsIn
      <4> QED
        BY <1>4, <2>2, <3>1, <4>1 DEF Holds, HoldsIn
    <3>2. CASE r # Null
      <4>1. size[x] = Cardinality(Own(r.tree) \cap DOMAIN leaf)
        BY <3>0, <3>2 DEF HoldsIn, Own
      <4>2. root'[y] = r /\ size'[y] = size[x] /\ dummy'[y] = d
        BY <1>4, <2>2
      <4>3. HoldsIn(inner', leaf', dummyRoot', r, size[x], d)
        BY <1>5, <1>6, <3>2, <4>1 DEF HoldsIn
      <4> QED
        BY <4>2, <4>3 DEF Holds
    <3> QED
      BY <3>1, <3>2
  <2>3. CASE y # x /\ y # c
    <3>1. y \in alive /\ y \in Containers /\ dummy[y] \in DOMAIN dummyRoot /\ dummy[y] # d
      BY <1>3, <2>3 DEF Objects, ObjectTypes
    <3>2. root[y] # Null => Stays(inner, leaf, inner', leaf', root[y].tree)
      <4>1. root[y] # Null /\ r # Null => root[y].tree # r.tree
        BY <1>1, <2>3, <3>1 DEF Objects, Apart
      <4> QED
        BY <1>6, <4>1
    <3>3. Kept(y) /\ Holds(y)
      BY <1>4, <1>5, <2>3, <3>1, <3>2 DEF Kept, Objects
    <3> QED
      BY <3>3, KeptHolds
  <2> QED
    BY <2>1, <2>2, <2>3
<1> QED
  BY <1>6, <1>7, <1>8, <1>9 DEF Objects

LEMMA MoveFits ==
    ASSUME Inv, NEW c \in Containers, NEW x \in Containers,
           MoveConstruct(c, x) \/ MoveAssign(c, x)
    PROVE  Inv'
<1>1. CASE MoveConstruct(c, x)
  <2>1. /\ Idle /\ c \notin alive /\ x \in alive /\ root[x] # Null
        /\ alive' = alive \cup {c} /\ job' = job
    BY <1>1 DEF MoveConstruct
  <2>2. PICK e \in FreshDummy : Take(c, x, DummyAt(e)) /\ dummy' = [dummy EXCEPT ![c] = DummyAt(e)]
    BY <1>1 DEF MoveConstruct
  <2>3. PICK d : d = DummyAt(e)
    OBVIOUS
  <2>4. d \in DummyAddr /\ d \notin DOMAIN dummyRoot
    BY <2>3 DEF FreshDummy, Lowest, DummyAddr, DummyAt
  <2>5. \A y \in alive \ {c} : dummy[y] # d
    BY <2>4 DEF Inv, Objects, ObjectTypes
  <2>6. Take(c, x, d) /\ dummy' = [dummy EXCEPT ![c] = d]
    BY <2>2, <2>3
  <2>7. Heap' /\ Objects'
    BY <2>1, <2>4, <2>5, <2>6, TakenFits DEF Inv
  <2> QED
    BY <2>1, <2>7, IdleFits DEF Inv
<1>2. CASE MoveAssign(c, x)
  <2>1. PICK d : d = dummy[c]
    OBVIOUS
  <2>2. /\ Idle /\ c \in alive /\ x \in alive /\ alive' = alive /\ dummy' = dummy /\ job' = job
        /\ Take(c, x, d)
    BY <1>2, <2>1 DEF MoveAssign
  <2>3. d \in DummyAddr /\ d \in DOMAIN dummyRoot
    BY <2>1, <2>2 DEF Inv, Objects, ObjectTypes
  <2>4. \A y \in alive \ {c} : dummy[y] # d
    BY <2>1, <2>2 DEF Inv, Objects, Apart
  <2>5. dummy \in [Containers -> DummyAddr \cup {Null}]
    BY DEF Inv, Objects, ObjectTypes
  <2>6. dummy' = [dummy EXCEPT ![c] = d] /\ alive' = alive \cup {c}
    BY <2>1, <2>2, <2>5
  <2>7. Heap' /\ Objects'
    BY <2>2, <2>3, <2>4, <2>6, TakenFits DEF Inv
  <2> QED
    BY <2>2, <2>7, IdleFits DEF Inv
<1> QED
  BY <1>1, <1>2

\* A number that none of the nodes in live has.
LEMMA FreshIsFree ==
    ASSUME NEW live, NEW t \in FreshTree(live)
    PROVE  t \in Trees /\ \A a \in live : a.tree # t
  BY DEF FreshTree, Lowest

\* Container c gets tree t with the elements of R.
Inserted(c, R, t) ==
    /\ Idle /\ job' = job /\ alive' = alive /\ dummy' = dummy
    /\ DOMAIN dummyRoot' = DOMAIN dummyRoot
    /\ c \in alive /\ root[c] = Null /\ root'[c] # Null /\ root'[c].tree = t
    /\ \A y \in alive \ {c} : root'[y] = root[y]
    /\ \A y \in alive : root[y] # Null => root[y].tree # t
    /\ OwnIn(inner, leaf, t) = {}
    /\ \A u : u # t => Stays(inner, leaf, inner', leaf', u)
    /\ OwnIn(inner', leaf', t) \cap DOMAIN leaf' = {NodeAt(t, k) : k \in DOMAIN R}
    /\ \A k \in DOMAIN R : leaf'[NodeAt(t, k)].value = R[k]

LEMMA InsertFits ==
    ASSUME Inv, NEW c \in Containers, NEW R \in Ranges, InsertRange(c, R)
    PROVE  Inv' /\ \E t : Inserted(c, R, t)
<1>1. /\ Idle /\ c \in alive /\ root[c] = Null /\ size' = [size EXCEPT ![c] = Cardinality(DOMAIN R)]
      /\ alive' = alive /\ dummy' = dummy /\ job' = job
  BY DEF InsertRange
<1>2. PICK d : d = dummy[c]
  OBVIOUS
<1>3. PICK t \in FreshTree(Nodes) :
         /\ inner' = With(inner, BuiltInner(t, DOMAIN R, d))
         /\ leaf' = With(leaf, BuiltLeaves(t, R, d))
         /\ root' = [root EXCEPT ![c] = NodeAt(t, Top(DOMAIN R, <<>>))]
         /\ dummyRoot' = [dummyRoot EXCEPT ![d] = NodeAt(t, Top(DOMAIN R, <<>>))]
  BY <1>2 DEF InsertRange
<1>4. PICK r : r = NodeAt(t, Top(DOMAIN R, <<>>))
  OBVIOUS
<1>5. PICK in2, lf2, n : /\ in2 = BuiltInner(t, DOMAIN R, d) /\ lf2 = BuiltLeaves(t, R, d)
                         /\ n = Cardinality(DOMAIN R)
  OBVIOUS
<1>6. d \in DummyAddr /\ d \in DOMAIN dummyRoot
  BY <1>1, <1>2 DEF Inv, Objects, ObjectTypes
<1>7. t \in Trees /\ Own(t) = {}
  BY FreshIsFree DEF Own, OwnIn, Nodes
<1>8. TreeOf(in2, lf2, t, r, d) /\ Cardinality(DOMAIN lf2) = n /\ n \in Nat
  BY <1>4, <1>5, <1>6, <1>7, BuiltIsTree
<1>9. inner' = With(inner, in2) /\ leaf' = With(leaf, lf2)
  BY <1>3, <1>5
<1>10. WellHeap(inner, leaf) /\ OwnIn(inner, leaf, t) = {}
  BY <1>7 DEF Inv, Heap, Own
<1>11. /\ WellHeap(inner', leaf')
       /\ JoinedIn(inner', leaf', r) /\ Par(inner', leaf', r) = d
       /\ r.tree = t /\ r \in Addr
       /\ OwnIn(inner', leaf', t) \cap DOMAIN leaf' = DOMAIN lf2
       /\ \A u : u # t => Stays(inner, leaf, inner', leaf', u)
  <2>1. Added(inner, leaf, With(inner, in2), With(leaf, lf2), t, r, d, DOMAIN lf2)
    BY <1>6, <1>8, <1>10, TreeAdded
  <2>2. Added(inner, leaf, inner', leaf', t, r, d, DOMAIN lf2)
    BY <1>9, <2>1
  <2> QED
    BY <2>2 DEF Added
<1>12. /\ root' = [root EXCEPT ![c] = r] /\ size' = [size EXCEPT ![c] = n]
       /\ dummyRoot' = [dummyRoot EXCEPT ![d] = r]
  BY <1>1, <1>3, <1>4, <1>5
<1>13. /\ root \in [Containers -> Ptr] /\ size \in [Containers -> Nat] /\ alive \subseteq Containers
  BY DEF Inv, Objects, ObjectTypes
<1>14. /\ \A y \in Containers \ {c} : root'[y] = root[y] /\ size'[y] = size[y]
       /\ root'[c] = r /\ size'[c] = n
  BY <1>12, <1>13
<1>15. /\ DOMAIN dummyRoot' = DOMAIN dummyRoot /\ dummyRoot'[d] = r
       /\ \A y \in DOMAIN dummyRoot : y # d => dummyRoot'[y] = dummyRoot[y]
  BY <1>6, <1>12
<1>16. \A y \in alive : root[y] # Null => root[y].tree # t
  <2> SUFFICES ASSUME NEW y \in alive, root[y] # Null  PROVE root[y].tree # t
    OBVIOUS
  <2>1. root[y] \in Nodes
    BY ObjectFacts DEF Inv
  <2> QED
    BY <1>10, <2>1 DEF OwnIn, Nodes
<1>17. ObjectTypes'
  <2>1. root' \in [Containers -> Ptr] /\ size' \in [Containers -> Nat]
    BY <1>8, <1>11, <1>12, <1>13 DEF Ptr
  <2>2. \A y \in Containers \ alive' : root'[y] = Null /\ size'[y] = 0 /\ dummy'[y] = Null
    BY <1>1, <1>14 DEF Inv, Objects, ObjectTypes
  <2>3. \A y \in alive' : dummy'[y] \in DummyAddr /\ dummy'[y] \in DOMAIN dummyRoot'
    BY <1>1, <1>15 DEF Inv, Objects, ObjectTypes
  <2> QED
    BY <1>1, <2>1, <2>2, <2>3 DEF Inv, Objects, ObjectTypes
<1>18. Apart'
  <2>1. \A y, z \in alive' : y # z => dummy'[y] # dummy'[z]
    BY <1>1 DEF Inv, Objects, Apart
  <2>2. \A y, z \in alive' :
           y # z /\ root'[y] # Null /\ root'[z] # Null => root'[y].tree # root'[z].tree
    BY <1>1, <1>11, <1>13, <1>14, <1>16 DEF Inv, Objects, Apart
  <2> QED
    BY <2>1, <2>2 DEF Apart
<1>19. ASSUME NEW y \in alive'  PROVE Holds(y)'
  <2>1. CASE y = c
    <3>1. HoldsIn(inner', leaf', dummyRoot', r, n, d)
      <4>1. r # Null
        BY <1>11 DEF Addr, Null
      <4> QED
        BY <1>8, <1>11, <1>15, <4>1 DEF HoldsIn
    <3> QED
      BY <1>1, <1>2, <1>14, <2>1, <3>1 DEF Holds
  <2>2. CASE y # c
    <3>1. y \in alive /\ y \in Containers /\ dummy[y] \in DOMAIN dummyRoot /\ dummy[y] # d
      BY <1>1, <1>2, <1>13, <2>2 DEF Inv, Objects, ObjectTypes, Apart
    <3>2. Kept(y) /\ Holds(y)
      BY <1>1, <1>11, <1>14, <1>15, <1>16, <2>2, <3>1 DEF Kept, Inv, Objects
    <3> QED
      BY <3>2, KeptHolds DEF Inv
  <2> QED
    BY <2>1, <2>2
<1>20. Heap' /\ Objects'
  BY <1>11, <1>17, <1>18, <1>19 DEF Heap, Objects
<1>21. Inv'
  BY <1>1, <1>20, IdleFits DEF Inv
<1>22. DOMAIN R \in SUBSET Keys
  BY ShapeAssumption
<1>23. LeavesFit(lf2, t, R, d)
  BY <1>5, <1>22, BuiltLeavesAre
<1>24. \A k \in DOMAIN R : leaf'[NodeAt(t, k)].value = R[k]
  <2> SUFFICES ASSUME NEW k \in DOMAIN R  PROVE leaf'[NodeAt(t, k)].value = R[k]
    OBVIOUS
  <2>1. PICK y : y = NodeAt(t, k)
    OBVIOUS
  <2>2. y \in DOMAIN lf2 /\ lf2[y].value = R[k]
    BY <1>23, <2>1 DEF LeavesFit
  <2>3. leaf'[y] = lf2[y]
    BY <1>9, <2>2 DEF With
  <2> QED
    BY <2>1, <2>2, <2>3
<1>25. DOMAIN lf2 = {NodeAt(t, k) : k \in DOMAIN R}
  BY <1>23 DEF LeavesFit
<1>26. r # Null
  BY <1>11 DEF Addr, Null
<1>27. Inserted(c, R, t)
  <2>1. root'[c] # Null /\ root'[c].tree = t
    BY <1>11, <1>14, <1>26
  <2>2. \A y \in alive \ {c} : root'[y] = root[y]
    BY <1>13, <1>14
  <2>3. OwnIn(inner', leaf', t) \cap DOMAIN leaf' = {NodeAt(t, k) : k \in DOMAIN R}
    BY <1>11, <1>25
  <2>4. \A u : u # t => Stays(inner, leaf, inner', leaf', u)
    BY <1>11
  <2> QED
    BY <1>1, <1>10, <1>15, <1>16, <1>24, <2>1, <2>2, <2>3, <2>4 DEF Inserted
<1> QED
  BY <1>21, <1>27

-----------------------------------------------------------------------------
(* The steps of a copy, in the heap.                                       *)

\* The node at address a is new; nothing else changes.
NodeNew(f, f2, a) ==
    /\ DOMAIN f2 = DOMAIN f \cup {a}
    /\ \A x \in DOMAIN f : f2[x] = f[x]
    /\ f2 = [x \in DOMAIN f2 |-> f2[x]]

LEMMA NewNode ==
    ASSUME NEW f, NEW a, a \notin DOMAIN f, NEW v
    PROVE  /\ NodeNew(f, With(f, [y \in {a} |-> v]), a)
           /\ With(f, [y \in {a} |-> v])[a] = v
  BY DEF With, NodeNew

\* A leaf is added.
LEMMA LeafAdded ==
    ASSUME NEW in, NEW lf, NEW lf2, NEW a \in Addr, WellHeap(in, lf),
           NodeNew(lf, lf2, a), lf2[a] \in [parent : Ptr, value : Values],
           a \notin DOMAIN in \cup DOMAIN lf, a = NodeAt(a.tree, a.path), a.kind = "leaf",
           Len(a.path) <= KeyLen
    PROVE  WellHeap(in, lf2)
<1>1. PICK all, all2 : /\ all = DOMAIN in \cup DOMAIN lf
                       /\ all2 = DOMAIN in \cup DOMAIN lf2
  OBVIOUS
<1>2. all2 = all \cup {a} /\ a \notin all
  BY <1>1 DEF NodeNew
<1>3. in \in [DOMAIN in -> [parent : Ptr, child : [Byte -> all2 \cup {Null}]]]
  <2>1. in \in [DOMAIN in -> [parent : Ptr, child : [Byte -> all \cup {Null}]]]
    BY <1>1 DEF WellHeap
  <2>2. in = [x \in DOMAIN in |-> in[x]]
    BY <2>1
  <2>3. \A x \in DOMAIN in : in[x] \in [parent : Ptr, child : [Byte -> all2 \cup {Null}]]
    BY <1>2, <2>1
  <2> QED
    BY <2>2, <2>3
<1>4. lf2 \in [DOMAIN lf2 -> [parent : Ptr, value : Values]]
  <2>1. \A x \in DOMAIN lf : lf[x] \in [parent : Ptr, value : Values]
    BY DEF WellHeap
  <2> QED
    BY <2>1 DEF NodeNew
<1>5. \A x \in all : /\ x \in Addr /\ x = NodeAt(x.tree, x.path)
                     /\ (x \in DOMAIN lf <=> x.kind = "leaf")
                     /\ Len(x.path) <= KeyLen
  BY <1>1 DEF WellHeap
<1>6. \A x \in all2 : /\ x \in Addr /\ x = NodeAt(x.tree, x.path)
                      /\ (x \in DOMAIN lf2 <=> x.kind = "leaf")
                      /\ Len(x.path) <= KeyLen
  BY <1>2, <1>5 DEF NodeNew
<1>7. DOMAIN in \cap DOMAIN lf2 = {}
  BY <1>1, <1>2 DEF NodeNew, WellHeap
<1>8. \A x \in DOMAIN in, b \in Byte : in[x].child[b] # Null => Fits(x, b, in[x].child[b])
  BY DEF WellHeap
<1> QED
  BY <1>1, <1>3, <1>4, <1>6, <1>7, <1>8 DEF WellHeap

\* An inner node without children is added.
LEMMA InnerAdded ==
    ASSUME NEW in, NEW in2, NEW lf, NEW a \in Addr, NEW p \in Ptr, WellHeap(in, lf),
           NodeNew(in, in2, a), in2[a] = [parent |-> p, child |-> [b \in Byte |-> Null]],
           a \notin DOMAIN in \cup DOMAIN lf, a = NodeAt(a.tree, a.path), a.kind = "inner",
           Len(a.path) <= KeyLen
    PROVE  WellHeap(in2, lf)
<1>1. PICK all, all2 : /\ all = DOMAIN in \cup DOMAIN lf
                       /\ all2 = DOMAIN in2 \cup DOMAIN lf
  OBVIOUS
<1>2. all2 = all \cup {a} /\ a \notin all
  BY <1>1 DEF NodeNew
<1>3. in2 \in [DOMAIN in2 -> [parent : Ptr, child : [Byte -> all2 \cup {Null}]]]
  <2>1. \A x \in DOMAIN in : in[x] \in [parent : Ptr, child : [Byte -> all \cup {Null}]]
    BY <1>1 DEF WellHeap
  <2>2. \A x \in DOMAIN in : in[x] \in [parent : Ptr, child : [Byte -> all2 \cup {Null}]]
    BY <1>2, <2>1
  <2>3. in2[a] \in [parent : Ptr, child : [Byte -> all2 \cup {Null}]]
    OBVIOUS
  <2> QED
    BY <2>2, <2>3 DEF NodeNew
<1>4. lf \in [DOMAIN lf -> [parent : Ptr, value : Values]]
  BY DEF WellHeap
<1>5. \A x \in all : /\ x \in Addr /\ x = NodeAt(x.tree, x.path)
                     /\ (x \in DOMAIN lf <=> x.kind = "leaf")
                     /\ Len(x.path) <= KeyLen
  BY <1>1 DEF WellHeap
<1>6. \A x \in all2 : /\ x \in Addr /\ x = NodeAt(x.tree, x.path)
                      /\ (x \in DOMAIN lf <=> x.kind = "leaf")
                      /\ Len(x.path) <= KeyLen
  BY <1>1, <1>2, <1>5
<1>7. DOMAIN in2 \cap DOMAIN lf = {}
  BY <1>1, <1>2 DEF NodeNew, WellHeap
<1>8. \A x \in DOMAIN in2, b \in Byte : in2[x].child[b] # Null => Fits(x, b, in2[x].child[b])
  <2>1. \A x \in DOMAIN in, b \in Byte : in[x].child[b] # Null => Fits(x, b, in[x].child[b])
    BY DEF WellHeap
  <2>2. \A b \in Byte : in2[a].child[b] = Null
    OBVIOUS
  <2> QED
    BY <2>1, <2>2 DEF NodeNew
<1> QED
  BY <1>1, <1>3, <1>4, <1>6, <1>7, <1>8 DEF WellHeap

\* Slot b of node y gets k; parents may change, too.
Linked(in, in2, y, b, k) ==
    /\ DOMAIN in2 = DOMAIN in /\ in2 = [x \in DOMAIN in |-> in2[x]]
    /\ \A x \in DOMAIN in : /\ in2[x] = [parent |-> in2[x].parent, child |-> in2[x].child]
                            /\ in2[x].parent \in Ptr
    /\ \A x \in DOMAIN in \ {y} : in2[x].child = in[x].child
    /\ in2[y].child = [in[y].child EXCEPT ![b] = k]

OneSlot(in, in2, y, b, k) ==
    \A x \in DOMAIN in, c \in Byte :
       in2[x].child[c] = IF x = y /\ c = b THEN k ELSE in[x].child[c]

\* Pointers of inner nodes are set, to where they may point.
LEMMA PointersSet ==
    ASSUME NEW in, NEW in2, NEW lf, NEW y \in DOMAIN in, NEW b \in Byte,
           NEW k \in DOMAIN in \cup DOMAIN lf,
           WellHeap(in, lf), Linked(in, in2, y, b, k), Fits(y, b, k)
    PROVE  WellHeap(in2, lf) /\ OneSlot(in, in2, y, b, k)
<1>1. PICK all : all = DOMAIN in \cup DOMAIN lf
  OBVIOUS
<1>2. \A x \in DOMAIN in : in[x].child \in [Byte -> all \cup {Null}]
  BY <1>1, WellFacts
<1>3. \A x \in DOMAIN in, c \in Byte :
         in2[x].child[c] = IF x = y /\ c = b THEN k ELSE in[x].child[c]
  BY <1>2 DEF Linked
<1>4. \A x \in DOMAIN in : in2[x].child \in [Byte -> all \cup {Null}]
  BY <1>1, <1>2 DEF Linked
<1>5. in2 \in [DOMAIN in2 -> [parent : Ptr, child : [Byte -> all \cup {Null}]]]
  <2> SUFFICES ASSUME NEW x \in DOMAIN in
               PROVE  in2[x] \in [parent : Ptr, child : [Byte -> all \cup {Null}]]
    BY DEF Linked
  <2>1. PICK p, q : p = in2[x].parent /\ q = in2[x].child
    OBVIOUS
  <2>2. in2[x] = [parent |-> p, child |-> q] /\ p \in Ptr /\ q \in [Byte -> all \cup {Null}]
    BY <1>4, <2>1 DEF Linked
  <2> QED
    BY <2>2
<1>6. \A x \in DOMAIN in2, c \in Byte : in2[x].child[c] # Null => Fits(x, c, in2[x].child[c])
  <2>1. \A x \in DOMAIN in, c \in Byte : in[x].child[c] # Null => Fits(x, c, in[x].child[c])
    BY DEF WellHeap
  <2> QED
    BY <1>3, <2>1 DEF Linked
<1>7. WellHeap(in2, lf)
  BY <1>1, <1>5, <1>6 DEF WellHeap, Linked
<1> QED
  BY <1>3, <1>7 DEF OneSlot

\* Inner nodes are deleted that no other node leads to.
LEMMA NodesDeleted ==
    ASSUME NEW in, NEW in2, NEW lf, NEW Z, in2 = Without(in, Z), WellHeap(in, lf),
           \A x \in DOMAIN in \ Z, b \in Byte : in[x].child[b] \notin Z \/ in[x].child[b] = Null,
           Z \cap DOMAIN lf = {}
    PROVE  WellHeap(in2, lf)
<1>1. PICK all, all2 : /\ all = DOMAIN in \cup DOMAIN lf
                       /\ all2 = DOMAIN in2 \cup DOMAIN lf
  OBVIOUS
<1>2. /\ DOMAIN in2 = DOMAIN in \ Z /\ \A x \in DOMAIN in2 : in2[x] = in[x]
      /\ in2 = [x \in DOMAIN in2 |-> in2[x]]
  BY DEF Without
<1>3. all2 = all \ Z
  BY <1>1, <1>2
<1>4. in2 \in [DOMAIN in2 -> [parent : Ptr, child : [Byte -> all2 \cup {Null}]]]
  <2> SUFFICES ASSUME NEW a \in DOMAIN in2
               PROVE  in2[a] \in [parent : Ptr, child : [Byte -> all2 \cup {Null}]]
    BY <1>2
  <2>1. PICK p, q : p = in[a].parent /\ q = in[a].child
    OBVIOUS
  <2>2. in2[a] = [parent |-> p, child |-> q] /\ p \in Ptr /\ q \in [Byte -> all \cup {Null}]
    BY <1>1, <1>2, <2>1, WellFacts
  <2>3. \A b \in Byte : q[b] \in all2 \cup {Null}
    BY <1>2, <1>3, <2>1, <2>2
  <2>4. q \in [Byte -> all2 \cup {Null}]
    BY <2>2, <2>3
  <2> QED
    BY <2>2, <2>4
<1>5. \A x \in all : /\ x \in Addr /\ x = NodeAt(x.tree, x.path)
                     /\ (x \in DOMAIN lf <=> x.kind = "leaf")
                     /\ Len(x.path) <= KeyLen
  BY <1>1 DEF WellHeap
<1>6. /\ lf \in [DOMAIN lf -> [parent : Ptr, value : Values]]
      /\ DOMAIN in2 \cap DOMAIN lf = {}
  BY <1>2 DEF WellHeap
<1>7. \A x \in DOMAIN in2, b \in Byte : in2[x].child[b] # Null => Fits(x, b, in2[x].child[b])
  BY <1>2 DEF WellHeap
<1> QED
  BY <1>1, <1>3, <1>4, <1>5, <1>6, <1>7 DEF WellHeap

-----------------------------------------------------------------------------
(* The steps of a copy, in the tree that is made.                          *)

\* The tree below r, which is copied into tree t.
Source(in, lf, r, t) ==
    LET O == OwnIn(in, lf, r.tree)
    IN  /\ r \in O
        /\ \A a \in O : /\ New(t, a) \in Addr /\ New(t, a).tree = t /\ New(t, a).path = a.path
                        /\ New(t, a).kind = a.kind /\ Len(a.path) \in Nat /\ Len(a.path) <= KeyLen
                        /\ New(t, a) # Null /\ New(t, a) \notin O
                        /\ New(t, a) = NodeAt(New(t, a).tree, New(t, a).path)
                        /\ a.kind = IF a \in DOMAIN lf THEN "leaf" ELSE "inner"
                        /\ a \in DOMAIN in \/ a \in DOMAIN lf
                        /\ a # Null
        /\ \A a, x \in O : New(t, a) = New(t, x) => a = x
        /\ \A a \in O : /\ New(t, a) \in DOMAIN in => a \in DOMAIN in
                        /\ New(t, a) \in DOMAIN lf => a \in DOMAIN lf
        /\ \A a \in O \cap DOMAIN in, b \in Byte : in[a].child[b] # Null =>
              /\ in[a].child[b] \in O /\ in[a].child[b] # r
              /\ Par(in, lf, in[a].child[b]) = a
              /\ Len(a.path) < Len(in[a].child[b].path)
              /\ in[a].child[b].path[Len(a.path) + 1] = b
        /\ \A a \in O \ {r} : Par(in, lf, a) \in O \cap DOMAIN in

LEMMA SourceFacts ==
    ASSUME NEW in, NEW lf, NEW r, NEW t \in Trees, WellHeap(in, lf), JoinedIn(in, lf, r),
           t # r.tree
    PROVE  Source(in, lf, r, t)
<1>1. PICK O : O = OwnIn(in, lf, r.tree)
  OBVIOUS
<1>2. \A a \in O : /\ a \in DOMAIN in \/ a \in DOMAIN lf
                   /\ a.tree = r.tree /\ a \in DOMAIN in \cup DOMAIN lf
  BY <1>1 DEF OwnIn
<1>3. \A a \in O : /\ a \in Addr /\ a.path \in Seq(Byte) /\ a = NodeAt(r.tree, a.path)
                   /\ Len(a.path) \in Nat /\ Len(a.path) <= KeyLen
                   /\ (a \in DOMAIN lf <=> a.kind = "leaf") /\ a # Null
  BY <1>2, WellFacts
<1>4. ASSUME NEW a \in O
      PROVE  /\ New(t, a) \in Addr /\ New(t, a).tree = t /\ New(t, a).path = a.path
             /\ New(t, a).kind = a.kind
             /\ New(t, a) # Null
             /\ New(t, a) = NodeAt(New(t, a).tree, New(t, a).path)
             /\ a.kind = IF a \in DOMAIN lf THEN "leaf" ELSE "inner"
  <2>1. PICK p : p = a.path
    OBVIOUS
  <2>2. p \in Seq(Byte) /\ a = NodeAt(r.tree, p)
    BY <1>3, <2>1
  <2>3. PICK x : x = New(t, a)
    OBVIOUS
  <2>4. x = [kind |-> IF p \in Keys THEN "leaf" ELSE "inner", tree |-> t, path |-> p]
    BY <2>1, <2>3 DEF New, NodeAt
  <2>5. a.kind = IF p \in Keys THEN "leaf" ELSE "inner"
    BY <2>2 DEF NodeAt
  <2>6. x.tree = t /\ x.path = p /\ x.kind = a.kind /\ x \in Addr /\ x # Null
    BY <2>2, <2>4, <2>5 DEF Addr, Null
  <2>7. x = NodeAt(x.tree, x.path)
    BY <2>4, <2>6 DEF NodeAt
  <2>8. a.kind = IF a \in DOMAIN lf THEN "leaf" ELSE "inner"
    BY <1>3, <2>5
  <2> QED
    BY <2>1, <2>3, <2>6, <2>7, <2>8
<1>5. \A a \in O : New(t, a) \notin O
  BY <1>2, <1>4
<1>6. \A a, x \in O : New(t, a) = New(t, x) => a = x
  <2> SUFFICES ASSUME NEW a \in O, NEW x \in O, New(t, a) = New(t, x)  PROVE a = x
    OBVIOUS
  <2>1. a.path = x.path
    BY <1>4
  <2> QED
    BY <1>3, <2>1
<1>7. \A a \in O : /\ New(t, a) \in DOMAIN in => a \in DOMAIN in
                   /\ New(t, a) \in DOMAIN lf => a \in DOMAIN lf
  <2> SUFFICES ASSUME NEW a \in O
               PROVE  /\ New(t, a) \in DOMAIN in => a \in DOMAIN in
                      /\ New(t, a) \in DOMAIN lf => a \in DOMAIN lf
    OBVIOUS
  <2>1. PICK x : x = New(t, a)
    OBVIOUS
  <2>2. x.kind = a.kind
    BY <1>4, <2>1
  <2>3. x \in DOMAIN lf => x.kind = "leaf"
    BY WellFacts
  <2>4. x \in DOMAIN in => x.kind # "leaf"
    BY WellFacts
  <2> QED
    BY <1>2, <1>3, <2>1, <2>2, <2>3, <2>4
<1>8. ASSUME NEW a \in O \cap DOMAIN in, NEW b \in Byte, in[a].child[b] # Null
      PROVE  /\ in[a].child[b] \in O /\ in[a].child[b] # r
             /\ Par(in, lf, in[a].child[b]) = a
             /\ Len(a.path) < Len(in[a].child[b].path)
             /\ in[a].child[b].path[Len(a.path) + 1] = b
  <2>1. PICK k : k = in[a].child[b]
    OBVIOUS
  <2>2. /\ k \in DOMAIN in \cup DOMAIN lf /\ k.tree = a.tree /\ Len(a.path) < Len(k.path)
        /\ k.path[Len(a.path) + 1] = b
    BY <1>8, <2>1, WellFacts
  <2>3. k \in O
    BY <1>1, <1>2, <2>2 DEF OwnIn
  <2>4. Hung(in, lf, r)
    BY JoinedHung
  <2>5. Par(in, lf, k) = a /\ k # r
    BY <1>2, <1>8, <2>1, <2>4 DEF Hung
  <2> QED
    BY <2>1, <2>2, <2>3, <2>5
<1>9. ASSUME NEW a \in O \ {r}  PROVE Par(in, lf, a) \in O \cap DOMAIN in
  <2>1. PICK p : p = Par(in, lf, a)
    OBVIOUS
  <2>2. p \in DOMAIN in /\ \E b \in Byte : in[p].child[b] = a
    BY <1>1, <2>1 DEF JoinedIn
  <2>3. PICK b \in Byte : in[p].child[b] = a
    BY <2>2
  <2>4. a.tree = p.tree
    BY <1>3, <2>2, <2>3, WellFacts
  <2> QED
    BY <1>1, <1>2, <2>1, <2>2, <2>4 DEF OwnIn
<1>10. r \in O
  BY <1>1 DEF JoinedIn, OwnIn
<1> QED
  BY <1>1, <1>2, <1>3, <1>4, <1>5, <1>6, <1>7, <1>8, <1>9, <1>10 DEF Source

\* The next child that is to be copied.
Pending(in, lf, st, r, t, n, s, b, a) ==
    LET all == DOMAIN in \cup DOMAIN lf
    IN  /\ n \in DOMAIN st /\ n = Len(st) /\ st[n].src = s /\ b \in st[n].todo /\ b \in Byte
        /\ s \in OwnIn(in, lf, r.tree) \cap DOMAIN in /\ New(t, s) \in DOMAIN in
        /\ a = in[s].child[b] /\ a # Null /\ a \in OwnIn(in, lf, r.tree) /\ a # r
        /\ Par(in, lf, a) = s /\ Len(s.path) < Len(a.path)
        /\ New(t, a) \notin all /\ in[New(t, s)].child[b] = Null
        /\ \A i \in DOMAIN st : /\ st[i].src \in OwnIn(in, lf, r.tree) \cap DOMAIN in
                                /\ st[i].src # a /\ Len(st[i].src.path) <= Len(s.path)
                                /\ st[i].src = s => i = n

LEMMA NextChild ==
    ASSUME NEW in, NEW lf, NEW st, NEW r, NEW t, NEW b \in st[Len(st)].todo,
           Source(in, lf, r, t), StackIn(in, lf, st, r, t), CopyIn(in, lf, st, r, t)
    PROVE  Pending(in, lf, st, r, t, Len(st), st[Len(st)].src, b, in[st[Len(st)].src].child[b])
<1>1. PICK O, all : O = OwnIn(in, lf, r.tree) /\ all = DOMAIN in \cup DOMAIN lf
  OBVIOUS
<1>2. PICK n : n = Len(st)
  OBVIOUS
<1>3. st \in Seq([src : O, todo : SUBSET Byte]) /\ st # <<>> /\ st[1].src = r
  BY <1>1 DEF StackIn
<1>4. n \in Nat /\ n >= 1 /\ DOMAIN st = 1..n /\ n \in DOMAIN st
  BY <1>2, <1>3
<1>5. \A i \in DOMAIN st : st[i] \in [src : O, todo : SUBSET Byte]
  <2>1. PICK X : X = [src : O, todo : SUBSET Byte]
    OBVIOUS
  <2>2. st \in Seq(X)
    BY <1>3, <2>1
  <2>3. \A i \in DOMAIN st : st[i] \in X
    BY <2>2
  <2> QED
    BY <2>1, <2>3
<1>6. \A i \in DOMAIN st : st[i].src \in O /\ st[i].todo \in SUBSET Byte
  BY <1>5
<1>7. PICK s : s = st[n].src
  OBVIOUS
<1>8. s \in O /\ b \in st[n].todo /\ b \in Byte
  BY <1>2, <1>4, <1>6, <1>7
<1>9. PICK a : a = in[s].child[b]
  OBVIOUS
<1>10. \A i \in DOMAIN st : st[i].src \notin DOMAIN lf
  <2> SUFFICES ASSUME NEW i \in DOMAIN st, st[i].src \in DOMAIN lf  PROVE FALSE
    OBVIOUS
  <2>1. st[i].todo = {} /\ n = 1
    BY <1>2 DEF StackIn
  <2>2. i = n
    BY <1>4, <2>1
  <2> QED
    BY <1>8, <2>1, <2>2
<1>11. \A i \in DOMAIN st : st[i].src \in O \cap DOMAIN in
  BY <1>1, <1>6, <1>10 DEF Source
<1>12. s \in DOMAIN in
  BY <1>4, <1>7, <1>11
<1>13. a # Null
  BY <1>4, <1>7, <1>8, <1>9, <1>12 DEF StackIn
<1>14. a \in O /\ a # r /\ Par(in, lf, a) = s /\ Len(s.path) < Len(a.path)
  BY <1>1, <1>8, <1>9, <1>12, <1>13 DEF Source
<1>15. \A i \in DOMAIN st : Len(st[i].src.path) <= Len(s.path) /\ (st[i].src = s => i = n)
  <2> SUFFICES ASSUME NEW i \in DOMAIN st
               PROVE  Len(st[i].src.path) <= Len(s.path) /\ (st[i].src = s => i = n)
    OBVIOUS
  <2>1. Len(st[i].src.path) \in Nat /\ Len(s.path) \in Nat
    BY <1>1, <1>6, <1>8 DEF Source
  <2>2. i < n => Len(st[i].src.path) < Len(s.path)
    BY <1>4, <1>7 DEF StackIn
  <2>3. i \in Nat /\ (i < n \/ i = n)
    BY <1>4
  <2> QED
    BY <1>7, <2>1, <2>2, <2>3
<1>16. \A i \in DOMAIN st : st[i].src # a
  <2>1. Len(a.path) \in Nat /\ Len(s.path) \in Nat
    BY <1>1, <1>8, <1>14 DEF Source
  <2>2. \A i \in DOMAIN st : Len(st[i].src.path) \in Nat
    BY <1>1, <1>6 DEF Source
  <2> QED
    BY <1>14, <1>15, <2>1, <2>2
<1>17. New(t, s) \in DOMAIN in
  <2>1. New(t, s) \in all
    BY <1>1, <1>4, <1>7 DEF StackIn
  <2>2. New(t, s) \in DOMAIN lf => s \in DOMAIN lf
    BY <1>1, <1>8 DEF Source
  <2> QED
    BY <1>1, <1>4, <1>7, <1>10, <2>1, <2>2
<1>18. SlotCopied(in, lf, st, t, s, b)
  BY <1>1, <1>8, <1>12, <1>17 DEF CopyIn
<1>19. ToDo(st, s, b)
  BY <1>4, <1>7, <1>8 DEF ToDo
<1>20. in[New(t, s)].child[b] = Null /\ New(t, a) \notin all
  BY <1>1, <1>9, <1>13, <1>18, <1>19 DEF SlotCopied
<1>21. Pending(in, lf, st, r, t, n, s, b, a)
  BY <1>1, <1>2, <1>4, <1>7, <1>8, <1>9, <1>11, <1>12, <1>13, <1>14, <1>15, <1>16, <1>17, <1>20
  DEF Pending
<1> QED
  BY <1>2, <1>7, <1>9, <1>21

\* A slot of which nothing has changed.
LEMMA SlotKept ==
    ASSUME NEW in, NEW lf, NEW st, NEW in2, NEW lf2, NEW st2, NEW t, NEW a, NEW b, NEW k, NEW m,
           SlotCopied(in, lf, st, t, a, b),
           k = in[a].child[b], in2[a].child[b] = k,
           m = in[New(t, a)].child[b], in2[New(t, a)].child[b] = m,
           k # Null => /\ ToDo(st2, a, b) <=> ToDo(st, a, b)
                       /\ ToDo(st, a, b) /\ New(t, k) \notin DOMAIN in \cup DOMAIN lf =>
                             New(t, k) \notin DOMAIN in2 \cup DOMAIN lf2
                       /\ OnStack(st2, k) <=> OnStack(st, k)
                       /\ ~ OnStack(st, k) /\ m = New(t, k) /\ m \in DOMAIN in \cup DOMAIN lf =>
                             /\ m \in DOMAIN in2 \cup DOMAIN lf2
                             /\ Par(in2, lf2, m) = Par(in, lf, m)
    PROVE  SlotCopied(in2, lf2, st2, t, a, b)
<1>1. CASE k = Null
  BY <1>1 DEF SlotCopied
<1>2. CASE k # Null /\ ToDo(st, a, b)
  BY <1>2 DEF SlotCopied
<1>3. CASE k # Null /\ ~ ToDo(st, a, b) /\ OnStack(st, k)
  BY <1>3 DEF SlotCopied
<1>4. CASE k # Null /\ ~ ToDo(st, a, b) /\ ~ OnStack(st, k)
  <2>1. m = New(t, k) /\ m \in DOMAIN in \cup DOMAIN lf /\ Par(in, lf, m) = New(t, a)
    BY <1>4 DEF SlotCopied
  <2>2. m \in DOMAIN in2 \cup DOMAIN lf2 /\ Par(in2, lf2, m) = New(t, a)
    BY <1>4, <2>1
  <2> QED
    BY <1>4, <2>1, <2>2 DEF SlotCopied
<1> QED
  BY <1>1, <1>2, <1>3, <1>4

\* The node on top of the stack has one child less to do.
Moved(st, st2, n, b) ==
    /\ DOMAIN st2 = DOMAIN st /\ Len(st2) = Len(st)
    /\ \A i \in DOMAIN st : /\ st2[i].src = st[i].src
                            /\ st2[i].todo = IF i = n THEN st[n].todo \ {b} ELSE st[i].todo

LEMMA Advanced ==
    ASSUME NEW X, NEW st \in Seq([src : X, todo : SUBSET Byte]), NEW n \in DOMAIN st, NEW b
    PROVE  /\ [st EXCEPT ![n].todo = @ \ {b}] \in Seq([src : X, todo : SUBSET Byte])
           /\ Moved(st, [st EXCEPT ![n].todo = @ \ {b}], n, b)
<1>1. PICK F : F = [src : X, todo : SUBSET Byte]
  OBVIOUS
<1>2. st \in Seq(F)
  BY <1>1
<1>3. \A i \in DOMAIN st : st[i] \in F
  BY <1>2
<1>4. PICK f : f = [st[n] EXCEPT !.todo = st[n].todo \ {b}]
  OBVIOUS
<1>5. PICK s, d : s = st[n].src /\ d = st[n].todo
  OBVIOUS
<1>6. st[n] = [src |-> s, todo |-> d] /\ s \in X /\ d \in SUBSET Byte
  BY <1>1, <1>3, <1>5
<1>7. f = [src |-> s, todo |-> d \ {b}]
  BY <1>4, <1>5, <1>6
<1>8. f \in F /\ f.src = s /\ f.todo = d \ {b}
  BY <1>1, <1>6, <1>7
<1>9. PICK st2 : st2 = [st EXCEPT ![n] = f]
  OBVIOUS
<1>10. st2 \in Seq(F) /\ Len(st2) = Len(st)
  BY <1>2, <1>8, <1>9
<1>11. DOMAIN st2 = DOMAIN st /\ \A i \in DOMAIN st : st2[i] = IF i = n THEN f ELSE st[i]
  BY <1>9
<1>12. Moved(st, st2, n, b)
  BY <1>5, <1>8, <1>10, <1>11 DEF Moved
<1>13. [st EXCEPT ![n].todo = @ \ {b}] = st2
  BY <1>4, <1>9
<1> QED
  BY <1>1, <1>10, <1>12, <1>13

Alone(st, n) == \A i \in DOMAIN st : st[i].src = st[n].src => i = n

OneLess(st, st2, s, b) ==
    /\ \A x : OnStack(st2, x) <=> OnStack(st, x)
    /\ \A x, c : ToDo(st2, x, c) <=> ToDo(st, x, c) /\ ~ (x = s /\ c = b)

LEMMA MovedMeans ==
    ASSUME NEW st, NEW st2, NEW n \in DOMAIN st, NEW b, Moved(st, st2, n, b), Alone(st, n)
    PROVE  OneLess(st, st2, st[n].src, b)
<1>1. \A x : OnStack(st2, x) <=> OnStack(st, x)
  BY DEF OnStack, Moved
<1>2. ASSUME NEW x, NEW c
      PROVE  ToDo(st2, x, c) <=> ToDo(st, x, c) /\ ~ (x = st[n].src /\ c = b)
  <2>1. ASSUME ToDo(st2, x, c)  PROVE ToDo(st, x, c) /\ ~ (x = st[n].src /\ c = b)
    <3>1. PICK i \in DOMAIN st2 : st2[i].src = x /\ c \in st2[i].todo
      BY <2>1 DEF ToDo
    <3>2. i \in DOMAIN st /\ st[i].src = x /\ c \in st[i].todo /\ (i = n => c # b)
      BY <3>1 DEF Moved
    <3>3. ToDo(st, x, c)
      BY <3>2 DEF ToDo
    <3> QED
      BY <3>1, <3>2, <3>3 DEF Alone
  <2>2. ASSUME ToDo(st, x, c), ~ (x = st[n].src /\ c = b)  PROVE ToDo(st2, x, c)
    <3>1. PICK i \in DOMAIN st : st[i].src = x /\ c \in st[i].todo
      BY <2>2 DEF ToDo
    <3>2. i \in DOMAIN st2 /\ st2[i].src = x /\ c \in st2[i].todo
      BY <2>2, <3>1 DEF Moved, Alone
    <3> QED
      BY <3>2 DEF ToDo
  <2> QED
    BY <2>1, <2>2
<1> QED
  BY <1>1, <1>2 DEF OneLess

\* Nothing happens to the tree below r, and no node goes.
Grown(in, lf, in2, lf2, r) ==
    /\ Stays(in, lf, in2, lf2, r.tree)
    /\ DOMAIN in \subseteq DOMAIN in2 /\ DOMAIN lf \subseteq DOMAIN lf2

AsBefore(in, lf, in2, lf2, r) ==
    /\ OwnIn(in2, lf2, r.tree) = OwnIn(in, lf, r.tree)
    /\ \A a \in OwnIn(in, lf, r.tree) :
          /\ a \in DOMAIN in2 <=> a \in DOMAIN in
          /\ a \in DOMAIN lf2 <=> a \in DOMAIN lf
          /\ a \in DOMAIN in => in2[a] = in[a]
          /\ a \in DOMAIN lf => lf2[a] = lf[a]
          /\ Par(in2, lf2, a) = Par(in, lf, a)

LEMMA SourceStays ==
    ASSUME NEW in, NEW lf, NEW in2, NEW lf2, NEW r, Stays(in, lf, in2, lf2, r.tree)
    PROVE  AsBefore(in, lf, in2, lf2, r)
<1>1. PICK O : O = OwnIn(in, lf, r.tree)
  OBVIOUS
<1>2. \A a \in O : /\ a \in DOMAIN in2 <=> a \in DOMAIN in
                   /\ a \in DOMAIN lf2 <=> a \in DOMAIN lf
                   /\ a \in DOMAIN in => in2[a] = in[a]
                   /\ a \in DOMAIN lf => lf2[a] = lf[a]
  BY <1>1 DEF Stays
<1>3. \A a \in O : a \in DOMAIN in \/ a \in DOMAIN lf
  BY <1>1 DEF OwnIn
<1>4. \A a \in O : Par(in2, lf2, a) = Par(in, lf, a)
  BY <1>2, <1>3 DEF Par
<1> QED
  BY <1>1, <1>2, <1>4 DEF Stays, AsBefore

LEMMA StackMoved ==
    ASSUME NEW in, NEW lf, NEW in2, NEW lf2, NEW st, NEW st2, NEW r, NEW t, NEW n, NEW b,
           Source(in, lf, r, t), StackIn(in, lf, st, r, t), Grown(in, lf, in2, lf2, r),
           Moved(st, st2, n, b), n = Len(st),
           st2 \in Seq([src : OwnIn(in, lf, r.tree), todo : SUBSET Byte])
    PROVE  StackIn(in2, lf2, st2, r, t)
<1>1. PICK O : O = OwnIn(in, lf, r.tree)
  OBVIOUS
<1>2. /\ OwnIn(in2, lf2, r.tree) = O
      /\ \A a \in O : /\ a \in DOMAIN in2 <=> a \in DOMAIN in
                      /\ a \in DOMAIN lf2 <=> a \in DOMAIN lf
                      /\ a \in DOMAIN in => in2[a] = in[a]
  <2>1. AsBefore(in, lf, in2, lf2, r)
    BY SourceStays DEF Grown
  <2> QED
    BY <1>1, <2>1 DEF AsBefore
<1>3. PICK X : X = [src : O, todo : SUBSET Byte]
  OBVIOUS
<1>4. st \in Seq(X) /\ st # <<>> /\ st[1].src = r
  BY <1>1, <1>3 DEF StackIn
<1>5. n \in Nat /\ n >= 1 /\ DOMAIN st = 1..n /\ \A i \in DOMAIN st : st[i] \in X
  BY <1>4
<1>6. \A i \in DOMAIN st : st[i].src \in O
  BY <1>3, <1>5
<1>7. /\ DOMAIN st2 = DOMAIN st /\ Len(st2) = Len(st)
      /\ \A i \in DOMAIN st : /\ st2[i].src = st[i].src /\ st2[i].todo \subseteq st[i].todo
                              /\ i # n => st2[i].todo = st[i].todo
  BY DEF Moved
<1>8. st2 # <<>> /\ st2[1].src = r
  <2>1. 1 \in DOMAIN st
    BY <1>5
  <2>2. Len(st2) # 0
    BY <1>5, <1>7
  <2> QED
    BY <1>4, <1>7, <2>1, <2>2
<1>9. \A i \in DOMAIN st2 :
         /\ New(t, st2[i].src) \in DOMAIN in2 \cup DOMAIN lf2
         /\ st2[i].src \in DOMAIN lf2 => st2[i].todo = {} /\ Len(st2) = 1
         /\ st2[i].src \in DOMAIN in2 => \A c \in st2[i].todo : in2[st2[i].src].child[c] # Null
  <2> SUFFICES ASSUME NEW i \in DOMAIN st
               PROVE  /\ New(t, st2[i].src) \in DOMAIN in2 \cup DOMAIN lf2
                      /\ st2[i].src \in DOMAIN lf2 => st2[i].todo = {} /\ Len(st2) = 1
                      /\ st2[i].src \in DOMAIN in2 => \A c \in st2[i].todo : in2[st2[i].src].child[c] # Null
    BY <1>7
  <2>1. PICK s : s = st[i].src
    OBVIOUS
  <2>2. /\ New(t, s) \in DOMAIN in \cup DOMAIN lf
        /\ s \in DOMAIN lf => st[i].todo = {} /\ Len(st) = 1
        /\ s \in DOMAIN in => \A c \in st[i].todo : in[s].child[c] # Null
    BY <2>1 DEF StackIn
  <2>3. s \in O /\ st2[i].src = s
    BY <1>6, <1>7, <2>1
  <2>4. New(t, s) \in DOMAIN in2 \cup DOMAIN lf2
    BY <2>2 DEF Grown
  <2> QED
    BY <1>2, <1>7, <2>2, <2>3, <2>4
<1>10. \A i, j \in DOMAIN st2 : i < j => Len(st2[i].src.path) < Len(st2[j].src.path)
  BY <1>7 DEF StackIn
<1>11. ASSUME NEW i \in 1..(Len(st2) - 1)
       PROVE  \E c \in Byte \ st2[i].todo : in2[st2[i].src].child[c] = st2[i + 1].src
  <2>1. i \in 1..(Len(st) - 1) /\ i \in DOMAIN st /\ i + 1 \in DOMAIN st /\ i # n
    BY <1>5, <1>7
  <2>2. PICK c \in Byte \ st[i].todo : in[st[i].src].child[c] = st[i + 1].src
    BY <2>1 DEF StackIn
  <2>3. st[i].src \in DOMAIN in
    <3>1. st[i].src \in DOMAIN lf => Len(st) = 1
      BY <2>1 DEF StackIn
    <3>2. Len(st) # 1
      BY <1>5, <2>1
    <3> QED
      BY <1>1, <1>6, <2>1, <3>1, <3>2 DEF Source
  <2>4. in2[st[i].src] = in[st[i].src]
    BY <1>2, <1>6, <2>1, <2>3
  <2>5. st2[i].src = st[i].src /\ st2[i].todo = st[i].todo /\ st2[i + 1].src = st[i + 1].src
    BY <1>7, <2>1
  <2> QED
    BY <2>2, <2>4, <2>5
<1>12. st2 \in Seq([src : OwnIn(in2, lf2, r.tree), todo : SUBSET Byte])
  BY <1>1, <1>2
<1> QED
  BY <1>8, <1>9, <1>10, <1>11, <1>12 DEF StackIn

\* Node a, in slot b of the one on top, may be pushed with the slots in D to do.
CanPush(in, lf, st, r, t, b, a, D) ==
    /\ b \in Byte /\ D \in SUBSET Byte /\ b \notin st[Len(st)].todo
    /\ in[st[Len(st)].src].child[b] = a
    /\ a \in OwnIn(in, lf, r.tree) /\ a \notin DOMAIN lf
    /\ New(t, a) \in DOMAIN in \cup DOMAIN lf
    /\ \A c \in D : in[a].child[c] # Null
    /\ \A i \in DOMAIN st : st[i].src \notin DOMAIN lf /\ Len(st[i].src.path) < Len(a.path)

OneMore(st, st2, a, D) ==
    /\ \A x : OnStack(st2, x) <=> OnStack(st, x) \/ x = a
    /\ \A x, c : ToDo(st2, x, c) <=> ToDo(st, x, c) \/ (x = a /\ c \in D)

\* The copy of a child begins.
LEMMA StackPushed ==
    ASSUME NEW in, NEW lf, NEW st, NEW r, NEW t, NEW b, NEW a, NEW D,
           StackIn(in, lf, st, r, t), CanPush(in, lf, st, r, t, b, a, D)
    PROVE  /\ StackIn(in, lf, Append(st, [src |-> a, todo |-> D]), r, t)
           /\ OneMore(st, Append(st, [src |-> a, todo |-> D]), a, D)
<1>0. /\ b \in Byte /\ D \in SUBSET Byte /\ b \notin st[Len(st)].todo
      /\ in[st[Len(st)].src].child[b] = a
      /\ a \in OwnIn(in, lf, r.tree) /\ a \notin DOMAIN lf
      /\ New(t, a) \in DOMAIN in \cup DOMAIN lf
      /\ \A c \in D : in[a].child[c] # Null
      /\ \A i \in DOMAIN st : st[i].src \notin DOMAIN lf /\ Len(st[i].src.path) < Len(a.path)
  BY DEF CanPush
<1>1. PICK f : f = [src |-> a, todo |-> D]
  OBVIOUS
<1>2. f.src = a /\ f.todo = D
  BY <1>1
<1>3. PICK X : X = [src : OwnIn(in, lf, r.tree), todo : SUBSET Byte]
  OBVIOUS
<1>4. st \in Seq(X) /\ st # <<>> /\ st[1].src = r /\ f \in X
  BY <1>0, <1>1, <1>3 DEF StackIn
<1>5. PICK n : n = Len(st)
  OBVIOUS
<1>6. n \in Nat /\ n >= 1 /\ DOMAIN st = 1..n
  BY <1>4, <1>5
<1>7. PICK st2 : st2 = Append(st, f)
  OBVIOUS
<1>8. /\ st2 \in Seq(X) /\ Len(st2) = n + 1 /\ DOMAIN st2 = 1..(n + 1)
      /\ st2[n + 1] = f /\ \A i \in 1..n : st2[i] = st[i]
  BY <1>4, <1>5, <1>7
<1>9. st2 # <<>> /\ st2[1].src = r
  <2>1. 1 \in 1..n /\ n + 1 # 0
    BY <1>6
  <2> QED
    BY <1>4, <1>8, <2>1
<1>10. \A i \in DOMAIN st2 : i \in DOMAIN st \/ i = n + 1
  BY <1>6, <1>8
<1>11. \A i \in DOMAIN st2 :
         /\ New(t, st2[i].src) \in DOMAIN in \cup DOMAIN lf
         /\ st2[i].src \in DOMAIN lf => st2[i].todo = {} /\ Len(st2) = 1
         /\ st2[i].src \in DOMAIN in => \A c \in st2[i].todo : in[st2[i].src].child[c] # Null
  <2> SUFFICES ASSUME NEW i \in DOMAIN st2
               PROVE  /\ New(t, st2[i].src) \in DOMAIN in \cup DOMAIN lf
                      /\ st2[i].src \notin DOMAIN lf
                      /\ st2[i].src \in DOMAIN in => \A c \in st2[i].todo : in[st2[i].src].child[c] # Null
    OBVIOUS
  <2>1. CASE i \in DOMAIN st
    <3>1. st2[i] = st[i]
      BY <1>6, <1>8, <2>1
    <3> QED
      BY <1>0, <2>1, <3>1 DEF StackIn
  <2>2. CASE i = n + 1
    BY <1>0, <1>2, <1>8, <2>2
  <2> QED
    BY <1>10, <2>1, <2>2
<1>12. ASSUME NEW i \in DOMAIN st2, NEW j \in DOMAIN st2, i < j
       PROVE  Len(st2[i].src.path) < Len(st2[j].src.path)
  <2>1. i \in DOMAIN st /\ st2[i] = st[i]
    BY <1>6, <1>8, <1>12
  <2>2. CASE j \in DOMAIN st
    <3>1. st2[j] = st[j]
      BY <1>6, <1>8, <2>2
    <3> QED
      BY <1>12, <2>1, <2>2, <3>1 DEF StackIn
  <2>3. CASE j = n + 1
    BY <1>0, <1>2, <1>8, <2>1, <2>3
  <2> QED
    BY <1>10, <2>2, <2>3
<1>13. ASSUME NEW i \in 1..(Len(st2) - 1)
       PROVE  \E c \in Byte \ st2[i].todo : in[st2[i].src].child[c] = st2[i + 1].src
  <2>1. i \in 1..n /\ st2[i] = st[i]
    BY <1>6, <1>8
  <2>2. CASE i = n
    BY <1>0, <1>2, <1>5, <1>8, <2>1, <2>2
  <2>3. CASE i # n
    <3>1. i \in 1..(Len(st) - 1) /\ i + 1 \in 1..n
      BY <1>5, <1>6, <2>1, <2>3
    <3>2. \E c \in Byte \ st[i].todo : in[st[i].src].child[c] = st[i + 1].src
      BY <3>1 DEF StackIn
    <3>3. st2[i + 1] = st[i + 1]
      BY <1>8, <3>1
    <3> QED
      BY <2>1, <3>2, <3>3
  <2> QED
    BY <2>2, <2>3
<1>14. StackIn(in, lf, st2, r, t)
  BY <1>3, <1>8, <1>9, <1>11, <1>12, <1>13 DEF StackIn
<1>15. \A x : OnStack(st2, x) <=> OnStack(st, x) \/ x = a
  <2>1. n + 1 \in DOMAIN st2 /\ \A i \in DOMAIN st : i \in DOMAIN st2 /\ st2[i] = st[i]
    BY <1>6, <1>8
  <2> QED
    BY <1>2, <1>8, <1>10, <2>1 DEF OnStack
<1>16. \A x, c : ToDo(st2, x, c) <=> ToDo(st, x, c) \/ (x = a /\ c \in D)
  <2>1. n + 1 \in DOMAIN st2 /\ \A i \in DOMAIN st : i \in DOMAIN st2 /\ st2[i] = st[i]
    BY <1>6, <1>8
  <2> QED
    BY <1>2, <1>8, <1>10, <2>1 DEF ToDo
<1> QED
  BY <1>1, <1>7, <1>14, <1>15, <1>16 DEF OneMore

\* All trees but t stay as they are, and t goes on as a copy of r.
GoesOn(in, lf, in2, lf2, st2, r, t) ==
    /\ WellHeap(in2, lf2) /\ StackIn(in2, lf2, st2, r, t) /\ CopyIn(in2, lf2, st2, r, t)
    /\ \A u : u # t => Stays(in, lf, in2, lf2, u)

\* A child that is a leaf is copied and linked.
LeafMade(in, lf, in2, lf2, st, st2, n, b, a, this, y) ==
    /\ NodeNew(lf, lf2, y) /\ lf2[y] = [parent |-> this, value |-> lf[a].value]
    /\ in2 = [in EXCEPT ![this].child[b] = y]
    /\ st2 = [st EXCEPT ![n].todo = @ \ {b}]

LEMMA LeafStep ==
    ASSUME NEW in, NEW lf, NEW in2, NEW lf2, NEW st, NEW st2, NEW r, NEW t \in Trees,
           NEW n, NEW s, NEW b, NEW a,
           WellHeap(in, lf), Source(in, lf, r, t), StackIn(in, lf, st, r, t),
           CopyIn(in, lf, st, r, t), t # r.tree,
           Pending(in, lf, st, r, t, n, s, b, a), a \in DOMAIN lf,
           LeafMade(in, lf, in2, lf2, st, st2, n, b, a, New(t, s), New(t, a))
    PROVE  GoesOn(in, lf, in2, lf2, st2, r, t)
<1>1. PICK O, all, all2 : /\ O = OwnIn(in, lf, r.tree)
                          /\ all = DOMAIN in \cup DOMAIN lf /\ all2 = DOMAIN in2 \cup DOMAIN lf2
  OBVIOUS
<1>2. PICK y : y = New(t, a)
  OBVIOUS
<1>3. PICK this : this = New(t, s)
  OBVIOUS
<1>4. /\ n \in DOMAIN st /\ n = Len(st) /\ st[n].src = s /\ b \in Byte
      /\ s \in O /\ s \in DOMAIN in /\ this \in DOMAIN in
      /\ a = in[s].child[b] /\ a # Null /\ a \in O /\ a # r
      /\ Par(in, lf, a) = s /\ Len(s.path) < Len(a.path)
      /\ y \notin all /\ in[this].child[b] = Null
      /\ \A i \in DOMAIN st : /\ st[i].src \in O /\ st[i].src \in DOMAIN in /\ st[i].src # a
                              /\ st[i].src = s => i = n
  BY <1>1, <1>2, <1>3 DEF Pending
<1>5. /\ y \in Addr /\ y.tree = t /\ y.path = a.path /\ y.kind = a.kind
      /\ Len(y.path) <= KeyLen /\ y # Null /\ y = NodeAt(y.tree, y.path)
      /\ a.kind = "leaf"
  BY <1>1, <1>2, <1>4 DEF Source
<1>6. this.tree = t /\ this.path = s.path /\ this \in Addr /\ this \in Ptr
  BY <1>1, <1>3, <1>4 DEF Source, Ptr
<1>24. LeafMade(in, lf, in2, lf2, st, st2, n, b, a, this, y)
  BY <1>2, <1>3
<1>7. NodeNew(lf, lf2, y) /\ lf2[y] = [parent |-> this, value |-> lf[a].value]
  BY <1>24 DEF LeafMade
<1>8. WellHeap(in, lf2)
  <2>1. lf[a].value \in Values
    BY WellFacts
  <2>2. lf2[y] \in [parent : Ptr, value : Values]
    BY <1>6, <1>7, <2>1
  <2> QED
    BY <1>1, <1>4, <1>5, <1>7, <2>2, LeafAdded
<1>9. /\ DOMAIN in2 = DOMAIN in
      /\ \A x \in DOMAIN in : /\ in2[x].parent = in[x].parent
                              /\ x # this => in2[x] = in[x]
      /\ Linked(in, in2, this, b, y)
  <2>1. \A x \in DOMAIN in : /\ in[x] = [parent |-> in[x].parent, child |-> in[x].child]
                             /\ in[x].parent \in Ptr
    BY WellFacts
  <2>2. /\ DOMAIN in2 = DOMAIN in /\ \A x \in DOMAIN in : x # this => in2[x] = in[x]
        /\ in2 = [x \in DOMAIN in |-> in2[x]]
    <3>1. in = [x \in DOMAIN in |-> in[x]]
      BY DEF WellHeap
    <3> QED
      BY <1>24, <3>1 DEF LeafMade
  <2>3. /\ in2[this].parent = in[this].parent
        /\ in2[this].child = [in[this].child EXCEPT ![b] = y]
        /\ in2[this] = [parent |-> in2[this].parent, child |-> in2[this].child]
    <3>1. PICK p, q : p = in[this].parent /\ q = in[this].child
      OBVIOUS
    <3>2. in[this] = [parent |-> p, child |-> q]
      BY <1>4, <2>1, <3>1
    <3>3. in2[this] = [in[this] EXCEPT !.child = [q EXCEPT ![b] = y]]
      BY <1>4, <1>24, <3>1 DEF LeafMade
    <3>4. in2[this] = [parent |-> p, child |-> [q EXCEPT ![b] = y]]
      BY <3>2, <3>3
    <3> QED
      BY <3>1, <3>4
  <2>4. \A x \in DOMAIN in : /\ in2[x] = [parent |-> in2[x].parent, child |-> in2[x].child]
                             /\ in2[x].parent = in[x].parent /\ in2[x].parent \in Ptr
    <3> SUFFICES ASSUME NEW x \in DOMAIN in
                 PROVE  /\ in2[x] = [parent |-> in2[x].parent, child |-> in2[x].child]
                        /\ in2[x].parent = in[x].parent /\ in2[x].parent \in Ptr
      OBVIOUS
    <3>1. CASE x = this
      BY <1>4, <2>1, <2>3, <3>1
    <3>2. CASE x # this
      <4>1. in2[x] = in[x]
        BY <2>2, <3>2
      <4> QED
        BY <2>1, <4>1
    <3> QED
      BY <3>1, <3>2
  <2>5. Linked(in, in2, this, b, y)
    BY <2>2, <2>3, <2>4 DEF Linked
  <2> QED
    BY <2>2, <2>4, <2>5
<1>10. Fits(this, b, y)
  <2>1. a.path[Len(s.path) + 1] = b
    BY <1>1, <1>4 DEF Source
  <2> QED
    BY <1>4, <1>5, <1>6, <2>1 DEF Fits
<1>11. WellHeap(in2, lf2) /\ OneSlot(in, in2, this, b, y)
  <2>1. y \in DOMAIN in \cup DOMAIN lf2
    BY <1>7 DEF NodeNew
  <2>2. this \in DOMAIN in /\ b \in Byte
    BY <1>4
  <2> QED
    BY <1>8, <1>9, <1>10, <2>1, <2>2, PointersSet
<1>12. all2 = all \cup {y}
  BY <1>1, <1>7, <1>9 DEF NodeNew
<1>13. ASSUME NEW u, u # t  PROVE Stays(in, lf, in2, lf2, u)
  <2>1. OwnIn(in2, lf2, u) = OwnIn(in, lf, u)
    BY <1>1, <1>5, <1>12, <1>13 DEF OwnIn
  <2>2. \A x \in OwnIn(in, lf, u) : x # this /\ x # y
    BY <1>5, <1>6, <1>13 DEF OwnIn
  <2> QED
    BY <1>7, <1>9, <2>1, <2>2 DEF Stays, NodeNew
<1>14. Grown(in, lf, in2, lf2, r)
  BY <1>7, <1>9, <1>13 DEF Grown, NodeNew
<1>15. /\ OwnIn(in2, lf2, r.tree) = O
       /\ \A x \in O : /\ x \in DOMAIN in2 <=> x \in DOMAIN in
                       /\ x \in DOMAIN in => in2[x] = in[x]
                       /\ Par(in2, lf2, x) = Par(in, lf, x)
  <2>1. Stays(in, lf, in2, lf2, r.tree)
    BY <1>14 DEF Grown
  <2>2. AsBefore(in, lf, in2, lf2, r)
    BY <2>1, SourceStays
  <2> QED
    BY <1>1, <2>2 DEF AsBefore
<1>16. /\ Moved(st, st2, n, b)
       /\ st2 \in Seq([src : OwnIn(in, lf, r.tree), todo : SUBSET Byte])
  <2>1. st \in Seq([src : O, todo : SUBSET Byte]) /\ n \in DOMAIN st
    BY <1>1, <1>4 DEF StackIn
  <2>2. /\ [st EXCEPT ![n].todo = @ \ {b}] \in Seq([src : O, todo : SUBSET Byte])
        /\ Moved(st, [st EXCEPT ![n].todo = @ \ {b}], n, b)
    BY <2>1, Advanced
  <2>3. st2 = [st EXCEPT ![n].todo = @ \ {b}]
    BY <1>24 DEF LeafMade
  <2> QED
    BY <1>1, <2>2, <2>3
<1>17. StackIn(in2, lf2, st2, r, t)
  BY <1>4, <1>14, <1>16, StackMoved
<1>18. /\ \A x : OnStack(st2, x) <=> OnStack(st, x)
       /\ \A x, c : ToDo(st2, x, c) <=> ToDo(st, x, c) /\ ~ (x = s /\ c = b)
  <2>1. Alone(st, n) /\ n \in DOMAIN st
    BY <1>4 DEF Alone
  <2>2. OneLess(st, st2, s, b)
    BY <1>4, <1>16, <2>1, MovedMeans
  <2> QED
    BY <2>2 DEF OneLess
<1>19. \A x \in all : Par(in2, lf2, x) = Par(in, lf, x)
  BY <1>1, <1>4, <1>7, <1>9 DEF Par, NodeNew
<1>20. ASSUME NEW v \in OwnIn(in2, lf2, t)  PROVE \E x \in O : v = New(t, x)
  <2>1. CASE v = y
    BY <1>2, <1>4, <2>1
  <2>2. CASE v # y
    <3>1. v \in OwnIn(in, lf, t)
      BY <1>1, <1>12, <2>2 DEF OwnIn
    <3> QED
      BY <1>1, <3>1 DEF CopyIn
  <2> QED
    BY <2>1, <2>2
<1>21. ASSUME NEW x \in O \cap DOMAIN in2, NEW c \in Byte, New(t, x) \in DOMAIN in2
       PROVE  SlotCopied(in2, lf2, st2, t, x, c)
  <2>1. x \in DOMAIN in /\ in2[x] = in[x] /\ New(t, x) \in DOMAIN in
    <3>1. x \in O /\ x \in DOMAIN in2
      OBVIOUS
    <3>2. DOMAIN in2 = DOMAIN in
      BY <1>9
    <3> QED
      BY <1>15, <1>21, <3>1, <3>2
  <2>2. SlotCopied(in, lf, st, t, x, c)
    BY <1>1, <2>1 DEF CopyIn
  <2>3. CASE x = s /\ c = b
    <3>1. in2[x].child[c] = a
      BY <1>4, <2>1, <2>3
    <3>2. in2[New(t, x)].child[c] = y
      BY <1>3, <1>4, <1>11, <2>3 DEF OneSlot
    <3>3. ~ ToDo(st2, x, c)
      BY <1>18, <2>3
    <3>4. ~ OnStack(st2, a)
      BY <1>4, <1>18 DEF OnStack
    <3>5. Par(in2, lf2, y) = New(t, x) /\ y \in DOMAIN in2 \cup DOMAIN lf2
      <4>1. y \notin DOMAIN in2
        BY <1>1, <1>4, <1>9
      <4> QED
        BY <1>3, <1>7, <2>3, <4>1 DEF Par, NodeNew
    <3> QED
      BY <1>2, <1>4, <3>1, <3>2, <3>3, <3>4, <3>5 DEF SlotCopied
  <2>4. CASE ~ (x = s /\ c = b)
    <3>1. PICK k, m : k = in[x].child[c] /\ m = in[New(t, x)].child[c]
      OBVIOUS
    <3>2. in2[x].child[c] = k
      BY <2>1, <3>1
    <3>3. in2[New(t, x)].child[c] = m
      <4>1. New(t, x) = this => x = s
        BY <1>1, <1>3, <1>4 DEF Source
      <4> QED
        BY <1>11, <2>1, <2>4, <3>1, <4>1 DEF OneSlot
    <3>4. k # Null => k \in O /\ k # a
      <4>1. k # Null => k \in O /\ Par(in, lf, k) = x /\ k.path[Len(x.path) + 1] = c
        BY <1>1, <2>1, <3>1 DEF Source
      <4>2. a.path[Len(s.path) + 1] = b
        BY <1>1, <1>4 DEF Source
      <4> QED
        BY <1>4, <2>4, <4>1, <4>2
    <3>5. k # Null => New(t, k) # y
      BY <1>1, <1>2, <1>4, <3>4 DEF Source
    <3>6. k # Null => /\ ToDo(st2, x, c) <=> ToDo(st, x, c)
                      /\ OnStack(st2, k) <=> OnStack(st, k)
      BY <1>18, <2>4
    <3>7. k # Null /\ New(t, k) \notin all => New(t, k) \notin all2
      BY <1>12, <3>5
    <3>8. m \in all => m \in all2 /\ Par(in2, lf2, m) = Par(in, lf, m)
      BY <1>12, <1>19
    <3> QED
      <4>1. k # Null => /\ ToDo(st2, x, c) <=> ToDo(st, x, c)
                        /\ ToDo(st, x, c) /\ New(t, k) \notin DOMAIN in \cup DOMAIN lf =>
                              New(t, k) \notin DOMAIN in2 \cup DOMAIN lf2
                        /\ OnStack(st2, k) <=> OnStack(st, k)
                        /\ ~ OnStack(st, k) /\ m = New(t, k) /\ m \in DOMAIN in \cup DOMAIN lf =>
                              /\ m \in DOMAIN in2 \cup DOMAIN lf2
                              /\ Par(in2, lf2, m) = Par(in, lf, m)
        BY <1>1, <3>6, <3>7, <3>8
      <4> QED
        BY <2>2, <3>1, <3>2, <3>3, <4>1, SlotKept
  <2> QED
    BY <2>3, <2>4
<1>22. ASSUME NEW x \in O \ {r}, New(t, x) \in all2  PROVE New(t, Par(in2, lf2, x)) \in all2
  <2>1. Par(in2, lf2, x) = Par(in, lf, x)
    BY <1>15
  <2>2. CASE New(t, x) = y
    <3>1. x = a
      BY <1>1, <1>2, <1>4, <2>2 DEF Source
    <3> QED
      BY <1>1, <1>3, <1>4, <1>12, <2>1, <3>1
  <2>3. CASE New(t, x) # y
    <3>1. New(t, x) \in all
      BY <1>12, <1>22, <2>3
    <3>2. New(t, Par(in, lf, x)) \in all
      BY <1>1, <3>1 DEF CopyIn
    <3> QED
      BY <1>12, <2>1, <3>2
  <2> QED
    BY <2>2, <2>3
<1>23. CopyIn(in2, lf2, st2, r, t)
  BY <1>1, <1>15, <1>20, <1>21, <1>22 DEF CopyIn
<1> QED
  BY <1>11, <1>13, <1>17, <1>23 DEF GoesOn

\* The copy of a child that is an inner node begins.
InnerMade(in, lf, in2, st, st2, n, b, a, y) ==
    /\ NodeNew(in, in2, y)
    /\ in2[y] = [parent |-> in[a].parent, child |-> [c \in Byte |-> Null]]
    /\ st2 = Append([st EXCEPT ![n].todo = @ \ {b}],
                    [src |-> a, todo |-> {c \in Byte : in[a].child[c] # Null}])

LEMMA InnerStep ==
    ASSUME NEW in, NEW lf, NEW in2, NEW st, NEW st2, NEW r, NEW t \in Trees,
           NEW n, NEW s, NEW b, NEW a,
           WellHeap(in, lf), Source(in, lf, r, t), StackIn(in, lf, st, r, t),
           CopyIn(in, lf, st, r, t), t # r.tree,
           Pending(in, lf, st, r, t, n, s, b, a), a \in DOMAIN in,
           InnerMade(in, lf, in2, st, st2, n, b, a, New(t, a))
    PROVE  GoesOn(in, lf, in2, lf, st2, r, t)
<1>1. PICK O, all, all2 : /\ O = OwnIn(in, lf, r.tree)
                          /\ all = DOMAIN in \cup DOMAIN lf /\ all2 = DOMAIN in2 \cup DOMAIN lf
  OBVIOUS
<1>2. PICK y : y = New(t, a)
  OBVIOUS
<1>3. PICK this : this = New(t, s)
  OBVIOUS
<1>4. /\ n \in DOMAIN st /\ n = Len(st) /\ st[n].src = s /\ b \in Byte
      /\ s \in O /\ s \in DOMAIN in /\ this \in DOMAIN in
      /\ a = in[s].child[b] /\ a # Null /\ a \in O /\ a # r
      /\ Par(in, lf, a) = s /\ Len(s.path) < Len(a.path)
      /\ y \notin all /\ in[this].child[b] = Null
      /\ \A i \in DOMAIN st : /\ st[i].src \in O /\ st[i].src \in DOMAIN in /\ st[i].src # a
                              /\ Len(st[i].src.path) <= Len(s.path)
                              /\ st[i].src = s => i = n
  BY <1>1, <1>2, <1>3 DEF Pending
<1>5. /\ y \in Addr /\ y.tree = t /\ y.path = a.path /\ y.kind = a.kind
      /\ Len(y.path) <= KeyLen /\ y # Null /\ y = NodeAt(y.tree, y.path)
      /\ a.kind = "inner" /\ a \notin DOMAIN lf
  <2>1. a \notin DOMAIN lf
    BY WellFacts
  <2> QED
    BY <1>1, <1>2, <1>4, <2>1 DEF Source
<1>6. InnerMade(in, lf, in2, st, st2, n, b, a, y)
  BY <1>2
<1>7. NodeNew(in, in2, y) /\ in2[y] = [parent |-> in[a].parent, child |-> [c \in Byte |-> Null]]
  BY <1>6 DEF InnerMade
<1>8. WellHeap(in2, lf)
  <2>1. PICK p : p = in[a].parent
    OBVIOUS
  <2>2. p \in Ptr
    BY <2>1, WellFacts
  <2>3. in2[y] = [parent |-> p, child |-> [c \in Byte |-> Null]]
    BY <1>7, <2>1
  <2> QED
    BY <1>1, <1>4, <1>5, <1>7, <2>2, <2>3, InnerAdded
<1>9. /\ DOMAIN in2 = DOMAIN in \cup {y} /\ \A x \in DOMAIN in : in2[x] = in[x]
      /\ all2 = all \cup {y}
  BY <1>1, <1>7 DEF NodeNew
<1>10. ASSUME NEW u, u # t  PROVE Stays(in, lf, in2, lf, u)
  <2>1. OwnIn(in2, lf, u) = OwnIn(in, lf, u)
    BY <1>1, <1>5, <1>9, <1>10 DEF OwnIn
  <2>2. \A x \in OwnIn(in, lf, u) : x # y
    BY <1>5, <1>10 DEF OwnIn
  <2> QED
    BY <1>9, <2>1, <2>2 DEF Stays
<1>11. Grown(in, lf, in2, lf, r)
  BY <1>9, <1>10 DEF Grown
<1>12. /\ OwnIn(in2, lf, r.tree) = O
       /\ \A x \in O : /\ x \in DOMAIN in2 <=> x \in DOMAIN in
                       /\ x \in DOMAIN in => in2[x] = in[x]
                       /\ Par(in2, lf, x) = Par(in, lf, x)
  <2>1. Stays(in, lf, in2, lf, r.tree)
    BY <1>11 DEF Grown
  <2>2. AsBefore(in, lf, in2, lf, r)
    BY <2>1, SourceStays
  <2> QED
    BY <1>1, <2>2 DEF AsBefore
<1>13. PICK st1, D : /\ st1 = [st EXCEPT ![n].todo = @ \ {b}]
                     /\ D = {c \in Byte : in[a].child[c] # Null}
  OBVIOUS
<1>14. Moved(st, st1, n, b) /\ st1 \in Seq([src : OwnIn(in, lf, r.tree), todo : SUBSET Byte])
  <2>1. st \in Seq([src : O, todo : SUBSET Byte]) /\ n \in DOMAIN st
    BY <1>1, <1>4 DEF StackIn
  <2>2. /\ [st EXCEPT ![n].todo = @ \ {b}] \in Seq([src : O, todo : SUBSET Byte])
        /\ Moved(st, [st EXCEPT ![n].todo = @ \ {b}], n, b)
    BY <2>1, Advanced
  <2> QED
    BY <1>1, <1>13, <2>2
<1>15. /\ \A x : OnStack(st1, x) <=> OnStack(st, x)
       /\ \A x, c : ToDo(st1, x, c) <=> ToDo(st, x, c) /\ ~ (x = s /\ c = b)
  <2>1. Alone(st, n) /\ n \in DOMAIN st
    BY <1>4 DEF Alone
  <2>2. OneLess(st, st1, s, b)
    BY <1>4, <1>14, <2>1, MovedMeans
  <2> QED
    BY <2>2 DEF OneLess
<1>16. StackIn(in2, lf, st1, r, t)
  BY <1>4, <1>11, <1>14, StackMoved
<1>17. st2 = Append(st1, [src |-> a, todo |-> D])
  BY <1>6, <1>13 DEF InnerMade
<1>18. /\ StackIn(in2, lf, st2, r, t)
       /\ \A x : OnStack(st2, x) <=> OnStack(st1, x) \/ x = a
       /\ \A x, c : ToDo(st2, x, c) <=> ToDo(st1, x, c) \/ (x = a /\ c \in D)
  <2>1. Len(st1) = n /\ n \in DOMAIN st1 /\ st1[n].src = s /\ b \notin st1[n].todo
    BY <1>4, <1>14 DEF Moved
  <2>2. in2[s].child[b] = a
    BY <1>4, <1>12
  <2>3. a \in OwnIn(in2, lf, r.tree) /\ New(t, a) \in DOMAIN in2 \cup DOMAIN lf
    BY <1>1, <1>2, <1>4, <1>9, <1>12
  <2>4. D \in SUBSET Byte /\ \A c \in D : in2[a].child[c] # Null
    BY <1>4, <1>9, <1>13
  <2>5. \A i \in DOMAIN st1 : st1[i].src \notin DOMAIN lf /\ Len(st1[i].src.path) < Len(a.path)
    <3> SUFFICES ASSUME NEW i \in DOMAIN st1
                 PROVE  st1[i].src \notin DOMAIN lf /\ Len(st1[i].src.path) < Len(a.path)
      OBVIOUS
    <3>1. i \in DOMAIN st /\ st1[i].src = st[i].src
      BY <1>14 DEF Moved
    <3>2. PICK z : z = st[i].src
      OBVIOUS
    <3>3. z \in O /\ z \in DOMAIN in /\ Len(z.path) <= Len(s.path)
      BY <1>4, <3>1, <3>2
    <3>4. Len(z.path) \in Nat /\ Len(s.path) \in Nat /\ Len(a.path) \in Nat
      BY <1>1, <1>4, <3>3 DEF Source
    <3>5. z \notin DOMAIN lf
      BY <3>3, WellFacts
    <3>6. Len(z.path) < Len(a.path)
      BY <1>4, <3>3, <3>4
    <3> QED
      BY <3>1, <3>2, <3>5, <3>6
  <2>6. CanPush(in2, lf, st1, r, t, b, a, D)
    BY <1>4, <1>5, <2>1, <2>2, <2>3, <2>4, <2>5 DEF CanPush
  <2>7. /\ StackIn(in2, lf, Append(st1, [src |-> a, todo |-> D]), r, t)
        /\ OneMore(st1, Append(st1, [src |-> a, todo |-> D]), a, D)
    BY <1>16, <2>6, StackPushed
  <2> QED
    BY <1>17, <2>7 DEF OneMore
<1>19. \A x \in all : Par(in2, lf, x) = Par(in, lf, x)
  BY <1>1, <1>4, <1>9 DEF Par
<1>20. ASSUME NEW v \in OwnIn(in2, lf, t)  PROVE \E x \in O : v = New(t, x)
  <2>1. CASE v = y
    BY <1>2, <1>4, <2>1
  <2>2. CASE v # y
    <3>1. v \in OwnIn(in, lf, t)
      BY <1>1, <1>9, <2>2 DEF OwnIn
    <3> QED
      BY <1>1, <3>1 DEF CopyIn
  <2> QED
    BY <2>1, <2>2
<1>21. ASSUME NEW x \in O \cap DOMAIN in2, NEW c \in Byte, New(t, x) \in DOMAIN in2
       PROVE  SlotCopied(in2, lf, st2, t, x, c)
  <2>1. x \in DOMAIN in /\ in2[x] = in[x]
    <3>1. x \in O /\ x \in DOMAIN in2
      OBVIOUS
    <3> QED
      BY <1>12, <3>1
  <2>2. PICK k : k = in[x].child[c]
    OBVIOUS
  <2>3. in2[x].child[c] = k
    BY <2>1, <2>2
  <2>4. k # Null => k \in O /\ Par(in, lf, k) = x /\ k.path[Len(x.path) + 1] = c /\ Len(x.path) < Len(k.path)
    BY <1>1, <2>1, <2>2 DEF Source
  <2>5. CASE x = a
    <3>1. in2[New(t, x)].child[c] = Null
      BY <1>2, <1>7, <2>5
    <3>2. k # Null => ToDo(st2, x, c)
      BY <1>13, <1>18, <2>2, <2>5
    <3>3. k # Null => New(t, k) \notin all2
      <4> SUFFICES ASSUME k # Null, New(t, k) \in all2  PROVE FALSE
        OBVIOUS
      <4>1. k \in O /\ k # a /\ k # r
        <5>1. Len(a.path) \in Nat /\ k \in O /\ Len(a.path) < Len(k.path)
          BY <1>1, <1>4, <2>4, <2>5 DEF Source
        <5>2. k # r
          BY <1>1, <2>1, <2>2 DEF Source
        <5> QED
          BY <5>1, <5>2
      <4>2. New(t, k) # y
        BY <1>1, <1>2, <1>4, <4>1 DEF Source
      <4>3. New(t, k) \in all
        BY <1>9, <4>2
      <4>4. New(t, Par(in, lf, k)) \in all
        BY <1>1, <4>1, <4>3 DEF CopyIn
      <4> QED
        BY <1>2, <1>4, <2>4, <2>5, <4>4
    <3> QED
      BY <1>1, <2>3, <3>1, <3>2, <3>3 DEF SlotCopied
  <2>6. CASE x = s /\ c = b
    <3>1. k = a
      BY <1>4, <2>2, <2>6
    <3>2. in2[New(t, x)].child[c] = Null
      BY <1>3, <1>4, <1>9, <2>6
    <3>3. ~ ToDo(st2, x, c)
      <4>1. s # a
        BY <1>4
      <4> QED
        BY <1>15, <1>18, <2>6, <4>1
    <3>4. OnStack(st2, a)
      BY <1>18
    <3> QED
      BY <1>4, <2>3, <3>1, <3>2, <3>3, <3>4 DEF SlotCopied
  <2>7. CASE x # a /\ ~ (x = s /\ c = b)
    <3>1. New(t, x) \in DOMAIN in
      <4>1. New(t, x) # y
        BY <1>1, <1>2, <1>4, <2>7 DEF Source
      <4> QED
        BY <1>9, <1>21, <4>1
    <3>2. SlotCopied(in, lf, st, t, x, c)
      BY <1>1, <2>1, <3>1 DEF CopyIn
    <3>3. PICK m : m = in[New(t, x)].child[c]
      OBVIOUS
    <3>4. in2[New(t, x)].child[c] = m
      BY <1>9, <3>1, <3>3
    <3>5. k # Null => k # a
      <4>1. a.path[Len(s.path) + 1] = b
        BY <1>1, <1>4 DEF Source
      <4> QED
        BY <1>4, <2>4, <2>7, <4>1
    <3>6. k # Null => New(t, k) # y
      BY <1>1, <1>2, <1>4, <2>4, <3>5 DEF Source
    <3>7. k # Null => /\ ToDo(st2, x, c) <=> ToDo(st, x, c)
                      /\ ToDo(st, x, c) /\ New(t, k) \notin DOMAIN in \cup DOMAIN lf =>
                            New(t, k) \notin DOMAIN in2 \cup DOMAIN lf
                      /\ OnStack(st2, k) <=> OnStack(st, k)
                      /\ ~ OnStack(st, k) /\ m = New(t, k) /\ m \in DOMAIN in \cup DOMAIN lf =>
                            /\ m \in DOMAIN in2 \cup DOMAIN lf
                            /\ Par(in2, lf, m) = Par(in, lf, m)
      <4>1. ToDo(st2, x, c) <=> ToDo(st, x, c)
        BY <1>15, <1>18, <2>7
      <4>2. k # Null => (OnStack(st2, k) <=> OnStack(st, k))
        BY <1>15, <1>18, <3>5
      <4>3. m \in all => m \in all2 /\ Par(in2, lf, m) = Par(in, lf, m)
        BY <1>9, <1>19
      <4> QED
        BY <1>1, <1>9, <3>6, <4>1, <4>2, <4>3
    <3> QED
      BY <2>2, <2>3, <3>2, <3>3, <3>4, <3>7, SlotKept
  <2> QED
    BY <2>5, <2>6, <2>7
<1>22. ASSUME NEW x \in O \ {r}, New(t, x) \in all2  PROVE New(t, Par(in2, lf, x)) \in all2
  <2>1. Par(in2, lf, x) = Par(in, lf, x)
    BY <1>12
  <2>2. CASE New(t, x) = y
    <3>1. x = a
      BY <1>1, <1>2, <1>4, <2>2 DEF Source
    <3> QED
      BY <1>1, <1>3, <1>4, <1>9, <2>1, <3>1
  <2>3. CASE New(t, x) # y
    <3>1. New(t, x) \in all
      BY <1>9, <1>22, <2>3
    <3>2. New(t, Par(in, lf, x)) \in all
      BY <1>1, <3>1 DEF CopyIn
    <3> QED
      BY <1>9, <2>1, <3>2
  <2> QED
    BY <2>2, <2>3
<1>23. CopyIn(in2, lf, st2, r, t)
  BY <1>1, <1>12, <1>20, <1>21, <1>22 DEF CopyIn
<1> QED
  BY <1>8, <1>10, <1>18, <1>23 DEF GoesOn

\* The node on top of the stack, which is place n, is complete.
CanPop(in, lf, in2, st, r, t, n) ==
    /\ Source(in, lf, r, t) /\ StackIn(in, lf, st, r, t) /\ Grown(in, lf, in2, lf, r)
    /\ n = Len(st) /\ n > 1

Popped(in2, lf, st, st2, r, t, n) ==
    /\ StackIn(in2, lf, st2, r, t)
    /\ DOMAIN st2 = 1..(n - 1) /\ \A i \in 1..(n - 1) : st2[i] = st[i]

LEMMA StackPopped ==
    ASSUME NEW in, NEW lf, NEW in2, NEW st, NEW r, NEW t, NEW n,
           CanPop(in, lf, in2, st, r, t, n)
    PROVE  Popped(in2, lf, st, Front(st), r, t, n)
<1>0. /\ Source(in, lf, r, t) /\ StackIn(in, lf, st, r, t) /\ Grown(in, lf, in2, lf, r)
      /\ n = Len(st) /\ n > 1
  BY DEF CanPop
<1>1. PICK O : O = OwnIn(in, lf, r.tree)
  OBVIOUS
<1>2. PICK X : X = [src : O, todo : SUBSET Byte]
  OBVIOUS
<1>3. st \in Seq(X) /\ st[1].src = r /\ n \in Nat /\ n > 1 /\ n = Len(st) /\ DOMAIN st = 1..n
  BY <1>0, <1>1, <1>2 DEF StackIn
<1>4. PICK st2 : st2 = Front(st)
  OBVIOUS
<1>5. /\ st2 \in Seq(X) /\ Len(st2) = n - 1 /\ DOMAIN st2 = 1..(n - 1)
      /\ \A i \in 1..(n - 1) : st2[i] = st[i]
  <2>1. st2 = SubSeq(st, 1, n - 1)
    BY <1>3, <1>4 DEF Front
  <2>2. st2 = [i \in 1..(n - 1) |-> st[i]]
    BY <1>3, <2>1
  <2>3. \A i \in 1..(n - 1) : st[i] \in X
    BY <1>3
  <2>4. n - 1 \in Nat
    BY <1>3
  <2>5. st2 \in [1..(n - 1) -> X]
    BY <2>2, <2>3
  <2> QED
    BY <2>2, <2>4, <2>5
<1>6. /\ OwnIn(in2, lf, r.tree) = O
      /\ \A x \in O : /\ x \in DOMAIN in2 <=> x \in DOMAIN in
                      /\ x \in DOMAIN in => in2[x] = in[x]
  <2>1. Stays(in, lf, in2, lf, r.tree)
    BY <1>0 DEF Grown
  <2>2. AsBefore(in, lf, in2, lf, r)
    BY <1>0, <2>1, SourceStays
  <2> QED
    BY <1>1, <2>2 DEF AsBefore
<1>7. \A i \in 1..n : st[i].src \in O /\ st[i].src \notin DOMAIN lf /\ st[i].src \in DOMAIN in
  <2> SUFFICES ASSUME NEW i \in 1..n
               PROVE  st[i].src \in O /\ st[i].src \notin DOMAIN lf /\ st[i].src \in DOMAIN in
    OBVIOUS
  <2>1. st[i] \in X
    BY <1>3
  <2>2. st[i].src \in O
    BY <1>2, <2>1
  <2>3. st[i].src \in DOMAIN lf => n = 1
    BY <1>0, <1>3 DEF StackIn
  <2> QED
    BY <1>0, <1>1, <2>2, <2>3 DEF Source
<1>8. st2 # <<>> /\ st2[1].src = r
  <2>1. 1 \in 1..(n - 1) /\ n - 1 # 0
    BY <1>3
  <2> QED
    BY <1>3, <1>5, <2>1
<1>9. ASSUME NEW i \in 1..(n - 1)
      PROVE  /\ New(t, st[i].src) \in DOMAIN in2 \cup DOMAIN lf
             /\ \A b \in st[i].todo : in2[st[i].src].child[b] # Null
  <2>1. i \in 1..n
    BY <1>3
  <2>2. /\ New(t, st[i].src) \in DOMAIN in \cup DOMAIN lf
        /\ \A b \in st[i].todo : in[st[i].src].child[b] # Null
    BY <1>0, <1>3, <1>7, <2>1 DEF StackIn
  <2> QED
    BY <1>0, <1>6, <1>7, <2>1, <2>2 DEF Grown
<1>10. \A i, j \in 1..(n - 1) : i < j => Len(st[i].src.path) < Len(st[j].src.path)
  BY <1>0, <1>3 DEF StackIn
<1>11. ASSUME NEW i \in 1..(Len(st2) - 1)
       PROVE  \E b \in Byte \ st2[i].todo : in2[st2[i].src].child[b] = st2[i + 1].src
  <2>1. i \in 1..(n - 1) /\ i + 1 \in 1..(n - 1) /\ i \in 1..n /\ i \in 1..(Len(st) - 1)
    BY <1>3, <1>5
  <2>2. \E b \in Byte \ st[i].todo : in[st[i].src].child[b] = st[i + 1].src
    BY <1>0, <2>1 DEF StackIn
  <2> QED
    BY <1>5, <1>6, <1>7, <2>1, <2>2
<1>12. StackIn(in2, lf, st2, r, t)
  <2>1. st2 \in Seq([src : OwnIn(in2, lf, r.tree), todo : SUBSET Byte])
    BY <1>2, <1>5, <1>6
  <2>2. \A i \in DOMAIN st2 :
           /\ New(t, st2[i].src) \in DOMAIN in2 \cup DOMAIN lf
           /\ st2[i].src \in DOMAIN lf => st2[i].todo = {} /\ Len(st2) = 1
           /\ st2[i].src \in DOMAIN in2 => \A b \in st2[i].todo : in2[st2[i].src].child[b] # Null
    <3> SUFFICES ASSUME NEW i \in DOMAIN st2
                 PROVE  /\ New(t, st2[i].src) \in DOMAIN in2 \cup DOMAIN lf
                        /\ st2[i].src \notin DOMAIN lf
                        /\ \A b \in st2[i].todo : in2[st2[i].src].child[b] # Null
      OBVIOUS
    <3>1. i \in 1..(n - 1) /\ i \in 1..n /\ st2[i] = st[i]
      BY <1>3, <1>5
    <3> QED
      BY <1>7, <1>9, <3>1
  <2>3. \A i, j \in DOMAIN st2 : i < j => Len(st2[i].src.path) < Len(st2[j].src.path)
    BY <1>5, <1>10
  <2> QED
    BY <1>8, <1>11, <2>1, <2>2, <2>3 DEF StackIn
<1> QED
  BY <1>4, <1>5, <1>12 DEF Popped

\* The copy of a child is complete; it is linked.
ReturnMade(in, in2, b, y, this) ==
    in2 = [in EXCEPT ![this].child[b] = y, ![y].parent = this]

LEMMA ReturnHeap ==
    ASSUME NEW in, NEW in2, NEW lf, NEW b \in Byte, NEW y \in DOMAIN in, NEW this \in DOMAIN in,
           y # this, WellHeap(in, lf), ReturnMade(in, in2, b, y, this), Fits(this, b, y)
    PROVE  /\ WellHeap(in2, lf) /\ OneSlot(in, in2, this, b, y)
           /\ DOMAIN in2 = DOMAIN in /\ in2[y].parent = this
           /\ \A x \in DOMAIN in : /\ x # y => in2[x].parent = in[x].parent
                                   /\ x # y /\ x # this => in2[x] = in[x]
<1>1. \A x \in DOMAIN in : /\ in[x] = [parent |-> in[x].parent, child |-> in[x].child]
                           /\ in[x].parent \in Ptr
  BY WellFacts
<1>2. in = [x \in DOMAIN in |-> in[x]]
  BY DEF WellHeap
<1>3. PICK p, q : p = in[this].parent /\ q = in[this].child
  OBVIOUS
<1>4. PICK v, w : v = in[y].parent /\ w = in[y].child
  OBVIOUS
<1>5. in[this] = [parent |-> p, child |-> q] /\ in[y] = [parent |-> v, child |-> w] /\ p \in Ptr
  BY <1>1, <1>3, <1>4
<1>6. PICK mid : mid = [in EXCEPT ![this].child[b] = y]
  OBVIOUS
<1>7. /\ DOMAIN mid = DOMAIN in
      /\ mid[this] = [parent |-> p, child |-> [q EXCEPT ![b] = y]]
      /\ \A x \in DOMAIN in : x # this => mid[x] = in[x]
      /\ mid = [x \in DOMAIN in |-> mid[x]]
  <2>1. mid[this] = [in[this] EXCEPT !.child = [q EXCEPT ![b] = y]]
    BY <1>3, <1>6
  <2>2. mid[this] = [parent |-> p, child |-> [q EXCEPT ![b] = y]]
    BY <1>5, <2>1
  <2>3. DOMAIN mid = DOMAIN in /\ \A x \in DOMAIN in : x # this => mid[x] = in[x]
    BY <1>2, <1>6
  <2>4. mid = [x \in DOMAIN in |-> mid[x]]
    BY <1>2, <1>6
  <2> QED
    BY <2>2, <2>3, <2>4
<1>8. in2 = [mid EXCEPT ![y].parent = this]
  BY <1>6 DEF ReturnMade
<1>9. /\ DOMAIN in2 = DOMAIN in
      /\ in2[y] = [parent |-> this, child |-> w]
      /\ \A x \in DOMAIN in : x # y => in2[x] = mid[x]
      /\ in2 = [x \in DOMAIN in |-> in2[x]]
  <2>1. mid[y] = [parent |-> v, child |-> w]
    BY <1>5, <1>7
  <2>2. in2[y] = [mid[y] EXCEPT !.parent = this]
    BY <1>7, <1>8
  <2>3. in2[y] = [parent |-> this, child |-> w]
    BY <2>1, <2>2
  <2>4. DOMAIN in2 = DOMAIN in /\ \A x \in DOMAIN in : x # y => in2[x] = mid[x]
    BY <1>7, <1>8
  <2>5. in2 = [x \in DOMAIN in |-> in2[x]]
    BY <1>7, <1>8
  <2> QED
    BY <2>3, <2>4, <2>5
<1>10. in2[this] = [parent |-> p, child |-> [q EXCEPT ![b] = y]]
  BY <1>7, <1>9
<1>11. \A x \in DOMAIN in : x # y /\ x # this => in2[x] = in[x]
  BY <1>7, <1>9
<1>12. this \in Ptr
  BY WellFacts DEF Ptr
<1>13. ASSUME NEW x \in DOMAIN in
       PROVE  /\ in2[x] = [parent |-> in2[x].parent, child |-> in2[x].child]
              /\ in2[x].parent \in Ptr
              /\ x # this => in2[x].child = in[x].child
              /\ x # y => in2[x].parent = in[x].parent
  <2>1. CASE x = y
    <3>1. in2[x] = [parent |-> this, child |-> w]
      BY <1>9, <2>1
    <3> QED
      BY <1>4, <1>12, <2>1, <3>1
  <2>2. CASE x = this
    <3>1. in2[x] = [parent |-> p, child |-> [q EXCEPT ![b] = y]]
      BY <1>10, <2>2
    <3> QED
      BY <1>3, <1>5, <2>2, <3>1
  <2>3. CASE x # y /\ x # this
    BY <1>1, <1>11, <2>3
  <2> QED
    BY <2>1, <2>2, <2>3
<1>14. in2[this].child = [in[this].child EXCEPT ![b] = y]
  BY <1>3, <1>10
<1>15. Linked(in, in2, this, b, y)
  BY <1>9, <1>13, <1>14 DEF Linked
<1>16. WellHeap(in2, lf) /\ OneSlot(in, in2, this, b, y)
  BY <1>15, PointersSet
<1>17. in2[y].parent = this
  BY <1>9
<1> QED
  BY <1>9, <1>11, <1>13, <1>16, <1>17

\* What is on the two topmost places of the stack.
Returning(in, lf, st, r, t, n, s, b, a) ==
    LET O == OwnIn(in, lf, r.tree)
    IN  /\ n \in Nat /\ n > 1 /\ n = Len(st) /\ DOMAIN st = 1..n
        /\ st[n].src = a /\ st[n - 1].src = s /\ b \in Byte
        /\ a \in O \cap DOMAIN in /\ s \in O \cap DOMAIN in
        /\ New(t, a) \in DOMAIN in /\ New(t, s) \in DOMAIN in
        /\ a = in[s].child[b] /\ a # Null /\ Par(in, lf, a) = s /\ Len(s.path) < Len(a.path)
        /\ a.path[Len(s.path) + 1] = b
        /\ \A i \in DOMAIN st : /\ st[i].src = a => i = n
                                /\ st[i].src = s => i = n - 1 /\ b \notin st[i].todo

LEMMA NextReturn ==
    ASSUME NEW in, NEW lf, NEW st, NEW r, NEW t, NEW n, NEW s, NEW b, NEW a,
           WellHeap(in, lf), Source(in, lf, r, t), StackIn(in, lf, st, r, t),
           n = Len(st), n > 1, a = st[n].src, s = st[n - 1].src,
           b = CHOOSE y \in Byte : in[s].child[y] = a
    PROVE  Returning(in, lf, st, r, t, n, s, b, a)
<1>1. PICK O : O = OwnIn(in, lf, r.tree)
  OBVIOUS
<1>2. PICK X : X = [src : O, todo : SUBSET Byte]
  OBVIOUS
<1>3. st \in Seq(X) /\ n \in Nat /\ DOMAIN st = 1..n
  BY <1>1, <1>2 DEF StackIn
<1>4. n \in 1..n /\ n - 1 \in 1..n /\ n - 1 \in 1..(Len(st) - 1) /\ (n - 1) + 1 = n
  BY <1>3
<1>5. ASSUME NEW i \in 1..n
      PROVE  /\ st[i].src \in O /\ st[i].src \in DOMAIN in
             /\ New(t, st[i].src) \in DOMAIN in
  <2>1. st[i] \in X
    BY <1>3
  <2>2. st[i].src \in O
    BY <1>2, <2>1
  <2>3. st[i].src \in DOMAIN lf => n = 1
    BY <1>3 DEF StackIn
  <2>4. New(t, st[i].src) \in DOMAIN in \cup DOMAIN lf
    BY <1>3 DEF StackIn
  <2>5. PICK z : z = st[i].src
    OBVIOUS
  <2>6. z \in DOMAIN in /\ z \notin DOMAIN lf
    BY <1>1, <2>2, <2>3, <2>5 DEF Source
  <2>7. New(t, z) \in DOMAIN lf => z \in DOMAIN lf
    BY <1>1, <2>2, <2>5 DEF Source
  <2> QED
    BY <2>2, <2>4, <2>5, <2>6, <2>7
<1>6. PICK c \in Byte \ st[n - 1].todo : in[s].child[c] = a
  <2>1. \E c \in Byte \ st[n - 1].todo : in[st[n - 1].src].child[c] = st[(n - 1) + 1].src
    BY <1>4 DEF StackIn
  <2> QED
    BY <1>4, <2>1
<1>7. b \in Byte /\ in[s].child[b] = a
  BY <1>6
<1>8. a \in O /\ a \in DOMAIN in /\ s \in O /\ s \in DOMAIN in
      /\ New(t, a) \in DOMAIN in /\ New(t, s) \in DOMAIN in
  BY <1>4, <1>5
<1>9. a # Null
  BY <1>1, <1>8 DEF Source
<1>10. /\ Par(in, lf, a) = s /\ Len(s.path) < Len(a.path)
       /\ a.path[Len(s.path) + 1] = b /\ a.path[Len(s.path) + 1] = c
  <2>1. ASSUME NEW d \in Byte, in[s].child[d] = a
        PROVE  /\ Par(in, lf, a) = s /\ Len(s.path) < Len(a.path)
               /\ a.path[Len(s.path) + 1] = d
    <3>1. PICK k : k = in[s].child[d]
      OBVIOUS
    <3>2. k # Null
      BY <1>9, <2>1, <3>1
    <3>3. /\ Par(in, lf, k) = s /\ Len(s.path) < Len(k.path)
          /\ k.path[Len(s.path) + 1] = d
      BY <1>1, <1>8, <3>1, <3>2 DEF Source
    <3>4. k = a
      BY <2>1, <3>1
    <3> QED
      BY <3>3, <3>4
  <2>2. b \in Byte /\ in[s].child[b] = a /\ c \in Byte /\ in[s].child[c] = a
    BY <1>6, <1>7
  <2> QED
    BY <2>1, <2>2
<1>11. ASSUME NEW i \in 1..n, NEW j \in 1..n, st[i].src = st[j].src  PROVE i = j
  <2>1. PICK e, f : e = Len(st[i].src.path) /\ f = Len(st[j].src.path)
    OBVIOUS
  <2>2. e = f /\ e \in Nat
    BY <1>1, <1>5, <1>11, <2>1 DEF Source
  <2>3. i < j => e < f
    BY <1>3, <2>1 DEF StackIn
  <2>4. j < i => f < e
    BY <1>3, <2>1 DEF StackIn
  <2> QED
    BY <2>2, <2>3, <2>4
<1>12. \A i \in DOMAIN st : /\ st[i].src = a => i = n
                            /\ st[i].src = s => i = n - 1 /\ b \notin st[i].todo
  BY <1>3, <1>4, <1>6, <1>10, <1>11
<1> QED
  BY <1>1, <1>3, <1>7, <1>8, <1>9, <1>10, <1>12 DEF Returning

LEMMA ReturnStep ==
    ASSUME NEW in, NEW lf, NEW in2, NEW st, NEW r, NEW t \in Trees,
           NEW n, NEW s, NEW b, NEW a,
           WellHeap(in, lf), Source(in, lf, r, t), StackIn(in, lf, st, r, t),
           CopyIn(in, lf, st, r, t), t # r.tree,
           Returning(in, lf, st, r, t, n, s, b, a), st[n].todo = {},
           ReturnMade(in, in2, b, New(t, a), New(t, s))
    PROVE  GoesOn(in, lf, in2, lf, Front(st), r, t)
<1>1. PICK O, all : O = OwnIn(in, lf, r.tree) /\ all = DOMAIN in \cup DOMAIN lf
  OBVIOUS
<1>2. PICK y : y = New(t, a)
  OBVIOUS
<1>3. PICK this : this = New(t, s)
  OBVIOUS
<1>4. /\ n \in Nat /\ n > 1 /\ n = Len(st) /\ DOMAIN st = 1..n
      /\ st[n].src = a /\ st[n - 1].src = s /\ b \in Byte
      /\ a \in O /\ a \in DOMAIN in /\ s \in O /\ s \in DOMAIN in
      /\ y \in DOMAIN in /\ this \in DOMAIN in
      /\ a = in[s].child[b] /\ a # Null /\ Par(in, lf, a) = s /\ Len(s.path) < Len(a.path)
      /\ a.path[Len(s.path) + 1] = b
      /\ \A i \in DOMAIN st : /\ st[i].src = a => i = n
                              /\ st[i].src = s => i = n - 1 /\ b \notin st[i].todo
  BY <1>1, <1>2, <1>3 DEF Returning
<1>5. /\ y.tree = t /\ y.path = a.path /\ this.tree = t /\ this.path = s.path
      /\ Len(s.path) \in Nat /\ Len(a.path) \in Nat
  BY <1>1, <1>2, <1>3, <1>4 DEF Source
<1>6. y # this
  BY <1>4, <1>5
<1>7. Fits(this, b, y)
  BY <1>4, <1>5 DEF Fits
<1>8. ReturnMade(in, in2, b, y, this)
  BY <1>2, <1>3
<1>9. /\ WellHeap(in2, lf) /\ OneSlot(in, in2, this, b, y)
      /\ DOMAIN in2 = DOMAIN in /\ in2[y].parent = this
      /\ \A x \in DOMAIN in : /\ x # y => in2[x].parent = in[x].parent
                              /\ x # y /\ x # this => in2[x] = in[x]
  <2>1. b \in Byte /\ y \in DOMAIN in /\ this \in DOMAIN in
    BY <1>4
  <2> QED
    BY <1>6, <1>7, <1>8, <2>1, ReturnHeap
<1>10. ASSUME NEW u, u # t  PROVE Stays(in, lf, in2, lf, u)
  <2>1. OwnIn(in2, lf, u) = OwnIn(in, lf, u)
    BY <1>9 DEF OwnIn
  <2>2. \A x \in OwnIn(in, lf, u) : x # y /\ x # this
    BY <1>5, <1>10 DEF OwnIn
  <2> QED
    BY <1>9, <2>1, <2>2 DEF Stays
<1>11. Grown(in, lf, in2, lf, r)
  BY <1>9, <1>10 DEF Grown
<1>12. /\ OwnIn(in2, lf, r.tree) = O
       /\ \A x \in O : /\ x \in DOMAIN in2 <=> x \in DOMAIN in
                       /\ x \in DOMAIN in => in2[x] = in[x]
                       /\ Par(in2, lf, x) = Par(in, lf, x)
  <2>1. AsBefore(in, lf, in2, lf, r)
    BY <1>11, SourceStays DEF Grown
  <2> QED
    BY <1>1, <2>1 DEF AsBefore
<1>13. PICK st2 : st2 = Front(st)
  OBVIOUS
<1>14. /\ StackIn(in2, lf, st2, r, t)
       /\ DOMAIN st2 = 1..(n - 1) /\ \A i \in 1..(n - 1) : st2[i] = st[i]
  <2>1. CanPop(in, lf, in2, st, r, t, n)
    BY <1>4, <1>11 DEF CanPop
  <2>2. Popped(in2, lf, st, Front(st), r, t, n)
    BY <2>1, StackPopped
  <2> QED
    BY <1>13, <2>2 DEF Popped
<1>15. \A i \in DOMAIN st : i = n \/ (i \in DOMAIN st2 /\ st2[i] = st[i])
  BY <1>4, <1>14
<1>16. \A i \in DOMAIN st2 : i \in DOMAIN st /\ i # n /\ st2[i] = st[i]
  BY <1>4, <1>14
<1>17. \A x, c : ToDo(st2, x, c) <=> ToDo(st, x, c)
  <2>1. ASSUME NEW x, NEW c, ToDo(st, x, c)  PROVE ToDo(st2, x, c)
    <3>1. PICK i \in DOMAIN st : st[i].src = x /\ c \in st[i].todo
      BY <2>1 DEF ToDo
    <3>2. i # n
      BY <3>1
    <3> QED
      BY <1>15, <3>1, <3>2 DEF ToDo
  <2>2. ASSUME NEW x, NEW c, ToDo(st2, x, c)  PROVE ToDo(st, x, c)
    BY <1>16, <2>2 DEF ToDo
  <2> QED
    BY <2>1, <2>2
<1>18. /\ \A x : x # a => (OnStack(st2, x) <=> OnStack(st, x))
       /\ ~ OnStack(st2, a)
  <2>1. ~ OnStack(st2, a)
    BY <1>4, <1>16 DEF OnStack
  <2>2. ASSUME NEW x, x # a, OnStack(st, x)  PROVE OnStack(st2, x)
    <3>1. PICK i \in DOMAIN st : st[i].src = x
      BY <2>2 DEF OnStack
    <3>2. i # n
      BY <1>4, <2>2, <3>1
    <3> QED
      BY <1>15, <3>1, <3>2 DEF OnStack
  <2>3. ASSUME NEW x, OnStack(st2, x)  PROVE OnStack(st, x)
    BY <1>16, <2>3 DEF OnStack
  <2> QED
    BY <2>1, <2>2, <2>3
<1>19. ~ ToDo(st, s, b)
  BY <1>4 DEF ToDo
<1>20. \A x : x # y => Par(in2, lf, x) = Par(in, lf, x)
  <2>1. \A x : x \in DOMAIN in2 <=> x \in DOMAIN in
    BY <1>9
  <2> QED
    BY <1>9, <2>1 DEF Par
<1>21. ASSUME NEW x \in O \cap DOMAIN in2, NEW c \in Byte, New(t, x) \in DOMAIN in2
       PROVE  SlotCopied(in2, lf, st2, t, x, c)
  <2>1. x \in DOMAIN in /\ in2[x] = in[x] /\ New(t, x) \in DOMAIN in
    <3>1. x \in O /\ x \in DOMAIN in2
      OBVIOUS
    <3>2. DOMAIN in2 = DOMAIN in
      BY <1>9
    <3> QED
      BY <1>12, <1>21, <3>1, <3>2
  <2>2. SlotCopied(in, lf, st, t, x, c)
    BY <1>1, <2>1 DEF CopyIn
  <2>3. CASE x = s /\ c = b
    <3>1. in2[x].child[c] = a
      BY <1>4, <2>1, <2>3
    <3>2. in2[New(t, x)].child[c] = y
      BY <1>3, <1>4, <1>9, <2>3 DEF OneSlot
    <3>3. ~ ToDo(st2, x, c)
      BY <1>17, <1>19, <2>3
    <3>4. Par(in2, lf, y) = New(t, x) /\ y \in DOMAIN in2 \cup DOMAIN lf
      BY <1>3, <1>4, <1>9, <2>3 DEF Par
    <3> QED
      BY <1>2, <1>4, <1>18, <3>1, <3>2, <3>3, <3>4 DEF SlotCopied
  <2>4. CASE ~ (x = s /\ c = b)
    <3>1. PICK k, m : k = in[x].child[c] /\ m = in[New(t, x)].child[c]
      OBVIOUS
    <3>2. in2[x].child[c] = k
      BY <2>1, <3>1
    <3>3. in2[New(t, x)].child[c] = m
      <4>1. New(t, x) = this => x = s
        BY <1>1, <1>3, <1>4 DEF Source
      <4> QED
        BY <1>9, <2>1, <2>4, <3>1, <4>1 DEF OneSlot
    <3>4. k # Null => k \in O /\ k # a
      <4>1. k # Null => k \in O /\ Par(in, lf, k) = x /\ k.path[Len(x.path) + 1] = c
        BY <1>1, <2>1, <3>1 DEF Source
      <4> QED
        BY <1>4, <2>4, <4>1
    <3>5. k # Null => New(t, k) # y
      BY <1>1, <1>2, <1>4, <3>4 DEF Source
    <3>6. k # Null => /\ ToDo(st2, x, c) <=> ToDo(st, x, c)
                      /\ ToDo(st, x, c) /\ New(t, k) \notin DOMAIN in \cup DOMAIN lf =>
                            New(t, k) \notin DOMAIN in2 \cup DOMAIN lf
                      /\ OnStack(st2, k) <=> OnStack(st, k)
                      /\ ~ OnStack(st, k) /\ m = New(t, k) /\ m \in DOMAIN in \cup DOMAIN lf =>
                            /\ m \in DOMAIN in2 \cup DOMAIN lf
                            /\ Par(in2, lf, m) = Par(in, lf, m)
      BY <1>9, <1>17, <1>18, <1>20, <3>4, <3>5
    <3> QED
      BY <2>2, <3>1, <3>2, <3>3, <3>6, SlotKept
  <2> QED
    BY <2>3, <2>4
<1>22. ASSUME NEW v \in OwnIn(in2, lf, t)  PROVE \E x \in O : v = New(t, x)
  <2>1. v \in OwnIn(in, lf, t)
    BY <1>9 DEF OwnIn
  <2> QED
    BY <1>1, <2>1 DEF CopyIn
<1>23. ASSUME NEW x \in O \ {r}, New(t, x) \in DOMAIN in2 \cup DOMAIN lf
       PROVE  New(t, Par(in2, lf, x)) \in DOMAIN in2 \cup DOMAIN lf
  <2>1. Par(in2, lf, x) = Par(in, lf, x)
    BY <1>12
  <2>2. New(t, x) \in all
    BY <1>1, <1>9, <1>23
  <2>3. New(t, Par(in, lf, x)) \in all
    BY <1>1, <2>2 DEF CopyIn
  <2> QED
    BY <1>1, <1>9, <2>1, <2>3
<1>24. CopyIn(in2, lf, st2, r, t)
  BY <1>12, <1>21, <1>22, <1>23 DEF CopyIn
<1> QED
  BY <1>9, <1>10, <1>13, <1>14, <1>24 DEF GoesOn

-----------------------------------------------------------------------------
(* The steps of a copy.                                                    *)

\* What is known while a copy is under way.
Running(r, t, st) ==
    /\ r = root[job.from] /\ t = job.tree /\ st = job.stack
    /\ job = Copying(job.op, job.to, job.from, t, st)
    /\ t \in Trees /\ job.from \in alive /\ t # r.tree
    /\ WellHeap(inner, leaf) /\ Source(inner, leaf, r, t)
    /\ StackIn(inner, leaf, st, r, t) /\ CopyIn(inner, leaf, st, r, t)
    /\ st # <<>> /\ Len(st) \in Nat /\ Len(st) > 0 /\ Last(st) = st[Len(st)]

LEMMA WhileRunning ==
    ASSUME Inv, ~ Idle
    PROVE  Running(root[job.from], job.tree, job.stack)
<1>1. PICK r, t, st : r = root[job.from] /\ t = job.tree /\ st = job.stack
  OBVIOUS
<1>2. Parties /\ StackIn(inner, leaf, st, r, t) /\ CopyIn(inner, leaf, st, r, t)
  BY <1>1 DEF Inv, JobFits
<1>3. /\ t \in Trees /\ job.from \in alive /\ r # Null /\ t # r.tree
      /\ job = Copying(job.op, job.to, job.from, t, st)
  BY <1>1, <1>2 DEF Parties
<1>4. JoinedIn(inner, leaf, r)
  BY <1>1, <1>3, ObjectFacts DEF Inv, Joined
<1>5. Source(inner, leaf, r, t)
  BY <1>3, <1>4, SourceFacts DEF Inv, Heap
<1>6. st # <<>> /\ Len(st) \in Nat /\ Len(st) > 0
  <2>1. PICK X : X = [src : OwnIn(inner, leaf, r.tree), todo : SUBSET Byte]
    OBVIOUS
  <2>2. st \in Seq(X) /\ st # <<>>
    BY <1>2, <2>1 DEF StackIn
  <2> QED
    BY <2>2
<1> QED
  BY <1>1, <1>2, <1>3, <1>5, <1>6 DEF Inv, Heap, Last, Running

\* A step of a copy: only tree job.tree changes, and no container.
WentOn ==
    /\ ~ Idle /\ job' # [op |-> "none"]
    /\ job'.from = job.from /\ job'.tree = job.tree
    /\ alive' = alive /\ root' = root /\ size' = size /\ dummy' = dummy /\ dummyRoot' = dummyRoot
    /\ \A u : u # job.tree => Stays(inner, leaf, inner', leaf', u)

\* Leaves that are added to tree t have the values of leaves below r.
LeavesGrow(lf, lf2, r, t) ==
    /\ \A z \in DOMAIN lf : z \in DOMAIN lf2 /\ lf2[z].value = lf[z].value
    /\ \A z \in DOMAIN lf2 \ DOMAIN lf : \E a \in DOMAIN lf :
          a.tree = r.tree /\ z = New(t, a) /\ lf2[z].value = lf[a].value

\* The copy goes on, and no container notices.
LEMMA GoesOnFits ==
    ASSUME Inv, ~ Idle, NEW st2,
           GoesOn(inner, leaf, inner', leaf', st2, root[job.from], job.tree),
           job' = Copying(job.op, job.to, job.from, job.tree, st2),
           alive' = alive, root' = root, size' = size, dummy' = dummy, dummyRoot' = dummyRoot
    PROVE  Inv' /\ WentOn
<1>1. Parties
  BY DEF Inv, JobFits
<1>2. PICK r, t : r = root[job.from] /\ t = job.tree
  OBVIOUS
<1>3. /\ WellHeap(inner', leaf') /\ StackIn(inner', leaf', st2, r, t)
      /\ CopyIn(inner', leaf', st2, r, t)
      /\ \A u : u # t => Stays(inner, leaf, inner', leaf', u)
  BY <1>2 DEF GoesOn
<1>4. \A x \in alive : root[x] # Null => Stays(inner, leaf, inner', leaf', root[x].tree)
  BY <1>1, <1>2, <1>3 DEF Parties
<1>5. Objects'
  BY <1>4, KeptFits DEF Inv
<1>6. /\ job'.op = job.op /\ job'.to = job.to /\ job'.from = job.from /\ job'.tree = job.tree
      /\ job'.stack = st2
  BY DEF Copying
<1>7. Parties'
  BY <1>1, <1>6 DEF Parties
<1>8. JobFits'
  BY <1>2, <1>3, <1>6, <1>7 DEF JobFits
<1>9. Inv'
  BY <1>3, <1>5, <1>8 DEF Inv, Heap
<1>10. job' # [op |-> "none"]
  BY <1>1, <1>6 DEF Parties
<1> QED
  BY <1>2, <1>3, <1>6, <1>9, <1>10 DEF WentOn

LEMMA CopyChildLeafFits ==
    ASSUME Inv, CopyChildLeaf
    PROVE  Inv' /\ WentOn /\ LeavesGrow(leaf, leaf', root[job.from], job.tree)
<1>1. PICK r, t, st : r = root[job.from] /\ t = job.tree /\ st = job.stack
  OBVIOUS
<1>2. ~ Idle /\ Running(r, t, st)
  BY <1>1, WhileRunning DEF CopyChildLeaf
<1>3. PICK n, s : n = Len(st) /\ s = st[n].src
  OBVIOUS
<1>4. OnTop = st[n] /\ OnTop.src = s /\ st[n].todo # {}
  BY <1>1, <1>2, <1>3 DEF OnTop, Running, CopyChildLeaf
<1>5. PICK b : b = Min(st[n].todo)
  OBVIOUS
<1>6. b \in st[n].todo
  <2>1. PICK X : X = [src : OwnIn(inner, leaf, r.tree), todo : SUBSET Byte]
    OBVIOUS
  <2>2. st \in Seq(X) /\ n \in 1..Len(st)
    BY <1>2, <1>3, <2>1 DEF Running, StackIn
  <2>3. st[n] \in X
    BY <2>2
  <2>4. st[n].todo \in SUBSET Nat
    BY <2>1, <2>3, ShapeAssumption
  <2> QED
    BY <1>4, <1>5, <2>4, MinOfBytes
<1>7. PICK a : a = inner[s].child[b]
  OBVIOUS
<1>8. Pending(inner, leaf, st, r, t, n, s, b, a)
  BY <1>2, <1>3, <1>6, <1>7, NextChild DEF Running
<1>9. PICK y, this : y = New(t, a) /\ this = New(t, s)
  OBVIOUS
<1>10. /\ a \in DOMAIN leaf
       /\ leaf' = With(leaf, [z \in {y} |-> [CopiedLeaf(a) EXCEPT !.parent = this]])
       /\ inner' = [inner EXCEPT ![this].child[b] = y]
       /\ job' = [job EXCEPT !.stack[n].todo = @ \ {b}]
       /\ alive' = alive /\ root' = root /\ size' = size /\ dummy' = dummy /\ dummyRoot' = dummyRoot
  BY <1>1, <1>3, <1>4, <1>5, <1>7, <1>9 DEF CopyChildLeaf
<1>11. [CopiedLeaf(a) EXCEPT !.parent = this] = [parent |-> this, value |-> leaf[a].value]
  BY DEF CopiedLeaf
<1>12. PICK st2 : st2 = [st EXCEPT ![n].todo = @ \ {b}]
  OBVIOUS
<1>13. job' = Copying(job.op, job.to, job.from, job.tree, st2)
  <2>1. job = [op |-> job.op, to |-> job.to, from |-> job.from, tree |-> job.tree, stack |-> st]
    BY <1>1, <1>2 DEF Running, Copying
  <2>2. job' = [job EXCEPT !.stack = [st EXCEPT ![n].todo = @ \ {b}]]
    BY <1>1, <1>10
  <2> QED
    BY <1>12, <2>1, <2>2 DEF Copying
<1>14. LeafMade(inner, leaf, inner', leaf', st, st2, n, b, a, this, y)
  <2>1. y \notin DOMAIN leaf
    BY <1>8, <1>9 DEF Pending
  <2>2. PICK v : v = [parent |-> this, value |-> leaf[a].value]
    OBVIOUS
  <2>3. leaf' = With(leaf, [z \in {y} |-> v])
    BY <1>10, <1>11, <2>2
  <2>4. NodeNew(leaf, leaf', y) /\ leaf'[y] = v
    <3>1. PICK f : f = With(leaf, [z \in {y} |-> v])
      OBVIOUS
    <3>2. NodeNew(leaf, f, y) /\ f[y] = v
      BY <2>1, <3>1 DEF With, NodeNew
    <3> QED
      BY <2>3, <3>1, <3>2
  <2> QED
    BY <1>10, <1>12, <2>2, <2>4 DEF LeafMade
<1>15. GoesOn(inner, leaf, inner', leaf', st2, r, t)
  <2>1. LeafMade(inner, leaf, inner', leaf', st, st2, n, b, a, New(t, s), New(t, a))
    BY <1>9, <1>14
  <2>2. /\ t \in Trees /\ WellHeap(inner, leaf) /\ Source(inner, leaf, r, t) /\ t # r.tree
        /\ StackIn(inner, leaf, st, r, t) /\ CopyIn(inner, leaf, st, r, t)
    BY <1>2 DEF Running
  <2>3. a \in DOMAIN leaf
    BY <1>10
  <2> QED
    BY <1>8, <2>1, <2>2, <2>3, LeafStep
<1>16. LeavesGrow(leaf, leaf', r, t)
  <2>1. a.tree = r.tree
    BY <1>8 DEF Pending, OwnIn
  <2>2. NodeNew(leaf, leaf', y) /\ leaf'[y].value = leaf[a].value
    BY <1>14 DEF LeafMade
  <2> QED
    BY <1>9, <1>10, <2>1, <2>2 DEF LeavesGrow, NodeNew
<1> QED
  BY <1>1, <1>2, <1>10, <1>13, <1>15, <1>16, GoesOnFits

LEMMA CopyChildInnerFits ==
    ASSUME Inv, CopyChildInner
    PROVE  Inv' /\ WentOn /\ LeavesGrow(leaf, leaf', root[job.from], job.tree)
<1>1. PICK r, t, st : r = root[job.from] /\ t = job.tree /\ st = job.stack
  OBVIOUS
<1>2. ~ Idle /\ Running(r, t, st)
  BY <1>1, WhileRunning DEF CopyChildInner
<1>3. PICK n, s : n = Len(st) /\ s = st[n].src
  OBVIOUS
<1>4. OnTop = st[n] /\ OnTop.src = s /\ st[n].todo # {}
  BY <1>1, <1>2, <1>3 DEF OnTop, Running, CopyChildInner
<1>5. PICK b : b = Min(st[n].todo)
  OBVIOUS
<1>6. b \in st[n].todo
  <2>1. PICK X : X = [src : OwnIn(inner, leaf, r.tree), todo : SUBSET Byte]
    OBVIOUS
  <2>2. st \in Seq(X) /\ n \in 1..Len(st)
    BY <1>2, <1>3, <2>1 DEF Running, StackIn
  <2>3. st[n] \in X
    BY <2>2
  <2>4. st[n].todo \in SUBSET Nat
    BY <2>1, <2>3, ShapeAssumption
  <2> QED
    BY <1>4, <1>5, <2>4, MinOfBytes
<1>7. PICK a : a = inner[s].child[b]
  OBVIOUS
<1>8. Pending(inner, leaf, st, r, t, n, s, b, a)
  BY <1>2, <1>3, <1>6, <1>7, NextChild DEF Running
<1>9. PICK y : y = New(t, a)
  OBVIOUS
<1>10. PICK f : f = [src |-> a, todo |-> {c \in Byte : inner[a].child[c] # Null}]
  OBVIOUS
<1>11. /\ a \in DOMAIN inner /\ leaf' = leaf
       /\ inner' = With(inner, [z \in {y} |-> CopiedInner(a)])
       /\ job' = [job EXCEPT !.stack = Append([st EXCEPT ![n].todo = @ \ {b}], Frame(a))]
       /\ alive' = alive /\ root' = root /\ size' = size /\ dummy' = dummy /\ dummyRoot' = dummyRoot
  <2>1. Min(OnTop.todo) = b /\ inner[OnTop.src].child[b] = a /\ New(job.tree, a) = y
    BY <1>1, <1>4, <1>5, <1>7, <1>9
  <2>2. /\ a \in DOMAIN inner /\ leaf' = leaf
        /\ inner' = With(inner, [z \in {y} |-> CopiedInner(a)])
        /\ alive' = alive /\ root' = root /\ size' = size /\ dummy' = dummy /\ dummyRoot' = dummyRoot
    BY <2>1 DEF CopyChildInner
  <2>3. job' = [job EXCEPT !.stack =
                   Append([job.stack EXCEPT ![Len(job.stack)].todo = @ \ {b}], Frame(a))]
    BY <2>1 DEF CopyChildInner
  <2> QED
    BY <1>1, <1>3, <2>2, <2>3
<1>12. Frame(a) = f
  BY <1>10, <1>11 DEF Frame
<1>13. PICK st2 : st2 = Append([st EXCEPT ![n].todo = @ \ {b}], f)
  OBVIOUS
<1>14. job' = Copying(job.op, job.to, job.from, job.tree, st2)
  <2>1. job = [op |-> job.op, to |-> job.to, from |-> job.from, tree |-> job.tree, stack |-> st]
    BY <1>1, <1>2 DEF Running, Copying
  <2>2. job' = [job EXCEPT !.stack = st2]
    BY <1>11, <1>12, <1>13
  <2> QED
    BY <2>1, <2>2 DEF Copying
<1>15. InnerMade(inner, leaf, inner', st, st2, n, b, a, y)
  <2>1. y \notin DOMAIN inner
    BY <1>8, <1>9 DEF Pending
  <2>2. PICK v : v = [parent |-> inner[a].parent, child |-> [c \in Byte |-> Null]]
    OBVIOUS
  <2>3. inner' = With(inner, [z \in {y} |-> v])
    BY <1>11, <2>2 DEF CopiedInner
  <2>4. NodeNew(inner, inner', y) /\ inner'[y] = v
    <3>1. PICK g : g = With(inner, [z \in {y} |-> v])
      OBVIOUS
    <3>2. NodeNew(inner, g, y) /\ g[y] = v
      BY <2>1, <3>1 DEF With, NodeNew
    <3> QED
      BY <2>3, <3>1, <3>2
  <2> QED
    BY <1>10, <1>13, <2>2, <2>4 DEF InnerMade
<1>16. GoesOn(inner, leaf, inner', leaf, st2, r, t)
  <2>1. InnerMade(inner, leaf, inner', st, st2, n, b, a, New(t, a))
    BY <1>9, <1>15
  <2>2. /\ t \in Trees /\ WellHeap(inner, leaf) /\ Source(inner, leaf, r, t) /\ t # r.tree
        /\ StackIn(inner, leaf, st, r, t) /\ CopyIn(inner, leaf, st, r, t)
    BY <1>2 DEF Running
  <2>3. a \in DOMAIN inner
    BY <1>11
  <2> QED
    BY <1>8, <2>1, <2>2, <2>3, InnerStep
<1>17. GoesOn(inner, leaf, inner', leaf', st2, r, t)
  BY <1>11, <1>16
<1>18. LeavesGrow(leaf, leaf', r, t)
  BY <1>11 DEF LeavesGrow
<1> QED
  BY <1>1, <1>2, <1>11, <1>14, <1>17, <1>18, GoesOnFits

LEMMA ChildCopiedFits ==
    ASSUME Inv, ChildCopied
    PROVE  Inv' /\ WentOn /\ LeavesGrow(leaf, leaf', root[job.from], job.tree)
<1>1. PICK r, t, st : r = root[job.from] /\ t = job.tree /\ st = job.stack
  OBVIOUS
<1>2. ~ Idle /\ Running(r, t, st)
  BY <1>1, WhileRunning DEF ChildCopied
<1>3. PICK n : n = Len(st)
  OBVIOUS
<1>4. PICK a, s : a = st[n].src /\ s = st[n - 1].src
  OBVIOUS
<1>5. OnTop = st[n] /\ OnTop.src = a /\ st[n].todo = {} /\ n > 1
  BY <1>1, <1>2, <1>3, <1>4 DEF OnTop, Running, ChildCopied
<1>6. PICK b : b = CHOOSE x \in Byte : inner[s].child[x] = a
  OBVIOUS
<1>7. Returning(inner, leaf, st, r, t, n, s, b, a)
  BY <1>2, <1>3, <1>4, <1>5, <1>6, NextReturn DEF Running
<1>8. PICK y, this : y = New(t, a) /\ this = New(t, s)
  OBVIOUS
<1>9. PICK st2 : st2 = Front(st)
  OBVIOUS
<1>10. /\ inner' = [inner EXCEPT ![this].child[b] = y, ![y].parent = this]
       /\ job' = [job EXCEPT !.stack = st2] /\ leaf' = leaf
       /\ alive' = alive /\ root' = root /\ size' = size /\ dummy' = dummy /\ dummyRoot' = dummyRoot
  <2>1. /\ job.stack[Len(job.stack) - 1].src = s /\ OnTop.src = a
        /\ (CHOOSE x \in Byte : inner[s].child[x] = a) = b
        /\ New(job.tree, a) = y /\ New(job.tree, s) = this
    BY <1>1, <1>3, <1>4, <1>5, <1>6, <1>8
  <2>2. inner' = [inner EXCEPT ![this].child[b] = y, ![y].parent = this]
    BY <2>1 DEF ChildCopied
  <2>3. job' = [job EXCEPT !.stack = Front(job.stack)]
    BY DEF ChildCopied
  <2>4. /\ leaf' = leaf /\ alive' = alive /\ root' = root /\ size' = size
        /\ dummy' = dummy /\ dummyRoot' = dummyRoot
    BY DEF ChildCopied
  <2> QED
    BY <1>1, <1>9, <2>2, <2>3, <2>4
<1>11. job' = Copying(job.op, job.to, job.from, job.tree, st2)
  <2>1. job = [op |-> job.op, to |-> job.to, from |-> job.from, tree |-> job.tree, stack |-> st]
    BY <1>1, <1>2 DEF Running, Copying
  <2> QED
    BY <1>10, <2>1 DEF Copying
<1>12. GoesOn(inner, leaf, inner', leaf, Front(st), r, t)
  <2>1. ReturnMade(inner, inner', b, New(t, a), New(t, s))
    BY <1>8, <1>10 DEF ReturnMade
  <2>2. /\ t \in Trees /\ WellHeap(inner, leaf) /\ Source(inner, leaf, r, t) /\ t # r.tree
        /\ StackIn(inner, leaf, st, r, t) /\ CopyIn(inner, leaf, st, r, t)
    BY <1>2 DEF Running
  <2>3. st[n].todo = {}
    BY <1>5
  <2> QED
    BY <1>7, <2>1, <2>2, <2>3, ReturnStep
<1>13. GoesOn(inner, leaf, inner', leaf', st2, r, t)
  BY <1>9, <1>10, <1>12
<1>14. LeavesGrow(leaf, leaf', r, t)
  BY <1>10 DEF LeavesGrow
<1> QED
  BY <1>1, <1>2, <1>10, <1>11, <1>13, <1>14, GoesOnFits

\* The copy of the root is begun, in a tree that has no nodes yet.
RootMade(in, lf, in2, lf2, st, a, y) ==
    /\ a \in DOMAIN in =>
          /\ NodeNew(in, in2, y) /\ lf2 = lf
          /\ in2[y] = [parent |-> in[a].parent, child |-> [b \in Byte |-> Null]]
          /\ st = <<[src |-> a, todo |-> {b \in Byte : in[a].child[b] # Null}]>>
    /\ a \in DOMAIN lf =>
          /\ NodeNew(lf, lf2, y) /\ in2 = in
          /\ lf2[y] = [parent |-> Null, value |-> lf[a].value]
          /\ st = <<[src |-> a, todo |-> {}]>>

LEMMA RootStep ==
    ASSUME NEW in, NEW lf, NEW in2, NEW lf2, NEW st, NEW a, NEW t \in Trees,
           WellHeap(in, lf), Source(in, lf, a, t), t # a.tree, OwnIn(in, lf, t) = {},
           RootMade(in, lf, in2, lf2, st, a, New(t, a))
    PROVE  GoesOn(in, lf, in2, lf2, st, a, t)
<1>1. PICK O, all, all2 : /\ O = OwnIn(in, lf, a.tree)
                          /\ all = DOMAIN in \cup DOMAIN lf /\ all2 = DOMAIN in2 \cup DOMAIN lf2
  OBVIOUS
<1>2. PICK y : y = New(t, a)
  OBVIOUS
<1>3. /\ a \in O /\ y \in Addr /\ y.tree = t /\ y.kind = a.kind /\ y = NodeAt(y.tree, y.path)
      /\ y # Null /\ Len(y.path) <= KeyLen /\ a # y
      /\ a.kind = IF a \in DOMAIN lf THEN "leaf" ELSE "inner"
      /\ a \in DOMAIN in \/ a \in DOMAIN lf
  BY <1>1, <1>2 DEF Source
<1>4. \A x \in all : x.tree # t
  BY <1>1 DEF OwnIn
<1>5. y \notin all
  BY <1>3, <1>4
<1>6. ~ (a \in DOMAIN in /\ a \in DOMAIN lf)
  BY WellFacts
<1>7. PICK D : D = IF a \in DOMAIN in THEN {b \in Byte : in[a].child[b] # Null} ELSE {}
  OBVIOUS
<1>8. st = <<[src |-> a, todo |-> D]>>
  BY <1>2, <1>3, <1>6, <1>7 DEF RootMade
<1>9. WellHeap(in2, lf2)
  <2>1. CASE a \in DOMAIN in
    <3>1. PICK p : p = in[a].parent
      OBVIOUS
    <3>2. p \in Ptr
      BY <2>1, <3>1, WellFacts
    <3>3. /\ NodeNew(in, in2, y) /\ lf2 = lf
          /\ in2[y] = [parent |-> p, child |-> [b \in Byte |-> Null]]
      BY <1>2, <2>1, <3>1 DEF RootMade
    <3>4. y.kind = "inner"
      BY <1>3, <1>6, <2>1
    <3>5. WellHeap(in2, lf)
      BY <1>1, <1>3, <1>5, <3>2, <3>3, <3>4, InnerAdded
    <3> QED
      BY <3>3, <3>5
  <2>2. CASE a \in DOMAIN lf
    <3>1. PICK v : v = lf[a].value
      OBVIOUS
    <3>2. v \in Values /\ Null \in Ptr
      BY <2>2, <3>1, WellFacts DEF Ptr
    <3>3. /\ NodeNew(lf, lf2, y) /\ in2 = in
          /\ lf2[y] = [parent |-> Null, value |-> v]
      BY <1>2, <2>2, <3>1 DEF RootMade
    <3>4. lf2[y] \in [parent : Ptr, value : Values] /\ y.kind = "leaf"
      BY <1>3, <2>2, <3>2, <3>3
    <3>5. WellHeap(in, lf2)
      BY <1>1, <1>3, <1>5, <3>3, <3>4, LeafAdded
    <3> QED
      BY <3>3, <3>5
  <2> QED
    BY <1>3, <2>1, <2>2
<1>10. /\ all2 = all \cup {y}
       /\ y \in DOMAIN in2 <=> a \in DOMAIN in
       /\ \A x \in all : /\ x \in DOMAIN in2 <=> x \in DOMAIN in
                         /\ x \in DOMAIN lf2 <=> x \in DOMAIN lf
                         /\ x \in DOMAIN in => in2[x] = in[x]
                         /\ x \in DOMAIN lf => lf2[x] = lf[x]
  BY <1>1, <1>2, <1>3, <1>5, <1>6 DEF RootMade, NodeNew
<1>11. ASSUME NEW u, u # t  PROVE Stays(in, lf, in2, lf2, u)
  <2>1. OwnIn(in2, lf2, u) = OwnIn(in, lf, u)
    BY <1>1, <1>3, <1>10, <1>11 DEF OwnIn
  <2>2. \A x \in OwnIn(in, lf, u) : x \in all
    BY <1>1 DEF OwnIn
  <2> QED
    BY <1>10, <2>1, <2>2 DEF Stays
<1>12. OwnIn(in2, lf2, t) = {y}
  BY <1>1, <1>3, <1>4, <1>10 DEF OwnIn
<1>13. /\ OwnIn(in2, lf2, a.tree) = O /\ \A x \in O : x \in all
  BY <1>1, <1>11 DEF Stays, OwnIn
<1>14. a \in all
  BY <1>3, <1>13
<1>15. StackIn(in2, lf2, st, a, t)
  <2>1. PICK f : f = [src |-> a, todo |-> D]
    OBVIOUS
  <2>2. st = <<f>> /\ f.src = a /\ f.todo = D /\ D \in SUBSET Byte
    BY <1>7, <1>8, <2>1
  <2>3. PICK X : X = [src : O, todo : SUBSET Byte]
    OBVIOUS
  <2>4. f \in X
    BY <1>3, <2>1, <2>2, <2>3
  <2>5. st \in Seq(X) /\ Len(st) = 1 /\ DOMAIN st = {1} /\ st[1] = f /\ st # <<>>
    BY <2>2, <2>4
  <2>6. New(t, a) \in all2
    BY <1>2, <1>10
  <2>7. a \in DOMAIN lf2 => D = {}
    BY <1>6, <1>7, <1>10, <1>14
  <2>8. a \in DOMAIN in2 => \A b \in D : in2[a].child[b] # Null
    BY <1>7, <1>10, <1>14
  <2>9. \A i \in DOMAIN st : i = 1
    BY <2>5
  <2>10. 1..(Len(st) - 1) = {}
    BY <2>5
  <2>11. \A i, j \in DOMAIN st : ~ (i < j)
    BY <2>5
  <2> QED
    BY <1>1, <1>13, <2>2, <2>3, <2>5, <2>6, <2>7, <2>8, <2>9, <2>10, <2>11 DEF StackIn
<1>16. \A x \in O : New(t, x) \in all2 => x = a
  <2> SUFFICES ASSUME NEW x \in O, New(t, x) \in all2  PROVE x = a
    OBVIOUS
  <2>1. New(t, x).tree = t
    BY <1>1 DEF Source
  <2>2. New(t, x) = y
    BY <1>4, <1>10, <2>1
  <2> QED
    BY <1>1, <1>2, <1>3, <2>2 DEF Source
<1>17. ASSUME NEW x \in O, x \in DOMAIN in2, NEW b \in Byte, New(t, x) \in DOMAIN in2
       PROVE  SlotCopied(in2, lf2, st, t, x, b)
  <2>1. x = a
    BY <1>1, <1>16, <1>17
  <2>2. a \in DOMAIN in /\ in2[a] = in[a]
    BY <1>10, <1>14, <1>17, <2>1
  <2>3. in2[New(t, a)].child[b] = Null
    <3>1. in2[y] = [parent |-> in[a].parent, child |-> [c \in Byte |-> Null]]
      BY <1>2, <2>2 DEF RootMade
    <3> QED
      BY <1>2, <3>1
  <2>4. PICK k : k = in2[a].child[b]
    OBVIOUS
  <2>5. CASE k = Null
    BY <2>1, <2>3, <2>4, <2>5 DEF SlotCopied
  <2>6. CASE k # Null
    <3>1. k = in[a].child[b]
      BY <2>2, <2>4
    <3>2. k \in O /\ k # a
      BY <1>1, <1>3, <2>2, <2>6, <3>1 DEF Source
    <3>3. New(t, k) \notin all2
      BY <1>16, <3>2
    <3>4. ToDo(st, a, b)
      <4>1. b \in D
        BY <1>7, <2>2, <2>6, <3>1
      <4>2. PICK f : f = [src |-> a, todo |-> D]
        OBVIOUS
      <4>3. st = <<f>> /\ f.src = a /\ f.todo = D
        BY <1>8, <4>2
      <4>4. 1 \in DOMAIN st /\ st[1].src = a /\ b \in st[1].todo
        BY <4>1, <4>3
      <4> QED
        BY <4>4 DEF ToDo
    <3> QED
      BY <1>1, <2>1, <2>3, <2>4, <2>6, <3>3, <3>4 DEF SlotCopied
  <2> QED
    BY <2>5, <2>6
<1>18. CopyIn(in2, lf2, st, a, t)
  <2>1. \A v \in OwnIn(in2, lf2, t) : \E x \in O : v = New(t, x)
    BY <1>2, <1>3, <1>12
  <2>2. \A x \in O \ {a} : New(t, x) \notin all2
    BY <1>16
  <2> QED
    BY <1>1, <1>13, <1>17, <2>1, <2>2 DEF CopyIn
<1> QED
  BY <1>9, <1>11, <1>15, <1>18 DEF GoesOn

LEMMA StaysOn ==
    ASSUME NEW in, NEW lf, NEW in2, NEW lf2, NEW in3, NEW lf3, NEW u,
           Stays(in, lf, in2, lf2, u), Stays(in2, lf2, in3, lf3, u)
    PROVE  Stays(in, lf, in3, lf3, u)
  BY DEF Stays

\* The tree of a container, if it has one.
TreesOf(c) == IF root[c] = Null THEN {} ELSE {root[c].tree}

\* The copies in tree t have the values of the leaves below r.
SameValues(lf, r, t) ==
    \A a \in DOMAIN lf : a.tree = r.tree /\ New(t, a) \in DOMAIN lf =>
                            lf[New(t, a)].value = lf[a].value

\* Container c is cleared, and a copy of x is begun in tree t, which may be
\* the one that c had.
Started(c, x, t) ==
    /\ Idle /\ job'.tree = t /\ job' # [op |-> "none"]
    /\ job'.from = x /\ x \in alive /\ x # c
    /\ alive' = alive /\ dummy' = dummy /\ dummyRoot' = dummyRoot
    /\ root' = [root EXCEPT ![c] = Null]
    /\ \A v \in alive \ {c} : root[v] # Null => Stays(inner, leaf, inner', leaf', root[v].tree)
    /\ \A u : u # t /\ u \notin TreesOf(c) => OwnIn(inner', leaf', u) = OwnIn(inner, leaf, u)
    /\ \A u \in TreesOf(c) \ {t} : OwnIn(inner', leaf', u) = {}
    /\ t \notin TreesOf(c) => OwnIn(inner, leaf, t) = {}
    /\ SameValues(leaf', root[x], t)

LEMMA StartFits ==
    ASSUME Inv, NEW c \in Containers, NEW x \in Containers,
           CopyConstruct(c, x) \/ CopyAssign(c, x)
    PROVE  Inv' /\ \E t : Started(c, x, t)
<1>1. /\ root \in [Containers -> Ptr] /\ size \in [Containers -> Nat] /\ alive \subseteq Containers
      /\ c \notin alive => root[c] = Null /\ size[c] = 0
  BY DEF Inv, Objects, ObjectTypes
<1>2. /\ Idle /\ x \in alive /\ c # x /\ root[x] # Null
      /\ alive' = alive /\ dummy' = dummy /\ dummyRoot' = dummyRoot
      /\ root' = [root EXCEPT ![c] = Null] /\ size' = [size EXCEPT ![c] = 0]
  <2>1. CASE CopyConstruct(c, x)
    <3>1. c \notin alive /\ root' = root /\ size' = size
      BY <2>1 DEF CopyConstruct
    <3> QED
      BY <1>1, <2>1, <3>1 DEF CopyConstruct
  <2>2. CASE CopyAssign(c, x)
    BY <2>2 DEF CopyAssign
  <2> QED
    BY <2>1, <2>2
<1>4. PICK o \in {"construct", "assign"}, t \in FreshTree(Nodes \ Tree(c)) :
         (o = "assign" <=> c \in alive) /\ CopyRoot(o, c, x, t)
  <2>1. CASE CopyConstruct(c, x)
    <3>1. c \notin alive /\ \E t \in FreshTree(Nodes) : CopyRoot("construct", c, x, t)
      BY <2>1 DEF CopyConstruct
    <3>2. Nodes \ Tree(c) = Nodes
      BY <1>1, <3>1, ObjectFacts DEF Inv
    <3>3. \E t \in FreshTree(Nodes \ Tree(c)) : CopyRoot("construct", c, x, t)
      BY <3>1, <3>2
    <3> QED
      BY <3>1, <3>3
  <2>2. CASE CopyAssign(c, x)
    BY <2>2 DEF CopyAssign
  <2> QED
    BY <2>1, <2>2
<1>5. PICK a : a = root[x]
  OBVIOUS
<1>6. PICK in, lf : in = Without(inner, Tree(c)) /\ lf = Without(leaf, Tree(c))
  OBVIOUS
<1>7. /\ WellHeap(in, lf)
      /\ \A v \in alive \ {c} : root[v] # Null => Stays(inner, leaf, in, lf, root[v].tree)
  BY <1>6, EmptiedAre DEF Inv
<1>8. Stays(inner, leaf, in, lf, a.tree)
  BY <1>2, <1>5, <1>7
<1>9. a \in Nodes /\ JoinedIn(inner, leaf, a) /\ a # Null
  BY <1>2, <1>5, ObjectFacts DEF Inv, Joined
<1>10. JoinedIn(in, lf, a)
  <2>1. StillJoined(inner, leaf, in, lf, a)
    BY <1>8, <1>9, JoinedStays DEF Inv, Heap
  <2> QED
    BY <2>1 DEF StillJoined
<1>11. t \in Trees /\ \A z \in Nodes \ Tree(c) : z.tree # t
  BY FreshIsFree
<1>12. t # a.tree
  <2>1. a \in DOMAIN in \cup DOMAIN lf
    BY <1>10 DEF JoinedIn
  <2>2. a \in Nodes \ Tree(c)
    BY <1>6, <2>1 DEF Without, Nodes
  <2> QED
    BY <1>11, <2>2
<1>13. OwnIn(in, lf, t) = {}
  <2>1. DOMAIN in \cup DOMAIN lf = Nodes \ Tree(c)
    BY <1>6 DEF Without, Nodes
  <2> QED
    BY <1>11, <2>1 DEF OwnIn
<1>14. Source(in, lf, a, t)
  BY <1>7, <1>10, <1>11, <1>12, SourceFacts
<1>15. /\ a \in DOMAIN in <=> a \in DOMAIN inner
       /\ a \in DOMAIN lf <=> a \in DOMAIN leaf
       /\ a \in DOMAIN inner => in[a] = inner[a]
       /\ a \in DOMAIN leaf => lf[a] = leaf[a]
  BY <1>8, <1>9 DEF Stays, OwnIn, Nodes
<1>16. PICK y, st : y = New(t, a) /\ st = <<Frame(a)>>
  OBVIOUS
<1>17. /\ job' = Copying(o, c, x, t, st)
       /\ inner' = IF a \in DOMAIN inner THEN With(in, [z \in {y} |-> CopiedInner(a)]) ELSE in
       /\ leaf' = IF a \in DOMAIN leaf THEN With(lf, [z \in {y} |-> CopiedLeaf(a)]) ELSE lf
  BY <1>4, <1>5, <1>6, <1>16 DEF CopyRoot
<1>18. y \notin DOMAIN in /\ y \notin DOMAIN lf
  <2>1. y.tree = t
    BY <1>14, <1>16 DEF Source
  <2> QED
    BY <1>13, <2>1 DEF OwnIn
<1>19. ~ (a \in DOMAIN inner /\ a \in DOMAIN leaf)
  BY <1>7, <1>15, WellFacts
<1>20. RootMade(in, lf, inner', leaf', st, a, y)
  <2>1. CASE a \in DOMAIN inner
    <3>1. PICK v : v = [parent |-> in[a].parent, child |-> [b \in Byte |-> Null]]
      OBVIOUS
    <3>2. inner' = With(in, [z \in {y} |-> v]) /\ leaf' = lf
      BY <1>15, <1>17, <1>19, <2>1, <3>1 DEF CopiedInner
    <3>3. PICK g : g = With(in, [z \in {y} |-> v])
      OBVIOUS
    <3>4. NodeNew(in, g, y) /\ g[y] = v
      BY <1>18, <3>3 DEF With, NodeNew
    <3>5. NodeNew(in, inner', y) /\ inner'[y] = v
      BY <3>2, <3>3, <3>4
    <3>6. st = <<[src |-> a, todo |-> {b \in Byte : in[a].child[b] # Null}]>>
      BY <1>15, <1>16, <2>1 DEF Frame
    <3> QED
      BY <1>15, <1>19, <2>1, <3>1, <3>2, <3>5, <3>6 DEF RootMade
  <2>2. CASE a \in DOMAIN leaf
    <3>1. PICK v : v = [parent |-> Null, value |-> lf[a].value]
      OBVIOUS
    <3>2. leaf' = With(lf, [z \in {y} |-> v]) /\ inner' = in
      BY <1>15, <1>17, <1>19, <2>2, <3>1 DEF CopiedLeaf
    <3>3. PICK g : g = With(lf, [z \in {y} |-> v])
      OBVIOUS
    <3>4. NodeNew(lf, g, y) /\ g[y] = v
      BY <1>18, <3>3 DEF With, NodeNew
    <3>5. NodeNew(lf, leaf', y) /\ leaf'[y] = v
      BY <3>2, <3>3, <3>4
    <3>6. st = <<[src |-> a, todo |-> {}]>>
      BY <1>16, <1>19, <2>2 DEF Frame
    <3> QED
      BY <1>15, <1>19, <2>2, <3>1, <3>2, <3>5, <3>6 DEF RootMade
  <2> QED
    BY <1>9, <2>1, <2>2 DEF Nodes
<1>21. GoesOn(in, lf, inner', leaf', st, a, t)
  <2>1. RootMade(in, lf, inner', leaf', st, a, New(t, a))
    BY <1>16, <1>20
  <2> QED
    BY <1>7, <1>11, <1>12, <1>13, <1>14, <2>1, RootStep
<1>22. \A v \in alive \ {c} : root[v] # Null => root[v].tree # t
  <2> SUFFICES ASSUME NEW v \in alive \ {c}, root[v] # Null  PROVE root[v].tree # t
    OBVIOUS
  <2>1. PICK z : z = root[v]
    OBVIOUS
  <2>2. z \in OwnIn(inner, leaf, z.tree)
    BY <2>1, ObjectFacts DEF Inv, OwnIn, Nodes
  <2>3. z \in OwnIn(in, lf, z.tree)
    BY <1>7, <2>1, <2>2 DEF Stays
  <2> QED
    BY <1>13, <2>1, <2>3
<1>23. ASSUME NEW v \in alive \ {c}, root[v] # Null
       PROVE  Stays(inner, leaf, inner', leaf', root[v].tree)
  <2>1. PICK u : u = root[v].tree
    OBVIOUS
  <2>2. Stays(inner, leaf, in, lf, u)
    BY <1>7, <1>23, <2>1
  <2>3. Stays(in, lf, inner', leaf', u)
    BY <1>21, <1>22, <1>23, <2>1 DEF GoesOn
  <2> QED
    BY <2>1, <2>2, <2>3, StaysOn
<1>24. Objects'
  BY <1>2, <1>23, ClearedFits DEF Inv
<1>25. /\ \A v \in Containers \ {c} : root'[v] = root[v]
       /\ root'[c] = Null
  BY <1>1, <1>2
<1>26. /\ job'.op = o /\ job'.to = c /\ job'.from = x /\ job'.tree = t /\ job'.stack = st
  BY <1>17 DEF Copying
<1>27. Parties'
  <2>1. job' = Copying(job'.op, job'.to, job'.from, job'.tree, job'.stack)
    BY <1>17, <1>26
  <2>2. \A v \in alive' : root'[v] # Null => root'[v].tree # job'.tree
    BY <1>1, <1>2, <1>22, <1>25, <1>26
  <2> QED
    BY <1>2, <1>4, <1>11, <1>25, <1>26, <2>1, <2>2 DEF Parties
<1>28. JobFits'
  BY <1>2, <1>5, <1>21, <1>25, <1>26, <1>27 DEF JobFits, GoesOn
<1>29. Inv'
  BY <1>21, <1>24, <1>28 DEF Inv, Heap, GoesOn
<1>30. /\ \A u : u \notin TreesOf(c) => OwnIn(in, lf, u) = OwnIn(inner, leaf, u)
       /\ \A u \in TreesOf(c) : OwnIn(in, lf, u) = {}
  <2>1. DOMAIN in = DOMAIN inner \ Tree(c) /\ DOMAIN lf = DOMAIN leaf \ Tree(c)
    BY <1>6 DEF Without
  <2>2. \A u : OwnIn(in, lf, u) = OwnIn(inner, leaf, u) \ Tree(c)
    BY <2>1 DEF OwnIn
  <2>3. CASE root[c] = Null
    <3>1. Tree(c) = {} /\ TreesOf(c) = {}
      BY <2>3, ObjectFacts DEF TreesOf, Inv
    <3> QED
      BY <2>2, <3>1
  <2>4. CASE root[c] # Null
    <3>1. c \in alive /\ TreesOf(c) = {root[c].tree}
      BY <1>1, <2>4 DEF TreesOf
    <3>2. Tree(c) = OwnIn(inner, leaf, root[c].tree)
      BY <2>4, <3>1, ObjectFacts DEF Own, Inv
    <3>3. \A u : u # root[c].tree => OwnIn(inner, leaf, u) \cap Tree(c) = {}
      BY <3>2 DEF OwnIn
    <3> QED
      BY <2>2, <3>1, <3>2, <3>3
  <2> QED
    BY <2>3, <2>4
<1>31. \A u : u # t => OwnIn(inner', leaf', u) = OwnIn(in, lf, u)
  BY <1>21 DEF GoesOn, Stays
<1>32. SameValues(leaf', a, t)
  <2> SUFFICES ASSUME NEW z \in DOMAIN leaf', z.tree = a.tree, New(t, z) \in DOMAIN leaf'
               PROVE  leaf'[New(t, z)].value = leaf'[z].value
    BY DEF SameValues
  <2>1. New(t, z) \notin DOMAIN lf /\ y.tree = t
    <3>1. New(t, z).tree = t
      BY DEF New, NodeAt
    <3> QED
      BY <1>13, <1>16, <3>1 DEF OwnIn, New, NodeAt
  <2>2. a \in DOMAIN lf /\ NodeNew(lf, leaf', y) /\ leaf'[y].value = lf[a].value
    <3>1. ~ leaf' = lf
      BY <2>1
    <3> QED
      BY <1>9, <1>15, <1>20, <3>1 DEF RootMade, Nodes
  <2>3. New(t, z) = y
    BY <2>1, <2>2 DEF NodeNew
  <2>4. z \in DOMAIN lf
    BY <1>12, <2>1, <2>2 DEF NodeNew
  <2>5. z \in OwnIn(in, lf, a.tree) /\ a \in OwnIn(in, lf, a.tree)
    BY <2>2, <2>4 DEF OwnIn
  <2>6. z = a
    BY <1>14, <1>16, <2>3, <2>5 DEF Source
  <2> QED
    BY <2>2, <2>3, <2>6 DEF NodeNew
<1>33. job'.tree = t /\ job'.from = x /\ job' # [op |-> "none"]
  BY <1>4, <1>26
<1>34. t \notin TreesOf(c) => OwnIn(inner, leaf, t) = {}
  BY <1>13, <1>30
<1>35. Started(c, x, t)
  BY <1>2, <1>5, <1>23, <1>30, <1>31, <1>32, <1>33, <1>34 DEF Started
<1> QED
  BY <1>29, <1>35

\* The nodes on the stack are given back.
Unwound(in, st, in2, t) == in2 = Without(in, {New(t, f.src) : f \in Range(st)})

\* No leaf is on the stack while something is left to be copied.
LEMMA StackInner ==
    ASSUME NEW in, NEW lf, NEW st, NEW r, NEW t, Source(in, lf, r, t),
           StackIn(in, lf, st, r, t), st[Len(st)].todo # {}
    PROVE  {New(t, st[i].src) : i \in DOMAIN st} \cap DOMAIN lf = {}
<1>1. PICK O : O = OwnIn(in, lf, r.tree)
  OBVIOUS
<1>2. PICK X : X = [src : O, todo : SUBSET Byte]
  OBVIOUS
<1>3. st \in Seq(X) /\ \A i \in DOMAIN st : st[i].src \in O
  <2>1. st \in Seq(X)
    BY <1>1, <1>2 DEF StackIn
  <2>2. \A i \in DOMAIN st : st[i] \in X
    BY <2>1
  <2> QED
    BY <1>2, <2>1, <2>2
<1> SUFFICES ASSUME NEW i \in DOMAIN st, New(t, st[i].src) \in DOMAIN lf  PROVE FALSE
  OBVIOUS
<1>4. PICK s : s = st[i].src
  OBVIOUS
<1>5. s \in O /\ s \in DOMAIN lf
  BY <1>1, <1>3, <1>4 DEF Source
<1>6. st[i].todo = {} /\ Len(st) = 1
  BY <1>4, <1>5 DEF StackIn
<1>7. i = Len(st)
  BY <1>3, <1>6
<1> QED
  BY <1>6, <1>7

LEMMA UnwoundHeap ==
    ASSUME NEW in, NEW lf, NEW in2, NEW st, NEW r, NEW t,
           WellHeap(in, lf), Source(in, lf, r, t), StackIn(in, lf, st, r, t),
           CopyIn(in, lf, st, r, t), Unwound(in, st, in2, t), st[Len(st)].todo # {}
    PROVE  /\ WellHeap(in2, lf)
           /\ \A u : u # t => Stays(in, lf, in2, lf, u)
<1>1. PICK O : O = OwnIn(in, lf, r.tree)
  OBVIOUS
<1>2. PICK Z : Z = {New(t, f.src) : f \in Range(st)}
  OBVIOUS
<1>3. \A i \in DOMAIN st : st[i].src \in O
  <2>1. PICK X : X = [src : O, todo : SUBSET Byte]
    OBVIOUS
  <2>2. st \in Seq(X)
    BY <1>1, <2>1 DEF StackIn
  <2>3. \A i \in DOMAIN st : st[i] \in X
    BY <2>2
  <2> QED
    BY <2>1, <2>3
<1>4. \A z \in Z : \E i \in DOMAIN st : z = New(t, st[i].src)
  BY <1>2 DEF Range
<1>5. \A z \in Z : z.tree = t
  BY <1>1, <1>3, <1>4 DEF Source
<1>6. Z \cap DOMAIN lf = {}
  <2>1. Z = {New(t, st[i].src) : i \in DOMAIN st}
    BY <1>2 DEF Range
  <2> QED
    BY <2>1, StackInner
<1>7. ASSUME NEW x \in DOMAIN in, NEW b \in Byte, in[x].child[b] \in Z, in[x].child[b] # Null
      PROVE  FALSE
  <2>1. PICK m : m = in[x].child[b]
    OBVIOUS
  <2>2. m \in Z /\ m # Null /\ m.tree = t
    BY <1>5, <1>7, <2>1
  <2>3. x.tree = t
    BY <1>7, <2>1, <2>2, WellFacts
  <2>4. PICK a \in O : x = New(t, a)
    BY <1>1, <2>3 DEF CopyIn, OwnIn
  <2>5. a \in DOMAIN in
    BY <1>1, <2>4 DEF Source
  <2>6. SlotCopied(in, lf, st, t, a, b)
    BY <1>1, <2>4, <2>5 DEF CopyIn
  <2>7. PICK k : k = in[a].child[b]
    OBVIOUS
  <2>8. k # Null /\ ~ OnStack(st, k) /\ m = New(t, k)
    BY <2>1, <2>2, <2>4, <2>6, <2>7 DEF SlotCopied
  <2>9. k \in O
    BY <1>1, <2>5, <2>7, <2>8 DEF Source
  <2>10. PICK i \in DOMAIN st : m = New(t, st[i].src)
    BY <1>4, <2>2
  <2>11. PICK s : s = st[i].src
    OBVIOUS
  <2>12. s \in O /\ New(t, s) = New(t, k)
    BY <1>3, <2>8, <2>10, <2>11
  <2>13. s = k
    BY <1>1, <2>9, <2>12 DEF Source
  <2> QED
    BY <2>8, <2>11, <2>13 DEF OnStack
<1>8. in2 = Without(in, Z)
  BY <1>2 DEF Unwound
<1>9. WellHeap(in2, lf)
  <2>1. \A x \in DOMAIN in \ Z, b \in Byte : in[x].child[b] \notin Z \/ in[x].child[b] = Null
    BY <1>7
  <2> QED
    BY <1>6, <1>8, <2>1, NodesDeleted
<1>10. ASSUME NEW u, u # t  PROVE Stays(in, lf, in2, lf, u)
  <2>1. /\ DOMAIN in2 = DOMAIN in \ Z /\ \A x \in DOMAIN in2 : in2[x] = in[x]
    BY <1>8 DEF Without
  <2>2. \A x \in OwnIn(in, lf, u) : x \notin Z
    BY <1>5, <1>10 DEF OwnIn
  <2>3. OwnIn(in2, lf, u) = OwnIn(in, lf, u)
    BY <1>5, <1>10, <2>1 DEF OwnIn
  <2> QED
    BY <2>1, <2>2, <2>3 DEF Stays
<1> QED
  BY <1>9, <1>10

LEMMA CopyThrowsFits ==
    ASSUME Inv, CopyThrows
    PROVE  /\ Inv' /\ alive' = alive /\ root' = root
           /\ \A v \in alive : root[v] # Null => Stays(inner, leaf, inner', leaf', root[v].tree)
<1>1. PICK r, t, st : r = root[job.from] /\ t = job.tree /\ st = job.stack
  OBVIOUS
<1>2. ~ Idle /\ Running(r, t, st)
  BY <1>1, WhileRunning DEF CopyThrows
<1>3. OnTop.todo = st[Len(st)].todo
  BY <1>1, <1>2 DEF OnTop, Running
<1>4. /\ job' = [op |-> "none"] /\ leaf' = leaf
      /\ alive' = alive /\ root' = root /\ size' = size /\ dummy' = dummy /\ dummyRoot' = dummyRoot
  BY DEF CopyThrows
<1>5. Heap' /\ \A u : u # t => Stays(inner, leaf, inner', leaf', u)
  <2>1. CASE OnTop.todo = {}
    <3>1. inner' = inner
      BY <2>1 DEF CopyThrows
    <3> QED
      BY <1>4, <3>1, StaysSame DEF Heap, Inv
  <2>2. CASE OnTop.todo # {}
    <3>1. Unwound(inner, st, inner', t)
      BY <1>1, <2>2 DEF CopyThrows, Unwound
    <3>2. st[Len(st)].todo # {}
      BY <1>3, <2>2
    <3>3. /\ WellHeap(inner', leaf)
          /\ \A u : u # t => Stays(inner, leaf, inner', leaf, u)
      BY <1>2, <3>1, <3>2, UnwoundHeap DEF Running
    <3> QED
      BY <1>4, <3>3 DEF Heap
  <2> QED
    BY <2>1, <2>2
<1>6. \A v \in alive : root[v] # Null => Stays(inner, leaf, inner', leaf', root[v].tree)
  <2>1. Parties
    BY <1>2 DEF Inv, JobFits
  <2> QED
    BY <1>1, <1>5, <2>1 DEF Parties
<1>7. Objects'
  BY <1>4, <1>6, KeptFits DEF Inv
<1>8. JobFits'
  BY <1>4 DEF JobFits, Idle
<1> QED
  BY <1>4, <1>5, <1>6, <1>7, <1>8 DEF Inv

-----------------------------------------------------------------------------
(* The end of a copy.                                                      *)

\* The leaves of a tree are no more than there are keys.
LEMMA LeavesAreFew ==
    ASSUME NEW in, NEW lf, NEW u, WellHeap(in, lf)
    PROVE  /\ IsFiniteSet(OwnIn(in, lf, u) \cap DOMAIN lf)
           /\ Cardinality(OwnIn(in, lf, u) \cap DOMAIN lf) <= Cardinality(Keys)
<1>1. PICK L : L = OwnIn(in, lf, u) \cap DOMAIN lf
  OBVIOUS
<1>2. \A a \in L : a.path \in Keys /\ a = NodeAt(u, a.path)
  <2> SUFFICES ASSUME NEW a \in L  PROVE a.path \in Keys /\ a = NodeAt(u, a.path)
    OBVIOUS
  <2>1. a \in DOMAIN lf /\ a.tree = u
    BY <1>1 DEF OwnIn
  <2>2. a = NodeAt(u, a.path) /\ a.kind = "leaf"
    BY <2>1, WellFacts
  <2> QED
    BY <2>2 DEF NodeAt
<1>3. PICK f : f = [a \in L |-> a.path]
  OBVIOUS
<1>4. f \in [L -> Keys] /\ \A a, b \in L : f[a] = f[b] => a = b
  BY <1>2, <1>3
<1>5. f \in Injection(L, Keys)
  BY <1>4 DEF Injection, IsInjective
<1>6. IsFiniteSet(Keys)
  BY ShapeAssumption
<1> QED
  BY <1>1, <1>5, <1>6, FS_Injection

\* Nothing is left to do.
Finished(in, lf, st, r, t) ==
    /\ WellHeap(in, lf) /\ Source(in, lf, r, t) /\ JoinedIn(in, lf, r)
    /\ StackIn(in, lf, st, r, t) /\ CopyIn(in, lf, st, r, t)
    /\ Len(st) = 1 /\ st[1].todo = {}

\* A slot of a node that is copied leads to a copy.
SlotDone(in, lf, t, a, b) ==
    LET k == in[a].child[b]
        m == in[New(t, a)].child[b]
    IN  IF k = Null THEN m = Null
        ELSE m = New(t, k) /\ m \in DOMAIN in \cup DOMAIN lf /\ Par(in, lf, m) = New(t, a)

LEMMA SlotsDone ==
    ASSUME NEW in, NEW lf, NEW st, NEW r, NEW t, Finished(in, lf, st, r, t)
    PROVE  /\ New(t, r) \in DOMAIN in \cup DOMAIN lf
           /\ \A a \in OwnIn(in, lf, r.tree), b \in Byte :
                 a \in DOMAIN in /\ New(t, a) \in DOMAIN in => SlotDone(in, lf, t, a, b)
<1>1. PICK O : O = OwnIn(in, lf, r.tree)
  OBVIOUS
<1>2. /\ WellHeap(in, lf) /\ Source(in, lf, r, t)
      /\ StackIn(in, lf, st, r, t) /\ CopyIn(in, lf, st, r, t)
      /\ Len(st) = 1 /\ st[1].todo = {}
  BY DEF Finished
<1>3. DOMAIN st = {1}
  <2>1. PICK X : X = [src : O, todo : SUBSET Byte]
    OBVIOUS
  <2>2. st \in Seq(X)
    BY <1>1, <1>2, <2>1 DEF StackIn
  <2> QED
    BY <1>2, <2>2
<1>4. st[1].src = r /\ New(t, r) \in DOMAIN in \cup DOMAIN lf
  BY <1>2, <1>3 DEF StackIn
<1>5. \A x, c : ~ ToDo(st, x, c)
  BY <1>2, <1>3 DEF ToDo
<1>6. \A x : OnStack(st, x) => x = r
  BY <1>3, <1>4 DEF OnStack
<1>7. ASSUME NEW a \in O, NEW b \in Byte, a \in DOMAIN in, New(t, a) \in DOMAIN in
      PROVE  SlotDone(in, lf, t, a, b)
  <2>1. SlotCopied(in, lf, st, t, a, b)
    BY <1>1, <1>2, <1>7 DEF CopyIn
  <2>2. PICK k : k = in[a].child[b]
    OBVIOUS
  <2>3. k # Null => k # r
    BY <1>1, <1>2, <1>7, <2>2 DEF Source
  <2> QED
    BY <1>5, <1>6, <2>1, <2>2, <2>3 DEF SlotCopied, SlotDone
<1> QED
  BY <1>1, <1>4, <1>7

LEMMA AllCopied ==
    ASSUME NEW in, NEW lf, NEW st, NEW r, NEW t, Finished(in, lf, st, r, t)
    PROVE  \A a \in OwnIn(in, lf, r.tree) :
              /\ New(t, a) \in DOMAIN in <=> a \in DOMAIN in
              /\ New(t, a) \in DOMAIN lf <=> a \in DOMAIN lf
              /\ New(t, a) \in DOMAIN in \cup DOMAIN lf
<1>1. PICK O, all : O = OwnIn(in, lf, r.tree) /\ all = DOMAIN in \cup DOMAIN lf
  OBVIOUS
<1>2. WellHeap(in, lf) /\ Source(in, lf, r, t) /\ JoinedIn(in, lf, r)
  BY DEF Finished
<1>3. PICK S : S = {Len(a.path) : a \in {x \in O : New(t, x) \notin all}}
  OBVIOUS
<1>4. S \in SUBSET Nat
  BY <1>1, <1>2, <1>3 DEF Source
<1>5. ASSUME S # {}  PROVE FALSE
  <2>1. PICK n : n = Min(S)
    OBVIOUS
  <2>2. n \in S /\ \A x \in S : n <= x
    BY <1>4, <1>5, <2>1, MinOfBytes
  <2>3. PICK a \in O : New(t, a) \notin all /\ n = Len(a.path)
    BY <1>3, <2>2
  <2>4. a # r
    BY <1>1, <2>3, SlotsDone
  <2>5. PICK p : p = Par(in, lf, a)
    OBVIOUS
  <2>6. p \in O /\ p \in DOMAIN in
    BY <1>1, <1>2, <2>4, <2>5 DEF Source
  <2>7. PICK b \in Byte : in[p].child[b] = a
    <3>1. a \in OwnIn(in, lf, r.tree) \ {r}
      BY <1>1, <2>4
    <3>2. \E b \in Byte : in[Par(in, lf, a)].child[b] = a
      BY <1>2, <3>1 DEF JoinedIn
    <3> QED
      BY <2>5, <3>2
  <2>8. a # Null
    BY <1>1, <1>2 DEF Source
  <2>9. Len(p.path) < Len(a.path) /\ Len(p.path) \in Nat /\ Len(a.path) \in Nat
    <3>1. PICK k : k = in[p].child[b]
      OBVIOUS
    <3>2. k # Null
      BY <2>7, <2>8, <3>1
    <3>3. Len(p.path) < Len(k.path)
      BY <1>1, <1>2, <2>6, <3>1, <3>2 DEF Source
    <3>4. Len(p.path) \in Nat /\ Len(a.path) \in Nat
      BY <1>1, <1>2, <2>6 DEF Source
    <3> QED
      BY <2>7, <3>1, <3>3, <3>4
  <2>10. New(t, p) \in all
    <3>1. New(t, p) \notin all => Len(p.path) \in S
      BY <1>3, <2>6
    <3> QED
      BY <2>2, <2>3, <2>9, <3>1
  <2>11. New(t, p) \in DOMAIN in
    <3>1. New(t, p) \in DOMAIN lf => p \in DOMAIN lf
      BY <1>1, <1>2, <2>6 DEF Source
    <3>2. p \notin DOMAIN lf
      BY <1>2, <2>6, WellFacts
    <3> QED
      BY <1>1, <2>10, <3>1, <3>2
  <2>12. SlotDone(in, lf, t, p, b)
    BY <1>1, <2>6, <2>11, SlotsDone
  <2> QED
    BY <1>1, <2>3, <2>7, <2>8, <2>12 DEF SlotDone
<1>6. \A a \in O : New(t, a) \in all
  BY <1>3, <1>5
<1>7. ASSUME NEW a \in O
      PROVE  /\ New(t, a) \in DOMAIN in <=> a \in DOMAIN in
             /\ New(t, a) \in DOMAIN lf <=> a \in DOMAIN lf
  <2>1. PICK y : y = New(t, a)
    OBVIOUS
  <2>2. /\ y \in DOMAIN in => a \in DOMAIN in
        /\ y \in DOMAIN lf => a \in DOMAIN lf
        /\ a \in DOMAIN in \/ a \in DOMAIN lf
    BY <1>1, <1>2, <2>1 DEF Source
  <2>3. ~ (a \in DOMAIN in /\ a \in DOMAIN lf)
    BY <1>2, WellFacts
  <2>4. y \in DOMAIN in \/ y \in DOMAIN lf
    BY <1>1, <1>6, <2>1
  <2> QED
    BY <2>1, <2>2, <2>3, <2>4
<1> QED
  BY <1>1, <1>6, <1>7

\* The copy is a tree like the one that was copied.
LEMMA CopyIsTree ==
    ASSUME NEW in, NEW lf, NEW st, NEW r, NEW t, Finished(in, lf, st, r, t)
    PROVE  /\ Hung(in, lf, New(t, r)) /\ New(t, r).tree = t
           /\ Cardinality(OwnIn(in, lf, t) \cap DOMAIN lf) =
                 Cardinality(OwnIn(in, lf, r.tree) \cap DOMAIN lf)
<1>1. PICK O, T : O = OwnIn(in, lf, r.tree) /\ T = OwnIn(in, lf, t)
  OBVIOUS
<1>2. PICK y : y = New(t, r)
  OBVIOUS
<1>3. /\ WellHeap(in, lf) /\ Source(in, lf, r, t) /\ JoinedIn(in, lf, r)
      /\ CopyIn(in, lf, st, r, t)
  BY DEF Finished
<1>4. /\ r \in O /\ y.tree = t
      /\ \A a \in O : New(t, a).tree = t
      /\ \A a, x \in O : New(t, a) = New(t, x) => a = x
  BY <1>1, <1>2, <1>3 DEF Source
<1>5. \A a \in O : /\ New(t, a) \in DOMAIN in <=> a \in DOMAIN in
                   /\ New(t, a) \in DOMAIN lf <=> a \in DOMAIN lf
                   /\ New(t, a) \in DOMAIN in \cup DOMAIN lf
  BY <1>1, AllCopied
<1>6. \A v \in T : \E a \in O : v = New(t, a)
  BY <1>1, <1>3 DEF CopyIn
<1>7. \A a \in O, b \in Byte : a \in DOMAIN in => SlotDone(in, lf, t, a, b)
  BY <1>1, <1>5, SlotsDone
<1>8. ASSUME NEW v \in DOMAIN in, NEW b \in Byte, v.tree = t, in[v].child[b] # Null
      PROVE  Par(in, lf, in[v].child[b]) = v /\ in[v].child[b] # y
  <2>1. v \in T
    BY <1>1, <1>8 DEF OwnIn
  <2>2. PICK a \in O : v = New(t, a)
    BY <1>6, <2>1
  <2>3. a \in DOMAIN in
    BY <1>5, <2>2
  <2>4. PICK k, m : k = in[a].child[b] /\ m = in[v].child[b]
    OBVIOUS
  <2>5. k # Null /\ m = New(t, k) /\ Par(in, lf, m) = v
    BY <1>7, <1>8, <2>2, <2>3, <2>4 DEF SlotDone
  <2>6. k \in O /\ k # r
    BY <1>1, <1>3, <2>3, <2>4, <2>5 DEF Source
  <2>7. m # y
    BY <1>2, <1>4, <2>5, <2>6
  <2> QED
    BY <2>4, <2>5, <2>7
<1>9. ASSUME NEW v \in T \ {y}
      PROVE  /\ Par(in, lf, v) \in DOMAIN in
             /\ \E b \in Byte : in[Par(in, lf, v)].child[b] = v
  <2>1. PICK a \in O : v = New(t, a)
    BY <1>6
  <2>2. a # r
    BY <1>2, <2>1
  <2>3. PICK p : p = Par(in, lf, a)
    OBVIOUS
  <2>4. p \in O /\ p \in DOMAIN in /\ a # Null
    BY <1>1, <1>3, <2>2, <2>3 DEF Source
  <2>5. PICK b \in Byte : in[p].child[b] = a
    <3>1. a \in OwnIn(in, lf, r.tree) \ {r}
      BY <1>1, <2>2
    <3>2. \E b \in Byte : in[Par(in, lf, a)].child[b] = a
      BY <1>3, <3>1 DEF JoinedIn
    <3> QED
      BY <2>3, <3>2
  <2>6. PICK q : q = New(t, p)
    OBVIOUS
  <2>7. q \in DOMAIN in
    BY <1>5, <2>4, <2>6
  <2>8. SlotDone(in, lf, t, p, b)
    BY <1>7, <2>4
  <2>9. in[q].child[b] = v /\ Par(in, lf, v) = q
    BY <2>1, <2>4, <2>5, <2>6, <2>8 DEF SlotDone
  <2> QED
    BY <2>7, <2>9
<1>10. Hung(in, lf, y)
  <2>1. y \in DOMAIN in \cup DOMAIN lf
    BY <1>2, <1>4, <1>5
  <2> QED
    BY <1>1, <1>4, <1>8, <1>9, <2>1 DEF Hung
<1>11. Cardinality(T \cap DOMAIN lf) = Cardinality(O \cap DOMAIN lf)
  <2>1. PICK L, K : L = O \cap DOMAIN lf /\ K = T \cap DOMAIN lf
    OBVIOUS
  <2>2. PICK f : f = [a \in L |-> New(t, a)]
    OBVIOUS
  <2>3. \A a \in L : New(t, a) \in K
    <3> SUFFICES ASSUME NEW a \in L  PROVE New(t, a) \in K
      OBVIOUS
    <3>1. a \in O /\ a \in DOMAIN lf
      BY <2>1
    <3>2. New(t, a) \in DOMAIN lf /\ New(t, a).tree = t
      BY <1>4, <1>5, <3>1
    <3> QED
      BY <1>1, <2>1, <3>2 DEF OwnIn
  <2>4. f \in [L -> K]
    BY <2>2, <2>3
  <2>5. \A a, x \in L : f[a] = f[x] => a = x
    BY <1>4, <2>1, <2>2
  <2>6. \A v \in K : \E a \in L : f[a] = v
    <3> SUFFICES ASSUME NEW v \in K  PROVE \E a \in L : f[a] = v
      OBVIOUS
    <3>1. v \in T /\ v \in DOMAIN lf
      BY <2>1
    <3>2. PICK a \in O : v = New(t, a)
      BY <1>6, <3>1
    <3>3. a \in DOMAIN lf
      BY <1>5, <3>1, <3>2
    <3> QED
      BY <2>1, <2>2, <3>2, <3>3
  <2>7. f \in Bijection(L, K)
    BY <2>4, <2>5, <2>6 DEF Bijection, Injection, Surjection, IsInjective
  <2>8. ExistsBijection(L, K)
    BY <2>7 DEF ExistsBijection
  <2>9. IsFiniteSet(L)
    BY <1>1, <1>3, <2>1, LeavesAreFew
  <2> QED
    BY <2>1, <2>8, <2>9, FS_Bijection
<1> QED
  BY <1>1, <1>2, <1>4, <1>10, <1>11

\* Container c takes tree t, the copy of the tree of x.
Ended(c, x, t) ==
    /\ ~ Idle /\ job' = [op |-> "none"] /\ job.tree = t
    /\ x \in alive /\ c # x /\ alive' = alive \cup {c} /\ c \in Containers
    /\ root[c] = Null /\ root'[c] # Null /\ root'[c].tree = t /\ root[x] # Null
    /\ \A y \in alive \ {c} : root'[y] = root[y]
    /\ \A y \in alive : root[y] # Null => root[y].tree # t
    /\ \A y \in alive \ {c} : dummy'[y] = dummy[y]
    /\ DOMAIN dummyRoot' = DOMAIN dummyRoot \cup {dummy'[c]}
    /\ c \notin alive => dummy'[c] \notin DOMAIN dummyRoot
    /\ c \in alive => dummy'[c] = dummy[c]
    /\ \A u : u # t => Stays(inner, leaf, inner', leaf', u)
    /\ OwnIn(inner', leaf', t) = OwnIn(inner, leaf, t) /\ DOMAIN leaf' = DOMAIN leaf
    /\ \A z \in DOMAIN leaf : leaf'[z].value = leaf[z].value

\* Of each leaf below r there is a copy in t, and there is nothing else.
LeavesCopied(in, lf, r, t) ==
    /\ \A y \in OwnIn(in, lf, t) : \E a \in OwnIn(in, lf, r.tree) : y = New(t, a)
    /\ \A a \in OwnIn(in, lf, r.tree) : New(t, a) \in DOMAIN lf <=> a \in DOMAIN lf
    /\ \A a \in OwnIn(in, lf, r.tree) : New(t, a).path = a.path /\ New(t, a).tree = t

\* The container takes the copy.
LEMMA CopyEndsFits ==
    ASSUME Inv, CopyEnds
    PROVE  /\ Inv' /\ Ended(job.to, job.from, job.tree)
           /\ LeavesCopied(inner, leaf, root[job.from], job.tree)
<1>1. PICK r, t, st : r = root[job.from] /\ t = job.tree /\ st = job.stack
  OBVIOUS
<1>2. PICK c, x : c = job.to /\ x = job.from
  OBVIOUS
<1>3. ~ Idle /\ Running(r, t, st)
  BY <1>1, WhileRunning DEF CopyEnds
<1>4. /\ c \in Containers /\ x \in alive /\ c # x /\ root[x] = r /\ r # Null /\ root[c] = Null
      /\ (job.op = "assign" <=> c \in alive)
      /\ \A v \in alive : root[v] # Null => root[v].tree # t
  BY <1>1, <1>2, <1>3 DEF Inv, JobFits, Parties
<1>5. JoinedIn(inner, leaf, r)
  BY <1>4, ObjectFacts DEF Inv, Joined
<1>6. OnTop = st[1] /\ Len(st) = 1 /\ st[1].todo = {}
  BY <1>1, <1>3 DEF OnTop, Running, CopyEnds
<1>7. st[1].src = r
  BY <1>3 DEF Running, StackIn
<1>8. Finished(inner, leaf, st, r, t)
  BY <1>3, <1>5, <1>6 DEF Running, Finished
<1>9. PICK y : y = New(t, r)
  OBVIOUS
<1>10. /\ Hung(inner, leaf, y) /\ y.tree = t
       /\ Cardinality(OwnIn(inner, leaf, t) \cap DOMAIN leaf) =
             Cardinality(OwnIn(inner, leaf, r.tree) \cap DOMAIN leaf)
  BY <1>8, <1>9, CopyIsTree
<1>11. /\ y \in Addr /\ y # Null
  BY <1>3, <1>9 DEF Running, Source
<1>12. PICK d \in IF job.op = "assign" THEN {dummy[c]} ELSE {DummyAt(e) : e \in FreshDummy} :
           /\ root' = [root EXCEPT ![c] = y]
           /\ size' = [size EXCEPT ![c] = size[x]]
           /\ dummy' = [dummy EXCEPT ![c] = d]
           /\ inner' = Hang(inner, y, d) /\ leaf' = Hang(leaf, y, d)
           /\ dummyRoot' = With(dummyRoot, [z \in {d} |-> y])
           /\ alive' = alive \cup {c}
  <2>1. New(job.tree, OnTop.src) = y
    BY <1>1, <1>6, <1>7, <1>9
  <2> QED
    BY <1>2, <2>1 DEF CopyEnds
<1>13. /\ root \in [Containers -> Ptr] /\ size \in [Containers -> Nat]
       /\ dummy \in [Containers -> DummyAddr \cup {Null}] /\ alive \subseteq Containers
       /\ \A v \in alive : dummy[v] \in DummyAddr /\ dummy[v] \in DOMAIN dummyRoot
  BY DEF Inv, Objects, ObjectTypes
<1>14. d \in DummyAddr /\ \A v \in alive \ {c} : dummy[v] # d
  <2>1. CASE c \in alive
    <3>1. d = dummy[c]
      BY <1>4, <1>12, <2>1
    <3> QED
      BY <1>13, <2>1, <3>1 DEF Inv, Objects, Apart
  <2>2. CASE c \notin alive
    <3>1. d \in {DummyAt(e) : e \in FreshDummy}
      BY <1>4, <1>12, <2>2
    <3>2. PICK e \in FreshDummy : d = DummyAt(e)
      BY <3>1
    <3>3. d \in DummyAddr /\ d \notin DOMAIN dummyRoot
      BY <3>2 DEF FreshDummy, Lowest, DummyAddr, DummyAt
    <3> QED
      BY <1>13, <3>3
  <2> QED
    BY <2>1, <2>2
<1>15. /\ WellHeap(inner', leaf')
       /\ JoinedIn(inner', leaf', y) /\ Par(inner', leaf', y) = d
       /\ OwnIn(inner', leaf', t) = OwnIn(inner, leaf, t)
       /\ DOMAIN leaf' = DOMAIN leaf
       /\ \A u : u # t => Stays(inner, leaf, inner', leaf', u)
  <2>1. PICK in2, lf2 : in2 = Hang(inner, y, d) /\ lf2 = Hang(leaf, y, d)
    OBVIOUS
  <2>2. /\ WellHeap(in2, lf2)
        /\ JoinedIn(in2, lf2, y) /\ Par(in2, lf2, y) = d
        /\ OwnIn(in2, lf2, y.tree) = OwnIn(inner, leaf, y.tree)
        /\ DOMAIN lf2 = DOMAIN leaf
        /\ \A u : u # y.tree => Stays(inner, leaf, in2, lf2, u)
    BY <1>10, <1>14, <2>1, Rehung DEF Inv, Heap
  <2>3. in2 = inner' /\ lf2 = leaf'
    BY <1>12, <2>1
  <2> QED
    BY <1>10, <2>2, <2>3
<1>16. /\ \A v \in Containers \ {c} : root'[v] = root[v] /\ size'[v] = size[v] /\ dummy'[v] = dummy[v]
       /\ root'[c] = y /\ size'[c] = size[x] /\ dummy'[c] = d
  BY <1>4, <1>12, <1>13
<1>17. /\ d \in DOMAIN dummyRoot' /\ dummyRoot'[d] = y
       /\ \A z \in DOMAIN dummyRoot : z \in DOMAIN dummyRoot' /\ (z # d => dummyRoot'[z] = dummyRoot[z])
  <2>1. PICK f : f = With(dummyRoot, [z \in {d} |-> y])
    OBVIOUS
  <2>2. /\ d \in DOMAIN f /\ f[d] = y
        /\ \A z \in DOMAIN dummyRoot : z \in DOMAIN f /\ (z # d => f[z] = dummyRoot[z])
    BY <2>1 DEF With
  <2> QED
    BY <1>12, <2>1, <2>2
<1>18. size[x] \in Nat /\ size[x] = Cardinality(OwnIn(inner, leaf, r.tree) \cap DOMAIN leaf)
  <2>1. HoldsIn(inner, leaf, dummyRoot, root[x], size[x], dummy[x])
    BY <1>4 DEF Inv, Objects, Holds
  <2> QED
    BY <1>4, <1>13, <2>1 DEF HoldsIn
<1>19. ObjectTypes'
  <2>1. root' \in [Containers -> Ptr]
    BY <1>11, <1>12, <1>13 DEF Ptr
  <2>2. size' \in [Containers -> Nat] /\ dummy' \in [Containers -> DummyAddr \cup {Null}]
    BY <1>12, <1>13, <1>14, <1>18
  <2>3. \A v \in Containers \ alive' : root'[v] = Null /\ size'[v] = 0 /\ dummy'[v] = Null
    BY <1>12, <1>16 DEF Inv, Objects, ObjectTypes
  <2>4. \A v \in alive' : dummy'[v] \in DummyAddr /\ dummy'[v] \in DOMAIN dummyRoot'
    BY <1>12, <1>13, <1>14, <1>16, <1>17
  <2> QED
    BY <1>4, <1>12, <1>13, <2>1, <2>2, <2>3, <2>4 DEF ObjectTypes
<1>20. Apart'
  <2>1. ASSUME NEW v \in alive', NEW w \in alive', v # w  PROVE dummy'[v] # dummy'[w]
    <3>1. v # c => v \in alive /\ dummy'[v] = dummy[v]
      BY <1>12, <1>13, <1>16
    <3>2. w # c => w \in alive /\ dummy'[w] = dummy[w]
      BY <1>12, <1>13, <1>16
    <3> QED
      BY <1>14, <1>16, <2>1, <3>1, <3>2 DEF Inv, Objects, Apart
  <2>2. ASSUME NEW v \in alive', NEW w \in alive', v # w, root'[v] # Null, root'[w] # Null
        PROVE  root'[v].tree # root'[w].tree
    <3>1. v # c => v \in alive /\ root'[v] = root[v]
      BY <1>12, <1>13, <1>16
    <3>2. w # c => w \in alive /\ root'[w] = root[w]
      BY <1>12, <1>13, <1>16
    <3> QED
      BY <1>4, <1>10, <1>16, <2>2, <3>1, <3>2 DEF Inv, Objects, Apart
  <2> QED
    BY <2>1, <2>2 DEF Apart
<1>21. ASSUME NEW v \in alive'  PROVE Holds(v)'
  <2>1. CASE v = c
    <3>1. HoldsIn(inner', leaf', dummyRoot', y, size[x], d)
      BY <1>10, <1>11, <1>15, <1>17, <1>18 DEF HoldsIn
    <3> QED
      BY <1>16, <2>1, <3>1 DEF Holds
  <2>2. CASE v # c
    <3>1. v \in alive /\ v \in Containers /\ dummy[v] \in DOMAIN dummyRoot /\ dummy[v] # d
      BY <1>12, <1>13, <1>14, <2>2
    <3>2. Kept(v) /\ Holds(v)
      BY <1>4, <1>15, <1>16, <1>17, <2>2, <3>1 DEF Kept, Inv, Objects
    <3> QED
      BY <3>2, KeptHolds DEF Inv
  <2> QED
    BY <2>1, <2>2
<1>22. Objects' /\ Heap'
  BY <1>15, <1>19, <1>20, <1>21 DEF Objects, Heap
<1>23. JobFits'
  BY DEF CopyEnds, JobFits, Idle
<1>24. LeavesCopied(inner, leaf, r, t)
  <2>1. \A y1 \in OwnIn(inner, leaf, t) : \E a \in OwnIn(inner, leaf, r.tree) : y1 = New(t, a)
    BY <1>3 DEF Running, CopyIn
  <2>2. \A a \in OwnIn(inner, leaf, r.tree) : New(t, a) \in DOMAIN leaf <=> a \in DOMAIN leaf
    BY <1>8, AllCopied
  <2> QED
    BY <2>1, <2>2 DEF LeavesCopied, New, NodeAt
<1>25. \A z \in DOMAIN leaf : leaf'[z].value = leaf[z].value
  <2> SUFFICES ASSUME NEW z \in DOMAIN leaf  PROVE leaf'[z].value = leaf[z].value
    OBVIOUS
  <2>1. leaf[z] = [parent |-> leaf[z].parent, value |-> leaf[z].value]
    BY WellFacts DEF Inv, Heap
  <2>2. leaf'[z] = IF z = y THEN [leaf[z] EXCEPT !.parent = d] ELSE leaf[z]
    BY <1>12 DEF Hang
  <2> QED
    BY <2>1, <2>2
<1>26. DOMAIN dummyRoot' = DOMAIN dummyRoot \cup {d}
  BY <1>12 DEF With
<1>27. c \notin alive => d \notin DOMAIN dummyRoot
  <2> SUFFICES ASSUME c \notin alive  PROVE d \notin DOMAIN dummyRoot
    OBVIOUS
  <2>1. d \in {DummyAt(e) : e \in FreshDummy}
    BY <1>4, <1>12
  <2>2. PICK e \in FreshDummy : d = DummyAt(e)
    BY <2>1
  <2> QED
    BY <2>2 DEF FreshDummy, Lowest
<1>28. c \in alive => d = dummy[c]
  BY <1>4, <1>12
<1>29. Ended(c, x, t)
  <2>1. job' = [op |-> "none"] /\ job.tree = t
    BY <1>1 DEF CopyEnds
  <2>2. \A v \in alive \ {c} : root'[v] = root[v] /\ dummy'[v] = dummy[v]
    BY <1>13, <1>16
  <2>3. root'[c] # Null /\ root'[c].tree = t /\ alive' = alive \cup {c}
    BY <1>10, <1>11, <1>12, <1>16
  <2> QED
    BY <1>3, <1>4, <1>15, <1>16, <1>25, <1>26, <1>27, <1>28, <2>1, <2>2, <2>3 DEF Ended
<1> QED
  BY <1>1, <1>2, <1>22, <1>23, <1>24, <1>29 DEF Inv

-----------------------------------------------------------------------------
(* The theorems.                                                           *)

LEMMA InitInv == Init => Inv
<1> SUFFICES ASSUME Init  PROVE Inv
  OBVIOUS
<1>1. Heap
  <2>1. DOMAIN inner = {} /\ DOMAIN leaf = {}
    BY DEF Init
  <2>2. inner = [a \in DOMAIN inner |-> inner[a]] /\ leaf = [a \in DOMAIN leaf |-> leaf[a]]
    BY DEF Init
  <2>3. /\ inner \in [DOMAIN inner -> [parent : Ptr, child : [Byte -> (DOMAIN inner \cup DOMAIN leaf) \cup {Null}]]]
        /\ leaf \in [DOMAIN leaf -> [parent : Ptr, value : Values]]
    BY <2>1, <2>2
  <2> QED
    BY <2>1, <2>3 DEF Heap, WellHeap
<1>2. Objects
  <2>1. Null \in Ptr
    BY DEF Ptr
  <2> QED
    BY <2>1 DEF Init, Objects, ObjectTypes, Apart
<1>3. JobFits
  BY DEF Init, JobFits, Idle
<1> QED
  BY <1>1, <1>2, <1>3 DEF Inv

LEMMA NextInv == Inv /\ [Next]_vars => Inv'
<1> SUFFICES ASSUME Inv, [Next]_vars  PROVE Inv'
  OBVIOUS
<1>1. CASE UNCHANGED vars
  <2>1. /\ alive' = alive /\ root' = root /\ size' = size /\ dummy' = dummy /\ inner' = inner
        /\ leaf' = leaf /\ dummyRoot' = dummyRoot /\ job' = job
    BY <1>1 DEF vars
  <2>2. Heap' /\ JobFits'
    BY <2>1 DEF Inv, Heap, JobFits, Idle, Parties
  <2>3. Objects'
    BY <2>1, StaysSame, KeptFits DEF Inv
  <2> QED
    BY <2>2, <2>3 DEF Inv
<1>2. ASSUME NEW c \in Containers, Construct(c)  PROVE Inv'
  BY <1>2, ConstructFits
<1>3. ASSUME NEW c \in Containers, Clear(c)  PROVE Inv'
  BY <1>3, ClearFits
<1>4. ASSUME NEW c \in Containers, Destroy(c)  PROVE Inv'
  BY <1>4, DestroyFits
<1>5. ASSUME NEW c \in Containers, NEW R \in Ranges, InsertRange(c, R)  PROVE Inv'
  BY <1>5, InsertFits
<1>6. ASSUME NEW c \in Containers, NEW x \in Containers, MoveEmpty(c, x) \/ CopyEmpty(c, x)
      PROVE  Inv'
  BY <1>6, ConstructFits
<1>7. ASSUME NEW c \in Containers, NEW x \in Containers, MoveConstruct(c, x) \/ MoveAssign(c, x)
      PROVE  Inv'
  BY <1>7, MoveFits
<1>8. ASSUME NEW c \in Containers, NEW x \in Containers, Swap(c, x)  PROVE Inv'
  BY <1>8, SwapFits
<1>9. ASSUME NEW c \in Containers, NEW x \in Containers, AssignEmpty(c, x)  PROVE Inv'
  BY <1>9, AssignEmptyFits
<1>10. ASSUME NEW c \in Containers, NEW x \in Containers, CopyConstruct(c, x) \/ CopyAssign(c, x)
       PROVE  Inv'
  BY <1>10, StartFits
<1>11. ASSUME NEW c \in Containers, NEW x \in Containers, AssignThrows(c, x)  PROVE Inv'
  BY <1>11, ClearFits
<1>12. CASE CopyChildLeaf
  BY <1>12, CopyChildLeafFits
<1>13. CASE CopyChildInner
  BY <1>13, CopyChildInnerFits
<1>14. CASE ChildCopied
  BY <1>14, ChildCopiedFits
<1>15. CASE CopyEnds
  BY <1>15, CopyEndsFits
<1>16. CASE CopyThrows
  BY <1>16, CopyThrowsFits
<1> QED
  BY <1>1, <1>2, <1>3, <1>4, <1>5, <1>6, <1>7, <1>8, <1>9, <1>10, <1>11, <1>12, <1>13, <1>14,
     <1>15, <1>16 DEF Next

\* The inductive invariant of the heap: whatever was copied, moved, swapped or
\* destroyed before, and wherever a copy has come to, each tree in the heap is
\* connected as its container expects it, what leaked included.
THEOREM HeapInvariant == Spec => []Inv
<1>1. Init => Inv
  BY InitInv
<1>2. Inv /\ [Next]_vars => Inv'
  BY NextInv
<1> QED
  BY <1>1, <1>2, PTL DEF Spec

LEMMA InvTypeOK == Inv => TypeOK
<1> SUFFICES ASSUME Inv  PROVE TypeOK
  OBVIOUS
<1>1. Heap /\ Objects /\ WellHeap(inner, leaf)
  BY DEF Inv, Heap
<1>2. \A c \in alive : dummy[c] # Null
  BY <1>1, ObjectFacts DEF DummyAddr, Null
<1>3. \A c \in Containers \ alive : root[c] = Null /\ size[c] = 0 /\ dummy[c] = Null
  BY <1>1 DEF Objects, ObjectTypes
<1>4. Cardinality(Keys) \in Nat
  BY FS_CardinalityType, ShapeAssumption
<1>5. ASSUME NEW c \in alive  PROVE size[c] \in 0..Cardinality(Keys)
  <2>1. CASE root[c] = Null
    <3>1. size[c] = 0
      BY <1>1, <2>1, ObjectFacts
    <3> QED
      BY <1>4, <3>1
  <2>2. CASE root[c] # Null
    <3>1. PICK L : L = OwnIn(inner, leaf, root[c].tree) \cap DOMAIN leaf
      OBVIOUS
    <3>2. HoldsIn(inner, leaf, dummyRoot, root[c], size[c], dummy[c])
      BY <1>1 DEF Objects, Holds
    <3>3. size[c] = Cardinality(L)
      BY <2>2, <3>1, <3>2 DEF HoldsIn
    <3>4. IsFiniteSet(L) /\ Cardinality(L) <= Cardinality(Keys)
      BY <1>1, <3>1, LeavesAreFew
    <3>5. Cardinality(L) \in Nat
      BY <3>4, FS_CardinalityType
    <3> QED
      BY <1>4, <3>3, <3>4, <3>5
  <2> QED
    BY <2>1, <2>2
<1>6. ASSUME NEW c \in Containers
      PROVE  /\ root[c] \in Nodes \cup {Null}
             /\ size[c] \in 0..Cardinality(Keys)
             /\ dummy[c] # Null <=> c \in alive
  <2>1. CASE c \in alive
    BY <1>1, <1>2, <1>5, <2>1, ObjectFacts
  <2>2. CASE c \notin alive
    BY <1>3, <1>4, <2>2
  <2> QED
    BY <2>1, <2>2
<1>7. /\ alive \subseteq Containers
      /\ \A c \in alive : dummy[c] \in DOMAIN dummyRoot
  BY <1>1 DEF Objects, ObjectTypes
<1>8. ASSUME NEW a \in DOMAIN inner
      PROVE  a.kind = "inner" /\ inner[a].child \in [Byte -> Nodes \cup {Null}]
  <2>1. a.kind = "inner"
    BY <1>1, WellFacts DEF Addr
  <2>2. inner[a].child \in [Byte -> DOMAIN inner \cup DOMAIN leaf \cup {Null}]
    BY <1>1, WellFacts
  <2> QED
    BY <2>1, <2>2 DEF Nodes
<1>9. \A a \in DOMAIN leaf : a.kind = "leaf" /\ leaf[a].value \in Values
  BY <1>1, WellFacts
<1> QED
  BY <1>6, <1>7, <1>8, <1>9 DEF TypeOK

LEMMA InvOwnTrees == Inv => OwnTrees
<1> SUFFICES ASSUME Inv  PROVE OwnTrees
  OBVIOUS
<1>1. Heap /\ Objects /\ WellHeap(inner, leaf)
  BY DEF Inv, Heap
<1>2. \A a : ParentOf(a) = Par(inner, leaf, a)
  BY DEF ParentOf, Par
<1>3. ASSUME NEW c \in alive, NEW x \in alive, c # x
      PROVE  Tree(c) \cap Tree(x) = {} /\ dummy[c] # dummy[x]
  <2>1. dummy[c] # dummy[x] /\ c \in Containers /\ x \in Containers
    BY <1>1, <1>3, ObjectFacts
  <2>2. CASE root[c] = Null \/ root[x] = Null
    BY <1>1, <2>1, <2>2, ObjectFacts
  <2>3. CASE root[c] # Null /\ root[x] # Null
    <3>1. Tree(c) = Own(root[c].tree) /\ Tree(x) = Own(root[x].tree)
      BY <1>1, <2>3, ObjectFacts
    <3>2. root[c].tree # root[x].tree
      BY <1>1, <1>3, <2>3, ObjectFacts
    <3> QED
      BY <2>1, <3>1, <3>2 DEF Own, OwnIn
  <2> QED
    BY <2>2, <2>3
<1>4. ASSUME NEW c \in alive
      PROVE  /\ Tree(c) \subseteq Nodes
             /\ size[c] = Cardinality(Tree(c) \cap DOMAIN leaf)
             /\ root[c] # Null => ParentOf(root[c]) = dummy[c] /\ dummyRoot[dummy[c]] = root[c]
             /\ \A a \in Tree(c) \cap DOMAIN inner, b \in Byte :
                   inner[a].child[b] # Null => ParentOf(inner[a].child[b]) = a
  <2>1. HoldsIn(inner, leaf, dummyRoot, root[c], size[c], dummy[c]) /\ c \in Containers
    BY <1>1, ObjectFacts DEF Objects, Holds
  <2>2. CASE root[c] = Null
    <3>1. Tree(c) = {} /\ size[c] = 0
      BY <1>1, <2>1, <2>2, ObjectFacts
    <3>2. Cardinality({}) = 0 /\ Tree(c) \cap DOMAIN leaf = {}
      BY <3>1, FS_EmptySet
    <3> QED
      BY <2>2, <3>1, <3>2
  <2>3. CASE root[c] # Null
    <3>1. Tree(c) = OwnIn(inner, leaf, root[c].tree)
      BY <1>1, <2>3, ObjectFacts DEF Own
    <3>2. /\ JoinedIn(inner, leaf, root[c]) /\ Par(inner, leaf, root[c]) = dummy[c]
          /\ dummyRoot[dummy[c]] = root[c]
          /\ size[c] = Cardinality(OwnIn(inner, leaf, root[c].tree) \cap DOMAIN leaf)
      BY <2>1, <2>3 DEF HoldsIn
    <3>3. Tree(c) \subseteq Nodes
      BY <3>1 DEF OwnIn, Nodes
    <3>4. ASSUME NEW a \in Tree(c), a \in DOMAIN inner, NEW b \in Byte, inner[a].child[b] # Null
          PROVE  ParentOf(inner[a].child[b]) = a
      <4>1. a.tree = root[c].tree
        BY <3>1, <3>4 DEF OwnIn
      <4>2. Par(inner, leaf, inner[a].child[b]) = a
        BY <3>2, <3>4, <4>1 DEF JoinedIn
      <4> QED
        BY <1>2, <4>2
    <3>5. \A a \in Tree(c) \cap DOMAIN inner, b \in Byte :
             inner[a].child[b] # Null => ParentOf(inner[a].child[b]) = a
      BY <3>4
    <3>6. size[c] = Cardinality(Tree(c) \cap DOMAIN leaf)
      BY <3>1, <3>2
    <3> QED
      BY <1>2, <3>2, <3>3, <3>5, <3>6
  <2> QED
    BY <2>2, <2>3
<1> QED
  BY <1>3, <1>4 DEF OwnTrees

\* The root of a container and every pointer to a child is null or leads to a
\* live node, and a container counts at most as many elements as there are
\* keys.
THEOREM TypesHold == Spec => []TypeOK
<1>1. Inv => TypeOK
  BY InvTypeOK
<1>2. Spec => []Inv
  BY HeapInvariant
<1> QED
  BY <1>1, <1>2, PTL

\* The tree of a container consists of live nodes that no other container has,
\* it hangs together, and the count that was carried along by copies, moves
\* and swaps is the number of its leaves.
THEOREM TreesAreOwn == Spec => []OwnTrees
<1>1. Inv => OwnTrees
  BY InvOwnTrees
<1>2. Spec => []Inv
  BY HeapInvariant
<1> QED
  BY <1>1, <1>2, PTL

-----------------------------------------------------------------------------
(* What leaks.                                                             *)

\* Tree u belongs to a container, or is the copy that is being made.
Used(u) ==
    \/ \E c \in alive : root[c] # Null /\ root[c].tree = u
    \/ ~ Idle /\ u = job.tree

LooseNodes == {a \in Nodes : ~ Used(a.tree)}

LooseDummies == DOMAIN dummyRoot \ {dummy[c] : c \in alive}

LeakSplit == Leaked = LooseNodes \cup LooseDummies

LEMMA LeakedIs == Inv => Leaked = LooseNodes \cup LooseDummies
<1> SUFFICES ASSUME Inv  PROVE Leaked = LooseNodes \cup LooseDummies
  OBVIOUS
<1>1. ASSUME NEW a \in Nodes
      PROVE  (\E c \in alive : a \in Tree(c)) <=> \E c \in alive : root[c] # Null /\ root[c].tree = a.tree
  <2>1. ASSUME NEW c \in alive  PROVE a \in Tree(c) <=> root[c] # Null /\ root[c].tree = a.tree
    <3>1. CASE root[c] = Null
      BY <3>1, ObjectFacts DEF Inv
    <3>2. CASE root[c] # Null
      <4>1. Tree(c) = Own(root[c].tree)
        BY <3>2, ObjectFacts DEF Inv
      <4> QED
        BY <3>2, <4>1 DEF Own, OwnIn, Nodes
    <3> QED
      BY <3>1, <3>2
  <2> QED
    BY <2>1
<1>2. PICK U : U = UNION {Tree(c) : c \in alive}
  OBVIOUS
<1>3. \A a : a \in U <=> \E c \in alive : a \in Tree(c)
  BY <1>2
<1>4. Leaked = (Nodes \ (U \cup {a \in Nodes : ~Idle /\ a.tree = job.tree})) \cup LooseDummies
  BY <1>2 DEF Leaked, LooseDummies
<1>5. \A a \in Nodes : Used(a.tree) <=> a \in U \/ (~Idle /\ a.tree = job.tree)
  BY <1>1, <1>3 DEF Used
<1> QED
  BY <1>4, <1>5 DEF LooseNodes

LEMMA SplitNext == Inv' => LeakSplit'
<1>1. Inv => LeakSplit
  BY LeakedIs DEF LeakSplit
<1> QED
  BY <1>1, PTL

\* A step by which no node gets lost or is found again.  The trees in T, which
\* may change, belong to someone as long as they have nodes.
Tracked(T) ==
    /\ \A u : u \notin T => /\ OwnIn(inner', leaf', u) = OwnIn(inner, leaf, u)
                            /\ Used(u)' <=> Used(u)
    /\ \A u \in T : /\ OwnIn(inner, leaf, u) # {} => Used(u)
                    /\ OwnIn(inner', leaf', u) # {} => Used(u)'

LEMMA TrackedLoose ==
    ASSUME NEW T, Tracked(T)
    PROVE  LooseNodes' = LooseNodes
<1>1. ASSUME NEW a  PROVE a \in LooseNodes' <=> a \in LooseNodes
  <2>1. /\ a \in Nodes <=> a \in OwnIn(inner, leaf, a.tree)
        /\ a \in Nodes' <=> a \in OwnIn(inner', leaf', a.tree)
    BY DEF OwnIn, Nodes
  <2>2. CASE a.tree \in T
    BY <2>1, <2>2 DEF Tracked, LooseNodes
  <2>3. CASE a.tree \notin T
    BY <2>1, <2>3 DEF Tracked, LooseNodes
  <2> QED
    BY <2>2, <2>3
<1> QED
  BY <1>1

LEMMA SplitBoth ==
    ASSUME Inv, Inv'
    PROVE  Leaked = LooseNodes \cup LooseDummies /\ Leaked' = LooseNodes' \cup LooseDummies'
<1>1. LeakSplit'
  BY SplitNext
<1> QED
  BY <1>1, LeakedIs DEF LeakSplit

LEMMA TrackKept ==
    ASSUME Inv, Inv', NEW T, Tracked(T), LooseDummies' = LooseDummies
    PROVE  OnlyThereLost
  BY TrackedLoose, SplitBoth DEF OnlyThereLost

LEMMA EmptiedOwn ==
    ASSUME Heap, Objects, NEW c \in Containers, NEW in, NEW lf,
           in = Without(inner, Tree(c)), lf = Without(leaf, Tree(c))
    PROVE  /\ \A u : u \notin TreesOf(c) => OwnIn(in, lf, u) = OwnIn(inner, leaf, u)
           /\ \A u \in TreesOf(c) : OwnIn(in, lf, u) = {} /\ Used(u)
<1>1. DOMAIN in = DOMAIN inner \ Tree(c) /\ DOMAIN lf = DOMAIN leaf \ Tree(c)
  BY DEF Without
<1>2. \A u : OwnIn(in, lf, u) = OwnIn(inner, leaf, u) \ Tree(c)
  BY <1>1 DEF OwnIn
<1>3. CASE root[c] = Null
  <2>1. Tree(c) = {} /\ TreesOf(c) = {}
    BY <1>3, ObjectFacts DEF TreesOf
  <2> QED
    BY <1>2, <2>1
<1>4. CASE root[c] # Null
  <2>1. c \in alive /\ TreesOf(c) = {root[c].tree}
    BY <1>4, ObjectFacts DEF TreesOf
  <2>2. Tree(c) = OwnIn(inner, leaf, root[c].tree)
    BY <1>4, <2>1, ObjectFacts DEF Own
  <2>3. \A u : u # root[c].tree => OwnIn(inner, leaf, u) \cap Tree(c) = {}
    BY <2>2 DEF OwnIn
  <2>4. Used(root[c].tree)
    BY <1>4, <2>1 DEF Used
  <2> QED
    BY <1>2, <2>1, <2>2, <2>3, <2>4
<1> QED
  BY <1>3, <1>4

LEMMA ConstructTracked ==
    ASSUME Inv, NEW c \in Containers, NEW x \in Containers,
           Construct(c) \/ MoveEmpty(c, x) \/ CopyEmpty(c, x)
    PROVE  Tracked({}) /\ LooseDummies' = LooseDummies
<1>1. /\ Idle /\ c \notin alive /\ alive' = alive \cup {c}
      /\ inner' = inner /\ leaf' = leaf /\ job' = job
      /\ \E d \in FreshDummy : InitContainer(c, d)
  BY DEF Construct, MoveEmpty, CopyEmpty
<1>2. PICK d \in FreshDummy : InitContainer(c, d)
  BY <1>1
<1>3. /\ root' = [root EXCEPT ![c] = Null] /\ dummy' = [dummy EXCEPT ![c] = DummyAt(d)]
      /\ dummyRoot' = With(dummyRoot, [y \in {DummyAt(d)} |-> Null])
  BY <1>2 DEF InitContainer
<1>4. /\ root \in [Containers -> Ptr] /\ dummy \in [Containers -> DummyAddr \cup {Null}]
      /\ alive \subseteq Containers
  BY DEF Inv, Objects, ObjectTypes
<1>5. /\ root'[c] = Null /\ dummy'[c] = DummyAt(d)
      /\ \A y \in alive : root'[y] = root[y] /\ dummy'[y] = dummy[y]
  BY <1>1, <1>3, <1>4
<1>6. \A u : Used(u)' <=> Used(u)
  BY <1>1, <1>5 DEF Used, Idle
<1>7. DOMAIN dummyRoot' = DOMAIN dummyRoot \cup {DummyAt(d)} /\ DummyAt(d) \notin DOMAIN dummyRoot
  BY <1>3 DEF With, FreshDummy, Lowest
<1>8. \A z : (\E y \in alive' : z = dummy'[y]) <=> (\E y \in alive : z = dummy[y]) \/ z = DummyAt(d)
  BY <1>1, <1>5
<1>9. LooseDummies' = LooseDummies
  BY <1>7, <1>8 DEF LooseDummies
<1> QED
  BY <1>1, <1>6, <1>9 DEF Tracked

LEMMA ClearTracked ==
    ASSUME Inv, NEW c \in Containers, NEW x \in Containers, Clear(c) \/ AssignThrows(c, x)
    PROVE  Tracked(TreesOf(c)) /\ LooseDummies' = LooseDummies
<1>1. /\ Idle /\ alive' = alive /\ job' = job /\ dummy' = dummy /\ dummyRoot' = dummyRoot
      /\ Emptied(c)
  BY DEF Clear, AssignThrows
<1>2. /\ inner' = Without(inner, Tree(c)) /\ leaf' = Without(leaf, Tree(c))
      /\ root' = [root EXCEPT ![c] = Null]
  BY <1>1 DEF Emptied
<1>3. /\ \A u : u \notin TreesOf(c) => OwnIn(inner', leaf', u) = OwnIn(inner, leaf, u)
      /\ \A u \in TreesOf(c) : OwnIn(inner', leaf', u) = {} /\ Used(u)
  BY <1>2, EmptiedOwn DEF Inv
<1>4. root \in [Containers -> Ptr] /\ alive \subseteq Containers
  BY DEF Inv, Objects, ObjectTypes
<1>5. root'[c] = Null /\ \A y \in alive \ {c} : root'[y] = root[y]
  BY <1>2, <1>4
<1>6. \A u : u \notin TreesOf(c) => (Used(u)' <=> Used(u))
  BY <1>1, <1>5 DEF Used, Idle, TreesOf
<1>7. LooseDummies' = LooseDummies
  BY <1>1 DEF LooseDummies
<1> QED
  BY <1>3, <1>6, <1>7 DEF Tracked

LEMMA DestroyTracked ==
    ASSUME Inv, NEW c \in Containers, Destroy(c)
    PROVE  Tracked(TreesOf(c)) /\ LooseDummies' = LooseDummies
<1>1. /\ Idle /\ c \in alive /\ alive' = alive \ {c} /\ job' = job
      /\ dummy' = [dummy EXCEPT ![c] = Null] /\ dummyRoot' = Without(dummyRoot, {dummy[c]})
      /\ inner' = Without(inner, Tree(c)) /\ leaf' = Without(leaf, Tree(c))
      /\ root' = [root EXCEPT ![c] = Null]
  BY DEF Destroy, Emptied
<1>2. /\ \A u : u \notin TreesOf(c) => OwnIn(inner', leaf', u) = OwnIn(inner, leaf, u)
      /\ \A u \in TreesOf(c) : OwnIn(inner', leaf', u) = {} /\ Used(u)
  BY <1>1, EmptiedOwn DEF Inv
<1>3. /\ root \in [Containers -> Ptr] /\ dummy \in [Containers -> DummyAddr \cup {Null}]
      /\ alive \subseteq Containers /\ \A y \in alive \ {c} : dummy[y] # dummy[c]
  BY <1>1 DEF Inv, Objects, ObjectTypes, Apart
<1>4. \A y \in alive' : root'[y] = root[y] /\ dummy'[y] = dummy[y]
  BY <1>1, <1>3
<1>5. \A u : u \notin TreesOf(c) => (Used(u)' <=> Used(u))
  BY <1>1, <1>4 DEF Used, Idle, TreesOf
<1>6. DOMAIN dummyRoot' = DOMAIN dummyRoot \ {dummy[c]}
  BY <1>1 DEF Without
<1>7. \A z : (\E y \in alive' : z = dummy'[y]) <=> (\E y \in alive : z = dummy[y]) /\ z # dummy[c]
  BY <1>1, <1>3, <1>4
<1>8. LooseDummies' = LooseDummies
  <2>1. ASSUME NEW z  PROVE z \in LooseDummies' <=> z \in LooseDummies
    <3>1. z \in LooseDummies <=> z \in DOMAIN dummyRoot /\ ~ \E y \in alive : z = dummy[y]
      BY DEF LooseDummies
    <3>2. z \in LooseDummies' <=> z \in DOMAIN dummyRoot' /\ ~ \E y \in alive' : z = dummy'[y]
      BY DEF LooseDummies
    <3>3. \E y \in alive : dummy[c] = dummy[y]
      BY <1>1
    <3> QED
      BY <1>6, <1>7, <3>1, <3>2, <3>3
  <2> QED
    BY <2>1
<1> QED
  BY <1>2, <1>5, <1>8 DEF Tracked

LEMMA SwapTracked ==
    ASSUME Inv, NEW c \in Containers, NEW x \in Containers, Swap(c, x)
    PROVE  Tracked({}) /\ LooseDummies' = LooseDummies
<1>1. /\ Idle /\ c \in alive /\ x \in alive /\ c # x /\ alive' = alive /\ job' = job
      /\ inner' = inner /\ leaf' = leaf /\ dummyRoot' = dummyRoot
      /\ root' = [root EXCEPT ![c] = root[x], ![x] = root[c]]
      /\ dummy' = [dummy EXCEPT ![c] = dummy[x], ![x] = dummy[c]]
  BY DEF Swap
<1>2. /\ root \in [Containers -> Ptr] /\ dummy \in [Containers -> DummyAddr \cup {Null}]
      /\ alive \subseteq Containers
  BY DEF Inv, Objects, ObjectTypes
<1>3. /\ \A y \in Containers \ {c, x} : root'[y] = root[y] /\ dummy'[y] = dummy[y]
      /\ root'[c] = root[x] /\ dummy'[c] = dummy[x]
      /\ root'[x] = root[c] /\ dummy'[x] = dummy[c]
  BY <1>1, <1>2
<1>4. \A z : (\E y \in alive' : z = dummy'[y]) <=> (\E y \in alive : z = dummy[y])
  BY <1>1, <1>2, <1>3
<1>5. ASSUME NEW u  PROVE Used(u)' <=> Used(u)
  <2>1. \A y \in alive : \E z \in alive : root'[y] = root[z]
    BY <1>1, <1>2, <1>3
  <2>2. \A y \in alive : \E z \in alive : root[y] = root'[z]
    BY <1>1, <1>2, <1>3
  <2>3. Used(u) <=> \E y \in alive : root[y] # Null /\ root[y].tree = u
    BY <1>1 DEF Used
  <2>4. Used(u)' <=> \E y \in alive : root'[y] # Null /\ root'[y].tree = u
    BY <1>1 DEF Used, Idle
  <2>5. ASSUME Used(u)  PROVE Used(u)'
    <3>1. PICK y \in alive : root[y] # Null /\ root[y].tree = u
      BY <2>3, <2>5
    <3>2. PICK z \in alive : root[y] = root'[z]
      BY <2>2
    <3> QED
      BY <2>4, <3>1, <3>2
  <2>6. ASSUME Used(u)'  PROVE Used(u)
    <3>1. PICK y \in alive : root'[y] # Null /\ root'[y].tree = u
      BY <2>4, <2>6
    <3>2. PICK z \in alive : root'[y] = root[z]
      BY <2>1
    <3> QED
      BY <2>3, <3>1, <3>2
  <2> QED
    BY <2>5, <2>6
<1>6. LooseDummies' = LooseDummies
  BY <1>1, <1>4 DEF LooseDummies
<1> QED
  BY <1>1, <1>5, <1>6 DEF Tracked

LEMMA MoveTracked ==
    ASSUME Inv, NEW c \in Containers, NEW x \in Containers, MoveConstruct(c, x)
    PROVE  Tracked({}) /\ LooseDummies' = LooseDummies
<1>1. PICK r : r = root[x]
  OBVIOUS
<1>2. /\ Idle /\ c \notin alive /\ x \in alive /\ r # Null
      /\ alive' = alive \cup {c} /\ job' = job
  BY <1>1 DEF MoveConstruct
<1>3. PICK d \in FreshDummy :
         /\ root' = [root EXCEPT ![c] = r, ![x] = Null]
         /\ inner' = Hang(inner, r, DummyAt(d)) /\ leaf' = Hang(leaf, r, DummyAt(d))
         /\ dummyRoot' = With(dummyRoot, [y \in {DummyAt(d)} |-> r])
         /\ dummy' = [dummy EXCEPT ![c] = DummyAt(d)]
  BY <1>1, <1>2 DEF MoveConstruct, Take
<1>4. /\ root \in [Containers -> Ptr] /\ dummy \in [Containers -> DummyAddr \cup {Null}]
      /\ alive \subseteq Containers
  BY DEF Inv, Objects, ObjectTypes
<1>5. /\ root'[c] = r /\ root'[x] = Null /\ dummy'[c] = DummyAt(d)
      /\ \A y \in alive : dummy'[y] = dummy[y] /\ (y # x => root'[y] = root[y])
  BY <1>2, <1>3, <1>4
<1>6. DOMAIN inner' = DOMAIN inner /\ DOMAIN leaf' = DOMAIN leaf
  BY <1>3 DEF Hang
<1>7. \A u : OwnIn(inner', leaf', u) = OwnIn(inner, leaf, u)
  BY <1>6 DEF OwnIn
<1>8. \A u : Used(u)' <=> Used(u)
  BY <1>1, <1>2, <1>5 DEF Used, Idle
<1>9. DOMAIN dummyRoot' = DOMAIN dummyRoot \cup {DummyAt(d)} /\ DummyAt(d) \notin DOMAIN dummyRoot
  BY <1>3 DEF With, FreshDummy, Lowest
<1>10. \A z : (\E y \in alive' : z = dummy'[y]) <=> (\E y \in alive : z = dummy[y]) \/ z = DummyAt(d)
  BY <1>2, <1>5
<1>11. LooseDummies' = LooseDummies
  BY <1>9, <1>10 DEF LooseDummies
<1> QED
  BY <1>7, <1>8, <1>11 DEF Tracked

LEMMA StartTracked ==
    ASSUME Inv, NEW c \in Containers, NEW x \in Containers, NEW t, Started(c, x, t)
    PROVE  Tracked({t} \cup TreesOf(c)) /\ LooseDummies' = LooseDummies
<1>1. /\ Idle /\ ~ Idle' /\ job'.tree = t /\ alive' = alive
      /\ dummy' = dummy /\ dummyRoot' = dummyRoot /\ root' = [root EXCEPT ![c] = Null]
  BY DEF Started, Idle
<1>2. /\ root \in [Containers -> Ptr] /\ alive \subseteq Containers
      /\ c \notin alive => root[c] = Null
  BY DEF Inv, Objects, ObjectTypes
<1>3. root'[c] = Null /\ \A y \in alive \ {c} : root'[y] = root[y]
  BY <1>1, <1>2
<1>4. \A u : u # t /\ u \notin TreesOf(c) => (Used(u)' <=> Used(u))
  BY <1>1, <1>3 DEF Used, TreesOf
<1>5. Used(t)' /\ (t \notin TreesOf(c) => OwnIn(inner, leaf, t) = {})
  BY <1>1 DEF Used, Started
<1>6. \A u \in TreesOf(c) : Used(u) /\ (u # t => OwnIn(inner', leaf', u) = {})
  BY <1>2 DEF Used, TreesOf, Started
<1>7. \A u : u # t /\ u \notin TreesOf(c) => OwnIn(inner', leaf', u) = OwnIn(inner, leaf, u)
  BY DEF Started
<1>8. LooseDummies' = LooseDummies
  BY <1>1 DEF LooseDummies
<1> QED
  BY <1>4, <1>5, <1>6, <1>7, <1>8 DEF Tracked

LEMMA GoingTracked ==
    ASSUME WentOn
    PROVE  Tracked({job.tree}) /\ LooseDummies' = LooseDummies
<1>1. /\ ~ Idle /\ ~ Idle' /\ job'.tree = job.tree /\ alive' = alive /\ root' = root
      /\ dummy' = dummy /\ dummyRoot' = dummyRoot
  BY DEF WentOn, Idle
<1>2. \A u : Used(u)' <=> Used(u)
  BY <1>1 DEF Used
<1>3. Used(job.tree)
  BY <1>1 DEF Used
<1>4. \A u : u # job.tree => OwnIn(inner', leaf', u) = OwnIn(inner, leaf, u)
  BY DEF WentOn, Stays
<1>5. LooseDummies' = LooseDummies
  BY <1>1 DEF LooseDummies
<1> QED
  BY <1>2, <1>3, <1>4, <1>5 DEF Tracked

LEMMA InsertTracked ==
    ASSUME Inv, NEW c \in Containers, NEW R \in Ranges, NEW t, Inserted(c, R, t)
    PROVE  Tracked({t}) /\ LooseDummies' = LooseDummies
<1>1. /\ Idle /\ job' = job /\ alive' = alive /\ dummy' = dummy
      /\ DOMAIN dummyRoot' = DOMAIN dummyRoot
      /\ c \in alive /\ root[c] = Null /\ root'[c] # Null /\ root'[c].tree = t
      /\ \A y \in alive \ {c} : root'[y] = root[y]
  BY DEF Inserted
<1>2. \A u : u # t => (Used(u)' <=> Used(u))
  BY <1>1 DEF Used, Idle
<1>3. Used(t)' /\ OwnIn(inner, leaf, t) = {}
  BY <1>1 DEF Used, Inserted
<1>4. \A u : u # t => OwnIn(inner', leaf', u) = OwnIn(inner, leaf, u)
  BY DEF Inserted, Stays
<1>5. LooseDummies' = LooseDummies
  BY <1>1 DEF LooseDummies
<1> QED
  BY <1>2, <1>3, <1>4, <1>5 DEF Tracked

LEMMA EndTracked ==
    ASSUME Inv, NEW c, NEW x, NEW t, Ended(c, x, t)
    PROVE  Tracked({t}) /\ LooseDummies' = LooseDummies
<1>1. /\ ~ Idle /\ Idle' /\ job.tree = t /\ alive' = alive \cup {c}
      /\ root[c] = Null /\ root'[c] # Null /\ root'[c].tree = t
      /\ \A y \in alive \ {c} : root'[y] = root[y] /\ dummy'[y] = dummy[y]
      /\ DOMAIN dummyRoot' = DOMAIN dummyRoot \cup {dummy'[c]}
      /\ c \notin alive => dummy'[c] \notin DOMAIN dummyRoot
      /\ c \in alive => dummy'[c] = dummy[c]
  BY DEF Ended, Idle
<1>2. \A u : u # t => (Used(u)' <=> Used(u))
  BY <1>1 DEF Used
<1>3. Used(t)' /\ Used(t)
  BY <1>1 DEF Used
<1>4. \A u : u # t => OwnIn(inner', leaf', u) = OwnIn(inner, leaf, u)
  BY DEF Ended, Stays
<1>5. LooseDummies' = LooseDummies
  <2>1. CASE c \in alive
    <3>1. dummy[c] \in DOMAIN dummyRoot
      BY <2>1 DEF Inv, Objects, ObjectTypes
    <3>2. alive' = alive /\ \A y \in alive : dummy'[y] = dummy[y]
      BY <1>1, <2>1
    <3> QED
      BY <1>1, <2>1, <3>1, <3>2 DEF LooseDummies
  <2>2. CASE c \notin alive
    <3>1. \A z : (\E y \in alive' : z = dummy'[y]) <=> (\E y \in alive : z = dummy[y]) \/ z = dummy'[c]
      BY <1>1, <2>2
    <3> QED
      BY <1>1, <2>2, <3>1 DEF LooseDummies
  <2> QED
    BY <2>1, <2>2
<1> QED
  BY <1>2, <1>3, <1>4, <1>5 DEF Tracked

LEMMA AssignEmptyLoses ==
    ASSUME Inv, Inv', NEW c \in Containers, NEW x \in Containers, AssignEmpty(c, x)
    PROVE  Leaked' = Leaked \cup {dummy[c]}
<1>1. /\ Idle /\ c \in alive /\ alive' = alive /\ job' = job
      /\ inner' = Without(inner, Tree(c)) /\ leaf' = Without(leaf, Tree(c))
      /\ \E d \in FreshDummy : InitContainer(c, d)
  BY DEF AssignEmpty
<1>2. PICK d \in FreshDummy : InitContainer(c, d)
  BY <1>1
<1>3. /\ root' = [root EXCEPT ![c] = Null] /\ dummy' = [dummy EXCEPT ![c] = DummyAt(d)]
      /\ dummyRoot' = With(dummyRoot, [y \in {DummyAt(d)} |-> Null])
  BY <1>2 DEF InitContainer
<1>4. /\ root \in [Containers -> Ptr] /\ dummy \in [Containers -> DummyAddr \cup {Null}]
      /\ alive \subseteq Containers /\ dummy[c] \in DOMAIN dummyRoot
      /\ \A y \in alive \ {c} : dummy[y] # dummy[c]
  BY <1>1 DEF Inv, Objects, ObjectTypes, Apart
<1>5. /\ root'[c] = Null /\ dummy'[c] = DummyAt(d)
      /\ \A y \in alive \ {c} : root'[y] = root[y] /\ dummy'[y] = dummy[y]
  BY <1>3, <1>4
<1>6. /\ \A u : u \notin TreesOf(c) => OwnIn(inner', leaf', u) = OwnIn(inner, leaf, u)
      /\ \A u \in TreesOf(c) : OwnIn(inner', leaf', u) = {} /\ Used(u)
  BY <1>1, EmptiedOwn DEF Inv
<1>7. \A u : u \notin TreesOf(c) => (Used(u)' <=> Used(u))
  BY <1>1, <1>5 DEF Used, Idle, TreesOf
<1>8. LooseNodes' = LooseNodes
  <2>1. Tracked(TreesOf(c))
    BY <1>6, <1>7 DEF Tracked
  <2> QED
    BY <2>1, TrackedLoose
<1>9. DOMAIN dummyRoot' = DOMAIN dummyRoot \cup {DummyAt(d)} /\ DummyAt(d) \notin DOMAIN dummyRoot
  BY <1>3 DEF With, FreshDummy, Lowest
<1>10. \A z : (\E y \in alive' : z = dummy'[y])
                 <=> ((\E y \in alive : z = dummy[y]) /\ z # dummy[c]) \/ z = DummyAt(d)
  BY <1>1, <1>4, <1>5
<1>11. ASSUME NEW z  PROVE z \in LooseDummies' <=> z \in LooseDummies \/ z = dummy[c]
  <2>1. z \in LooseDummies <=> z \in DOMAIN dummyRoot /\ ~ \E y \in alive : z = dummy[y]
    BY DEF LooseDummies
  <2>2. z \in LooseDummies' <=> z \in DOMAIN dummyRoot' /\ ~ \E y \in alive' : z = dummy'[y]
    BY DEF LooseDummies
  <2> QED
    BY <1>1, <1>4, <1>9, <1>10, <2>1, <2>2
<1>12. LooseDummies' = LooseDummies \cup {dummy[c]}
  BY <1>11
<1> QED
  BY <1>8, <1>12, SplitBoth

LEMMA MoveAssignLoses ==
    ASSUME Inv, Inv', NEW c \in Containers, NEW x \in Containers, MoveAssign(c, x)
    PROVE  Leaked' = Leaked \cup Tree(c)
<1>1. /\ Idle /\ c \in alive /\ x \in alive /\ alive' = alive /\ dummy' = dummy /\ job' = job
      /\ Take(c, x, dummy[c])
  BY DEF MoveAssign
<1>2. /\ root' = [root EXCEPT ![c] = root[x], ![x] = Null]
      /\ DOMAIN inner' = DOMAIN inner /\ DOMAIN leaf' = DOMAIN leaf
  BY <1>1 DEF Take, Hang
<1>3. /\ root \in [Containers -> Ptr] /\ alive \subseteq Containers
      /\ dummy[c] \in DOMAIN dummyRoot
      /\ \A y, z \in alive : y # z /\ root[y] # Null /\ root[z] # Null => root[y].tree # root[z].tree
  BY <1>1 DEF Inv, Objects, ObjectTypes, Apart
<1>4. DOMAIN dummyRoot' = DOMAIN dummyRoot
  BY <1>1, <1>3 DEF Take, With
<1>5. LooseDummies' = LooseDummies
  BY <1>1, <1>4 DEF LooseDummies
<1>6. /\ root'[x] = Null /\ (c # x => root'[c] = root[x])
      /\ \A y \in alive \ {c, x} : root'[y] = root[y]
  BY <1>1, <1>2, <1>3
<1>7. \A u : Used(u)' <=> Used(u) /\ u \notin TreesOf(c)
  <2>1. \A u : /\ Used(u) <=> \E y \in alive : root[y] # Null /\ root[y].tree = u
               /\ Used(u)' <=> \E y \in alive : root'[y] # Null /\ root'[y].tree = u
    BY <1>1 DEF Used, Idle
  <2>2. \A y \in alive : root[y] # Null /\ root[y].tree \in TreesOf(c) => y = c
    BY <1>1, <1>3 DEF TreesOf
  <2>3. ASSUME NEW u, Used(u)'  PROVE Used(u) /\ u \notin TreesOf(c)
    <3>1. PICK y \in alive : root'[y] # Null /\ root'[y].tree = u
      BY <2>1, <2>3
    <3>2. y # x
      BY <1>6, <3>1
    <3>3. PICK z \in alive : z # c /\ root'[y] = root[z]
      <4>1. CASE y = c
        BY <1>1, <1>6, <3>2, <4>1
      <4>2. CASE y # c
        BY <1>6, <3>2, <4>2
      <4> QED
        BY <4>1, <4>2
    <3> QED
      BY <2>1, <2>2, <3>1, <3>3
  <2>4. ASSUME NEW u, Used(u), u \notin TreesOf(c)  PROVE Used(u)'
    <3>1. PICK y \in alive : root[y] # Null /\ root[y].tree = u
      BY <2>1, <2>4
    <3>2. y # c
      BY <2>4, <3>1 DEF TreesOf
    <3>3. PICK z \in alive : root'[z] = root[y]
      <4>1. CASE y = x
        BY <1>1, <1>6, <3>2, <4>1
      <4>2. CASE y # x
        BY <1>6, <3>2, <4>2
      <4> QED
        BY <4>1, <4>2
    <3> QED
      BY <2>1, <3>1, <3>3
  <2> QED
    BY <2>3, <2>4
<1>8. Tree(c) = {a \in Nodes : a.tree \in TreesOf(c)}
  <2>1. CASE root[c] = Null
    BY <2>1, ObjectFacts DEF TreesOf, Inv
  <2>2. CASE root[c] # Null
    <3>1. Tree(c) = Own(root[c].tree)
      BY <1>1, <2>2, ObjectFacts DEF Inv
    <3> QED
      BY <2>2, <3>1 DEF Own, OwnIn, Nodes, TreesOf
  <2> QED
    BY <2>1, <2>2
<1>9. LooseNodes' = LooseNodes \cup Tree(c)
  <2>1. Nodes' = Nodes
    BY <1>2 DEF Nodes
  <2>2. ASSUME NEW a  PROVE a \in LooseNodes' <=> a \in LooseNodes \/ a \in Tree(c)
    BY <1>7, <1>8, <2>1 DEF LooseNodes
  <2> QED
    BY <2>2
<1> QED
  BY <1>5, <1>9, SplitBoth

LEMMA ThrowLoses ==
    ASSUME Inv, Inv', CopyThrows
    PROVE  Leaked' = Leaked \cup Complete
<1>1. PICK t, st : t = job.tree /\ st = job.stack
  OBVIOUS
<1>2. /\ ~ Idle /\ Idle' /\ alive' = alive /\ root' = root /\ dummy' = dummy
      /\ leaf' = leaf /\ dummyRoot' = dummyRoot
      /\ inner' = IF OnTop.todo = {} THEN inner
                  ELSE Without(inner, {New(t, f.src) : f \in Range(st)})
  BY <1>1 DEF CopyThrows, Idle
<1>3. \A v \in alive : root[v] # Null => root[v].tree # t
  BY <1>1, <1>2 DEF Inv, JobFits, Parties
<1>4. \A u : Used(u)' <=> Used(u) /\ u # t
  BY <1>1, <1>2, <1>3 DEF Used
<1>5. LooseDummies' = LooseDummies
  BY <1>2 DEF LooseDummies
<1>6. PICK Z : Z = {New(t, st[i].src) : i \in DOMAIN st}
  OBVIOUS
<1>7. {New(t, f.src) : f \in Range(st)} = Z
  BY <1>6 DEF Range
<1>8. Complete = {a \in Nodes : a.tree = t /\ (OnTop.todo # {} => a \notin Z)}
  BY <1>1, <1>6 DEF Complete
<1>9. \A z \in Z : z.tree = t
  BY <1>6 DEF New, NodeAt
<1>10. OnTop.todo # {} => Z \cap DOMAIN leaf = {}
  <2> SUFFICES ASSUME OnTop.todo # {}  PROVE Z \cap DOMAIN leaf = {}
    OBVIOUS
  <2>1. PICK r : r = root[job.from]
    OBVIOUS
  <2>2. Running(r, t, st)
    BY <1>1, <2>1, WhileRunning DEF CopyThrows
  <2>3. st[Len(st)].todo # {}
    BY <1>1, <2>2 DEF OnTop, Running
  <2> QED
    BY <1>6, <2>2, <2>3, StackInner DEF Running
<1>11. OnTop.todo = {} => Nodes' = Nodes
  BY <1>2 DEF Nodes
<1>12. OnTop.todo # {} => Nodes' = Nodes \ Z
  BY <1>2, <1>7, <1>10 DEF Nodes, Without
<1>13. ASSUME NEW a  PROVE a \in LooseNodes' <=> a \in LooseNodes \/ a \in Complete
  <2>1. Used(t)
    BY <1>1, <1>2 DEF Used
  <2>2. /\ a \in LooseNodes <=> a \in Nodes /\ ~ Used(a.tree)
        /\ a \in LooseNodes' <=> a \in Nodes' /\ ~ Used(a.tree)'
    BY DEF LooseNodes
  <2>3. CASE a.tree = t
    BY <1>4, <1>8, <1>11, <1>12, <2>1, <2>2, <2>3
  <2>4. CASE a.tree # t
    BY <1>4, <1>8, <1>9, <1>11, <1>12, <2>2, <2>4
  <2> QED
    BY <2>3, <2>4
<1>14. LooseNodes' = LooseNodes \cup Complete
  BY <1>13
<1> QED
  BY <1>5, <1>14, SplitBoth

LEMMA NextLeaks == Inv /\ Inv' /\ [Next]_vars => [OnlyThereLost]_vars
<1> SUFFICES ASSUME Inv, Inv', Next  PROVE OnlyThereLost
  OBVIOUS
<1>1. ASSUME NEW c \in Containers, NEW x \in Containers,
             Construct(c) \/ MoveEmpty(c, x) \/ CopyEmpty(c, x)
      PROVE  OnlyThereLost
  BY <1>1, ConstructTracked, TrackKept
<1>2. ASSUME NEW c \in Containers, NEW x \in Containers, Clear(c) \/ AssignThrows(c, x)
      PROVE  OnlyThereLost
  BY <1>2, ClearTracked, TrackKept
<1>3. ASSUME NEW c \in Containers, Destroy(c)  PROVE OnlyThereLost
  BY <1>3, DestroyTracked, TrackKept
<1>4. ASSUME NEW c \in Containers, NEW R \in Ranges, InsertRange(c, R)  PROVE OnlyThereLost
  <2>1. PICK t : Inserted(c, R, t)
    BY <1>4, InsertFits
  <2> QED
    BY <2>1, InsertTracked, TrackKept
<1>5. ASSUME NEW c \in Containers, NEW x \in Containers, MoveConstruct(c, x)  PROVE OnlyThereLost
  BY <1>5, MoveTracked, TrackKept
<1>6. ASSUME NEW c \in Containers, NEW x \in Containers, MoveAssign(c, x) \/ AssignEmpty(c, x)
      PROVE  OnlyThereLost
  BY <1>6, MoveAssignLoses, AssignEmptyLoses DEF OnlyThereLost
<1>7. ASSUME NEW c \in Containers, NEW x \in Containers, Swap(c, x)  PROVE OnlyThereLost
  BY <1>7, SwapTracked, TrackKept
<1>8. ASSUME NEW c \in Containers, NEW x \in Containers, CopyConstruct(c, x) \/ CopyAssign(c, x)
      PROVE  OnlyThereLost
  <2>1. PICK t : Started(c, x, t)
    BY <1>8, StartFits
  <2> QED
    BY <2>1, StartTracked, TrackKept
<1>9. CASE CopyChildLeaf \/ CopyChildInner \/ ChildCopied
  <2>1. WentOn
    BY <1>9, CopyChildLeafFits, CopyChildInnerFits, ChildCopiedFits
  <2> QED
    BY <2>1, GoingTracked, TrackKept
<1>10. CASE CopyEnds
  <2>1. PICK c, x, t : c = job.to /\ x = job.from /\ t = job.tree
    OBVIOUS
  <2>2. Ended(c, x, t)
    BY <1>10, <2>1, CopyEndsFits
  <2> QED
    BY <2>2, EndTracked, TrackKept
<1>11. CASE CopyThrows
  BY <1>11, ThrowLoses DEF OnlyThereLost
<1>12. ASSUME NEW c \in Containers, Construct(c) \/ Clear(c)  PROVE OnlyThereLost
  BY <1>1, <1>2, <1>12
<1> QED
  BY <1>1, <1>2, <1>3, <1>4, <1>5, <1>6, <1>7, <1>8, <1>9, <1>10, <1>11, <1>12 DEF Next

\* No operation loses a node or a dummy node but the three that are known to,
\* and of these a move assignment loses what its target held, an assignment
\* from an empty container one dummy node and no element, and a copy that
\* throws the nodes it had completed and none that was begun.
THEOREM LeaksKnown == Spec => LeaksAreKnown
<1>1. Inv /\ Inv' /\ [Next]_vars => [OnlyThereLost]_vars
  BY NextLeaks
<1>2. Spec => []Inv
  BY HeapInvariant
<1>3. Spec => [][OnlyThereLost]_vars
  BY <1>1, <1>2, PTL DEF Spec
<1> QED
  BY <1>3 DEF LeaksAreKnown

-----------------------------------------------------------------------------
(* The containers as maps.                                                 *)

\* Each leaf that is copied has its value.
TrueCopy == Idle \/ SameValues(leaf, root[job.from], job.tree)

LEMMA GoingIsTrue ==
    ASSUME Inv, TrueCopy, WentOn, LeavesGrow(leaf, leaf', root[job.from], job.tree)
    PROVE  TrueCopy'
<1>1. PICK r, t : r = root[job.from] /\ t = job.tree
  OBVIOUS
<1>2. ~ Idle /\ root'[job'.from] = r /\ job'.tree = t
  BY <1>1 DEF WentOn
<1>3. SameValues(leaf, r, t) /\ LeavesGrow(leaf, leaf', r, t)
  BY <1>1, <1>2 DEF TrueCopy
<1>4. Source(inner, leaf, r, t) /\ t # r.tree
  BY <1>1, <1>2, WhileRunning DEF Running
<1>5. SameValues(leaf', r, t)
  <2> SUFFICES ASSUME NEW a \in DOMAIN leaf', a.tree = r.tree, New(t, a) \in DOMAIN leaf'
               PROVE  leaf'[New(t, a)].value = leaf'[a].value
    BY DEF SameValues
  <2>1. a \in DOMAIN leaf
    <3> SUFFICES ASSUME a \notin DOMAIN leaf  PROVE FALSE
      OBVIOUS
    <3>1. PICK x : a = New(t, x)
      BY <1>3 DEF LeavesGrow
    <3> QED
      BY <1>4, <3>1 DEF New, NodeAt
  <2>2. leaf'[a].value = leaf[a].value
    BY <1>3, <2>1 DEF LeavesGrow
  <2>3. CASE New(t, a) \in DOMAIN leaf
    BY <1>3, <2>1, <2>2, <2>3 DEF LeavesGrow, SameValues
  <2>4. CASE New(t, a) \notin DOMAIN leaf
    <3>1. PICK x \in DOMAIN leaf : /\ x.tree = r.tree /\ New(t, a) = New(t, x)
                                   /\ leaf'[New(t, a)].value = leaf[x].value
      BY <1>3, <2>4 DEF LeavesGrow
    <3>2. a \in OwnIn(inner, leaf, r.tree) /\ x \in OwnIn(inner, leaf, r.tree)
      BY <2>1, <3>1 DEF OwnIn
    <3>3. x = a
      BY <1>4, <3>1, <3>2 DEF Source
    <3> QED
      BY <2>2, <3>1, <3>3
  <2> QED
    BY <2>3, <2>4
<1> QED
  BY <1>2, <1>5 DEF TrueCopy

LEMMA NextTrue == Inv /\ TrueCopy /\ [Next]_vars => TrueCopy'
<1> SUFFICES ASSUME Inv, TrueCopy, [Next]_vars  PROVE TrueCopy'
  OBVIOUS
<1>1. CASE UNCHANGED vars
  BY <1>1 DEF vars, TrueCopy, Idle
<1>2. CASE Idle /\ job' = job
  BY <1>2 DEF TrueCopy, Idle
<1>3. CASE job' = [op |-> "none"]
  BY <1>3 DEF TrueCopy, Idle
<1>4. ASSUME NEW c \in Containers, NEW x \in Containers, CopyConstruct(c, x) \/ CopyAssign(c, x)
      PROVE  TrueCopy'
  <2>1. PICK t : Started(c, x, t)
    BY <1>4, StartFits
  <2>2. x \in alive /\ x # c /\ job'.from = x /\ job'.tree = t /\ SameValues(leaf', root[x], t)
        /\ root' = [root EXCEPT ![c] = Null]
    BY <2>1 DEF Started
  <2>3. root'[x] = root[x]
    BY <2>2 DEF Inv, Objects, ObjectTypes
  <2> QED
    BY <2>2, <2>3 DEF TrueCopy
<1>5. CASE CopyChildLeaf \/ CopyChildInner \/ ChildCopied
  BY <1>5, CopyChildLeafFits, CopyChildInnerFits, ChildCopiedFits, GoingIsTrue
<1>6. CASE CopyEnds \/ CopyThrows
  BY <1>3, <1>6 DEF CopyEnds, CopyThrows
<1>7. ASSUME NEW c \in Containers, Construct(c) \/ Clear(c) \/ Destroy(c)  PROVE TrueCopy'
  BY <1>2, <1>7 DEF Construct, Clear, Destroy
<1>8. ASSUME NEW c \in Containers, NEW R \in Ranges, InsertRange(c, R)  PROVE TrueCopy'
  BY <1>2, <1>8 DEF InsertRange
<1>9. ASSUME NEW c \in Containers, NEW x \in Containers,
             \/ MoveEmpty(c, x) \/ MoveConstruct(c, x) \/ MoveAssign(c, x) \/ Swap(c, x)
             \/ CopyEmpty(c, x) \/ AssignEmpty(c, x) \/ AssignThrows(c, x)
      PROVE  TrueCopy'
  BY <1>2, <1>9 DEF MoveEmpty, MoveConstruct, MoveAssign, Swap, CopyEmpty, AssignEmpty, AssignThrows
<1> QED
  BY <1>1, <1>4, <1>5, <1>6, <1>7, <1>8, <1>9 DEF Next

LeavesOf(lf, u) == {a \in DOMAIN lf : a.tree = u}

\* What the leaves in L say, and the map of the tree with root r.
MapOf(lf, L) == [k \in {a.path : a \in L} |-> lf[CHOOSE a \in L : a.path = k].value]
MapAt(lf, r) == MapOf(lf, IF r = Null THEN {} ELSE LeavesOf(lf, r.tree))

LEMMA EmptyMap == \A lf : MapAt(lf, Null) = M!Empty
  BY DEF MapAt, MapOf, M!Empty

LEMMA MapSame ==
    ASSUME NEW lf, NEW lf2, NEW L, \A a \in L : lf2[a].value = lf[a].value
    PROVE  MapOf(lf2, L) = MapOf(lf, L)
<1>1. ASSUME NEW k \in {a.path : a \in L}
      PROVE  lf2[CHOOSE a \in L : a.path = k].value = lf[CHOOSE a \in L : a.path = k].value
  <2>1. PICK z : z = CHOOSE a \in L : a.path = k
    OBVIOUS
  <2>2. z \in L
    BY <2>1
  <2> QED
    BY <2>1, <2>2
<1> QED
  BY <1>1 DEF MapOf

LEMMA StaysMap ==
    ASSUME NEW in, NEW lf, NEW in2, NEW lf2, NEW r, r # Null => Stays(in, lf, in2, lf2, r.tree)
    PROVE  MapAt(lf2, r) = MapAt(lf, r)
<1>1. CASE r = Null
  BY <1>1, EmptyMap
<1>2. CASE r # Null
  <2>1. PICK u, L : u = r.tree /\ L = LeavesOf(lf, u)
    OBVIOUS
  <2>2. Stays(in, lf, in2, lf2, u)
    BY <1>2, <2>1
  <2>3. LeavesOf(lf2, u) = L
    <3>1. L = OwnIn(in, lf, u) \cap DOMAIN lf /\ LeavesOf(lf2, u) = OwnIn(in2, lf2, u) \cap DOMAIN lf2
      BY <2>1 DEF LeavesOf, OwnIn
    <3> QED
      BY <2>2, <3>1 DEF Stays
  <2>4. \A a \in L : lf2[a].value = lf[a].value
    BY <2>1, <2>2 DEF LeavesOf, OwnIn, Stays
  <2>5. MapOf(lf2, L) = MapOf(lf, L)
    BY <2>4, MapSame
  <2> QED
    BY <1>2, <2>1, <2>3, <2>5 DEF MapAt
<1> QED
  BY <1>1, <1>2

\* The same leaves with the same values.
LEMMA ValuesMap ==
    ASSUME NEW lf, NEW lf2, NEW r, DOMAIN lf2 = DOMAIN lf,
           \A a \in DOMAIN lf : lf2[a].value = lf[a].value
    PROVE  MapAt(lf2, r) = MapAt(lf, r)
<1>1. PICK L : L = IF r = Null THEN {} ELSE LeavesOf(lf, r.tree)
  OBVIOUS
<1>2. (IF r = Null THEN {} ELSE LeavesOf(lf2, r.tree)) = L
  BY <1>1 DEF LeavesOf
<1>3. \A a \in L : lf2[a].value = lf[a].value
  BY <1>1 DEF LeavesOf
<1>4. MapOf(lf2, L) = MapOf(lf, L)
  BY <1>3, MapSame
<1> QED
  BY <1>1, <1>2, <1>4 DEF MapAt

ContentsKnown == \A c \in alive : Contents(c) = MapAt(leaf, root[c])

LEMMA ContentsAre == Inv => ContentsKnown
<1> SUFFICES ASSUME Inv, NEW c \in alive  PROVE Contents(c) = MapAt(leaf, root[c])
  BY DEF ContentsKnown
<1>1. PICK L : L = Tree(c) \cap DOMAIN leaf
  OBVIOUS
<1>2. Contents(c) = MapOf(leaf, L)
  BY <1>1 DEF Contents, MapOf
<1>3. L = IF root[c] = Null THEN {} ELSE LeavesOf(leaf, root[c].tree)
  <2>1. CASE root[c] = Null
    BY <1>1, <2>1, ObjectFacts DEF Inv
  <2>2. CASE root[c] # Null
    <3>1. Tree(c) = Own(root[c].tree)
      BY <2>2, ObjectFacts DEF Inv
    <3> QED
      BY <1>1, <2>2, <3>1 DEF Own, OwnIn, LeavesOf
  <2> QED
    BY <2>1, <2>2
<1> QED
  BY <1>2, <1>3 DEF MapAt

LEMMA ContentsNext == Inv' => ContentsKnown'
  BY ContentsAre, PTL

\* Where the containers of m get their maps from m and all others keep them.
Puts(m) ==
    /\ alive' = alive \cup DOMAIN m
    /\ \A c \in DOMAIN m : MapAt(leaf', root'[c]) = m[c]
    /\ \A c \in alive \ DOMAIN m : MapAt(leaf', root'[c]) = MapAt(leaf, root[c])

LEMMA PutIs ==
    ASSUME Inv, Inv', NEW m, Puts(m)
    PROVE  M!Put(m) /\ M!Alive = alive /\ \A c \in alive : AllContents[c] = MapAt(leaf, root[c])
<1>1. /\ \A c \in alive : Contents(c) = MapAt(leaf, root[c])
      /\ \A c \in alive' : Contents(c)' = MapAt(leaf', root'[c])
  BY ContentsAre, ContentsNext DEF ContentsKnown
<1>2. AllContents = [c \in alive |-> Contents(c)] /\ AllContents' = [c \in alive' |-> Contents(c)']
  BY DEF AllContents
<1>3. M!Alive = alive
  BY <1>2 DEF M!Alive
<1>4. \A c \in alive : AllContents[c] = MapAt(leaf, root[c])
  BY <1>1, <1>2
<1>5. PICK f : f = [c \in alive \cup DOMAIN m |-> IF c \in DOMAIN m THEN m[c] ELSE AllContents[c]]
  OBVIOUS
<1>6. alive' = alive \cup DOMAIN m
  BY DEF Puts
<1>7. ASSUME NEW c \in alive'  PROVE Contents(c)' = f[c]
  <2>1. CASE c \in DOMAIN m
    BY <1>1, <1>5, <1>6, <2>1 DEF Puts
  <2>2. CASE c \notin DOMAIN m
    BY <1>1, <1>4, <1>5, <1>6, <2>2 DEF Puts
  <2> QED
    BY <2>1, <2>2
<1>8. f = [c \in alive' |-> f[c]]
  BY <1>5, <1>6
<1>9. AllContents' = f
  BY <1>2, <1>7, <1>8
<1> QED
  BY <1>3, <1>4, <1>5, <1>9 DEF M!Put

\* All containers but c have what they had.
OthersKept(c) ==
    \A y \in alive \ {c} :
       root'[y] = root[y] /\ (root[y] # Null => Stays(inner, leaf, inner', leaf', root[y].tree))

LEMMA OthersMaps ==
    ASSUME NEW c, OthersKept(c)
    PROVE  \A y \in alive \ {c} : MapAt(leaf', root'[y]) = MapAt(leaf, root[y])
<1> SUFFICES ASSUME NEW y \in alive \ {c}  PROVE MapAt(leaf', root'[y]) = MapAt(leaf, root[y])
  OBVIOUS
<1>1. PICK r : r = root[y]
  OBVIOUS
<1>2. root'[y] = r /\ (r # Null => Stays(inner, leaf, inner', leaf', r.tree))
  BY <1>1 DEF OthersKept
<1> QED
  BY <1>1, <1>2, StaysMap

\* Container c is empty, and every other one is kept.
LEMMA PutEmpty ==
    ASSUME Inv, Inv', NEW c \in Containers, alive' = alive \cup {c}, root'[c] = Null, OthersKept(c)
    PROVE  M!Put([x \in {c} |-> M!Empty])
<1>1. PICK m : m = [x \in {c} |-> M!Empty]
  OBVIOUS
<1>2. MapAt(leaf', root'[c]) = M!Empty
  BY EmptyMap
<1>3. \A y \in alive \ {c} : MapAt(leaf', root'[y]) = MapAt(leaf, root[y])
  BY OthersMaps
<1>4. Puts(m)
  BY <1>1, <1>2, <1>3 DEF Puts
<1> QED
  BY <1>1, <1>4, PutIs

\* Of the maps as they are.
LEMMA MapsAre ==
    ASSUME Inv
    PROVE  M!Alive = alive /\ \A c \in alive : AllContents[c] = MapAt(leaf, root[c])
  BY ContentsAre DEF ContentsKnown, AllContents, M!Alive

LEMMA SameMaps ==
    ASSUME Inv, Inv', alive' = alive,
           \A c \in alive : MapAt(leaf', root'[c]) = MapAt(leaf, root[c])
    PROVE  UNCHANGED AllContents
<1>1. /\ \A c \in alive : Contents(c) = MapAt(leaf, root[c])
      /\ \A c \in alive' : Contents(c)' = MapAt(leaf', root'[c])
  BY ContentsAre, ContentsNext DEF ContentsKnown
<1>2. AllContents = [c \in alive |-> Contents(c)] /\ AllContents' = [c \in alive' |-> Contents(c)']
  BY DEF AllContents
<1> QED
  BY <1>1, <1>2

LEMMA InitKept ==
    ASSUME Inv, NEW c \in Containers, NEW x \in Containers,
           Construct(c) \/ MoveEmpty(c, x) \/ CopyEmpty(c, x)
    PROVE  /\ c \notin alive /\ alive' = alive \cup {c} /\ root'[c] = Null /\ OthersKept(c)
<1>1. /\ c \notin alive /\ alive' = alive \cup {c} /\ inner' = inner /\ leaf' = leaf
      /\ \E d \in FreshDummy : InitContainer(c, d)
  BY DEF Construct, MoveEmpty, CopyEmpty
<1>2. root' = [root EXCEPT ![c] = Null]
  BY <1>1 DEF InitContainer
<1>3. root \in [Containers -> Ptr] /\ alive \subseteq Containers
  BY DEF Inv, Objects, ObjectTypes
<1>4. root'[c] = Null /\ \A y \in alive \ {c} : root'[y] = root[y]
  BY <1>2, <1>3
<1> QED
  BY <1>1, <1>4, StaysSame DEF OthersKept

LEMMA ConstructMaps ==
    ASSUME Inv, Inv', NEW c \in Containers, Construct(c)
    PROVE  M!Create(c)
<1>1. /\ c \notin alive /\ alive' = alive \cup {c} /\ root'[c] = Null /\ OthersKept(c)
  BY InitKept
<1> QED
  BY <1>1, PutEmpty, MapsAre DEF M!Create

LEMMA EmptyMaps ==
    ASSUME Inv, Inv', NEW c \in Containers, NEW x \in Containers, MoveEmpty(c, x) \/ CopyEmpty(c, x)
    PROVE  M!Copy(c, x) /\ M!Move(c, x)
<1>1. /\ c \notin alive /\ alive' = alive \cup {c} /\ root'[c] = Null /\ OthersKept(c)
  BY InitKept
<1>2. x \in alive /\ root[x] = Null
  BY DEF MoveEmpty, CopyEmpty
<1>3. M!Alive = alive /\ AllContents[x] = M!Empty
  BY <1>2, MapsAre, EmptyMap
<1>4. M!Put([y \in {c} |-> M!Empty])
  BY <1>1, PutEmpty
<1>5. [y \in {c} |-> AllContents[x]] = [y \in {c} |-> M!Empty]
  BY <1>3
<1>6. M!Put([y \in {c} |-> AllContents[x]])
  BY <1>4, <1>5
<1>7. M!Copy(c, x)
  BY <1>2, <1>3, <1>6 DEF M!Copy
<1>8. PICK m : m = [y \in {c, x} |-> IF y = x THEN M!Empty ELSE AllContents[x]]
  OBVIOUS
<1>9. Puts(m)
  <2>1. \A y \in alive \ {c} : MapAt(leaf', root'[y]) = MapAt(leaf, root[y])
    BY <1>1, OthersMaps
  <2>2. MapAt(leaf', root'[c]) = M!Empty /\ MapAt(leaf, root[x]) = M!Empty
    BY <1>1, <1>2, EmptyMap
  <2>3. DOMAIN m = {c, x} /\ m[c] = M!Empty /\ m[x] = M!Empty
    BY <1>3, <1>8
  <2> QED
    BY <1>1, <1>2, <2>1, <2>2, <2>3 DEF Puts
<1>10. M!Put(m)
  BY <1>9, PutIs
<1>11. M!Move(c, x)
  BY <1>2, <1>3, <1>8, <1>10 DEF M!Move
<1> QED
  BY <1>7, <1>11

LEMMA ClearMaps ==
    ASSUME Inv, Inv', NEW c \in Containers, NEW x \in Containers,
           Clear(c) \/ AssignThrows(c, x) \/ CopyAssign(c, x)
    PROVE  M!Clear(c)
<1>1. root \in [Containers -> Ptr] /\ alive \subseteq Containers
  BY DEF Inv, Objects, ObjectTypes
<1>2. c \in alive /\ alive' = alive /\ root' = [root EXCEPT ![c] = Null]
  BY DEF Clear, AssignThrows, CopyAssign, Emptied
<1>3. \A y \in alive \ {c} : root[y] # Null => Stays(inner, leaf, inner', leaf', root[y].tree)
  <2>1. CASE Clear(c) \/ AssignThrows(c, x)
    <3>1. inner' = Without(inner, Tree(c)) /\ leaf' = Without(leaf, Tree(c))
      BY <2>1 DEF Clear, AssignThrows, Emptied
    <3> QED
      BY <3>1, EmptiedHeap DEF Inv
  <2>2. CASE CopyAssign(c, x)
    <3>1. PICK t : Started(c, x, t)
      BY <2>2, StartFits
    <3> QED
      BY <3>1 DEF Started
  <2> QED
    BY <2>1, <2>2
<1>4. OthersKept(c) /\ root'[c] = Null /\ alive' = alive \cup {c}
  BY <1>1, <1>2, <1>3 DEF OthersKept
<1> QED
  BY <1>2, <1>4, PutEmpty, MapsAre DEF M!Clear

LEMMA AssignEmptyMaps ==
    ASSUME Inv, Inv', NEW c \in Containers, NEW x \in Containers, AssignEmpty(c, x)
    PROVE  M!Copy(c, x)
<1>1. root \in [Containers -> Ptr] /\ alive \subseteq Containers
  BY DEF Inv, Objects, ObjectTypes
<1>2. /\ c \in alive /\ x \in alive /\ root[x] = Null /\ alive' = alive
      /\ inner' = Without(inner, Tree(c)) /\ leaf' = Without(leaf, Tree(c))
  BY DEF AssignEmpty
<1>3. root' = [root EXCEPT ![c] = Null]
  BY DEF AssignEmpty, InitContainer
<1>4. \A y \in alive \ {c} : root[y] # Null => Stays(inner, leaf, inner', leaf', root[y].tree)
  BY <1>2, EmptiedHeap DEF Inv
<1>5. OthersKept(c) /\ root'[c] = Null /\ alive' = alive \cup {c}
  BY <1>1, <1>2, <1>3, <1>4 DEF OthersKept
<1>6. M!Alive = alive /\ AllContents[x] = M!Empty
  BY <1>2, MapsAre, EmptyMap
<1>7. M!Put([y \in {c} |-> M!Empty])
  BY <1>5, PutEmpty
<1>8. [y \in {c} |-> AllContents[x]] = [y \in {c} |-> M!Empty]
  BY <1>6
<1>9. M!Put([y \in {c} |-> AllContents[x]])
  BY <1>7, <1>8
<1> QED
  BY <1>2, <1>6, <1>9 DEF M!Copy

LEMMA DestroyMaps ==
    ASSUME Inv, Inv', NEW c \in Containers, Destroy(c)
    PROVE  M!Destroy(c)
<1>1. /\ c \in alive /\ alive' = alive \ {c} /\ root' = [root EXCEPT ![c] = Null]
      /\ inner' = Without(inner, Tree(c)) /\ leaf' = Without(leaf, Tree(c))
  BY DEF Destroy, Emptied
<1>2. \A y \in alive \ {c} : root[y] # Null => Stays(inner, leaf, inner', leaf', root[y].tree)
  BY <1>1, EmptiedHeap DEF Inv
<1>3. root \in [Containers -> Ptr] /\ alive \subseteq Containers
  BY DEF Inv, Objects, ObjectTypes
<1>4. OthersKept(c)
  BY <1>1, <1>2, <1>3 DEF OthersKept
<1>5. /\ \A y \in alive : Contents(y) = MapAt(leaf, root[y])
      /\ \A y \in alive' : Contents(y)' = MapAt(leaf', root'[y])
  BY ContentsAre, ContentsNext DEF ContentsKnown
<1>6. \A y \in alive \ {c} : Contents(y)' = Contents(y)
  BY <1>1, <1>4, <1>5, OthersMaps
<1>7. AllContents = [y \in alive |-> Contents(y)] /\ AllContents' = [y \in alive' |-> Contents(y)']
  BY DEF AllContents
<1>8. AllContents' = [y \in alive \ {c} |-> AllContents[y]]
  BY <1>1, <1>6, <1>7
<1> QED
  BY <1>1, <1>8, MapsAre DEF M!Destroy

LEMMA InsertMaps ==
    ASSUME Inv, Inv', NEW c \in Containers, NEW R \in Ranges, InsertRange(c, R)
    PROVE  M!Fill(c, R)
<1>1. PICK t : Inserted(c, R, t)
  BY InsertFits
<1>2. /\ c \in alive /\ alive' = alive /\ root[c] = Null /\ root'[c] # Null /\ root'[c].tree = t
      /\ \A y \in alive \ {c} : root'[y] = root[y]
      /\ \A y \in alive : root[y] # Null => root[y].tree # t
      /\ \A u : u # t => Stays(inner, leaf, inner', leaf', u)
      /\ OwnIn(inner', leaf', t) \cap DOMAIN leaf' = {NodeAt(t, k) : k \in DOMAIN R}
      /\ \A k \in DOMAIN R : leaf'[NodeAt(t, k)].value = R[k]
  BY <1>1 DEF Inserted
<1>3. OthersKept(c)
  BY <1>2 DEF OthersKept
<1>4. PICK L : L = {NodeAt(t, k) : k \in DOMAIN R}
  OBVIOUS
<1>5. MapAt(leaf', root'[c]) = MapOf(leaf', L)
  <2>1. LeavesOf(leaf', t) = OwnIn(inner', leaf', t) \cap DOMAIN leaf'
    BY DEF LeavesOf, OwnIn
  <2> QED
    BY <1>2, <1>4, <2>1 DEF MapAt
<1>6. MapOf(leaf', L) = R
  <2> \A k \in DOMAIN R : NodeAt(t, k) \in L /\ NodeAt(t, k).path = k
    BY <1>4 DEF NodeAt
  <2> \A a \in L : a.path \in DOMAIN R /\ a = NodeAt(t, a.path)
    BY <1>4 DEF NodeAt
  <2>1. {a.path : a \in L} = DOMAIN R
    OBVIOUS
  <2>2. ASSUME NEW k \in DOMAIN R  PROVE leaf'[CHOOSE a \in L : a.path = k].value = R[k]
    <3>1. PICK z : z = CHOOSE a \in L : a.path = k
      OBVIOUS
    <3>2. z \in L /\ z.path = k
      BY <3>1
    <3>3. z = NodeAt(t, k)
      BY <3>2
    <3> QED
      BY <1>2, <3>1, <3>3
  <2>3. R = [k \in DOMAIN R |-> R[k]]
    BY ShapeAssumption
  <2> QED
    BY <2>1, <2>2, <2>3 DEF MapOf
<1>7. PICK m : m = [x \in {c} |-> R]
  OBVIOUS
<1>8. Puts(m)
  BY <1>2, <1>3, <1>5, <1>6, <1>7, OthersMaps DEF Puts
<1>9. M!Put(m)
  BY <1>8, PutIs
<1>10. M!Alive = alive /\ AllContents[c] = M!Empty
  BY <1>2, MapsAre, EmptyMap
<1> QED
  BY <1>2, <1>7, <1>9, <1>10 DEF M!Fill

\* A leaf that is hung somewhere else keeps its value.
LEMMA HangValues ==
    ASSUME Heap, NEW r, NEW d, leaf' = Hang(leaf, r, d)
    PROVE  \A q : MapAt(leaf', q) = MapAt(leaf, q)
<1>1. DOMAIN leaf' = DOMAIN leaf
  BY DEF Hang
<1>2. ASSUME NEW a \in DOMAIN leaf  PROVE leaf'[a].value = leaf[a].value
  <2>1. leaf[a] = [parent |-> leaf[a].parent, value |-> leaf[a].value]
    BY WellFacts DEF Heap
  <2>2. leaf'[a] = IF a = r THEN [leaf[a] EXCEPT !.parent = d] ELSE leaf[a]
    BY DEF Hang
  <2> QED
    BY <2>1, <2>2
<1> QED
  BY <1>1, <1>2, ValuesMap

LEMMA TakenMaps ==
    ASSUME Inv, Inv', NEW c \in Containers, NEW x \in alive, NEW d, Take(c, x, d),
           alive' = alive \cup {c}
    PROVE  M!Move(c, x)
<1>1. root \in [Containers -> Ptr] /\ alive \subseteq Containers
  BY DEF Inv, Objects, ObjectTypes
<1>2. root' = [root EXCEPT ![c] = root[x], ![x] = Null] /\ leaf' = Hang(leaf, root[x], d)
  BY DEF Take
<1>3. /\ root'[x] = Null
      /\ c # x => root'[c] = root[x]
      /\ \A y \in alive \ {c, x} : root'[y] = root[y]
  BY <1>1, <1>2
<1>4. \A q : MapAt(leaf', q) = MapAt(leaf, q)
  BY <1>2, HangValues DEF Inv
<1>5. M!Alive = alive /\ AllContents[x] = MapAt(leaf, root[x])
  BY MapsAre
<1>6. PICK m : m = [y \in {c, x} |-> IF y = x THEN M!Empty ELSE AllContents[x]]
  OBVIOUS
<1>7. Puts(m)
  <2>1. DOMAIN m = {c, x} /\ m[x] = M!Empty /\ (c # x => m[c] = AllContents[x])
    BY <1>6
  <2>2. \A y \in alive \ {c, x} : MapAt(leaf', root'[y]) = MapAt(leaf, root[y])
    BY <1>3, <1>4
  <2>3. MapAt(leaf', root'[x]) = M!Empty
    BY <1>3, EmptyMap
  <2>4. c # x => MapAt(leaf', root'[c]) = AllContents[x]
    BY <1>3, <1>4, <1>5
  <2> QED
    BY <2>1, <2>2, <2>3, <2>4 DEF Puts
<1>8. M!Put(m)
  BY <1>7, PutIs
<1> QED
  BY <1>5, <1>6, <1>8 DEF M!Move

LEMMA MoveMaps ==
    ASSUME Inv, Inv', NEW c \in Containers, NEW x \in Containers,
           MoveConstruct(c, x) \/ MoveAssign(c, x)
    PROVE  M!Move(c, x)
<1>1. x \in alive /\ alive' = alive \cup {c}
  BY DEF MoveConstruct, MoveAssign
<1>2. \E d : Take(c, x, d)
  BY DEF MoveConstruct, MoveAssign
<1> QED
  BY <1>1, <1>2, TakenMaps

LEMMA SwapMaps ==
    ASSUME Inv, Inv', NEW c \in Containers, NEW x \in Containers, Swap(c, x)
    PROVE  M!Swap(c, x)
<1>1. /\ c \in alive /\ x \in alive /\ c # x /\ alive' = alive /\ leaf' = leaf
      /\ root' = [root EXCEPT ![c] = root[x], ![x] = root[c]]
  BY DEF Swap
<1>2. root \in [Containers -> Ptr] /\ alive \subseteq Containers
  BY DEF Inv, Objects, ObjectTypes
<1>3. /\ root'[c] = root[x] /\ root'[x] = root[c]
      /\ \A y \in alive \ {c, x} : root'[y] = root[y]
  BY <1>1, <1>2
<1>4. /\ M!Alive = alive
      /\ AllContents[c] = MapAt(leaf, root[c]) /\ AllContents[x] = MapAt(leaf, root[x])
  BY <1>1, MapsAre
<1>5. PICK m : m = [y \in {c, x} |-> IF y = c THEN AllContents[x] ELSE AllContents[c]]
  OBVIOUS
<1>6. Puts(m)
  <2>1. DOMAIN m = {c, x} /\ m[c] = AllContents[x] /\ m[x] = AllContents[c]
    BY <1>1, <1>5
  <2> QED
    BY <1>1, <1>3, <1>4, <2>1 DEF Puts
<1>7. M!Put(m)
  BY <1>6, PutIs
<1> QED
  BY <1>1, <1>4, <1>5, <1>7 DEF M!Swap

\* A step of a copy changes no map.
LEMMA RunningMaps ==
    ASSUME Inv, Inv', CopyChildLeaf \/ CopyChildInner \/ ChildCopied \/ CopyThrows
    PROVE  UNCHANGED AllContents
<1>1. /\ alive' = alive /\ root' = root
      /\ \A y \in alive : root[y] # Null => Stays(inner, leaf, inner', leaf', root[y].tree)
  <2>1. CASE CopyThrows
    BY <2>1, CopyThrowsFits
  <2>2. CASE CopyChildLeaf \/ CopyChildInner \/ ChildCopied
    <3>1. WentOn
      BY <2>2, CopyChildLeafFits, CopyChildInnerFits, ChildCopiedFits
    <3>2. Parties
      BY <3>1 DEF WentOn, Inv, JobFits
    <3> QED
      BY <3>1, <3>2 DEF WentOn, Parties
  <2> QED
    BY <2>1, <2>2
<1>2. ASSUME NEW y \in alive  PROVE MapAt(leaf', root'[y]) = MapAt(leaf, root[y])
  <2>1. PICK r : r = root[y]
    OBVIOUS
  <2> QED
    BY <1>1, <2>1, StaysMap
<1> QED
  BY <1>1, <1>2, SameMaps

LEMMA StartMaps ==
    ASSUME Inv, Inv', NEW c \in Containers, NEW x \in Containers, CopyConstruct(c, x)
    PROVE  UNCHANGED AllContents
<1>1. PICK t : Started(c, x, t)
  BY StartFits
<1>2. c \notin alive
  BY DEF CopyConstruct
<1>3. /\ alive' = alive /\ root' = [root EXCEPT ![c] = Null]
      /\ \A y \in alive \ {c} : root[y] # Null => Stays(inner, leaf, inner', leaf', root[y].tree)
  BY <1>1 DEF Started
<1>4. root \in [Containers -> Ptr] /\ alive \subseteq Containers
  BY DEF Inv, Objects, ObjectTypes
<1>5. OthersKept(c)
  BY <1>3, <1>4 DEF OthersKept
<1> QED
  BY <1>2, <1>3, <1>5, OthersMaps, SameMaps

\* A whole copy says what its source says.
LEMMA CopySays ==
    ASSUME NEW in, NEW lf, NEW r, NEW t, WellHeap(in, lf), LeavesCopied(in, lf, r, t),
           SameValues(lf, r, t)
    PROVE  MapOf(lf, LeavesOf(lf, t)) = MapOf(lf, LeavesOf(lf, r.tree))
<1>1. PICK L, K : L = LeavesOf(lf, t) /\ K = LeavesOf(lf, r.tree)
  OBVIOUS
<1>2. \A y \in L : \E a \in K : y = New(t, a) /\ y.path = a.path
  <2> SUFFICES ASSUME NEW y \in L  PROVE \E a \in K : y = New(t, a) /\ y.path = a.path
    OBVIOUS
  <2>1. y \in OwnIn(in, lf, t) /\ y \in DOMAIN lf
    BY <1>1 DEF LeavesOf, OwnIn
  <2>2. PICK a \in OwnIn(in, lf, r.tree) : y = New(t, a)
    BY <2>1 DEF LeavesCopied
  <2>3. a \in DOMAIN lf /\ y.path = a.path
    BY <2>1, <2>2 DEF LeavesCopied
  <2> QED
    BY <1>1, <2>2, <2>3 DEF LeavesOf, OwnIn
<1>3. \A a \in K : New(t, a) \in L /\ New(t, a).path = a.path /\ lf[New(t, a)].value = lf[a].value
  <2> SUFFICES ASSUME NEW a \in K
               PROVE  New(t, a) \in L /\ New(t, a).path = a.path /\ lf[New(t, a)].value = lf[a].value
    OBVIOUS
  <2>1. a \in OwnIn(in, lf, r.tree) /\ a \in DOMAIN lf /\ a.tree = r.tree
    BY <1>1 DEF LeavesOf, OwnIn
  <2>2. New(t, a) \in DOMAIN lf /\ New(t, a).path = a.path /\ New(t, a).tree = t
    BY <2>1 DEF LeavesCopied
  <2>3. lf[New(t, a)].value = lf[a].value
    BY <2>1, <2>2 DEF SameValues
  <2> QED
    BY <1>1, <2>2, <2>3 DEF LeavesOf
<1>4. \A a, b \in K : a.path = b.path => a = b
  <2> SUFFICES ASSUME NEW a \in K, NEW b \in K, a.path = b.path  PROVE a = b
    OBVIOUS
  <2>1. a \in DOMAIN lf /\ b \in DOMAIN lf /\ a.tree = b.tree
    BY <1>1 DEF LeavesOf
  <2>2. a = NodeAt(a.tree, a.path) /\ b = NodeAt(b.tree, b.path)
    BY <2>1, WellFacts
  <2> QED
    BY <2>1, <2>2
<1>5. {a.path : a \in L} = {a.path : a \in K}
  BY <1>2, <1>3
<1>6. ASSUME NEW k \in {a.path : a \in K}
      PROVE  lf[CHOOSE a \in L : a.path = k].value = lf[CHOOSE a \in K : a.path = k].value
  <2>1. PICK y, z : y = (CHOOSE a \in L : a.path = k) /\ z = CHOOSE a \in K : a.path = k
    OBVIOUS
  <2>2. z \in K /\ z.path = k
    BY <2>1
  <2>3. \E a \in L : a.path = k
    BY <1>5, <1>6
  <2>4. y \in L /\ y.path = k
    BY <2>1, <2>3
  <2>5. PICK a \in K : y = New(t, a) /\ y.path = a.path
    BY <1>2, <2>4
  <2>6. a = z
    BY <1>4, <2>2, <2>4, <2>5
  <2>7. lf[y].value = lf[z].value
    BY <1>3, <2>5, <2>6
  <2> QED
    BY <2>1, <2>7
<1>7. MapOf(lf, L) = MapOf(lf, K)
  <2>1. PICK P : P = {a.path : a \in K}
    OBVIOUS
  <2>2. /\ MapOf(lf, L) = [k \in P |-> lf[CHOOSE a \in L : a.path = k].value]
        /\ MapOf(lf, K) = [k \in P |-> lf[CHOOSE a \in K : a.path = k].value]
    BY <1>5, <2>1 DEF MapOf
  <2>3. \A k \in P : lf[CHOOSE a \in L : a.path = k].value = lf[CHOOSE a \in K : a.path = k].value
    BY <1>6, <2>1
  <2> QED
    BY <2>2, <2>3
<1> QED
  BY <1>1, <1>7

LEMMA EndMaps ==
    ASSUME Inv, Inv', TrueCopy, CopyEnds
    PROVE  M!Copy(job.to, job.from)
<1>1. PICK c, x, t : c = job.to /\ x = job.from /\ t = job.tree
  OBVIOUS
<1>2. PICK r : r = root[x]
  OBVIOUS
<1>3. Ended(c, x, t) /\ LeavesCopied(inner, leaf, r, t)
  BY <1>1, <1>2, CopyEndsFits
<1>4. SameValues(leaf, r, t)
  BY <1>1, <1>2, <1>3 DEF TrueCopy, Ended
<1>5. /\ x \in alive /\ c # x /\ alive' = alive \cup {c}
      /\ root'[c] # Null /\ root'[c].tree = t /\ r # Null
      /\ \A y \in alive \ {c} : root'[y] = root[y]
      /\ \A y \in alive : root[y] # Null => root[y].tree # t
      /\ \A u : u # t => Stays(inner, leaf, inner', leaf', u)
      /\ DOMAIN leaf' = DOMAIN leaf
      /\ \A z \in DOMAIN leaf : leaf'[z].value = leaf[z].value
  BY <1>2, <1>3 DEF Ended
<1>6. OthersKept(c)
  BY <1>5 DEF OthersKept
<1>7. MapAt(leaf', root'[c]) = MapAt(leaf, root'[c])
  BY <1>5, ValuesMap
<1>8. MapAt(leaf, root'[c]) = MapOf(leaf, LeavesOf(leaf, t)) /\ MapAt(leaf, r) = MapOf(leaf, LeavesOf(leaf, r.tree))
  BY <1>5 DEF MapAt
<1>9. MapOf(leaf, LeavesOf(leaf, t)) = MapOf(leaf, LeavesOf(leaf, r.tree))
  BY <1>3, <1>4, CopySays DEF Inv, Heap
<1>10. M!Alive = alive /\ AllContents[x] = MapAt(leaf, r)
  BY <1>2, <1>5, MapsAre
<1>11. PICK m : m = [y \in {c} |-> AllContents[x]]
  OBVIOUS
<1>12. Puts(m)
  <2>1. \A y \in alive \ {c} : MapAt(leaf', root'[y]) = MapAt(leaf, root[y])
    BY <1>6, OthersMaps
  <2>2. DOMAIN m = {c} /\ m[c] = MapAt(leaf', root'[c])
    BY <1>7, <1>8, <1>9, <1>10, <1>11
  <2> QED
    BY <1>5, <2>1, <2>2 DEF Puts
<1>13. M!Put(m)
  BY <1>12, PutIs
<1>14. M!Copy(c, x)
  BY <1>5, <1>10, <1>11, <1>13 DEF M!Copy
<1> QED
  BY <1>1, <1>14

LEMMA StepsAsMaps == Inv /\ Inv' /\ TrueCopy => DoesAsMaps
<1> SUFFICES ASSUME Inv, Inv', TrueCopy  PROVE DoesAsMaps
  OBVIOUS
<1>1. ASSUME NEW c \in Containers
      PROVE  /\ Construct(c) => M!Create(c)
             /\ Clear(c) => M!Clear(c)
             /\ Destroy(c) => M!Destroy(c)
             /\ \A R \in Ranges : InsertRange(c, R) => M!Fill(c, R)
  BY ConstructMaps, ClearMaps, DestroyMaps, InsertMaps
<1>2. ASSUME NEW c \in Containers, NEW x \in Containers
      PROVE  /\ MoveEmpty(c, x) \/ MoveConstruct(c, x) \/ MoveAssign(c, x) => M!Move(c, x)
             /\ Swap(c, x) => M!Swap(c, x)
             /\ CopyEmpty(c, x) \/ AssignEmpty(c, x) => M!Copy(c, x)
             /\ CopyAssign(c, x) \/ AssignThrows(c, x) => M!Clear(c)
             /\ CopyConstruct(c, x) => UNCHANGED AllContents
  <2>1. MoveEmpty(c, x) \/ MoveConstruct(c, x) \/ MoveAssign(c, x) => M!Move(c, x)
    BY EmptyMaps, MoveMaps
  <2>2. Swap(c, x) => M!Swap(c, x)
    BY SwapMaps
  <2>3. CopyEmpty(c, x) \/ AssignEmpty(c, x) => M!Copy(c, x)
    BY EmptyMaps, AssignEmptyMaps
  <2>4. CopyAssign(c, x) \/ AssignThrows(c, x) => M!Clear(c)
    BY ClearMaps
  <2>5. CopyConstruct(c, x) => UNCHANGED AllContents
    BY StartMaps
  <2> QED
    BY <2>1, <2>2, <2>3, <2>4, <2>5
<1>3. CopyChildLeaf \/ CopyChildInner \/ ChildCopied \/ CopyThrows => UNCHANGED AllContents
  BY RunningMaps
<1>4. CopyEnds => M!Copy(job.to, job.from)
  BY EndMaps
<1> QED
  BY <1>1, <1>2, <1>3, <1>4 DEF DoesAsMaps

\* Every operation does to the contents of all containers what the same
\* operation does to maps, however the trees are shaped and wherever a copy
\* throws: a copy becomes equal to its source when it ends, and no container
\* changes through what is done to another one.
THEOREM MapsImplemented == Spec => ImplementsMaps
<1>1. Init => Inv /\ TrueCopy
  BY InitInv DEF Init, TrueCopy, Idle
<1>2. Inv /\ TrueCopy /\ [Next]_vars => Inv' /\ TrueCopy'
  BY NextInv, NextTrue
<1>3. Inv /\ Inv' /\ TrueCopy => DoesAsMaps
  BY StepsAsMaps
<1>4. Spec => [][DoesAsMaps]_vars
  BY <1>1, <1>2, <1>3, PTL DEF Spec
<1>5. Init => M!Init
  BY DEF Init, AllContents, M!Init
<1>6. Spec => M!Init
  BY <1>5 DEF Spec
<1> QED
  BY <1>4, <1>6 DEF ImplementsMaps
=============================================================================
