---------------------------- MODULE NodeLayouts -----------------------------
(***************************************************************************)
(* The four layouts of an inner node of ar_tree, _Node_4, _Node_16,        *)
(* _Node_48 and _Node_256, as records with their arrays in them, and what  *)
(* each method and each constructor makes of such a record.  The module    *)
(* has no state; InnerNode lets a node live.                               *)
(***************************************************************************)
EXTENDS Layout, FiniteSetsExt

CONSTANTS
    Kids,        \* the nodes a slot can point to
    Nil,         \* nullptr
    EmptyMarker  \* EMPTY_MARKER, in child_index where there is no child

ASSUME MarkerAssumption == EmptyMarker \in Nat /\ EmptyMarker >= Cap48

ASSUME NilAssumption == Nil \notin Kids

-----------------------------------------------------------------------------
(* Layouts.  keys is used by _Node_4 and _Node_16, index by _Node_48.      *)

Slot == Kids \cup {Nil}

Unused == <<>>

Places(t) == 0..(MaxSize(t) - 1)

Sorted(t)  == t \in {"node_4", "node_16"}
Indexed(t) == t = "node_48"
Direct(t)  == t = "node_256"

Zeros(t)    == [p \in Places(t) |-> 0]
NoSlots(t)  == [p \in Places(t) |-> Nil]
NoIndex     == [b \in Byte |-> EmptyMarker]

Node(t, n, keys, index, slots) ==
    [type |-> t, count |-> n, keys |-> keys, index |-> index, slots |-> slots]

NodeShape(t) ==
    [type : {t}, count : 0..MaxSize(t),
     keys : IF Sorted(t) THEN [Places(t) -> Byte] ELSE {Unused},
     index : IF Indexed(t) THEN [Byte -> Places(t) \cup {EmptyMarker}] ELSE {Unused},
     slots : [Places(t) -> Slot]]

\* Where the scan `pos < count && keys[pos] < byte' stops.
LowerBound(n, b) == Min({p \in 0..n.count : p = n.count \/ n.keys[p] >= b})

\* A plausible slip: the scan of successor() stops at the key itself.
UpperBoundOrAt(n, b) == LowerBound(n, b)

\* Where the scan of successor(), `keys[pos] <= byte', stops.
UpperBound(n, b) == Min({p \in 0..n.count : p = n.count \/ n.keys[p] > b})

\* std::move of a tail of the first n places up or down by one place.
MakeRoom(a, p, n, x) ==
    [q \in DOMAIN a |-> IF q = p THEN x ELSE IF q \in (p + 1)..n THEN a[q - 1] ELSE a[q]]
CloseUp(a, p, n) == [q \in DOMAIN a |-> IF q \in p..(n - 2) THEN a[q + 1] ELSE a[q]]

-----------------------------------------------------------------------------
(* find().                                                                 *)

FindSorted(n, b) ==
    LET p == LowerBound(n, b)
    IN  IF p < n.count /\ n.keys[p] = b THEN n.slots[p] ELSE Nil

FindIndexed(n, b) == IF n.index[b] # EmptyMarker THEN n.slots[n.index[b]] ELSE Nil

Find(n, b) == CASE Sorted(n.type)  -> FindSorted(n, b)
                [] Indexed(n.type) -> FindIndexed(n, b)
                [] OTHER           -> n.slots[b]

Taken(n) == {b \in Byte : Find(n, b) # Nil}

\* The child map a node represents.
Represents(n) == [b \in Taken(n) |-> Find(n, b)]

-----------------------------------------------------------------------------
(* insert(), erase(), update_child_ptr().                                  *)

InsertSorted(n, b, c) ==
    LET p == LowerBound(n, b)
    IN  [n EXCEPT !.keys = MakeRoom(@, p, n.count, b),
                  !.slots = MakeRoom(@, p, n.count, c), !.count = @ + 1]

\* The first null slot, wherever it is.
FreePlaces(n) == {p \in DOMAIN n.slots : n.slots[p] = Nil}

InsertIndexed(n, b, c) ==
    LET p == Min(FreePlaces(n))
    IN  [n EXCEPT !.index[b] = p, !.slots[p] = c, !.count = @ + 1]

InsertDirect(n, b, c) == [n EXCEPT !.slots[b] = c, !.count = @ + 1]

Insert(n, b, c) == CASE Sorted(n.type)  -> InsertSorted(n, b, c)
                     [] Indexed(n.type) -> InsertIndexed(n, b, c)
                     [] OTHER           -> InsertDirect(n, b, c)

\* A plausible slip: the keys move up and the children do not.
EraseSortedKeysOnly(n, b) ==
    LET p == LowerBound(n, b)
    IN  IF p < n.count
        THEN [n EXCEPT !.keys = CloseUp(@, p, n.count), !.count = @ - 1]
        ELSE n

\* The place past the last child keeps what was there.
EraseSorted(n, b) ==
    LET p == LowerBound(n, b)
    IN  IF p < n.count
        THEN [n EXCEPT !.keys = CloseUp(@, p, n.count),
                       !.slots = CloseUp(@, p, n.count), !.count = @ - 1]
        ELSE n

\* A plausible slip: the slot is not set to null.
EraseIndexedSlotKept(n, b) ==
    [n EXCEPT !.index[b] = EmptyMarker, !.count = @ - 1]

EraseIndexed(n, b) ==
    [n EXCEPT !.slots[n.index[b]] = Nil, !.index[b] = EmptyMarker, !.count = @ - 1]

EraseDirect(n, b) == [n EXCEPT !.slots[b] = Nil, !.count = @ - 1]

Erase(n, b) == CASE Sorted(n.type)  -> EraseSorted(n, b)
                 [] Indexed(n.type) -> EraseIndexed(n, b)
                 [] OTHER           -> EraseDirect(n, b)

UpdateSorted(n, b, c) ==
    LET p == LowerBound(n, b)
    IN  IF p < n.count /\ n.keys[p] = b THEN [n EXCEPT !.slots[p] = c] ELSE n

UpdateIndexed(n, b, c) ==
    IF n.index[b] # EmptyMarker THEN [n EXCEPT !.slots[n.index[b]] = c] ELSE n

UpdateDirect(n, b, c) == IF n.slots[b] # Nil THEN [n EXCEPT !.slots[b] = c] ELSE n

Update(n, b, c) == CASE Sorted(n.type)  -> UpdateSorted(n, b, c)
                     [] Indexed(n.type) -> UpdateIndexed(n, b, c)
                     [] OTHER           -> UpdateDirect(n, b, c)

-----------------------------------------------------------------------------
(* minimum(), maximum(), successor(), predecessor(): the child the search  *)
(* goes on with, Nil where the code turns to the parent.                   *)

\* The bytes whose slot the scans over 256 entries stop at.
InUse(n) == {b \in Byte : IF Indexed(n.type) THEN n.index[b] # EmptyMarker
                                             ELSE n.slots[b] # Nil}

ChildAt(n, b) == IF Indexed(n.type) THEN n.slots[n.index[b]] ELSE n.slots[b]

First(n) == IF Sorted(n.type) THEN n.slots[0] ELSE ChildAt(n, Min(InUse(n)))

Last(n) == IF Sorted(n.type) THEN n.slots[n.count - 1] ELSE ChildAt(n, Max(InUse(n)))

After(n, b) ==
    IF Sorted(n.type)
    THEN LET p == UpperBound(n, b) IN IF p < n.count THEN n.slots[p] ELSE Nil
    ELSE LET S == {c \in InUse(n) : c > b} IN IF S = {} THEN Nil ELSE ChildAt(n, Min(S))

Before(n, b) ==
    IF Sorted(n.type)
    THEN LET p == Max({q \in -1..(n.count - 1) : q = -1 \/ n.keys[q] < b})
         IN  IF p >= 0 THEN n.slots[p] ELSE Nil
    ELSE LET S == {c \in InUse(n) : c < b} IN IF S = {} THEN Nil ELSE ChildAt(n, Max(S))

-----------------------------------------------------------------------------
(* The constructors.  Each takes the count of the new node from the        *)
(* capacity of the smaller layout, not from the node it is given.          *)

\* _Node_4(leaf, key_byte, depth).
NewNode4(b, c) ==
    Node("node_4", 1, [Zeros("node_4") EXCEPT ![0] = b], Unused,
         [NoSlots("node_4") EXCEPT ![0] = c])

\* A plausible slip: the count of the new layout's smallest node.
Grow4AtMinimum(n) ==
    Node("node_16", MinSize("node_16"),
         [p \in Places("node_16") |-> IF p < Cap4 THEN n.keys[p] ELSE 0], Unused,
         [p \in Places("node_16") |-> IF p < Cap4 THEN n.slots[p] ELSE Nil])

\* _Node_16(_Node_4 *).
Grow4(n) ==
    Node("node_16", Cap4,
         [p \in Places("node_16") |-> IF p < Cap4 THEN n.keys[p] ELSE 0], Unused,
         [p \in Places("node_16") |-> IF p < Cap4 THEN n.slots[p] ELSE Nil])

\* _Node_48(_Node_16 *): of two equal keys the later place would win.
Grow16(n) ==
    LET at(b) == {p \in 0..(Cap16 - 1) : n.keys[p] = b}
    IN  Node("node_48", Cap16, Unused,
             [b \in Byte |-> IF at(b) = {} THEN EmptyMarker ELSE Max(at(b))],
             [p \in Places("node_48") |-> IF p < Cap16 THEN n.slots[p] ELSE Nil])

\* _Node_256(_Node_48 *).
Grow48(n) ==
    Node("node_256", Cap48, Unused, Unused, [b \in Byte |-> FindIndexed(n, b)])

GrownNode(n) == CASE n.type = "node_4"  -> Grow4(n)
                  [] n.type = "node_16" -> Grow16(n)
                  [] OTHER              -> Grow48(n)

\* _Node_4(_Node_16 *).
Shrink16(n) ==
    Node("node_4", Cap4, [p \in Places("node_4") |-> n.keys[p]], Unused,
         [p \in Places("node_4") |-> n.slots[p]])

\* _Node_16(_Node_48 *) and _Node_48(_Node_256 *) before their loop...
Shrink48Begins  == Node("node_16", Cap16, Zeros("node_16"), Unused, NoSlots("node_16"))
Shrink256Begins == Node("node_48", Cap48, Unused, NoIndex, NoSlots("node_48"))

\* ... and what one turn of it does with a child at byte b.
Shrink48Copies(m, n, b, p) ==
    [m EXCEPT !.keys[p] = b, !.slots[p] = n.slots[n.index[b]]]
Shrink256Copies(m, n, b, p) ==
    [m EXCEPT !.index[b] = p, !.slots[p] = n.slots[b]]

-----------------------------------------------------------------------------
(* The copy constructors.  A child stands for the subtree below it here,   *)
(* and so does the copy that is made of it.                                *)

\* The copy before copy_children: everything but the children.
CopyBegins(n) == [n EXCEPT !.slots = NoSlots(n.type)]

\* The turns of the loop in copy_children.
CopyTurns(n) == IF Sorted(n.type) THEN 0..(n.count - 1) ELSE Byte

\* The copy of a _Node_48 puts the child where child_index says, but takes it
\* from the slot that has the number of the byte.
CopiedIndexed(m, n, b) ==
    IF n.index[b] # EmptyMarker THEN [m EXCEPT !.slots[n.index[b]] = n.slots[b]] ELSE m

CopiedSorted(m, n, p) == [m EXCEPT !.slots[p] = n.slots[p]]

CopiedDirect(m, n, b) == IF n.slots[b] # Nil THEN [m EXCEPT !.slots[b] = n.slots[b]] ELSE m

\* One turn of the loop in copy_children.
Copied(m, n, p) == CASE Sorted(n.type)  -> CopiedSorted(m, n, p)
                     [] Indexed(n.type) -> CopiedIndexed(m, n, p)
                     [] OTHER           -> CopiedDirect(m, n, p)

\* Does turn p read a slot that is there and has a child?
CopyReads(n, p) ==
    Indexed(n.type) /\ n.index[p] # EmptyMarker => p \in Places(n.type) /\ n.slots[p] # Nil

\* Every child of a _Node_48 lies in the slot with the number of its byte.
IndexIsByte(n) == \A b \in Byte : n.index[b] \in {b, EmptyMarker}

-----------------------------------------------------------------------------
(* What the methods rely on in the arrays they are given.                  *)

Ascending(n) ==
    /\ \A p, q \in 0..(n.count - 1) : p < q => n.keys[p] < n.keys[q]
    /\ \A p \in 0..(n.count - 1) : n.slots[p] # Nil

ExactIndex(n) ==
    /\ \A b, c \in Byte : n.index[b] = n.index[c] /\ n.index[b] # EmptyMarker => b = c
    /\ \A p \in Places("node_48") : n.slots[p] # Nil <=> \E b \in Byte : n.index[b] = p
=============================================================================
