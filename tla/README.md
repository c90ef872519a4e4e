# TLA+ specifications of cpp-art

cpp-art is a header-only C++ library of ordered containers, `radix_map` and
`radix_set`, on top of adaptive radix trees. This directory holds TLA+
specifications of it, TLC configurations that model-check them on small
instances, and proofs that TLAPS checks for every value of the constants.

## The system

| part | state it keeps | operations | depends on |
|---|---|---|---|
| `radix_map.h`, `radix_set.h`: the container interface | the tree `_M_t` | insert, emplace, erase, find, `operator[]`, `at`, bounds, iteration, comparison, swap | `ar_tree` if the transformed key has at most 6 bytes, `ar_prefix_tree` otherwise |
| `ar_tree.h`: radix tree without path compression | `_M_root`, `_M_count`, `_M_dummy_node` (with its own copy of the root and the end leaf), the nodes on the heap with parent pointers in both directions | insert_unique, emplace_unique, erase_unique, erase(iterator), clear, find, lower_bound, upper_bound, begin, end, iterators, copy, move, swap | the four node layouts, `key_transform` |
| `_Node_4`, `_Node_16`, `_Node_48`, `_Node_256`: layouts of an inner node | `_count`, `keys` or `child_index`, `children` | insert, erase, find, update_child_ptr, minimum, maximum, successor, predecessor, constructors that grow and shrink | |
| `ar_prefix_tree.h`: radix tree with path compression | as `ar_tree`, and a prefix in every inner node | as `ar_tree`, with `split_prefix_into_parent` and `compress_node_into_child` | its own copy of the layouts |
| `key_transform.h` | none | byte swap, sign flip, concatenation, string padding | |

The library is single threaded and keeps nothing on disk: there are no
messages, crashes or timeouts to model. What is hard in it is the shape of the
heap. Each operation moves pointers in several places (the slot of the parent,
the parent pointer of the child, the copy of the root in the dummy node) and
replaces nodes by others of a different layout; each of those steps relies on
what the calls before have left. A unit test reaches only few of the
combinations of depth, layout, one-way chains and position of the root. The
`hazards` in `PROJECT.json` list the places one by one.

What makes the parts correct:

- a tree is an ordered map to its client, whatever its shape; iterators and
  values stay valid until their element is erased; every call returns;
- the links of the tree agree (slot, parent pointer, chunks of the keys, dummy
  node) and no node is leaked;
- a node counts its children and has the layout that fits the count, because
  the constructors that change the layout assume exact counts;
- a layout represents a map from bytes to children, stale slots or not.

## Modules

| module | what it is |
|---|---|
| `Layout` | the constants of the layouts: byte range, capacities, `min_size`, `max_size`, which layout grows or shrinks into which |
| `ArNode` | keys cut into chunks, addresses, the heap, and a node as the map from bytes to children its layout represents; no state |
| `OrderedMap` | the abstract specification of a container: a finite map ordered by keys, each operation one step, with the answer it gives |
| `ArTree` | `ar_tree` step by step; `Map == INSTANCE OrderedMap WITH ...` is the refinement mapping |
| `ArPrefixTree` | `ar_prefix_tree` step by step, with the same refinement mapping to `OrderedMap` |
| `ChildMap` | the abstract specification of an inner node: a map from bytes to children |
| `NodeLayouts` | the four layouts in their physical arrays and what their methods do to them; no state |
| `InnerNode` | one inner node of `ar_tree` in its arrays; `Children == INSTANCE ChildMap WITH ...` |
| `PrefixInnerNode` | one inner node of `ar_prefix_tree`: the arrays, and the depth and prefix that have to come along; also implements `ChildMap` |
| `Maps` | the abstract specification of several containers: maps that are created, copied, moved, swapped, cleared and destroyed |
| `Containers` | several containers on one heap: construction, copy, move, assignment, swap, clear, destruction; implements `Maps` |
| `MapCalls` | the abstract specification of the calls of `radix_map` and `radix_set` that make several calls of the tree |
| `RadixMap` | those calls step by step, and loops of a client that inserts and erases meanwhile; implements `MapCalls` |
| `KeyTransform` | `key_transform` as arithmetic on words, and the comparison of two transformed keys |
| `MCArTree`, `MCArPrefixTree`, `MCInnerNode`, `MCPrefixInnerNode`, `MCContainers`, `MCRadixMap`, `MCKeyTransform` | the small instances for TLC |
| `TreeLemmas` | lemmas about sets of numbers, heaps and nodes; a well-formed tree as a predicate of its two heaps and its root, and how each change the operations of `ar_tree` are made of keeps it; the order of the keys |
| `LayoutLemmas` | lemmas about the operators of `NodeLayouts`, which both kinds of inner nodes are made of |
| `ArTreeProofs` | `ArTree`: types and the dummy node; the shape of the tree in every step, and what follows from it; the searches, and the refinement of `OrderedMap` |
| `ArPrefixTreeProofs` | `ArPrefixTree`: types and the dummy node; a well-formed tree with prefixes and how splits, merges and replacements of nodes keep it; the shape of the tree in every step, and what follows from it |
| `InnerNodeProofs` | `InnerNode`: the layouts in every step, and the refinement of `ChildMap` |
| `PrefixInnerNodeProofs` | `PrefixInnerNode`: the same for the layouts with a head, and the scans for a whole key |
| `RadixMapProofs` | `RadixMap`: the loops, and the composed calls as a refinement of `MapCalls` |
| `ContainersProofs` | `Containers`: the trees of all containers, what leaked and a copy under way in every step; what can be lost; the refinement of `Maps` |

The modules are levels of one system. A step of `RadixMap` is a whole call of the tree,
and what it does is what `OrderedMap` says. `ArTree` and `ArPrefixTree` show that the two
trees do so; there a node is what `ChildMap` describes (its `child` field). `InnerNode` and
`PrefixInnerNode` show that the layouts with their arrays behave like that under exactly
the sequences of operations the tree performs (a full node grows and then gets its next
child; a node below its minimum shrinks before anything else happens to it). In all of
these keys are the chunks that `KeyTransform` makes, whose order is that of the keys.
`Containers` looks at the same heap of nodes from the side: several trees, and the
operations that handle them as a whole.

### How the state of `ArTree` corresponds to the code

`inner` and `leaf` are the nodes that have been allocated and not deleted, by
address; a `LeafNode` that `emplace_unique` has made but not yet linked stays in
the local variables of the call. `root`, `dummyRoot` and `count` are `_M_root`,
`_M_dummy_node->_root` and `_M_count`. `call` holds where the running call is and
its local variables. The parent pointer of the end leaf and of the dummy node
never change and are not kept.

An address carries the layout and the chunks on the path to the place where the
node was made. The code compares addresses only for equality and every allocation
in the model checks that the address is not live, so this canonical choice hides
nothing; reuse of the address of a deleted node is included.

A call runs in steps, one for each turn of a loop or each recursive call
(`Descend`, `Climb`, `GoDown`, `ExtendTie`, `CompressInner`, `ClearChild`...) and one
for each replacement of a node (`SplitLeaf`, `GrowNode`, `ShrinkToNode`,
`ShrinkToLeaf`). The pure scans of a layout (the next larger byte, the smallest
byte) are one operator here, and steps over arrays in `InnerNode`. `insert` and
`emplace` share their actions and differ where the code differs: `insert_unique`
makes the leaf at the place where it links it, `emplace_unique` links it at its
end with `insert_leaf`, which takes the chunk from the depth of the parent.

`Given` says which values the client passes with a key. It may be a single one for most
keys: whether the value of a stored element is kept shows on any key with two.

A pointer is followed only if it points to a live node, and a chunk is read only
inside the key. A call that would do otherwise has no step left, which TLC reports
as a deadlock: all runs check for deadlock. The only calls the client is kept from
making are a bound beyond the only element (`LoneLeafBounds`) and, in `ArPrefixTree`, a
bound that exists but is hidden by a prefix (`HiddenBounds`), see "Findings".

### What is different in `ArPrefixTree`

The state is that of `ArTree`; a node has in addition `plen` (`_prefix_length`) and
`prefix` (`_prefix`, with the bytes that are stale past the length). `Branch(n)` is
`_depth + _prefix_length`, the chunk by which the children are told apart. The address
of a node carries the chunks down to there, which a split or a compression does not
change; the prefix bytes can therefore be compared with the address
(`PrefixIsShared`), although the actions never read them from it.

`prefix_mismatch_pos` compares with the kept bytes and, if they match and there are
more, with a key that it loads from `minimum()`; `split_prefix_into_parent` loads one
if the prefix fills the array. The way down to that leaf is `LoadDown`, one level a
step, and `Compared` says that the comparison is over. `SplitStored` and `SplitLoaded` are the
two branches of the split, `PassPrefix` and `PrefixDiffers` the other outcomes.
`insert` and `emplace` share `LinkLeaf`, which takes the chunk from the walk for the one
and from the parent for the other. `fix_after_erase` has two halves, `"shrink"` and
`"compress"`. The branch of `compress_node_into_child` for a leaf is left out: a node 4
above a single leaf has been replaced by `shrink` before, and a run in which it was
reached would end in a deadlock. The overlapping `std::move` in that function is taken as
the `memmove` that the standard libraries use for bytes.

A split (or a replacement) of a node and the `update_child_ptr` that follows it are one
step here, so the links of the tree agree in every state, also in the middle of a call;
in `ArTree` they do not while nodes are shrunk and compressed.

### How the state of `InnerNode` and `PrefixInnerNode` corresponds to the code

`node` holds the fields of the layout (`keys`, `index` for `child_index`, `slots` for
`children`, `count`) with everything that is stale in them. A move of a tail of an
array (`std::move`) is one step. In `InnerNode` the loops of the two shrink constructors
that scan 256 entries and the loops of the copy constructors are steps of their own, with
`i` and `pos` as in the code, since the hazard is that `pos` leaves the smaller array.
`made` is the node that such a constructor is filling. `next` says what the tree does next
with the node. A copied child is represented by the child it is a copy of.

`PrefixInnerNode` has the text of `ar_prefix_tree`, whose layouts differ in what else they
carry (`depth`, `plen`, `prefix`) and in the scans, which are given a whole key and look at the
chunk behind the prefix. A method or a constructor is one step there. Its node dies when
it is left with one child, because `compress_node_into_child` puts that child in its place.

`CopyAnyNode48` is FALSE where everything else about the layouts is examined: then the client
copies a container only if its nodes of 48 have their children in the slots that the
copy constructor reads (and, in `PrefixInnerNode`, no prefix). With TRUE the two findings about that
constructor appear.

### How the state of `Containers` corresponds to the code

`root`, `size` and `dummy` are `_M_root`, `_M_count` and `_M_dummy_node` of each container that is
`alive`. `inner` and `leaf` are the live nodes of all of them, leaked ones included, `dummyRoot` the
live dummy nodes with their copy of the root. The address of a node has the number of
its tree and the chunks on the path to it. A free number is taken when a tree or a dummy
node is made, always the lowest: it says nothing but which nodes were made together. If
none is free the call is not made; `Trees` and `Dummies` bound the heap.

Insertion of a range into an empty container and `clear()` are one step, since the trees are examined on their own; they serve to have
something to copy, move and lose. `job` is the recursion of `copy_node`: a stack of the nodes
whose copy constructors are running and the bytes whose children they have still to copy.
A copied node keeps the parent of the original until its caller corrects it, as in the
code. Any allocation in it and any copy of a value may throw (`CopyThrows`): the nodes
under construction are given back by the language, the ones finished below them are not,
and the target of an assignment, cleared before, stays empty.

Move assignment takes the root, the count and the parent pointer of the root, and leaves
what the target held where it was; of a container that is assigned to itself it leaves an
empty one. Assignment from an empty container calls `init()`, which makes a new dummy node
and forgets the old one. `LeaksAreKnown` says what
exactly each of these three places loses, and that memory is lost nowhere else.

### How the state of `RadixMap` corresponds to the code

`content` is what each container holds, `call` the call that is running with its local
variables and the contents when it was made, `answer` its result until the client has read
it. `was` and `asked` are there for the refinement mapping. A call that is one call of the tree
is one step; `operator[]`, `equal_range`, `erase(first, last)`, insertion and assignment of
ranges and the comparisons run in steps, one for each call of the tree or each turn of
`std::equal` or `std::lexicographical_compare`.

`loop` is a loop of the client over a container: the position of its iterator, the keys it
has come by (`seen`) and those that have been there since it began (`stayed`). In its body the
client inserts what it likes and erases any element but the one the iterator points to,
which it may erase by `it = erase(it)`. An iterator of the library is a position in the
tree and nothing more; there is no version to compare and no list of iterators to update, so
that everything rests on `++` and `--` being taken from the key.

### How the state of `KeyTransform` corresponds to the code

`keys` are two keys of one `type`, `chunk` is the loop of `value_compare` over their transformed
bytes. The operators are the functions of `key_transform.h` on words of `n` bytes: shifts
that drop what leaves the word, shifts of signed words that bring the sign in, masks, and
the exclusive or of the top bit. A signed number is represented by its bit pattern.
`bigEndian` is the machine; the bytes of a word are read in the order it stores them.

## Runs

| run | instance | what it shows |
|---|---|---|
| `tree` (`ArTree.cfg`) | 8 keys of 3 chunks, five alike in the first two; chunks 0..4, capacities 2/3/4/5; fairness | all invariants of the tree, `ElementsStay`, `CallsReturn` and `ImplementsMap` while chains of one-way nodes are built and compressed and nodes pass through all layouts, the root among them |
| `bound_beyond_lone_leaf` (`ArTreeLone.cfg`) | 2 keys, no restriction on bounds | a finding |
| `inner_layouts` (`InnerNode.cfg`) | bytes 0..6, capacities 2/4/5/7, 2 children | exact arrays, exact count, the shrink loops, the scans, `ImplementsChildMap` |
| `copy_of_node_48` (`InnerNodeCopy.cfg`) | the same, any node may be copied | a finding |
| `prefix_tree` (`ArPrefixTree.cfg`) | 7 keys of 6 chunks, five alike in the first five and two that part from them before; a node keeps 3 prefix chunks; fairness | all invariants, `CallsReturn` and `ImplementsMap` while prefixes of length 0 to 5 are split, shifted, reloaded and joined |
| `bound_hidden_by_prefix` (`ArPrefixTreeHidden.cfg`) | 4 keys, no restriction on bounds that end in a prefix | a finding |
| `prefix_layouts` (`PrefixInnerNode.cfg`) | bytes 0..5, capacities 2/3/5/6, two heads (no prefix; a prefix longer than what is kept), 3 keys | the head is carried along by every change of layout, the scans find the neighbours of whole keys, `ImplementsChildMap` |
| `prefix_copy_of_node_48` (`PrefixInnerNodeCopy.cfg`) | the same, any node may be copied | a finding |
| `containers` (`Containers.cfg`) | 2 containers, 3 keys of 3 chunks, 2 trees and 3 dummy nodes at a time, exceptions | no container has a node of another, what is lost, `ImplementsMaps`, every copy ends |
| `move_assign_leaks` (`ContainersLeak.cfg`) | the same with path compression | a finding |
| `map_calls` (`RadixMap.cfg`) | 2 containers, 3 keys, loops over one of them | every composed call does its work at one instant, loops come by every element that stays, in order, and end |
| `keys` (`KeyTransform.cfg`) | bytes of 2 bits; integers of 1, 2, 4 and 8 bytes, pairs, strings up to 2 characters; both byte orders | the order of the chunks is the order of the keys, and different keys have different chunks |

### Bounds

Everything the code does at a node depends on the order of chunks,
on whether a slot is occupied, and on whether the count is at the minimum or the
capacity of a layout. Capacities 2/3/4/5 (4/16/48/256 in the code) keep the four
layouts distinct and each non-empty, with the property that the minimum of a
layout is one more than the capacity of the layout below; five children in one
node therefore go through all of them, both ways. Three chunks give a root, a
middle and a last level, which is what splitting and compression distinguish: a
chain can begin at the root, below it, and end at the last chunk. One key has two
values to choose from, which shows whether one is overwritten. In `InnerNode` the
capacities leave room between minimum and capacity, so that insertions and erasures mix
within a layout, and `_Node_256` has two more entries than `_Node_48`.

Three kept prefix chunks (eight in the code) and six chunks in a key make prefixes of
length five, three and two, longer than what is kept, exactly as long, and shorter. One of
five is split inside what is kept and just behind it, one of three at its last chunk (both load
the rest from a leaf), and one of two at its first, where what follows is shifted.
Neighbouring chunks of a key differ, so that a chunk taken at a wrong depth is a wrong
chunk: with keys of equal chunks several wrong depths would not be noticed.

In `Containers` three keys make a root with one child, which has a leaf and a node with two
leaves below it: a copy goes down two levels, comes back, and links both kinds of children.
The other tree is a lone leaf. Two containers are what every operation takes. Two trees and
three dummy nodes at a time leave room for one that is leaked, after which calls that need
a new one are not made. An assignment frees the tree of its target before it copies, and the copy may
use its number again, so that a copy to a container with elements is made within two trees. The path compression of `ar_prefix_tree` removes the one-way root; the
same properties hold with `PathCompression = TRUE` in `Containers.cfg`.

In `RadixMap` three keys allow an element before, at and behind an iterator; the ranges are
empty, of one element, and one with a key that comes twice with different values. Every pair
of contents is compared with every operator.

In `KeyTransform` a byte of two bits has a sign bit and another one, and words have as many
bytes as in the code, so that every shift and mask of the byte swaps works on its own
bytes. Words of one and two bytes take all values, longer ones those with at most one byte
that is neither all zeros nor all ones; that includes zero, both neighbours of it and both
ends of the range.

Keys, bytes and values are not symmetric (they are ordered or carry chunks). The children
in `PrefixInnerNode` are, and that run declares it; its properties say nothing of liveness.

Deadlock is checked except where the program ends: `keys` (a comparison is over),
`prefix_layouts` and `prefix_copy_of_node_48` (the node is gone), `copy_of_node_48` (a null child
is copied).

### Fairness

`FairSpec` of the two trees adds weak fairness of `Running`, the steps of a call that has
begun; `Containers` that of the steps of a copy, without the one that throws; `RadixMap` that of the
steps of a composed call (`Works`). A call of a single-threaded library runs without anything
else in between, so this is what the execution of a C++ function provides. The client is
not fair: it need not call anything. In `RadixMap` it is assumed to read an answer it was given
(`WF_vars(Read)`, the return of a call), and that the body of its loop makes finitely many calls
in each turn; the calls of the body alternate with the turns, which are enabled again and again
but not all the time, hence `SF_vars(Loops)`. `CallsReturn` says that under these
assumptions every call ends, and every loop, although the client may go on inserting and
erasing: a loop goes in one direction over finitely many keys.

## Findings

`bound_beyond_lone_leaf`: `lower_bound` and `upper_bound` begin with
`previous_node = nullptr`. If the root is a leaf that lies before the key (for
`upper_bound`, also if it is the key) they call `successor` on the null pointer,
while the documentation in `radix_map.h` promises an iterator for every key. In the
other runs the client does not make that call, so that the rest of the behaviour
can be examined; the assumption is a constant and not hidden in an action.

`bound_hidden_by_prefix`: in the tree with path compression `lower_bound` and
`upper_bound` answer `end()` as soon as the key differs from a prefix on its way down. If
the key is smaller than the prefix, everything below that node is greater; if it is
larger, the next subtree may be. `EndIsBeyond` states what the documentation says, and the
run shows a state that violates it. A bound that ends in a prefix and has no greater
element is right and is part of the other runs.

`copy_of_node_48`: the copy constructor of `_Node_48` runs over the 256 bytes, asks
`child_index` whether there is a child, and then copies `children[i]`, where the position is
`child_index[i]`. It is right only as long as the children lie in the slots of their bytes.
The tests expect a copy to have the elements of the original; none of them copies a
container in which such a node has lived. The run shows a byte that leads to another
child, or a slot without one that is copied.

`prefix_copy_of_node_48`: in `ar_prefix_tree` the same constructor also leaves out the prefix and its
length, which those of the other three layouts carry along.

`move_assign_leaks`: move assignment overwrites the root of the target. The elements it held
are not deleted and nothing leads to them any more. The documentation of the containers
says that they meet the requirements of a container, which demand that all existing
elements are either assigned to or destroyed. `LeaksAreKnown` says what exactly is lost there, and in the two other places in which
memory is lost: the dummy node of a container that an empty one is assigned to, but none of its
elements, and what was complete of a copy that throws, but no node that was begun.

## What is proved

The proofs are about arbitrary constants under the named assumptions of the modules:
`SizesAssumption` (`Layout`: capacities ascend and the smallest is at least two),
`KeyLenAssumption`, `KeysAssumption` and `GivenAssumption` (`ArNode`), `LoneLeafAssumption`
(`ArTree`), `MaxPrefixAssumption` and `BoundsAssumption` (`ArPrefixTree`: a node keeps at least one chunk), `MarkerAssumption` and `NilAssumption` (`NodeLayouts`: the marker is not a place, null is
no child), `KeyAssumption` and `HeadsAssumption` (`PrefixInnerNode`: keys are chunks of bytes, and a node
that is made has a chunk left behind its prefix), the `KeysAssumption` of `RadixMap` (keys are a finite
set of numbers that is not empty, values are numbers, and the lists are made of the two), and `ShapeAssumption`
(`Containers`: the keys are finitely many sequences of bytes of one length, as `key_transform` makes them). TLC evaluates those of a module in every run of it.

- `ArTreeProofs!TypeCorrect`: `Spec => []TypeOK`. `TypeOK` is inductive. The proof has a
  lemma for each group of actions; the facts about heaps (allocation, deletion,
  writing a field) and about the smallest and largest element of a set of numbers are in
  `TreeLemmas`. The interesting part is that depths
  stay inside the key and that `Min` and `Max` are only taken of non-empty sets of
  occupied slots, so that every slot read yields a pointer.
- `ArTreeProofs!DummyFollows`: `Spec => []DummyTracksRoot`. The invariant is inductive on its
  own; only the actions that write `root` matter.
- `ArTreeProofs!ShapeHolds`: `Spec => []ShapeInv`, the inductive invariant of `ar_tree`. None of
  `SlotsFollowKeys`, `NothingLost`, `LayoutFitsSize` and `CountIsSize` is inductive: between `shrink`
  and the final `update_child_ptr` the tree is not whole, and what the next pointer is written to
  rests on the local variables of the call. `ShapeInv` therefore has two parts.
  - `Whole`: the tree is well formed *as the running call will leave it*. While a node is being
    replaced, the slot of its parent (or the root) still holds the address of the deleted node; the
    predicates of `TreeLemmas` read every slot through a substitution (`Subst`) of the replacement
    (`Instead`) for the deleted node (`Gone`), and the root through `RootView`. Seen like that, a
    removal never breaks the tree, and the update of the slot at the end is the moment at which
    the substitution is no longer needed (`Reread`). `Sized` lets the one node that the call is
    about to put right (`Unsized`) be off by one child, or be a one-way node.
  - one conjunct for each kind of step about its locals: the walk has followed the chunks of its
    key (`WalkFits`); the tie node has the old leaf as its only child and both keys agree so far
    (`TieFits`); the slot for the leaf of `emplace` is empty (`LinkFits`); the node that shrinks
    lies on the path of the erased key (`ShrinkFits`); `depth - j` is the depth of the leaf's parent
    and the leaf agrees with the erased key down to there, so that the chunk of the *erased* key
    leads to the slot of the *remaining* leaf (`CompressFits`, `RelinkFits`); and in `clear()` every
    live node is still to be reached by the recursion (`ClearFits`, `ToClear`), from which it follows
    that nothing is left at its end: a live node would hang from one that is less deep, and there
    is no least deep one.
- `ArTreeProofs!SlotsFollow`, `NoneLost`, `LayoutFits`, `CountExact`: `Spec => []SlotsFollowKeys`,
  `[]NothingLost`, `[]LayoutFitsSize` and `[]CountIsSize`, read off `ShapeInv`.
- `ArTreeProofs!ElementsAreKept`: `Spec => ElementsStay`, an action property. Only two actions need the
  invariant: `EraseLeaf` and `UnlinkLeaf` empty a slot they find by a chunk, and `ShapeInv` says that
  it holds the leaf of the key and not another.
- `ArTreeProofs!SearchHolds`: `Spec => []SearchKnows`, what the calls that climb know of the elements
  they have passed. A walk needs nothing more than `ShapeInv`: an element whose chunks agree with the
  key down to the end of the walk is the leaf the walk has come to (`WalkFinds`), since a node on the
  path of an element leads on to it (`Reach`; a node that did not would have a counterpart at each
  depth above, down from which the element hangs, and two nodes of one depth and one path are the
  same). For the bounds, `++`, `--` and `erase(iterator)`, `SearchKnows` says: the climb is at a node
  on the path of its key and everything below the part it has come through is not looked for
  (`ClimbKnows`); the node that the way down is at holds an element that is looked for before all
  others (`DownKnows`, `Holds`); and while an element is unlinked the call keeps the position behind
  it (`UnlinkKnows`). The order of keys enters by three facts: it is decided at the first chunk in
  which two keys differ (`LessAt`), keys that agree further with each other than with a third lie on
  the same side of it (`SameSide`), and what lies between two keys shares what they share (`Between`).
- `ArTreeProofs!Implements`: `Spec => ImplementsMap`, the refinement of `OrderedMap`. Each action is
  either one operation of the map, at the step that links or unlinks the leaf (`LinkPuts`,
  `FreeRemoves`), finds the answer (`WalkAnswers`, `PastTopSteps`, `ArriveAnswers`) or begins `clear()`,
  or leaves the map and its answer as they were (`OpenSteps`, `FixingSteps`, `ClearSteps`).
- `ArPrefixTreeProofs!ShapeHolds`: `Spec => []ShapeInv`, the inductive invariant of `ar_prefix_tree`, for any
  number of chunks that a node keeps of its prefix. Neither the types nor the four properties below are
  inductive: a split and a merge compute depths and prefix lengths from those of another node, and read
  chunks from a leaf they have looked for. `ShapeInv` says of the tree (`Whole`, at every step but those of `clear()`):
  - `Trie`: the address of a node holds the chunks down to where its children part (`Addressed`), its prefix
    begins where the slot of its parent ends (`Start`), each slot in use holds a node that has the
    chunks of the way to it and its parent field set to it (`Holds`), and each node but the root is in a slot (`InSlot`).
  - `Kepts`: the chunks that are kept are those of the address, as far as the prefix goes; what
    lies past them is stale and not spoken of.
  - `Counted` and `Sized`: counts are exact and in the bounds of the layout, but for the one node
    that the call has in its hands (`Short`), which may be one child short, and is a node 4 when the second half of
    `fix_after_erase` comes to it.

  and of the running call: a walk other than `find` agrees with the path of the node it is at, and the leaf it
  is loading for a prefix lies below that node (`WalkFits`); the slot for a new leaf is empty and the key leads
  to it (`LinkFits`); the erased key has led to the node that is fixed (`FixFits`); in `clear()` every node
  is on the stack or before a loop on it, below a node that branches earlier (`ClearFits`, `ToClear`).

  The steps rest on three lemmas about `Trie`, for the three things that happen to links: a node with one
  child is put above another (`NodePut`: both splits), such a node is taken away (`NodeGone`: both ways in which
  `fix_after_erase` removes it), and a node is replaced by a copy in another layout (`NodeReplaced`). `PointedTo`
  says that `update_child_ptr`, which finds the slot by a chunk of a *different* key, writes the slot of the
  replaced node and no other. `Comparison` is what `prefix_mismatch_pos` and the load find out: with the kept chunks and
  those of any leaf below, the first differing chunk is that between the key and the node's path. `JoinedKept` and the two
  split lemmas follow the kept chunks through the cases of a prefix that is shorter than, as long as, or longer than
  what a node keeps.
- `ArPrefixTreeProofs!TypeHolds`, `SlotsFollow`, `PrefixShared`, `NoneLost`, `LayoutFits`: `Spec => []TypeOK`,
  `[]SlotsFollowKeys`, `[]PrefixIsShared`, `[]NothingLost`, `[]LayoutFitsSize`, read off it. They hold for both
  values of `LoneLeafBounds` and `HiddenBounds`: what is wrong with those bounds does not touch the tree.
- `ArPrefixTreeProofs!DummyFollows`: `Spec => []DummyTracksRoot`, inductive on its own.
- `ArPrefixTreeProofs!SearchHolds`: `HiddenBounds = FALSE` implies `Spec => []SearchKnows`, what the searches
  know of the elements they have passed. It has the parts it has in `ArTree` (`ClimbKnows`, `DownKnows`,
  `UnlinkKnows`) and one more, since here a walk for a bound depends on where it can end: `WalkSeeks` says
  that a walk of `lower_bound` or `upper_bound` for which there is an answer meets no prefix that its key parts
  from. `find` compares only the kept part of a prefix that is longer than what a node keeps and may go on
  with a key that has parted from the path; it ends at a leaf, whose whole key it compares, or
  at an empty slot, and no element is missed either way (`WalkDecides`; `DiffersMisses` for a prefix that is
  seen to differ). `Reach` is about nodes that branch anywhere on the path of an element: a search
  that follows the chunks of an element cannot fall between two nodes.
- `ArPrefixTreeProofs!Implements`: `HiddenBounds = FALSE` implies `Spec => ImplementsMap`, the refinement of
  `OrderedMap`, one lemma for each group of actions as in `ArTree`.

  The hypothesis of the two is a defect of the code and not a convenience: a bound whose key parts from the
  stored ones inside a prefix is answered with `end()` although there is a larger element, as the run
  `bound_hidden_by_prefix` shows for TRUE. With FALSE the client asks for no such bound (`HiddenByPrefix`); all
  other calls are as they are. `LoneLeafBounds` may be either, here as in `ArTreeProofs!Implements`; but with TRUE
  that says little of the bounds beyond the only element: the call follows a null pointer and has no step left
  (`bound_beyond_lone_leaf`), and a refinement does not demand that a call comes to an answer.
- `RadixMapProofs!LoopsKeepOrder` and `LoopsSeeAll`: a loop over a container of any size, forward or
  backward, comes by the elements in their order, and by every one that stays. Neither
  property is inductive: it takes the relation of what was seen to the position of the
  iterator. `Inv` says that everything seen lies behind the iterator (`Behind`: before it in a
  forward loop, at it or after it in a backward one), that every element that stayed and lies
  behind was seen, that the sequence ascends or descends, that the iterator points to a stored
  element or the end, and that no composed call runs during a loop. Three lemmas carry the
  argument: `StepForward` and `StepBackward`, in which the next position leaves out no element,
  and `OtherStored`, in which an element away from the iterator comes or goes.
- `RadixMapProofs!CallsKeepTrack`: `Spec => []CallsHold`, for any containers, keys, values and lists: how far the
  running call has come, and that there is no answer before it ends. `CallFits` has one part for
  each kind of call:
  - `EraseFits`: of the elements there were, those from the first position asked for up to the iterator
    are gone and no others, and the iterator is still an element or the end and not beyond the last position.
  - `ListFits`: inserting the rest of the list into what is there leads where inserting the whole list
    would have led (`FilledFirst`: the first of equal keys counts, whether it was there or comes first in the list).
  - `CompareFits`: the elements before the two iterators are the same (`Matched`). Hence the order of the two
    containers is decided by the elements they are at (`LessDecides`), and, if the sizes are equal, so is
    equality (`EqualDecides`); that std::equal runs into the end of the second range first cannot happen.
    `OrderIsTotal` says that of two containers one precedes the other or they are equal, which
    `>=` and `<=`, negations of `<`, rest on.
  - `SubscriptFits`, `EqualRangeFits`: nothing has changed since the first lookup.
- `RadixMapProofs!ImplementsCalls`: `Spec => ImplementsMapCalls`, the refinement of `MapCalls`: the maps are
  what they were when the running call was made, so a call begins and goes on without a change and does its work
  in its last step; a loop that erases changes the maps at once (`Drop`).
- `RadixMapProofs!TypeHolds`: `Spec => []TypeOK`: the iterators of loops, erasures and comparisons are at
  elements that are there, or the end. It takes both invariants.

- `InnerNodeProofs!LayoutHolds`: `Spec => []IInv`, for every byte range, any ascending capacities of
  which the last is the number of bytes, and any set of children; the code's 4, 16, 48 and 256
  are one choice. `ArraysExact` and `CountExact` are not inductive: the constructors write down the
  capacity of the smaller layout as the new count, which is right only if the node was
  exactly full, or exactly one child short, when they began, and the result of a shrink is right only if
  its loop was right at each turn. `IInv` says so:
  - `Sound`: the arrays of the layout are in order. `Counted`: the count is the cardinality
    of the set of bytes that are taken. With `SizeFits` (between operations the count is in the bounds of
    the layout) and `OneShort` (the node waits for exactly one child, or for one shrink) each constructor finds
    the node it was written for.
  - `Filling`: a shrink constructor that has come to byte `i` and place `pos` has made a node
    that is sound when it is read with `pos` for its count, has the children of the old node at the bytes
    below `i` and none above. That `pos` stays inside the smaller array is then a matter of numbers:
    there are never more taken bytes below `i` than children in all (`FillsExactly`).
  - `Cloning`: a copy has the slots of the turns it has had, and everything else at once.

  The lemmas it rests on are in `LayoutLemmas`, about the operators of `NodeLayouts`, one layout at a time: where the scans
  of sorted arrays stop (`Bounds`), what a slot and a byte mean to each other, and that each
  operation keeps `Sound` and does to `Represents` what the name says.
- `InnerNodeProofs!TypeHolds`, `ArraysStayExact`, `CountStaysExact`, `ShrinkStaysInside`,
  `ScansStayOrdered`: `Spec => []TypeOK`, `[]ArraysExact`, `[]CountExact`, `[]ShrinkFills`,
  `[]ScansFollowOrder`, read off `IInv`. The scans take the lemmas `SortedScans` and `WideScans`: the
  position next to a byte in a sorted array, or the first slot above it in a wide one, is the
  least byte above it that is taken.
- `InnerNodeProofs!ImplementsMapOfChildren`: `Spec => ImplementsChildMap`, the refinement of `ChildMap`.
- `InnerNodeProofs!CopyStaysFaithful`: `Spec => []CopyIsFaithful`.

- `PrefixInnerNodeProofs!PrefixedLayoutHolds`: `Spec => []IInv`, for every length of keys, capacity of the
  prefix, byte range, ascending capacities of the layouts, set of children and set of heads a node may be born
  with. The module has its own text for everything that changes a layout, as `ar_prefix_tree` has, and
  its shrink constructors are not the loops of `InnerNode` but what comes out of them: the p-th used byte
  goes to place p (`Ranked`). `Core(n)` is the node without its head; one lemma for each method and
  constructor says that it does to `Core(n)` what the operator of `LayoutLemmas` does, or for a shrink that
  the result is sound and has the same children (`Alike`), and that it hands on a head in which all that
  counts is the same (`Carries`). For the shrinks, `RanksAreExact`: the rank of a byte among the used ones is
  a bijection to the places below the count, so no two children go to one slot and none is left out.
  The invariant adds to `Sound` and `Counted` of the core what the count is when the node waits for a child
  or for a shrink, and `HeadFits`: depth and prefix leave a chunk of the key to branch by.
- `PrefixInnerNodeProofs!TypeHolds`, `CountStaysExact`, `ScansStayOrdered`: `Spec => []TypeOK`, `[]CountExact`,
  `[]ScansFollowKeys`, read off it. The scans are proved equal to those of the core at the byte that the
  key has at `Branch(node)`, which needs `HeadFits`; `SoundScans` does the rest.
- `PrefixInnerNodeProofs!HeadIsCarried` and `ImplementsMapOfChildren`: `Spec => HeadStays`, an action property,
  and `Spec => ImplementsChildMap`, the refinement of `ChildMap`.

All theorems of `InnerNodeProofs` and `PrefixInnerNodeProofs` have the hypothesis
`CopyAnyNode48 = FALSE`. It is not a convenience: the copy constructor of `_Node_48` reads the wrong
slots (and in `ar_prefix_tree` drops the prefix), the copy goes on as the node, and with TRUE what it makes is
not the map it is a copy of, as the runs `copy_of_node_48` and `prefix_copy_of_node_48` show. The
hypothesis leaves out only the copies of nodes of 48 whose children lie in other slots than
those of their bytes (`IndexIsByte`), and in `ar_prefix_tree` those with a prefix.

- `ContainersProofs!HeapInvariant`: `Spec => []Inv`, the inductive invariant of several containers on one heap, for any
  keys, values, containers, trees and dummy nodes, with and without path compression, and
  with or without exceptions. Neither `TypeOK` nor `OwnTrees` is inductive: both look at a tree by
  traversing it from its root (`Reach`), which says nothing of the tree a copy has not hung up yet, nor of
  what leaked, although later steps look for a free tree among all nodes. `Inv` therefore speaks of the
  nodes that carry the number of a tree, whoever has it:
  - `Heap`: a pointer to a child is to a live node of the same tree, further down, at the byte of its
    slot; this holds of every node in the heap, leaked ones included.
  - `Objects`: what a container has. Two containers have different trees and dummy nodes (`Apart`); all nodes
    with the number of its tree hang from its root, which hangs from its dummy node, and the count is the number of
    leaves among them (`Holds`, `Joined`). That a traversal comes to exactly these nodes is the
    lemma `TreeIsOwn`: one that is not reached would hang from a less deep one that is not.
  - `JobFits`: how far a copy has come. Its stack is a path in the source from the root down (`StackIn`). A
    slot of a copied node is null if its turn is still to come or its child is on the stack, and else leads to
    the copy of that child, which is hung up below the node (`SlotCopied`); no node is copied before the
    one it hangs from, and all nodes that have the number of the new tree are copies (`CopyIn`). When
    the stack is down to a root with nothing to do, the new tree is therefore `Joined` and its leaves are as many as those of
    the source, a bijection, which the count that is copied relies on.

  Trees that are made at once (`InsertRange`) are covered by lemmas about `BuiltInner` and `BuiltLeaves`: the parts
  of keys at which they branch, with and without path compression, make a `Joined` tree.
- `ContainersProofs!TypesHold`, `TreesAreOwn`: `Spec => []TypeOK` and `Spec => []OwnTrees`, read off it.
- `ContainersProofs!LeaksKnown`: `Spec => LeaksAreKnown`, an action property. With `Inv`, what leaked is the nodes
  whose tree belongs to no container and no running copy, and the dummy nodes of no container (`LeakedIs`). So it is enough
  to follow the trees a step touches: each belongs to someone before and after it, or has no nodes
  (`Tracked`). A copy that throws, a move assignment and an assignment from an empty container lose what `LeaksAreKnown`
  allows them to and nothing else (`ThrowLoses`, `MoveAssignLoses`, `AssignEmptyLoses`). For the first this takes the
  stack of the copy: what is not on it is complete, or not made yet.
- `ContainersProofs!MapsImplemented`: `Spec => ImplementsMaps`, the refinement of `Maps`. The contents of a container
  are the values of the leaves with its tree's number (`MapAt`); each step puts the right map into the containers it is about and
  leaves those of all others alone (`Puts`, `OthersKept`). A copy changes nothing until it ends;
  that it is then equal to its source takes one more invariant, that the leaves of the unfinished tree have the values of the leaves they were
  copied from (`TrueCopy`).

Only model-checked: `KeyTransform`, whose words use the community module `Bitwise`, which is recursive, so that nothing
can be proved about them here; and what must eventually happen (`CallsReturn`, `CopiesReturn`), which is out of
the prover's reach. All other invariants, action properties and refinements of the passing runs are theorems.

## Not modelled

- Exceptions in the middle of an insertion (an allocation, or a value that cannot be
  copied). After a node was grown or split and the leaf could not be made, the tree has a
  node below its minimum, or a one-way node above a leaf, which no other state of the tree
  has and which later calls do not expect. The specifications describe the tree of insertions
  that succeed; exceptions while a container is copied are part of `Containers`.
- `ART_DEBUG` printing, the benchmarks, the examples and the vendored libraries.
- Floating point keys, for which `key_transform` has no definition; strings of `MAX_SIZE` or more
  characters, for which its array has no room; strings that contain the character zero.
- `std::move` over overlapping ranges is taken to move as the standard library does in practice
  for trivially copyable elements.
- Iterators that outlive an assignment or a move of their container.
