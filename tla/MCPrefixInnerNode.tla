-------------------------- MODULE MCPrefixInnerNode --------------------------
(***************************************************************************)
(* Keys of three chunks of which a node keeps one prefix chunk: a node     *)
(* without a prefix and one with a prefix that is cut off.  At the chunk   *)
(* where the children part the keys have both ends of the range and a byte *)
(* between them.                                                           *)
(***************************************************************************)
EXTENDS PrefixInnerNode, TLC

Key(a, b, c) == [i \in Chunks |-> CASE i = 0 -> a [] i = 1 -> b [] OTHER -> c]

MCKeys == {Key(0, 2, 5), Key(2, 5, 0), Key(5, 0, 2)}

HeadOf(d, l, byte) == [depth |-> d, plen |-> l, prefix |-> [q \in PrefixSlots |-> byte]]

MCHeads == {HeadOf(1, 0, 0), HeadOf(0, 2, 2)}

Interchangeable == Permutations(Kids)
=============================================================================
