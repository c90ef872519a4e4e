------------------------------- MODULE Layout -------------------------------
(***************************************************************************)
(* The four layouts of an inner node, their capacities, and the order in   *)
(* which a node passes through them.  min_size() of each layout is one     *)
(* more than the capacity of the one below it.                             *)
(***************************************************************************)
EXTENDS Integers, FiniteSets

CONSTANTS
    MaxByte,  \* the largest value of a chunk, 255 in the code
    Cap4,     \* std::array sizes of _Node_4, _Node_16 and _Node_48; that of
    Cap16,    \* _Node_256 is the number of byte values
    Cap48

Byte == 0..MaxByte

Cap256 == MaxByte + 1

ASSUME SizesAssumption ==
    /\ MaxByte \in Nat
    /\ Cap4 \in Nat \ {0, 1}
    /\ Cap16 \in Nat /\ Cap48 \in Nat
    /\ Cap4 < Cap16 /\ Cap16 < Cap48 /\ Cap48 < Cap256

InnerTypes == {"node_4", "node_16", "node_48", "node_256"}

\* min_size() and max_size() of an inner node.
MaxSize(t) ==
    CASE t = "node_4"   -> Cap4
      [] t = "node_16"  -> Cap16
      [] t = "node_48"  -> Cap48
      [] OTHER          -> Cap256

\* A plausible slip: the capacity of the layout below, not one more.
MinSizeTooLow(t) ==
    CASE t = "node_4"   -> 2
      [] t = "node_16"  -> Cap4
      [] t = "node_48"  -> Cap16
      [] OTHER          -> Cap48

MinSize(t) ==
    CASE t = "node_4"   -> 2
      [] t = "node_16"  -> Cap4 + 1
      [] t = "node_48"  -> Cap16 + 1
      [] OTHER          -> Cap48 + 1

\* The layout grow() allocates for a full node.
Grown(t) ==
    CASE t = "node_4"  -> "node_16"
      [] t = "node_16" -> "node_48"
      [] OTHER         -> "node_256"

\* The layout shrink() allocates for a node that is below its minimum.
Shrunk(t) ==
    CASE t = "node_256" -> "node_48"
      [] t = "node_48"  -> "node_16"
      [] OTHER          -> "node_4"
=============================================================================
