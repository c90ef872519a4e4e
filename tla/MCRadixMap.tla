----------------------------- MODULE MCRadixMap ------------------------------
(***************************************************************************)
(* Two containers, loops over one of them, three keys of which one has a   *)
(* choice of values, and ranges in which a key comes twice and keys come   *)
(* that may be present.                                                    *)
(***************************************************************************)
EXTENDS RadixMap

MCKeys == 1..3

MCValues == 0..1

MCGiven == [k \in Keys |-> IF k = 2 THEN Values ELSE {0}]

Pair(k, v) == [key |-> k, value |-> v]

MCLists == {<<>>, <<Pair(2, 1)>>, <<Pair(3, 0), Pair(2, 1), Pair(1, 0), Pair(2, 0)>>}
=============================================================================
