---------------------------- MODULE MCContainers -----------------------------
(***************************************************************************)
(* Two containers and three keys of three chunks.  A tree is a leaf, or a  *)
(* one-way root above a node with a leaf and a node with two leaves.       *)
(***************************************************************************)
EXTENDS Containers

MCByte == {0, 1}

MCKeys == {<<0, 0, 0>>, <<0, 0, 1>>, <<0, 1, 1>>}

CONSTANTS v1, v2

Valued(S) == [k \in S |-> IF k = <<0, 0, 1>> THEN v1 ELSE v2]

MCRanges == {Valued({<<0, 0, 1>>}), Valued(MCKeys)}
=============================================================================
