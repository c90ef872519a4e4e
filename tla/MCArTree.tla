------------------------------ MODULE MCArTree ------------------------------
(***************************************************************************)
(* Small instances of ArTree.  Chunks have five values and the layouts     *)
(* hold 2, 3, 4 and 5 children, so that five keys drive a node through all *)
(* of them and back.                                                       *)
(***************************************************************************)
EXTENDS ArTree

Key3(a, b, c) == [i \in 0..2 |-> <<a, b, c>>[i + 1]]

\* Five keys that differ in the last chunk only, one that parts from them a
\* level above, and two at the root, which grows and shrinks too.
MCKeys == {Key3(1, 1, 0), Key3(1, 1, 1), Key3(1, 1, 2), Key3(1, 1, 3), Key3(1, 1, 4),
           Key3(1, 2, 0), Key3(0, 3, 3), Key3(3, 1, 1)}

TwoKeys == {Key3(1, 1, 0), Key3(1, 1, 3)}

CONSTANTS v1, v2

\* One key with a choice of values is enough to see whose value is kept.
MCGiven == [k \in Keys |-> IF k = Key3(1, 1, 3) THEN {v1, v2} ELSE {v1}]
=============================================================================
