--------------------------- MODULE MCArPrefixTree ---------------------------
(***************************************************************************)
(* Small instances of ArPrefixTree.  A node keeps three chunks of its      *)
(* prefix, and keys of six chunks make prefixes of up to five: shorter     *)
(* than what is kept, exactly as long, and longer.                         *)
(***************************************************************************)
EXTENDS ArPrefixTree

Key6(a, b, c, d, e, f) == [i \in 0..5 |-> <<a, b, c, d, e, f>>[i + 1]]

\* Five keys that share five chunks, one that parts from them inside what a
\* node keeps of that prefix, and one that parts just behind it.  Neighbouring
\* chunks differ, so that one taken at a wrong depth is a wrong one.
MCKeys == {Key6(1, 2, 3, 4, 0, 0), Key6(1, 2, 3, 4, 0, 1), Key6(1, 2, 3, 4, 0, 2),
           Key6(1, 2, 3, 4, 0, 3), Key6(1, 2, 3, 4, 0, 4), Key6(1, 2, 3, 0, 1, 3),
           Key6(1, 2, 0, 3, 2, 4)}

FewKeys == {Key6(1, 2, 3, 4, 0, 4), Key6(1, 2, 3, 4, 0, 2), Key6(1, 2, 3, 0, 1, 3),
            Key6(1, 2, 0, 3, 2, 4)}

CONSTANTS v1, v2

\* One key with a choice of values is enough to see whose value is kept.
MCGiven == [k \in Keys |-> IF k = Key6(1, 2, 3, 4, 0, 2) THEN {v1, v2} ELSE {v1}]
=============================================================================
