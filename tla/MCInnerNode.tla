---------------------------- MODULE MCInnerNode -----------------------------
(***************************************************************************)
(* Seven byte values and layouts for 2, 4, 5 and 7 children: every layout  *)
(* is entered from both sides, and _Node_256 has room to spare.            *)
(***************************************************************************)
EXTENDS InnerNode
=============================================================================
