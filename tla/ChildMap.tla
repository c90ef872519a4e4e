------------------------------ MODULE ChildMap ------------------------------
(***************************************************************************)
(* What an inner node is to the tree, whatever its layout: a child for     *)
(* some of the byte values.                                                *)
(***************************************************************************)
CONSTANTS
    Bytes,  \* the byte values
    Kids    \* the children a slot can point to

VARIABLE kids

TypeOK == DOMAIN kids \subseteq Bytes /\ kids \in [DOMAIN kids -> Kids]

Init == \E b \in Bytes, c \in Kids : kids = [x \in {b} |-> c]

Put(b, c) ==
    /\ b \notin DOMAIN kids
    /\ kids' = [x \in DOMAIN kids \cup {b} |-> IF x = b THEN c ELSE kids[x]]

Remove(b) ==
    /\ b \in DOMAIN kids
    /\ kids' = [x \in DOMAIN kids \ {b} |-> kids[x]]

Redirect(b, c) ==
    /\ b \in DOMAIN kids
    /\ kids' = [kids EXCEPT ![b] = c]

Next == \E b \in Bytes : Remove(b) \/ \E c \in Kids : Put(b, c) \/ Redirect(b, c)

Spec == Init /\ [][Next]_kids
=============================================================================
