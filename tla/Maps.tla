-------------------------------- MODULE Maps ---------------------------------
(***************************************************************************)
(* What containers promise each other: each is a map of its own, a copy is *)
(* equal to its source and independent of it, a move empties the source,   *)
(* and swap exchanges two maps.  Only containers that have been            *)
(* constructed and not yet destroyed have a map.                           *)
(***************************************************************************)
CONSTANTS Containers, Keys, Values

VARIABLE maps

Alive == DOMAIN maps

Empty == [k \in {} |-> CHOOSE v \in Values : TRUE]

TypeOK ==
    /\ Alive \subseteq Containers
    /\ \A c \in Alive : DOMAIN maps[c] \subseteq Keys /\ maps[c] \in [DOMAIN maps[c] -> Values]

Init == maps = [c \in {} |-> Empty]

\* Containers get new maps: m gives those of some, constructed before or not.
Put(m) == maps' = [c \in Alive \cup DOMAIN m |-> IF c \in DOMAIN m THEN m[c] ELSE maps[c]]

Create(c) == c \in Containers \ Alive /\ Put([x \in {c} |-> Empty])

Destroy(c) == c \in Alive /\ maps' = [x \in Alive \ {c} |-> maps[x]]

Fill(c, R) == c \in Alive /\ maps[c] = Empty /\ Put([x \in {c} |-> R])

Clear(c) == c \in Alive /\ Put([x \in {c} |-> Empty])

Copy(c, x) == x \in Alive /\ Put([y \in {c} |-> maps[x]])

\* A container that is moved to itself ends up empty.
Move(c, x) ==
    x \in Alive /\ Put([y \in {c, x} |-> IF y = x THEN Empty ELSE maps[x]])

Swap(c, x) ==
    /\ c \in Alive /\ x \in Alive
    /\ Put([y \in {c, x} |-> IF y = c THEN maps[x] ELSE maps[c]])

Next ==
    \/ \E c \in Containers :
          \/ Create(c) \/ Destroy(c) \/ Clear(c)
          \/ \E S \in SUBSET Keys : \E R \in [S -> Values] : Fill(c, R)
          \/ \E x \in Containers : Copy(c, x) \/ Move(c, x) \/ Swap(c, x)

Spec == Init /\ [][Next]_maps
=============================================================================
