----------------------------- MODULE OrderedMap -----------------------------
(***************************************************************************)
(* What a container of this library promises its client, whatever tree it  *)
(* is built on: a finite map from keys to values, ordered by the keys, in  *)
(* which every operation takes effect at one instant and then answers.     *)
(*                                                                         *)
(* answer is the result of the last operation until the client has read    *)
(* it: the key it was asked about (no key for the calls that take none),   *)
(* the position it returned (no key stands for end()) and whether it       *)
(* changed the container.                                                  *)
(***************************************************************************)
CONSTANTS
    Keys,         \* the keys
    Values,       \* the mapped values
    Before(_, _)  \* the order of the keys

VARIABLES content, answer

NoAnswer == [op |-> "none", asked |-> {}, at |-> {}, did |-> FALSE]

Answer(o, asked, at, did) == [op |-> o, asked |-> asked, at |-> at, did |-> did]

Stored == DOMAIN content

TypeOK ==
    /\ Stored \subseteq Keys
    /\ content \in [Stored -> Values]
    /\ answer \in [op : STRING, asked : SUBSET Keys, at : SUBSET Keys, did : BOOLEAN]

Smallest(S) == {k \in S : \A j \in S \ {k} : Before(k, j)}
Largest(S)  == {k \in S : \A j \in S \ {k} : Before(j, k)}

Above(k) == {j \in Stored : Before(k, j)}
Below(k) == {j \in Stored : Before(j, k)}

Init == /\ content = [k \in {} |-> CHOOSE v \in Values : TRUE]
        /\ answer = NoAnswer

\* insert and emplace: a key that is present keeps its value.
Put(o, k, v) ==
    /\ content' = [j \in Stored \cup {k} |-> IF j \in Stored THEN content[j] ELSE v]
    /\ answer' = Answer(o, {k}, {k}, k \notin Stored)

Remove(k, o, at, did) ==
    /\ content' = [j \in Stored \ {k} |-> content[j]]
    /\ answer' = Answer(o, {k}, at, did)

Erase(k) == Remove(k, "erase", {}, k \in Stored)

\* erase(iterator) answers with the position after the erased one.
EraseAt(k) ==
    /\ k \in Stored
    /\ Remove(k, "erase_at", Smallest(Above(k)), TRUE)

Clear == /\ content' = [j \in {} |-> content[j]]
         /\ answer' = Answer("clear", {}, {}, TRUE)

\* An operation that only looks.
Look(o, asked, at) ==
    /\ answer' = Answer(o, asked, at, FALSE)
    /\ UNCHANGED content

Find(k)  == Look("find", {k}, Stored \cap {k})
Lower(k) == Look("lower", {k}, Smallest((Stored \cap {k}) \cup Above(k)))
Upper(k) == Look("upper", {k}, Smallest(Above(k)))
Begin    == Look("begin", {}, Smallest(Stored))

\* ++it and --it.  Decrementing begin() wraps around to the last element.
Successor(k) == k \in Stored /\ Look("next", {k}, Smallest(Above(k)))
Predecessor(k) ==
    /\ k \in Stored
    /\ Look("prev", {k}, IF Below(k) = {} THEN Largest(Stored) ELSE Largest(Below(k)))
PrevEnd  == Stored # {} /\ Look("prev", {}, Largest(Stored))

Read == answer # NoAnswer /\ answer' = NoAnswer /\ UNCHANGED content

Operation ==
    \/ \E k \in Keys, v \in Values : \E o \in {"insert", "emplace"} : Put(o, k, v)
    \/ \E k \in Keys : Erase(k) \/ EraseAt(k)
    \/ \E k \in Keys : Find(k) \/ Lower(k) \/ Upper(k) \/ Successor(k) \/ Predecessor(k)
    \/ Clear \/ Begin \/ PrevEnd

\* An operation begins when the last answer has been read, and ends with one.
Next ==
    \/ answer = NoAnswer /\ answer' # NoAnswer /\ Operation
    \/ Read

Spec == Init /\ [][Next]_<<content, answer>>
=============================================================================
