------------------------------ MODULE MapCalls ------------------------------
(***************************************************************************)
(* What the calls of radix_map and radix_set promise that are made of      *)
(* several calls of the tree: each does its whole work at one instant and  *)
(* leaves its result in answer.  Keys and values are numbers, ordered as   *)
(* such; End, larger than every key, is the position end().                *)
(***************************************************************************)
EXTENDS Integers, FiniteSetsExt, Sequences

CONSTANTS Containers, Keys, Values, Default, Lists

VARIABLES maps, answer

End == Max(Keys) + 1

Empty == [k \in {} |-> Default]

NoAnswer == [op |-> "none", asked |-> <<>>, result |-> FALSE]

Answer(o, asked, r) ==
    answer = NoAnswer /\ answer' = [op |-> o, asked |-> asked, result |-> r]

Become(c, m) == maps' = [maps EXCEPT ![c] = m]

AtOrAfter(c, k) == Min({j \in DOMAIN maps[c] : j >= k} \cup {End})
After(c, k)     == Min({j \in DOMAIN maps[c] : j > k} \cup {End})

\* m and the elements of list L whose keys are not in m: the first of each key.
Filled(m, L) ==
    LET given == {L[i].key : i \in 1..Len(L)}
        first(k) == Min({i \in 1..Len(L) : L[i].key = k})
    IN  [k \in DOMAIN m \cup given |-> IF k \in DOMAIN m THEN m[k] ELSE L[first(k)].value]

\* Whether the elements of a, as a sequence, come before those of b: decided
\* at the first key at which the two differ.
Precedes(a, b) ==
    LET differ == {k \in DOMAIN a \cup DOMAIN b :
                      ~(k \in DOMAIN a \cap DOMAIN b /\ a[k] = b[k])}
        d == Min(differ)
    IN  /\ differ # {}
        /\ \/ d \in DOMAIN a \cap DOMAIN b /\ a[d] < b[d]
           \/ d \notin DOMAIN b /\ \E k \in DOMAIN b : k > d
           \/ d \notin DOMAIN a /\ \A k \in DOMAIN a : k < d

Related(o, a, b) ==
    \/ o = "==" /\ a = b
    \/ o = "!=" /\ a # b
    \/ o \in {"<", "<="} /\ Precedes(a, b)
    \/ o \in {">", ">="} /\ Precedes(b, a)
    \/ o \in {"<=", ">="} /\ a = b

Init == maps = [c \in Containers |-> Empty] /\ answer = NoAnswer

Insert(c, k, v) ==
    /\ Become(c, Filled(maps[c], <<[key |-> k, value |-> v]>>))
    /\ Answer("insert", <<c, k, v>>, k \notin DOMAIN maps[c])

Erase(c, k) ==
    /\ Become(c, [j \in DOMAIN maps[c] \ {k} |-> maps[c][j]])
    /\ Answer("erase", <<c, k>>, IF k \in DOMAIN maps[c] THEN 1 ELSE 0)

Write(c, k, v) ==
    /\ k \in DOMAIN maps[c] /\ Become(c, [maps[c] EXCEPT ![k] = v])
    /\ UNCHANGED answer

\* An element goes while the client's loop is at it.
Drop(c, k) ==
    /\ Become(c, [j \in DOMAIN maps[c] \ {k} |-> maps[c][j]])
    /\ UNCHANGED answer

Read == answer' = NoAnswer /\ UNCHANGED maps

Subscript(c, k) ==
    LET m == Filled(maps[c], <<[key |-> k, value |-> Default]>>)
    IN  Become(c, m) /\ Answer("subscript", <<c, k>>, m[k])

\* No value stands for the exception out_of_range.
At(c, k) ==
    /\ Answer("at", <<c, k>>, IF k \in DOMAIN maps[c] THEN {maps[c][k]} ELSE {})
    /\ UNCHANGED maps

Count(c, k) ==
    Answer("count", <<c, k>>, Cardinality(DOMAIN maps[c] \cap {k})) /\ UNCHANGED maps

EqualRange(c, k) ==
    Answer("equal_range", <<c, k>>, <<AtOrAfter(c, k), After(c, k)>>) /\ UNCHANGED maps

EraseRange(c, p, q) ==
    /\ Become(c, [k \in {j \in DOMAIN maps[c] : j < p \/ j >= q} |-> maps[c][k]])
    /\ Answer("erase_range", <<c, p, q>>, q)

InsertRange(c, L) ==
    Become(c, Filled(maps[c], L)) /\ Answer("insert_range", <<c, L>>, TRUE)

AssignRange(c, L) ==
    Become(c, Filled(Empty, L)) /\ Answer("assign_range", <<c, L>>, TRUE)

Compare(o, c, x) == Answer(o, <<c, x>>, Related(o, maps[c], maps[x])) /\ UNCHANGED maps

Next ==
    \/ \E c \in Containers :
       \/ \E k \in Keys :
             \/ Erase(c, k) \/ Subscript(c, k) \/ At(c, k) \/ Count(c, k) \/ EqualRange(c, k)
             \/ \E v \in Values : Insert(c, k, v) \/ Write(c, k, v)
             \/ Drop(c, k)
       \/ \E p, q \in DOMAIN maps[c] \cup {End} : p <= q /\ EraseRange(c, p, q)
       \/ \E L \in Lists : InsertRange(c, L) \/ AssignRange(c, L)
       \/ \E x \in Containers, o \in {"==", "!=", "<", "<=", ">", ">="} : Compare(o, c, x)
    \/ Read

Spec == Init /\ [][Next]_<<maps, answer>>
=============================================================================
