--------------------------- MODULE MCKeyTransform ----------------------------
(***************************************************************************)
(* Bytes of two bits.  Of the types of one and two bytes, their pairs and  *)
(* short strings, all keys; of the others, those that have at most one     *)
(* byte that is neither all zeros nor all ones, at either end and around   *)
(* zero.                                                                   *)
(***************************************************************************)
EXTENDS KeyTransform

Integer(s, n) == [sort |-> s, size |-> n]

PairOf(a, b) == [sort |-> "pair", first |-> a, second |-> b]

MCTypes ==
    {Integer(s, n) : s \in {"unsigned", "signed"}, n \in {1, 2, 4, 8}}
      \cup {PairOf(Integer("signed", 2), Integer("unsigned", 1)),
            PairOf(Integer("unsigned", 1), Integer("signed", 2))}
      \cup {[sort |-> "string", size |-> MaxSize]}

\* Bit patterns of n bytes that are mostly zeros or mostly ones.
Patterns(n) ==
    LET few == {d * Base^i : d \in 0..(Base - 1), i \in 0..(n - 1)}
    IN  few \cup {Word(n) - 1 - v : v \in few}

\* The number that a bit pattern stands for.
ValueOf(t, v) == IF t.sort = "signed" /\ Negative(v, t.size) THEN v - Word(t.size) ELSE v

IntegerKeys(t) ==
    {ValueOf(t, v) : v \in IF t.size <= 2 THEN 0..(Word(t.size) - 1) ELSE Patterns(t.size)}

MCKeys(t) ==
    CASE t.sort = "pair" -> IntegerKeys(t.first) \X IntegerKeys(t.second)
      [] t.sort = "string" -> UNION {[1..n -> 1..(Base - 1)] : n \in 0..(MaxSize - 1)}
      [] OTHER -> IntegerKeys(t)
=============================================================================
