--------------------------- MODULE RadixMapProofs ----------------------------
(***************************************************************************)
(* Loops over a container, for every finite set of keys and whatever the   *)
(* client inserts and erases in their bodies: they come by the elements in *)
(* their order and miss none that stays.  The invariant says what lies     *)
(* behind the iterator: everything that was seen, and nothing that was     *)
(* there all along and was not seen.                                       *)
(*                                                                         *)
(* The calls, for every set of containers, lists and values: each does at  *)
(* one instant what MapCalls promises of it.  The invariant says how far a *)
(* running call has come: what is gone of a range, where the rest of a     *)
(* list leads, and that the elements a comparison has passed are equal.    *)
(***************************************************************************)
EXTENDS RadixMap, TLAPS, WellFoundedInduction, FiniteSetTheorems, SequenceTheorems

-----------------------------------------------------------------------------
(* Sets of numbers.                                                        *)

\* A set of keys that is not empty has a smallest and, if it is finite, a
\* largest one.
LEMMA MinOfKeys ==
    ASSUME NEW S \in SUBSET Nat, S # {}
    PROVE  /\ Min(S) \in S
           /\ \A x \in S : Min(S) =< x
<1> DEFINE Smaller == {p \in Nat \X Nat : p[1] < p[2]}
<1>1. IsWellFoundedOn(Smaller, Nat)
  BY NatLessThanWellFounded DEF OpToRel
<1>2. PICK m \in S : \A x \in S : ~ (<<x, m>> \in Smaller)
  BY <1>1, WFMin
<1>3. ASSUME NEW x \in S, x < m  PROVE FALSE
  <2>1. <<x, m>> \in Nat \X Nat /\ <<x, m>>[1] < <<x, m>>[2]
    BY <1>3
  <2> QED
    BY <1>2, <2>1
<1>4. \A x \in S : m =< x
  BY <1>3
<1> QED
  BY <1>4 DEF Min

LEMMA MaxOfKeys ==
    ASSUME NEW S \in SUBSET Nat, IsFiniteSet(S), S # {}
    PROVE  /\ Max(S) \in S
           /\ \A x \in S : x =< Max(S)
<1> DEFINE HasMax(T) == \E m \in T : \A x \in T : x =< m
           Without == {T \in SUBSET S : T # {} /\ ~ HasMax(T)}
<1>1. IsWellFoundedOn(StrictSubsetOrdering(S), SUBSET S)
  BY FS_StrictSubsetOrderingWellFounded, FS_FiniteSubsetsOfFinite
<1>2. ASSUME Without # {}  PROVE FALSE
  <2>1. PICK T \in Without : \A U \in Without : ~ (<<U, T>> \in StrictSubsetOrdering(S))
    BY <1>1, <1>2, WFMin
  <2>2. PICK x \in T : TRUE
    BY <2>1
  <2>3. T \ {x} # {}
    <3>1. x \in Nat /\ x =< x
      BY <2>1, <2>2
    <3> QED
      BY <2>1, <2>2, <3>1
  <2>4. T \ {x} \notin Without
    BY <2>1, <2>2 DEF StrictSubsetOrdering
  <2>5. PICK m \in T \ {x} : \A y \in T \ {x} : y =< m
    BY <2>1, <2>3, <2>4
  <2>6. x \in Nat /\ m \in Nat /\ T \subseteq Nat
    BY <2>1, <2>2, <2>5
  <2>7. CASE x =< m
    BY <2>1, <2>2, <2>5, <2>6, <2>7
  <2>8. CASE m < x
    <3>1. \A y \in T : y =< x
      BY <2>2, <2>5, <2>6, <2>8
    <3> QED
      BY <2>1, <2>2, <3>1
  <2> QED
    BY <2>6, <2>7, <2>8
<1>3. HasMax(S)
  BY <1>2
<1> QED
  BY <1>3 DEF Max

-----------------------------------------------------------------------------
(* What is known of a loop and of a call.                                  *)

Elements == [key : Keys, value : Values]

\* What the calls that make several calls have to know of their arguments.
Arguments(c) ==
    /\ "op" \in DOMAIN c
    /\ c.op = "subscript" => c.key \in Keys
    /\ c.op \in {"insert_range", "assign_range"} =>
          "todo" \in DOMAIN c /\ c.todo \in Seq(Elements)

\* The elements of every container have keys.
KeysOnly(m) == DOMAIN m = Containers /\ \A c \in Containers : DOMAIN m[c] \subseteq Keys

LoopShape ==
    [op : {"loop"}, on : Containers, dir : {"forward", "backward"}, at : Positions,
     seen : Seq(Keys), stayed : SUBSET Keys]

\* The side of the iterator a loop has been on.
Behind(l, k) == IF l.dir = "forward" THEN k < l.at ELSE k >= l.at

Passed(l, stored) ==
    /\ l.stayed \subseteq stored
    /\ l.at \in stored \cup {End}
    /\ \A i \in 1..Len(l.seen) : Behind(l, l.seen[i])
    /\ \A k \in l.stayed : Behind(l, k) => \E i \in 1..Len(l.seen) : l.seen[i] = k
    /\ \A i, j \in 1..Len(l.seen) :
          i < j => IF l.dir = "forward" THEN l.seen[i] < l.seen[j] ELSE l.seen[i] > l.seen[j]

Inv ==
    /\ KeysOnly(content)
    /\ Arguments(call)
    /\ loop # None => call = None /\ loop \in LoopShape /\ Passed(loop, Stored(loop.on))

-----------------------------------------------------------------------------
(* Positions.                                                              *)

LEMMA EndIsLast ==
    /\ End \in Nat /\ Keys \subseteq Nat /\ Positions \subseteq Nat
    /\ \A k \in Keys : k < End
<1>1. Keys \in SUBSET Nat /\ IsFiniteSet(Keys) /\ Keys # {}
  BY KeysAssumption
<1>2. Max(Keys) \in Keys /\ \A x \in Keys : x =< Max(Keys)
  BY <1>1, MaxOfKeys
<1>3. Max(Keys) \in Nat /\ End = Max(Keys) + 1
  BY <1>1, <1>2 DEF End
<1>4. End \in Nat /\ \A k \in Keys : k < End
  BY <1>1, <1>2, <1>3
<1> QED
  BY <1>1, <1>4 DEF Positions

\* ++it goes to the next element, or to the end.
LEMMA NextPosition ==
    ASSUME NEW c, Stored(c) \subseteq Keys, NEW p \in Nat, p < End
    PROVE  /\ Following(c, p) \in Stored(c) \cup {End}
           /\ p < Following(c, p)
           /\ \A k \in Stored(c) : p < k => Following(c, p) =< k
<1> DEFINE S == {k \in Stored(c) : k > p} \cup {End}
<1>1. S \in SUBSET Nat /\ S # {}
  BY EndIsLast
<1>2. Min(S) \in S /\ \A x \in S : Min(S) =< x
  BY <1>1, MinOfKeys
<1>3. Following(c, p) = Min(S)
  BY DEF Following
<1>4. \A x \in S : x \in Stored(c) \cup {End} /\ p < x
  BY EndIsLast
<1>5. \A k \in Stored(c) : p < k => k \in S
  BY EndIsLast
<1> HIDE DEF S
<1> QED
  BY <1>2, <1>3, <1>4, <1>5

LEMMA FirstPosition ==
    ASSUME NEW c, Stored(c) \subseteq Keys
    PROVE  /\ Begin(c) \in Stored(c) \cup {End}
           /\ \A p \in Stored(c) \cup {End} : Begin(c) =< p
<1>1. Stored(c) \cup {End} \in SUBSET Nat /\ Stored(c) \cup {End} # {}
  BY EndIsLast
<1> QED
  BY <1>1, MinOfKeys DEF Begin

\* --it of any iterator but begin() goes to the element before.
LEMMA PreviousPosition ==
    ASSUME NEW c, Stored(c) \subseteq Keys, NEW p \in Stored(c) \cup {End}, p # Begin(c)
    PROVE  /\ Preceding(c, p) \in Stored(c)
           /\ Preceding(c, p) < p
           /\ \A k \in Stored(c) : k < p => k =< Preceding(c, p)
<1> DEFINE S == {k \in Stored(c) : k < p}
<1>1. p \in Nat /\ Stored(c) \subseteq Nat
  BY EndIsLast
<1>2. Begin(c) \in S
  BY <1>1, FirstPosition, EndIsLast
<1>3. IsFiniteSet(S)
  BY FS_Subset, KeysAssumption
<1>4. Max(S) \in S /\ \A x \in S : x =< Max(S)
  BY <1>1, <1>2, <1>3, MaxOfKeys
<1>5. Preceding(c, p) = Max(S)
  BY <1>2 DEF Preceding
<1> QED
  BY <1>1, <1>4, <1>5

-----------------------------------------------------------------------------
(* One turn of a loop.                                                     *)

\* What a loop has behind it once the element k is looked at.
LEMMA OneMore ==
    ASSUME NEW s \in Seq(Keys), NEW k \in Keys
    PROVE  /\ Append(s, k) \in Seq(Keys)
           /\ Len(Append(s, k)) = Len(s) + 1
           /\ Len(s) \in Nat
           /\ Append(s, k)[Len(s) + 1] = k
           /\ \A i \in 1..Len(s) : Append(s, k)[i] = s[i] /\ s[i] \in Keys
OBVIOUS

LEMMA StepForward ==
    ASSUME NEW l \in LoopShape, NEW stored \in SUBSET Keys, Passed(l, stored),
           l.dir = "forward", l.at # End,
           NEW p \in stored \cup {End}, l.at < p,
           \A k \in stored : l.at < k => p =< k
    PROVE  LET m == [l EXCEPT !.seen = Append(@, l.at), !.at = p]
           IN  m \in LoopShape /\ Passed(m, stored)
<1> DEFINE m == [l EXCEPT !.seen = Append(@, l.at), !.at = p]
<1>1. l.at \in stored /\ l.at \in Keys /\ l.at \in Nat /\ p \in Nat /\ p \in Positions
  BY EndIsLast DEF Passed, Positions
<1>2. l.seen \in Seq(Keys) /\ l.stayed \subseteq Keys /\ l.stayed \subseteq stored
  BY DEF LoopShape, Passed
<1>3. /\ m.seen = Append(l.seen, l.at) /\ m.at = p /\ m.stayed = l.stayed
      /\ m.dir = "forward" /\ m \in LoopShape
  BY <1>1, <1>2, OneMore DEF LoopShape
<1>4. /\ \A i \in 1..Len(l.seen) : l.seen[i] < l.at
      /\ \A k \in l.stayed : k < l.at => \E i \in 1..Len(l.seen) : l.seen[i] = k
      /\ \A i, j \in 1..Len(l.seen) : i < j => l.seen[i] < l.seen[j]
  BY DEF Passed, Behind
<1> HIDE DEF m
<1>5. /\ Len(m.seen) = Len(l.seen) + 1 /\ Len(l.seen) \in Nat
      /\ m.seen[Len(l.seen) + 1] = l.at
      /\ \A i \in 1..Len(l.seen) : m.seen[i] = l.seen[i] /\ l.seen[i] \in Nat
  <2>1. /\ Len(Append(l.seen, l.at)) = Len(l.seen) + 1 /\ Len(l.seen) \in Nat
        /\ Append(l.seen, l.at)[Len(l.seen) + 1] = l.at
        /\ \A i \in 1..Len(l.seen) : /\ Append(l.seen, l.at)[i] = l.seen[i]
                                     /\ l.seen[i] \in Keys
    BY <1>1, <1>2, OneMore
  <2> QED
    BY <1>3, <2>1, EndIsLast
<1>6. \A i \in 1..Len(m.seen) : Behind(m, m.seen[i])
  BY <1>1, <1>3, <1>4, <1>5 DEF Behind
<1>7. ASSUME NEW k \in m.stayed, Behind(m, k)
      PROVE  \E i \in 1..Len(m.seen) : m.seen[i] = k
  <2>1. k \in Nat /\ k \in stored /\ k \in l.stayed /\ k < p
    BY <1>2, <1>3, <1>7, EndIsLast DEF Behind
  <2>2. CASE k < l.at
    <3>1. PICK i \in 1..Len(l.seen) : l.seen[i] = k
      BY <1>4, <2>1, <2>2
    <3> QED
      BY <1>5, <3>1
  <2>3. CASE k = l.at
    BY <1>5, <2>3
  <2>4. CASE l.at < k
    BY <1>1, <2>1, <2>4
  <2> QED
    BY <1>1, <2>1, <2>2, <2>3, <2>4
<1>8. \A i, j \in 1..Len(m.seen) : i < j => m.seen[i] < m.seen[j]
  BY <1>4, <1>5
<1>9. m.stayed \subseteq stored /\ m.at \in stored \cup {End}
  BY <1>2, <1>3
<1>10. Passed(m, stored)
  BY <1>3, <1>6, <1>7, <1>8, <1>9 DEF Passed
<1> QED
  BY <1>3, <1>10 DEF m

LEMMA StepBackward ==
    ASSUME NEW l \in LoopShape, NEW stored \in SUBSET Keys, Passed(l, stored),
           l.dir = "backward",
           NEW p \in stored, p < l.at,
           \A k \in stored : k < l.at => k =< p
    PROVE  LET m == [l EXCEPT !.seen = Append(@, p), !.at = p]
           IN  m \in LoopShape /\ Passed(m, stored)
<1> DEFINE m == [l EXCEPT !.seen = Append(@, p), !.at = p]
<1>1. l.at \in Nat /\ p \in Nat /\ p \in Keys /\ p \in Positions
  BY EndIsLast DEF Passed, Positions
<1>2. l.seen \in Seq(Keys) /\ l.stayed \subseteq Keys /\ l.stayed \subseteq stored
  BY DEF LoopShape, Passed
<1>3. /\ m.seen = Append(l.seen, p) /\ m.at = p /\ m.stayed = l.stayed
      /\ m.dir = "backward" /\ m \in LoopShape
  BY <1>1, <1>2, OneMore DEF LoopShape
<1>4. /\ \A i \in 1..Len(l.seen) : l.seen[i] >= l.at
      /\ \A k \in l.stayed : k >= l.at => \E i \in 1..Len(l.seen) : l.seen[i] = k
      /\ \A i, j \in 1..Len(l.seen) : i < j => l.seen[i] > l.seen[j]
  BY DEF Passed, Behind
<1> HIDE DEF m
<1>5. /\ Len(m.seen) = Len(l.seen) + 1 /\ Len(l.seen) \in Nat
      /\ m.seen[Len(l.seen) + 1] = p
      /\ \A i \in 1..Len(l.seen) : m.seen[i] = l.seen[i] /\ l.seen[i] \in Nat
  <2>1. /\ Len(Append(l.seen, p)) = Len(l.seen) + 1 /\ Len(l.seen) \in Nat
        /\ Append(l.seen, p)[Len(l.seen) + 1] = p
        /\ \A i \in 1..Len(l.seen) : Append(l.seen, p)[i] = l.seen[i] /\ l.seen[i] \in Keys
    BY <1>1, <1>2, OneMore
  <2> QED
    BY <1>3, <2>1, EndIsLast
<1>6. \A i \in 1..Len(m.seen) : Behind(m, m.seen[i])
  BY <1>1, <1>3, <1>4, <1>5 DEF Behind
<1>7. ASSUME NEW k \in m.stayed, Behind(m, k)
      PROVE  \E i \in 1..Len(m.seen) : m.seen[i] = k
  <2>1. k \in Nat /\ k \in stored /\ k \in l.stayed /\ k >= p
    BY <1>2, <1>3, <1>7, EndIsLast DEF Behind
  <2>2. CASE k >= l.at
    <3>1. PICK i \in 1..Len(l.seen) : l.seen[i] = k
      BY <1>4, <2>1, <2>2
    <3> QED
      BY <1>5, <3>1
  <2>3. CASE k < l.at
    <3>1. k = p
      BY <1>1, <2>1, <2>3
    <3> QED
      BY <1>5, <3>1
  <2> QED
    BY <1>1, <2>1, <2>2, <2>3
<1>8. ASSUME NEW i \in 1..Len(m.seen), NEW j \in 1..Len(m.seen), i < j
      PROVE  m.seen[i] > m.seen[j]
  <2>1. i \in 1..Len(l.seen) /\ m.seen[i] = l.seen[i] /\ l.seen[i] \in Nat
    BY <1>5, <1>8
  <2>2. CASE j \in 1..Len(l.seen)
    BY <1>4, <1>5, <1>8, <2>1, <2>2
  <2>3. CASE j = Len(l.seen) + 1
    <3>1. l.seen[i] >= l.at /\ m.seen[j] = p
      BY <1>4, <1>5, <2>1, <2>3
    <3> QED
      BY <1>1, <2>1, <3>1
  <2> QED
    BY <1>5, <2>2, <2>3
<1>9. m.stayed \subseteq stored /\ m.at \in stored \cup {End}
  BY <1>2, <1>3
<1>10. Passed(m, stored)
  BY <1>3, <1>6, <1>7, <1>8, <1>9 DEF Passed
<1> QED
  BY <1>3, <1>10 DEF m

\* An element other than the one the iterator points to comes or goes, and is
\* no longer counted among those that were there all along.
LEMMA OtherStored ==
    ASSUME NEW l \in LoopShape, NEW stored \in SUBSET Keys, Passed(l, stored),
           NEW more \in SUBSET Keys, NEW left \in SUBSET l.stayed,
           left \subseteq more, l.at \in more \cup {End}
    PROVE  LET m == [l EXCEPT !.stayed = left]
           IN  m \in LoopShape /\ Passed(m, more)
<1> DEFINE m == [l EXCEPT !.stayed = left]
<1>1. /\ m.seen = l.seen /\ m.at = l.at /\ m.stayed = left /\ m.dir = l.dir
      /\ m \in LoopShape
  BY DEF LoopShape
<1> HIDE DEF m
<1>2. \A k : Behind(m, k) <=> Behind(l, k)
  BY <1>1 DEF Behind
<1>3. Passed(m, more)
  BY <1>1, <1>2 DEF Passed
<1> QED
  BY <1>1, <1>3 DEF m

-----------------------------------------------------------------------------
(* The calls.                                                              *)

LEMMA OutsideLoops ==
    ASSUME Inv, loop = None, loop' = None, KeysOnly(content'), Arguments(call')
    PROVE  Inv'
BY DEF Inv

LEMMA NoneIsIdle == ~ (None \in LoopShape) /\ Arguments(None) /\ None.op = "none"
BY DEF None, LoopShape, Arguments

\* Calls change the elements of one container, and only to keys.
LEMMA Changed ==
    ASSUME KeysOnly(content), NEW c, NEW f, c \in Containers => DOMAIN f \subseteq Keys
    PROVE  KeysOnly([content EXCEPT ![c] = f])
BY DEF KeysOnly

LEMMA ErasedKeys ==
    ASSUME NEW f, NEW k
    PROVE  DOMAIN Erased(f, k) = DOMAIN f \ {k}
BY DEF Erased

LEMMA InsertedKeys ==
    ASSUME NEW f, NEW k, NEW v
    PROVE  DOMAIN Inserted(f, k, v) = DOMAIN f \cup {k}
BY DEF Inserted

LEMMA LoopRunsFree == ASSUME Inv, call # None  PROVE loop = None
BY DEF Inv

\* A call that runs and does not change the elements.
LEMMA InvWorksOnly ==
    ASSUME Inv, call # None, UNCHANGED <<content, loop>>, Arguments(call')
    PROVE  Inv'
<1>1. loop = None /\ loop' = None
  BY LoopRunsFree
<1>2. KeysOnly(content')
  BY DEF Inv
<1> QED
  BY <1>1, <1>2, OutsideLoops

\* The steps of a call keep its arguments.
LEMMA ArgumentsKept ==
    ASSUME Arguments(call), NEW d \in {"first", "first1", "first2"}, NEW x
    PROVE  Arguments([call EXCEPT ![d] = x]) /\ [call EXCEPT ![d] = x].op = call.op
BY DEF Arguments

LEMMA WorksInv == ASSUME Inv, Works  PROVE Inv'
<1>1. call # None /\ Arguments(call) /\ KeysOnly(content)
  BY NoneIsIdle DEF Works, SubscriptFinds, SubscriptAdds, EqualRangeEnds, EraseTurn, EraseEnds,
       InsertTurn, InsertEnds, SizesDiffer, EqualTurn, EqualEnds, LessTurn, LessEnds,
       Equalities, Orders, Inv
<1>2. loop = None
  BY <1>1, LoopRunsFree
<1>3. ASSUME NEW r, Done(r)  PROVE Inv'
  BY <1>1, <1>3, InvWorksOnly, NoneIsIdle DEF Done, Return
<1>4. ASSUME NEW b, Outcome(b)  PROVE Inv'
  BY <1>3, <1>4 DEF Outcome
<1>5. ASSUME MoveOn, UNCHANGED content  PROVE Inv'
  <2> DEFINE one == [call EXCEPT !.first1 = Following(call.on, call.first1)]
  <2>1. Arguments(one)
    BY <1>1, ArgumentsKept
  <2>2. call' = [one EXCEPT !.first2 = Following(call.with, call.first2)]
    BY <1>5 DEF MoveOn, Go
  <2>3. Arguments(call')
    BY <2>1, <2>2 DEF Arguments
  <2> QED
    BY <1>1, <1>5, <2>3, InvWorksOnly DEF MoveOn, Go
<1>6. CASE SubscriptAdds
  <2>1. call.key \in Keys
    BY <1>1, <1>6 DEF SubscriptAdds, Arguments
  <2>2. /\ content' = [content EXCEPT ![call.on] =
                          Inserted(content[call.on], call.key, Default)]
        /\ call' = None /\ loop' = None
    BY <1>2, <1>6 DEF SubscriptAdds, Return
  <2>3. KeysOnly(content')
    <3>0. DOMAIN Inserted(content[call.on], call.key, Default)
            = DOMAIN content[call.on] \cup {call.key}
      BY InsertedKeys
    <3>1. call.on \in Containers =>
             DOMAIN Inserted(content[call.on], call.key, Default) \subseteq Keys
      BY <1>1, <2>1, <3>0 DEF KeysOnly
    <3> QED
      BY <1>1, <2>2, <3>1, Changed
  <2> QED
    BY <1>2, <2>2, <2>3, OutsideLoops, NoneIsIdle
<1>7. CASE EraseTurn
  <2>1. /\ content' = [content EXCEPT ![call.on] = Erased(content[call.on], call.first)]
        /\ call' = [call EXCEPT !.first = Following(call.on, call.first)]
        /\ loop' = None
    BY <1>2, <1>7 DEF EraseTurn, Go
  <2>2. KeysOnly(content')
    <3>1. call.on \in Containers =>
             DOMAIN Erased(content[call.on], call.first) \subseteq Keys
      BY <1>1, ErasedKeys DEF KeysOnly
    <3> QED
      BY <1>1, <2>1, <3>1, Changed
  <2> QED
    BY <1>1, <1>2, <2>1, <2>2, OutsideLoops, ArgumentsKept
<1>8. CASE InsertTurn
  <2>1. /\ "todo" \in DOMAIN call /\ call.todo \in Seq(Elements) /\ call.todo # <<>>
        /\ "op" \in DOMAIN call /\ call.op \in {"insert_range", "assign_range"}
    BY <1>1, <1>8 DEF InsertTurn, Arguments
  <2>2. Head(call.todo) \in Elements /\ Tail(call.todo) \in Seq(Elements)
    BY <2>1
  <2>3. /\ content' = [content EXCEPT ![call.on] =
                 Inserted(content[call.on], Head(call.todo).key, Head(call.todo).value)]
        /\ call' = [call EXCEPT !.todo = Tail(call.todo)]
        /\ loop' = None
    BY <1>2, <1>8 DEF InsertTurn, Go
  <2>4. Head(call.todo).key \in Keys
    BY <2>2 DEF Elements
  <2>5. KeysOnly(content')
    <3> DEFINE f == Inserted(content[call.on], Head(call.todo).key, Head(call.todo).value)
    <3>0. DOMAIN f = DOMAIN content[call.on] \cup {Head(call.todo).key}
      BY InsertedKeys
    <3> HIDE DEF f
    <3>1. call.on \in Containers => DOMAIN f \subseteq Keys
      BY <1>1, <2>4, <3>0 DEF KeysOnly
    <3> QED
      BY <1>1, <2>3, <3>1, Changed DEF f
  <2>6. Arguments(call')
    BY <2>1, <2>2, <2>3 DEF Arguments
  <2> QED
    BY <1>2, <2>3, <2>5, <2>6, OutsideLoops
<1>9. CASE SubscriptFinds \/ EqualRangeEnds \/ EraseEnds \/ InsertEnds
  BY <1>3, <1>9 DEF SubscriptFinds, EqualRangeEnds, EraseEnds, InsertEnds
<1>10. CASE SizesDiffer \/ EqualEnds \/ LessEnds
  BY <1>4, <1>10 DEF SizesDiffer, EqualEnds, LessEnds
<1>11. CASE EqualTurn \/ LessTurn
  BY <1>4, <1>5, <1>11 DEF EqualTurn, LessTurn
<1> QED
  BY <1>6, <1>7, <1>8, <1>9, <1>10, <1>11 DEF Works

\* Calls that leave everything but the answer alone.
LEMMA LooksInv ==
    ASSUME Inv, call' = None, UNCHANGED <<content, loop>>
    PROVE  Inv'
BY NoneIsIdle DEF Inv, Stored

\* Calls that begin.
LEMMA MakeInv ==
    ASSUME Inv, NEW c, Make(c), Arguments(c), KeysOnly(content')
    PROVE  Inv'
<1>1. loop = None /\ loop' = None /\ call' = c
  BY DEF Make, Quiet
<1> QED
  BY <1>1, OutsideLoops

LEMMA InsertInv ==
    ASSUME Inv, NEW c \in Containers, NEW k \in Keys, NEW v, Insert(c, k, v)
    PROVE  Inv'
<1>1. /\ content' = [content EXCEPT ![c] = Inserted(content[c], k, v)]
      /\ call' = None /\ loop' = loop
  BY DEF Insert, Return
<1>2. KeysOnly(content) /\ DOMAIN content[c] \subseteq Keys
  BY DEF Inv, KeysOnly
<1>6. DOMAIN Inserted(content[c], k, v) = DOMAIN content[c] \cup {k}
  BY InsertedKeys
<1>3. KeysOnly(content')
  BY <1>1, <1>2, <1>6, Changed
<1>4. CASE loop = None
  BY <1>1, <1>3, <1>4, NoneIsIdle, OutsideLoops
<1>5. CASE loop # None
  <2>1. loop \in LoopShape /\ Passed(loop, Stored(loop.on)) /\ loop.on \in Containers
    BY <1>5 DEF Inv, LoopShape
  <2>2. Stored(loop.on) \subseteq Stored(loop.on)'
    BY <1>1, <1>2, <1>6, <2>1 DEF KeysOnly, Stored
  <2>3. Passed(loop, Stored(loop.on)')
    BY <2>1, <2>2 DEF Passed
  <2> QED
    BY <1>1, <1>3, <2>1, <2>3, NoneIsIdle DEF Inv, Stored
<1> QED
  BY <1>4, <1>5

LEMMA EraseInv ==
    ASSUME Inv, NEW c \in Containers, NEW k \in Keys, Erase(c, k)
    PROVE  Inv'
<1>1. /\ content' = [content EXCEPT ![c] = Erased(content[c], k)]
      /\ call' = None
      /\ loop' = IF Looping(c) THEN [loop EXCEPT !.stayed = loop.stayed \ {k}] ELSE loop
      /\ ~ (Looping(c) /\ loop.at = k)
  BY DEF Erase, Return
<1>2. KeysOnly(content) /\ DOMAIN content[c] \subseteq Keys
  BY DEF Inv, KeysOnly
<1>3. KeysOnly(content')
  BY <1>1, <1>2, ErasedKeys, Changed
<1>4. CASE loop = None
  BY <1>1, <1>3, <1>4, NoneIsIdle, OutsideLoops DEF Looping
<1>5. CASE loop # None
  <2>1. loop \in LoopShape /\ Passed(loop, Stored(loop.on)) /\ loop.on \in Containers
    BY <1>5 DEF Inv, LoopShape
  <2>2. CASE loop.on # c
    <3>1. Stored(loop.on)' = Stored(loop.on) /\ loop' = loop
      BY <1>1, <1>2, <2>1, <2>2 DEF KeysOnly, Stored, Looping
    <3> QED
      BY <1>1, <1>3, <2>1, <3>1, NoneIsIdle DEF Inv, Stored
  <2>3. CASE loop.on = c
    <3>1. /\ loop' = [loop EXCEPT !.stayed = loop.stayed \ {k}]
          /\ loop.at # k
      BY <1>1, <1>5, <2>3 DEF Looping
    <3>2. content'[c] = Erased(content[c], k)
      BY <1>1, <1>2 DEF KeysOnly
    <3>3. DOMAIN content'[c] = DOMAIN content[c] \ {k}
      BY <3>2, ErasedKeys
    <3>4. Passed(loop, DOMAIN content[c])
      BY <2>1, <2>3 DEF Stored
    <3>5. /\ loop.stayed \ {k} \subseteq DOMAIN content'[c]
          /\ loop.at \in DOMAIN content'[c] \cup {End}
      BY <3>1, <3>3, <3>4 DEF Passed
    <3>6. loop' \in LoopShape /\ Passed(loop', DOMAIN content'[c])
      BY <1>2, <2>1, <3>1, <3>3, <3>4, <3>5, OtherStored
    <3>7. loop'.on = c
      BY <2>1, <2>3, <3>1 DEF LoopShape
    <3> QED
      BY <1>1, <1>3, <3>6, <3>7, NoneIsIdle DEF Inv, Stored
  <2> QED
    BY <2>2, <2>3
<1> QED
  BY <1>4, <1>5

LEMMA CallsInv ==
    ASSUME Inv, NEW c \in Containers, NEW k \in Keys,
           \/ Erase(c, k) \/ At(c, k) \/ Count(c, k) \/ Subscript(c, k) \/ EqualRange(c, k)
           \/ \E v \in Given[k] : Insert(c, k, v) \/ Write(c, k, v)
    PROVE  Inv'
<1>0. KeysOnly(content)
  BY DEF Inv
<1>1. ASSUME At(c, k) \/ Count(c, k)  PROVE Inv'
  BY <1>1, LooksInv DEF At, Count, Return
<1>2. ASSUME Subscript(c, k)  PROVE Inv'
  <2> DEFINE d == [op |-> "subscript", asked |-> <<c, k>>, on |-> c, was |-> content, key |-> k]
  <2>1. Make(d) /\ content' = content
    BY <1>2 DEF Subscript
  <2>2. Arguments(d)
    BY DEF Arguments
  <2> QED
    BY <1>0, <2>1, <2>2, MakeInv
<1>3. ASSUME EqualRange(c, k)  PROVE Inv'
  <2> DEFINE d == [op |-> "equal_range", asked |-> <<c, k>>, on |-> c, was |-> content,
                   key |-> k, lower |-> IF k \in Stored(c) THEN k ELSE Following(c, k)]
  <2>1. Make(d) /\ content' = content
    BY <1>3 DEF EqualRange
  <2>2. Arguments(d)
    BY DEF Arguments
  <2> QED
    BY <1>0, <2>1, <2>2, MakeInv
<1>4. ASSUME NEW v, Write(c, k, v)  PROVE Inv'
  <2>1. /\ content' = [content EXCEPT ![c] = [content[c] EXCEPT ![k] = v]]
        /\ loop = None /\ loop' = None /\ call' = call
    BY <1>4 DEF Write, Quiet
  <2>2. DOMAIN [content[c] EXCEPT ![k] = v] \subseteq Keys
    BY <1>0 DEF KeysOnly
  <2> QED
    BY <1>0, <2>1, <2>2, Changed, OutsideLoops DEF Inv
<1> QED
  BY <1>1, <1>2, <1>3, <1>4, InsertInv, EraseInv

-----------------------------------------------------------------------------
(* The loops.                                                              *)

\* A step of the loop that leaves it at l.
LEMMA LoopAt ==
    ASSUME NEW l \in LoopShape, loop' = l, KeysOnly(content'), call' = None,
           Passed(l, DOMAIN content'[l.on])
    PROVE  Inv'
BY NoneIsIdle DEF Inv, Stored

LEMMA LoopBeginsInv ==
    ASSUME Inv, NEW c \in Containers, NEW d \in {"forward", "backward"}, LoopBegins(c, d)
    PROVE  Inv'
<1> DEFINE at == IF d = "forward" THEN Begin(c) ELSE End
           l == [op |-> "loop", on |-> c, dir |-> d, at |-> at, seen |-> <<>>,
                 stayed |-> Stored(c)]
<1>1. loop' = l /\ content' = content /\ call' = call /\ call = None
  BY DEF LoopBegins, Quiet, Free
<1>2. Stored(c) \subseteq Keys
  BY DEF Inv, KeysOnly, Stored
<1>3. at \in Stored(c) \cup {End} /\ at \in Positions
  BY <1>2, FirstPosition DEF Positions
<1>4. \A k \in Stored(c) : ~ (IF d = "forward" THEN k < at ELSE k >= at)
  <2>1. \A k \in Stored(c) : k \in Nat /\ k < End /\ Begin(c) =< k
    BY <1>2, FirstPosition, EndIsLast
  <2>2. Begin(c) \in Nat /\ End \in Nat
    BY <1>2, FirstPosition, EndIsLast
  <2> QED
    BY <2>1, <2>2
<1> HIDE DEF at
<1>5. l \in LoopShape
  BY <1>2, <1>3 DEF LoopShape
<1>6. /\ l.stayed = Stored(c) /\ l.at = at /\ l.dir = d /\ l.seen = <<>> /\ l.on = c
      /\ Len(l.seen) = 0
  OBVIOUS
<1> HIDE DEF l
<1>7. Passed(l, Stored(c))
  BY <1>3, <1>4, <1>6 DEF Passed, Behind
<1>8. Passed(l, DOMAIN content'[l.on]) /\ KeysOnly(content')
  BY <1>1, <1>6, <1>7 DEF Stored, Inv
<1> QED
  BY <1>1, <1>5, <1>8, LoopAt

\* What a step of a loop knows.
LEMMA LoopFacts ==
    ASSUME Inv, loop # None
    PROVE  /\ call = None
           /\ loop \in LoopShape /\ Passed(loop, Stored(loop.on))
           /\ loop.on \in Containers /\ Stored(loop.on) \in SUBSET Keys
           /\ loop.at \in Stored(loop.on) \cup {End}
           /\ loop.dir \in {"forward", "backward"}
           /\ loop.stayed \in SUBSET Keys
BY DEF Inv, LoopShape, Passed, KeysOnly, Stored

\* ++it from an element.
LEMMA ForwardStep ==
    ASSUME Inv, loop # None, loop.dir = "forward", loop.at # Stop
    PROVE  LET p == Following(loop.on, loop.at)
               m == [loop EXCEPT !.seen = Append(@, loop.at), !.at = p]
           IN  /\ loop.at \in Stored(loop.on) /\ p \in Stored(loop.on) \cup {End}
               /\ loop.at < p
               /\ m \in LoopShape /\ Passed(m, Stored(loop.on))
<1> DEFINE p == Following(loop.on, loop.at)
<1>1. /\ loop \in LoopShape /\ Passed(loop, Stored(loop.on))
      /\ Stored(loop.on) \in SUBSET Keys /\ loop.at \in Stored(loop.on) /\ loop.at # End
  BY LoopFacts DEF Stop
<1>2. loop.at \in Nat /\ loop.at < End
  BY <1>1, EndIsLast
<1>3. /\ p \in Stored(loop.on) \cup {End} /\ loop.at < p
      /\ \A k \in Stored(loop.on) : loop.at < k => p =< k
  BY <1>1, <1>2, NextPosition
<1> HIDE DEF p
<1>4. LET m == [loop EXCEPT !.seen = Append(@, loop.at), !.at = p]
      IN  m \in LoopShape /\ Passed(m, Stored(loop.on))
  BY <1>1, <1>3, StepForward
<1> QED
  BY <1>1, <1>3, <1>4 DEF p

LEMMA ForwardTurnInv == ASSUME Inv, ForwardTurn  PROVE Inv'
<1> DEFINE m == [loop EXCEPT !.seen = Append(loop.seen, loop.at),
                             !.at = Following(loop.on, loop.at)]
<1>1. /\ loop # None /\ loop' = m /\ content' = content /\ call' = call
      /\ loop.dir = "forward" /\ loop.at # Stop
  BY DEF ForwardTurn, Visit
<1>2. m \in LoopShape /\ Passed(m, Stored(loop.on))
  BY <1>1, ForwardStep
<1>3. m.on = loop.on /\ call = None
  BY <1>1, LoopFacts DEF LoopShape
<1> HIDE DEF m
<1>4. Passed(m, DOMAIN content'[m.on]) /\ KeysOnly(content')
  BY <1>1, <1>2, <1>3 DEF Stored, Inv
<1> QED
  BY <1>1, <1>2, <1>3, <1>4, LoopAt

LEMMA BackwardTurnInv == ASSUME Inv, BackwardTurn  PROVE Inv'
<1> DEFINE p == Preceding(loop.on, loop.at)
           m == [loop EXCEPT !.seen = Append(loop.seen, p), !.at = p]
<1>1. /\ loop # None /\ loop' = m /\ content' = content /\ call' = call
      /\ loop.dir = "backward" /\ loop.at # Stop
  BY DEF BackwardTurn, Visit
<1>2. /\ loop \in LoopShape /\ Passed(loop, Stored(loop.on))
      /\ Stored(loop.on) \in SUBSET Keys /\ loop.at \in Stored(loop.on) \cup {End}
      /\ call = None
  BY <1>1, LoopFacts
<1>3. loop.at # Begin(loop.on)
  BY <1>1 DEF Stop
<1>4. /\ p \in Stored(loop.on) /\ p < loop.at
      /\ \A k \in Stored(loop.on) : k < loop.at => k =< p
  BY <1>2, <1>3, PreviousPosition
<1> HIDE DEF p
<1>5. m \in LoopShape /\ Passed(m, Stored(loop.on))
  BY <1>1, <1>2, <1>4, StepBackward
<1>6. m.on = loop.on
  BY <1>2 DEF LoopShape
<1> HIDE DEF m
<1>7. Passed(m, DOMAIN content'[m.on]) /\ KeysOnly(content')
  BY <1>1, <1>5, <1>6 DEF Stored, Inv
<1> QED
  BY <1>1, <1>2, <1>5, <1>7, LoopAt

\* What is erased is the element behind the iterator's new position.
LEMMA LoopErasesInv == ASSUME Inv, LoopErases  PROVE Inv'
<1> DEFINE p == Following(loop.on, loop.at)
           m == [loop EXCEPT !.seen = Append(loop.seen, loop.at), !.at = p]
           left == m.stayed \ {loop.at}
           n == [m EXCEPT !.stayed = left]
           rest == Stored(loop.on) \ {loop.at}
<1>1. /\ loop # None /\ call' = call /\ loop.dir = "forward" /\ loop.at # Stop
      /\ loop' = [loop EXCEPT !.seen = Append(loop.seen, loop.at), !.at = p,
                               !.stayed = loop.stayed \ {loop.at}]
      /\ content' = [content EXCEPT ![loop.on] = Erased(content[loop.on], loop.at)]
  BY DEF LoopErases, VisitErasing
<1>2. /\ loop.at \in Stored(loop.on) /\ p \in Stored(loop.on) \cup {End} /\ loop.at < p
      /\ m \in LoopShape /\ Passed(m, Stored(loop.on))
  BY <1>1, ForwardStep
<1>3. /\ call = None /\ loop \in LoopShape /\ loop.on \in Containers
      /\ Stored(loop.on) \in SUBSET Keys
  BY <1>1, LoopFacts
<1>4. p # loop.at
  BY <1>2, <1>3, EndIsLast
<1> HIDE DEF p
<1>5. /\ m.at = p /\ m.on = loop.on /\ m.stayed = loop.stayed
      /\ loop' = n
  BY <1>1, <1>3 DEF LoopShape
<1> HIDE DEF m
<1>6. rest \in SUBSET Keys /\ left \in SUBSET m.stayed /\ left \subseteq rest
  BY <1>2, <1>3 DEF Passed
<1>7. m.at \in rest \cup {End}
  BY <1>2, <1>4, <1>5
<1>8. n \in LoopShape /\ Passed(n, rest)
  <2> HIDE DEF left, rest
  <2> QED
    BY <1>2, <1>3, <1>6, <1>7, OtherStored
<1>9. n.on = loop.on
  BY <1>2, <1>5 DEF LoopShape
<1> HIDE DEF n, left
<1>10. DOMAIN Erased(content[loop.on], loop.at) = rest
  BY ErasedKeys DEF Stored
<1>11. KeysOnly(content) /\ loop.on \in DOMAIN content
  BY <1>3 DEF Inv, KeysOnly
<1>12. DOMAIN content'[loop.on] = rest
  BY <1>1, <1>10, <1>11
<1>13. KeysOnly(content')
  BY <1>1, <1>6, <1>10, <1>11, Changed
<1> HIDE DEF rest
<1>14. Passed(n, DOMAIN content'[n.on])
  BY <1>8, <1>9, <1>12
<1>15. call' = None /\ loop' = n
  BY <1>1, <1>3, <1>5
<1> QED
  BY <1>8, <1>13, <1>14, <1>15, LoopAt

LEMMA LoopsInv == ASSUME Inv, Loops  PROVE Inv'
<1>1. CASE LoopEnds
  <2>1. loop # None /\ loop' = None /\ content' = content /\ call' = call
    BY <1>1 DEF LoopEnds
  <2> QED
    BY <2>1 DEF Inv
<1> QED
  BY <1>1, ForwardTurnInv, BackwardTurnInv, LoopErasesInv DEF Loops

-----------------------------------------------------------------------------
(* Every step.                                                             *)

LEMMA InitInv == Init => Inv
BY NoneIsIdle DEF Init, Inv, KeysOnly

\* The calls that begin and take ranges, lists or another container.
LEMMA LongCallsInv ==
    ASSUME Inv, NEW c \in Containers,
           \/ \E p, q \in Keys \cup {End} : EraseRange(c, p, q)
           \/ \E L \in Lists : InsertRange(c, L) \/ AssignRange(c, L)
           \/ \E x \in Containers, o \in Equalities \cup Orders : Compare(o, c, x)
    PROVE  Inv'
<1>0. KeysOnly(content)
  BY DEF Inv
<1>1. ASSUME NEW p, NEW q, EraseRange(c, p, q)  PROVE Inv'
  <2> DEFINE d == [op |-> "erase_range", asked |-> <<c, p, q>>, on |-> c, was |-> content,
                   first |-> p, last |-> q]
  <2>1. Make(d) /\ content' = content
    BY <1>1 DEF EraseRange
  <2>2. Arguments(d)
    BY DEF Arguments
  <2> QED
    BY <1>0, <2>1, <2>2, MakeInv
<1>2. ASSUME NEW L \in Lists, InsertRange(c, L) \/ AssignRange(c, L)  PROVE Inv'
  <2>0. L \in Seq(Elements)
    BY KeysAssumption DEF Elements
  <2>1. CASE InsertRange(c, L)
    <3> DEFINE d == [op |-> "insert_range", asked |-> <<c, L>>, on |-> c, was |-> content,
                     todo |-> L]
    <3>1. Make(d) /\ content' = content
      BY <2>1 DEF InsertRange
    <3>2. Arguments(d)
      BY <2>0 DEF Arguments
    <3> QED
      BY <1>0, <3>1, <3>2, MakeInv
  <2>2. CASE AssignRange(c, L)
    <3> DEFINE d == [op |-> "assign_range", asked |-> <<c, L>>, on |-> c, was |-> content,
                     todo |-> L]
               empty == [k \in {} |-> Default]
    <3>1. Make(d) /\ content' = [content EXCEPT ![c] = empty]
      BY <2>2 DEF AssignRange
    <3>2. Arguments(d)
      BY <2>0 DEF Arguments
    <3>3. DOMAIN empty \subseteq Keys
      OBVIOUS
    <3> HIDE DEF empty
    <3>4. KeysOnly(content')
      BY <1>0, <3>1, <3>3, Changed
    <3> QED
      BY <3>1, <3>2, <3>4, MakeInv
  <2> QED
    BY <1>2, <2>1, <2>2
<1>3. ASSUME NEW x \in Containers, NEW o \in Equalities \cup Orders, Compare(o, c, x)
      PROVE  Inv'
  <2> DEFINE l == IF o \in Swapped THEN x ELSE c
             r == IF o \in Swapped THEN c ELSE x
             d == [op |-> o, asked |-> <<c, x>>, on |-> l, was |-> content,
                   with |-> r, first1 |-> Begin(l), first2 |-> Begin(r)]
  <2>1. Make(d) /\ content' = content
    BY <1>3 DEF Compare
  <2>2. Arguments(d)
    BY DEF Arguments, Equalities, Orders
  <2> QED
    BY <1>0, <2>1, <2>2, MakeInv
<1> QED
  BY <1>1, <1>2, <1>3

LEMMA NextInv == Inv /\ [Next]_vars => Inv'
<1> SUFFICES ASSUME Inv, [Next]_vars  PROVE Inv'
  OBVIOUS
<1>1. CASE UNCHANGED vars
  BY <1>1 DEF Inv, Stored, vars
<1>2. CASE Read
  BY <1>2 DEF Read, Inv, Stored
<1>3. ASSUME NEW c \in Containers, NEW d \in {"forward", "backward"}, LoopBegins(c, d)
      PROVE  Inv'
  BY <1>3, LoopBeginsInv
<1> QED
  BY <1>1, <1>2, <1>3, CallsInv, LongCallsInv, WorksInv, LoopsInv DEF Next

-----------------------------------------------------------------------------
(* The theorems.                                                           *)

\* Everything behind the iterator is what has been seen, in order.
LEMMA InvIsOrdered == Inv => LoopsInOrder
<1> SUFFICES ASSUME Inv, loop # None, NEW i \in 1..(Len(loop.seen) - 1)
             PROVE  IF loop.dir = "forward" THEN loop.seen[i] < loop.seen[i + 1]
                                            ELSE loop.seen[i] > loop.seen[i + 1]
  BY DEF LoopsInOrder
<1>1. Passed(loop, Stored(loop.on)) /\ loop.seen \in Seq(Keys)
  BY LoopFacts DEF LoopShape
<1>2. Len(loop.seen) \in Nat
  BY <1>1
<1>3. i \in 1..Len(loop.seen) /\ i + 1 \in 1..Len(loop.seen) /\ i < i + 1
  BY <1>2
<1> QED
  BY <1>1, <1>3 DEF Passed

\* A loop that has come to its end has everything behind it.
LEMMA EndHasSeen == ASSUME Inv, LoopEnds  PROVE loop.stayed \subseteq Range(loop.seen)
<1>1. loop # None /\ loop.at = Stop
  BY DEF LoopEnds
<1>2. /\ loop \in LoopShape /\ Passed(loop, Stored(loop.on))
      /\ Stored(loop.on) \in SUBSET Keys
  BY <1>1, LoopFacts
<1>3. ASSUME NEW k \in loop.stayed  PROVE k \in Range(loop.seen)
  <2>1. k \in Stored(loop.on) /\ k \in Nat /\ k < End
    BY <1>2, EndIsLast DEF Passed
  <2>2. Begin(loop.on) \in Nat /\ Begin(loop.on) =< k
    BY <1>2, <2>1, FirstPosition, EndIsLast
  <2>3. Behind(loop, k)
    BY <1>1, <2>1, <2>2 DEF Stop, Behind
  <2>4. PICK i \in 1..Len(loop.seen) : loop.seen[i] = k
    BY <1>2, <2>3 DEF Passed
  <2>5. loop.seen \in Seq(Keys) /\ DOMAIN loop.seen = 1..Len(loop.seen)
    BY <1>2 DEF LoopShape
  <2> QED
    BY <2>4, <2>5 DEF Range
<1> QED
  BY <1>3

\* What the induction over the calls and the turns of the loops shows.
THEOREM LoopsKeepTrack == Spec => []Inv
<1>1. Init => Inv
  BY InitInv
<1>2. Inv /\ [Next]_vars => Inv'
  BY NextInv
<1> QED
  BY <1>1, <1>2, PTL DEF Spec

\* A loop over a container comes by its elements in their order, each once,
\* whatever the client inserts and erases meanwhile: iterators stay where they
\* are (ar_tree.h, radix_map.h).
THEOREM LoopsKeepOrder == Spec => []LoopsInOrder
BY LoopsKeepTrack, InvIsOrdered, PTL

\* And when it ends it has come by every element that was there all along.
THEOREM LoopsSeeAll == Spec => LoopsMissNothing
<1>1. Inv /\ [Next]_vars => [LoopEnds => loop.stayed \subseteq Range(loop.seen)]_vars
  BY EndHasSeen
<1>2. Spec => [][Next]_vars
  BY DEF Spec
<1> QED
  BY <1>1, <1>2, LoopsKeepTrack, PTL DEF LoopsMissNothing

-----------------------------------------------------------------------------
(* The maps of MapCalls.                                                   *)

MapsOf == UNION {[S -> Values] : S \in SUBSET Keys}

LEMMA SameEnd == M!End = End
BY DEF M!End, End, M!Max, Max

LEMMA MapFacts ==
    ASSUME NEW m \in MapsOf
    PROVE  /\ DOMAIN m \subseteq Keys /\ DOMAIN m \subseteq Nat
           /\ m = [k \in DOMAIN m |-> m[k]]
           /\ \A k \in DOMAIN m : m[k] \in Values /\ m[k] \in Nat
<1>1. PICK S \in SUBSET Keys : m \in [S -> Values]
  BY DEF MapsOf
<1> QED
  BY <1>1, KeysAssumption

LEMMA MapIs ==
    ASSUME NEW S \in SUBSET Keys, NEW m \in [S -> Values]
    PROVE  m \in MapsOf
BY DEF MapsOf

\* Two maps with the same keys and the same values.
LEMMA SameMap ==
    ASSUME NEW m \in MapsOf, NEW n \in MapsOf, DOMAIN m = DOMAIN n,
           \A k \in DOMAIN m : m[k] = n[k]
    PROVE  m = n
<1>1. m = [k \in DOMAIN m |-> m[k]] /\ n = [k \in DOMAIN n |-> n[k]]
  BY MapFacts
<1> QED
  BY <1>1

LEMMA InsertedIs ==
    ASSUME NEW m \in MapsOf, NEW k \in Keys, NEW v \in Values
    PROVE  /\ Inserted(m, k, v) \in MapsOf /\ DOMAIN Inserted(m, k, v) = DOMAIN m \cup {k}
           /\ \A j \in DOMAIN m : Inserted(m, k, v)[j] = m[j]
           /\ k \notin DOMAIN m => Inserted(m, k, v)[k] = v
           /\ k \in DOMAIN m => Inserted(m, k, v) = m
<1>1. PICK n : n = Inserted(m, k, v)
  OBVIOUS
<1>2. DOMAIN m \in SUBSET Keys /\ \A j \in DOMAIN m : m[j] \in Values
  BY MapFacts
<1>3. n = [j \in DOMAIN m \cup {k} |-> IF j \in DOMAIN m THEN m[j] ELSE v]
  BY <1>1 DEF Inserted
<1>4. n \in [DOMAIN m \cup {k} -> Values] /\ DOMAIN m \cup {k} \in SUBSET Keys
  BY <1>2, <1>3
<1>5. n \in MapsOf
  BY <1>4, MapIs
<1>6. k \in DOMAIN m => n = m
  BY <1>3, <1>5, SameMap
<1> QED
  BY <1>1, <1>3, <1>5, <1>6

LEMMA ErasedIs ==
    ASSUME NEW m \in MapsOf, NEW k
    PROVE  /\ Erased(m, k) \in MapsOf /\ DOMAIN Erased(m, k) = DOMAIN m \ {k}
           /\ \A j \in DOMAIN m \ {k} : Erased(m, k)[j] = m[j]
<1>1. DOMAIN m \ {k} \in SUBSET Keys /\ \A j \in DOMAIN m : m[j] \in Values
  BY MapFacts
<1>2. Erased(m, k) \in [DOMAIN m \ {k} -> Values]
  BY <1>1 DEF Erased
<1> QED
  BY <1>1, <1>2, MapIs DEF Erased

\* An empty container.
LEMMA EmptyIs == M!Empty \in MapsOf /\ M!Empty = [k \in {} |-> Default] /\ DOMAIN M!Empty = {}
<1>1. M!Empty = [k \in {} |-> Default]
  BY DEF M!Empty
<1>2. [k \in {} |-> Default] \in [{} -> Values]
  BY KeysAssumption
<1> QED
  BY <1>1, <1>2, MapIs

-----------------------------------------------------------------------------
(* A list is inserted element by element.                                  *)

KeysOf(L) == {L[i].key : i \in 1..Len(L)}

Places(L, k) == {i \in 1..Len(L) : L[i].key = k}

LEMMA FilledIs ==
    ASSUME NEW m \in MapsOf, NEW L \in Seq(Elements)
    PROVE  /\ M!Filled(m, L) \in MapsOf
           /\ DOMAIN M!Filled(m, L) = DOMAIN m \cup KeysOf(L)
           /\ \A k \in DOMAIN m : M!Filled(m, L)[k] = m[k]
           /\ \A k \in KeysOf(L) \ DOMAIN m :
                 /\ Min(Places(L, k)) \in Places(L, k)
                 /\ M!Filled(m, L)[k] = L[Min(Places(L, k))].value
<1>1. PICK n : n = M!Filled(m, L)
  OBVIOUS
<1>2. n = [k \in DOMAIN m \cup KeysOf(L) |->
              IF k \in DOMAIN m THEN m[k] ELSE L[Min(Places(L, k))].value]
  BY <1>1 DEF M!Filled, KeysOf, Places, M!Min, Min
<1>3. Len(L) \in Nat /\ \A i \in 1..Len(L) : L[i].key \in Keys /\ L[i].value \in Values
  <2>1. \A i \in 1..Len(L) : L[i] \in Elements
    OBVIOUS
  <2> QED
    BY <2>1 DEF Elements
<1>4. ASSUME NEW k \in KeysOf(L)  PROVE Min(Places(L, k)) \in Places(L, k)
  <2>1. Places(L, k) \in SUBSET Nat /\ Places(L, k) # {}
    BY <1>3 DEF Places, KeysOf
  <2> QED
    BY <2>1, MinOfKeys
<1>5. DOMAIN m \in SUBSET Keys /\ \A k \in DOMAIN m : m[k] \in Values
  BY MapFacts
<1>6. KeysOf(L) \subseteq Keys /\ \A k \in KeysOf(L) : L[Min(Places(L, k))].value \in Values
  BY <1>3, <1>4 DEF KeysOf, Places
<1>7. n \in [DOMAIN m \cup KeysOf(L) -> Values]
  BY <1>2, <1>5, <1>6
<1>8. n \in MapsOf
  BY <1>5, <1>6, <1>7, MapIs
<1> QED
  BY <1>1, <1>2, <1>4, <1>8

LEMMA FilledNone ==
    ASSUME NEW m \in MapsOf
    PROVE  M!Filled(m, <<>>) = m
<1>1. <<>> \in Seq(Elements) /\ KeysOf(<<>>) = {}
  BY DEF KeysOf
<1>2. PICK n : n = M!Filled(m, <<>>)
  OBVIOUS
<1>3. n \in MapsOf /\ DOMAIN n = DOMAIN m /\ \A k \in DOMAIN m : n[k] = m[k]
  BY <1>1, <1>2, FilledIs
<1> QED
  BY <1>2, <1>3, SameMap

\* The first of equal keys counts.
LEMMA FilledFirst ==
    ASSUME NEW m \in MapsOf, NEW L \in Seq(Elements), L # <<>>
    PROVE  M!Filled(Inserted(m, Head(L).key, Head(L).value), Tail(L)) = M!Filled(m, L)
<1>1. PICK h : h = Head(L)
  OBVIOUS
<1>2. PICK T : T = Tail(L)
  OBVIOUS
<1>3. PICK n : n = Inserted(m, h.key, h.value)
  OBVIOUS
<1>4. /\ h \in Elements /\ h = L[1] /\ T \in Seq(Elements)
      /\ Len(L) \in Nat /\ Len(L) >= 1 /\ Len(T) = Len(L) - 1
      /\ \A i \in 1..Len(T) : T[i] = L[i + 1]
  BY <1>1, <1>2
<1>5. h.key \in Keys /\ h.value \in Values
  BY <1>4 DEF Elements
<1>6. /\ n \in MapsOf /\ DOMAIN n = DOMAIN m \cup {h.key}
      /\ \A j \in DOMAIN m : n[j] = m[j]
      /\ h.key \notin DOMAIN m => n[h.key] = h.value
  <2>1. PICK k, v : k = h.key /\ v = h.value
    OBVIOUS
  <2>2. k \in Keys /\ v \in Values /\ n = Inserted(m, k, v)
    BY <1>3, <1>5, <2>1
  <2>3. /\ Inserted(m, k, v) \in MapsOf /\ DOMAIN Inserted(m, k, v) = DOMAIN m \cup {k}
        /\ \A j \in DOMAIN m : Inserted(m, k, v)[j] = m[j]
        /\ k \notin DOMAIN m => Inserted(m, k, v)[k] = v
    <3>1. k \in Keys /\ v \in Values
      BY <2>2
    <3> QED
      BY <3>1, InsertedIs
  <2> QED
    BY <2>1, <2>2, <2>3
<1>7. ASSUME NEW k
      PROVE  /\ \A i \in Places(T, k) : i + 1 \in Places(L, k)
             /\ \A i \in Places(L, k) : i = 1 \/ i - 1 \in Places(T, k)
             /\ 1 \in Places(L, k) <=> k = h.key
  BY <1>4 DEF Places
<1>8. KeysOf(L) = KeysOf(T) \cup {h.key}
  <2>1. \A k : k \in KeysOf(L) <=> Places(L, k) # {}
    BY DEF KeysOf, Places
  <2>2. \A k : k \in KeysOf(T) <=> Places(T, k) # {}
    BY DEF KeysOf, Places
  <2> QED
    BY <1>7, <2>1, <2>2
<1>9. PICK f, g : f = M!Filled(n, T) /\ g = M!Filled(m, L)
  OBVIOUS
<1>10. /\ f \in MapsOf /\ DOMAIN f = DOMAIN n \cup KeysOf(T)
       /\ \A k \in DOMAIN n : f[k] = n[k]
       /\ \A k \in KeysOf(T) \ DOMAIN n :
             Min(Places(T, k)) \in Places(T, k) /\ f[k] = T[Min(Places(T, k))].value
  BY <1>4, <1>6, <1>9, FilledIs
<1>11. /\ g \in MapsOf /\ DOMAIN g = DOMAIN m \cup KeysOf(L)
       /\ \A k \in DOMAIN m : g[k] = m[k]
       /\ \A k \in KeysOf(L) \ DOMAIN m :
             Min(Places(L, k)) \in Places(L, k) /\ g[k] = L[Min(Places(L, k))].value
  BY <1>4, <1>9, FilledIs
<1>12. DOMAIN f = DOMAIN g
  BY <1>6, <1>8, <1>10, <1>11
<1>13. ASSUME NEW k \in DOMAIN f  PROVE f[k] = g[k]
  <2>0. \A j : Places(L, j) \in SUBSET Nat /\ Places(T, j) \in SUBSET Nat
    BY <1>4 DEF Places
  <2>1. CASE k \in DOMAIN m
    BY <1>6, <1>10, <1>11, <2>1
  <2>2. CASE k \notin DOMAIN m /\ k = h.key
    <3>1. 1 \in Places(L, k)
      BY <1>7, <2>2
    <3>2. Places(L, k) \in SUBSET Int /\ \A i \in Places(L, k) : 1 =< i
      BY <1>4 DEF Places
    <3>3. Min(Places(L, k)) = 1
      BY <3>1, <3>2, MinOfKeys, <2>0
    <3>4. k \in KeysOf(L) /\ k \in DOMAIN n
      BY <1>6, <1>8, <2>2
    <3> QED
      BY <1>4, <1>6, <1>10, <1>11, <2>2, <3>3, <3>4
  <2>3. CASE k \notin DOMAIN m /\ k # h.key
    <3>1. k \in KeysOf(T) \ DOMAIN n /\ k \in KeysOf(L) \ DOMAIN m
      BY <1>6, <1>8, <1>10, <2>3
    <3>2. PICK p \in Places(T, k) : p = Min(Places(T, k))
      BY <1>10, <3>1
    <3>3. PICK q \in Places(L, k) : q = Min(Places(L, k))
      BY <1>11, <3>1
    <3>4. /\ \A i \in Places(T, k) : p =< i
          /\ \A i \in Places(L, k) : q =< i
      BY <2>0, <3>2, <3>3, MinOfKeys
    <3>5. q # 1 /\ q - 1 \in Places(T, k) /\ p + 1 \in Places(L, k)
      BY <1>7, <2>3
    <3>6. p \in Nat /\ q \in Nat /\ p =< q - 1 /\ q =< p + 1
      BY <2>0, <3>4, <3>5
    <3>7. q = p + 1 /\ p \in 1..Len(T)
      BY <3>6 DEF Places
    <3>8. T[p] = L[q]
      BY <1>4, <3>7
    <3> QED
      BY <1>10, <1>11, <3>1, <3>2, <3>3, <3>8
  <2> QED
    BY <2>1, <2>2, <2>3
<1>14. f = g
  BY <1>10, <1>11, <1>12, <1>13, SameMap
<1> QED
  BY <1>1, <1>2, <1>3, <1>9, <1>14

\* One element alone.
LEMMA FilledOne ==
    ASSUME NEW m \in MapsOf, NEW k \in Keys, NEW v \in Values
    PROVE  M!Filled(m, <<[key |-> k, value |-> v]>>) = Inserted(m, k, v)
<1>1. PICK L : L = <<[key |-> k, value |-> v]>>
  OBVIOUS
<1>2. L \in Seq(Elements) /\ L # <<>> /\ Head(L).key = k /\ Head(L).value = v /\ Tail(L) = <<>>
  BY <1>1 DEF Elements
<1>3. M!Filled(Inserted(m, k, v), <<>>) = M!Filled(m, L)
  BY <1>2, FilledFirst
<1>4. Inserted(m, k, v) \in MapsOf
  BY InsertedIs
<1> QED
  BY <1>1, <1>3, <1>4, FilledNone

-----------------------------------------------------------------------------
(* The order of two containers is decided where they first differ.         *)

Differ(a, b) == {k \in DOMAIN a \cup DOMAIN b : ~(k \in DOMAIN a \cap DOMAIN b /\ a[k] = b[k])}

LEMMA DifferFacts ==
    ASSUME NEW a \in MapsOf, NEW b \in MapsOf
    PROVE  /\ Differ(a, b) \in SUBSET Nat /\ Differ(b, a) = Differ(a, b)
           /\ Differ(a, b) = {} <=> a = b
           /\ Differ(a, b) # {} => /\ Min(Differ(a, b)) \in Differ(a, b)
                                   /\ \A k \in Differ(a, b) : Min(Differ(a, b)) =< k
<1>1. Differ(a, b) \in SUBSET Nat
  BY MapFacts DEF Differ
<1>2. Differ(b, a) = Differ(a, b)
  BY DEF Differ
<1>3. ASSUME Differ(a, b) = {}  PROVE a = b
  <2>1. \A k \in DOMAIN a \cup DOMAIN b : k \in DOMAIN a /\ k \in DOMAIN b /\ a[k] = b[k]
    BY <1>3 DEF Differ
  <2> QED
    BY <2>1, SameMap
<1>4. a = b => Differ(a, b) = {}
  BY DEF Differ
<1> QED
  BY <1>1, <1>2, <1>3, <1>4, MinOfKeys

LEMMA PrecedesAt ==
    ASSUME NEW a \in MapsOf, NEW b \in MapsOf,
           NEW d \in Differ(a, b), \A k \in Differ(a, b) : d =< k
    PROVE  M!Precedes(a, b) <=>
              \/ d \in DOMAIN a /\ d \in DOMAIN b /\ a[d] < b[d]
              \/ d \notin DOMAIN b /\ \E k \in DOMAIN b : k > d
              \/ d \notin DOMAIN a /\ \A k \in DOMAIN a : k < d
<1>1. Differ(a, b) \in SUBSET Int
  BY DifferFacts
<1>2. Min(Differ(a, b)) = d
  <2>1. Min(Differ(a, b)) \in Differ(a, b) /\ Min(Differ(a, b)) =< d
    BY DifferFacts
  <2>2. d =< Min(Differ(a, b))
    BY <2>1
  <2> QED
    BY <1>1, <2>1, <2>2
<1>3. PICK D : D = Differ(a, b)
  OBVIOUS
<1>4. M!Precedes(a, b) <=>
         /\ D # {}
         /\ \/ Min(D) \in DOMAIN a \cap DOMAIN b /\ a[Min(D)] < b[Min(D)]
            \/ Min(D) \notin DOMAIN b /\ \E k \in DOMAIN b : k > Min(D)
            \/ Min(D) \notin DOMAIN a /\ \A k \in DOMAIN a : k < Min(D)
  BY <1>3 DEF M!Precedes, Differ, M!Min, Min
<1> QED
  BY <1>2, <1>3, <1>4

\* Of two containers one precedes the other, or they are equal.
LEMMA OrderIsTotal ==
    ASSUME NEW a \in MapsOf, NEW b \in MapsOf
    PROVE  ~ M!Precedes(a, b) <=> M!Precedes(b, a) \/ a = b
<1>1. CASE a = b
  <2>1. Differ(a, b) = {}
    BY <1>1, DifferFacts
  <2>2. ~ M!Precedes(a, b)
    BY <2>1 DEF M!Precedes, Differ
  <2> QED
    BY <1>1, <2>2
<1>2. CASE a # b
  <2>1. PICK d \in Differ(a, b) : \A k \in Differ(a, b) : d =< k
    BY <1>2, DifferFacts
  <2>2. d \in Differ(b, a) /\ \A k \in Differ(b, a) : d =< k
    BY <2>1, DifferFacts
  <2>3. M!Precedes(a, b) <=>
              \/ d \in DOMAIN a /\ d \in DOMAIN b /\ a[d] < b[d]
              \/ d \notin DOMAIN b /\ \E k \in DOMAIN b : k > d
              \/ d \notin DOMAIN a /\ \A k \in DOMAIN a : k < d
    BY <2>1, PrecedesAt
  <2>4. M!Precedes(b, a) <=>
              \/ d \in DOMAIN b /\ d \in DOMAIN a /\ b[d] < a[d]
              \/ d \notin DOMAIN a /\ \E k \in DOMAIN a : k > d
              \/ d \notin DOMAIN b /\ \A k \in DOMAIN b : k < d
    BY <2>2, PrecedesAt
  <2>5. /\ d \in Nat /\ d \in DOMAIN a \cup DOMAIN b
        /\ d \in DOMAIN a /\ d \in DOMAIN b => a[d] # b[d]
        /\ \A k \in DOMAIN a \cup DOMAIN b : k \in Nat
    BY MapFacts DEF Differ
  <2>6. CASE d \in DOMAIN a /\ d \in DOMAIN b
    <3>1. a[d] \in Nat /\ b[d] \in Nat /\ a[d] # b[d]
      BY <2>5, <2>6, MapFacts
    <3> QED
      BY <1>2, <2>3, <2>4, <2>6, <3>1
  <2>7. CASE d \in DOMAIN a /\ d \notin DOMAIN b
    <3>1. \A k \in DOMAIN b : k # d /\ (k < d <=> ~ (k > d))
      BY <2>5, <2>7
    <3> QED
      BY <1>2, <2>3, <2>4, <2>7, <3>1
  <2>8. CASE d \notin DOMAIN a /\ d \in DOMAIN b
    <3>1. \A k \in DOMAIN a : k # d /\ (k < d <=> ~ (k > d))
      BY <2>5, <2>8
    <3> QED
      BY <1>2, <2>3, <2>4, <2>8, <3>1
  <2> QED
    BY <2>5, <2>6, <2>7, <2>8
<1> QED
  BY <1>1, <1>2

\* A comparison that has come to p and q has found the same elements before.
Matched(a, b, p, q) ==
    /\ p \in DOMAIN a \cup {End} /\ q \in DOMAIN b \cup {End}
    /\ \A k \in DOMAIN a : k < p => k \in DOMAIN b /\ k < q /\ a[k] = b[k]
    /\ \A k \in DOMAIN b : k < q => k \in DOMAIN a /\ k < p

LEMMA MatchedFacts ==
    ASSUME NEW a \in MapsOf, NEW b \in MapsOf, NEW p, NEW q, Matched(a, b, p, q)
    PROVE  /\ p \in Nat /\ q \in Nat /\ End \in Nat /\ p =< End /\ q =< End
           /\ p # End => p \in DOMAIN a /\ p < End
           /\ q # End => q \in DOMAIN b /\ q < End
           /\ \A k \in DOMAIN a \cup DOMAIN b : k \in Nat /\ k < End
           /\ \A k \in Differ(a, b) : k \in Nat /\ (k >= p \/ k >= q)
           /\ \A k \in Differ(a, b) \cap DOMAIN a : k >= p
           /\ \A k \in Differ(a, b) \cap DOMAIN b : k >= q
<1>1. \A k \in DOMAIN a \cup DOMAIN b : k \in Nat /\ k < End
  BY MapFacts, EndIsLast
<1>2. End \in Nat
  BY EndIsLast
<1>3. p \in DOMAIN a \cup {End} /\ q \in DOMAIN b \cup {End}
  BY DEF Matched
<1>4. /\ p \in Nat /\ q \in Nat /\ p =< End /\ q =< End
      /\ p # End => p \in DOMAIN a /\ p < End
      /\ q # End => q \in DOMAIN b /\ q < End
  BY <1>1, <1>2, <1>3
<1>5. ASSUME NEW k \in Differ(a, b), k \in DOMAIN a  PROVE k >= p
  <2>1. ~ (k < p)
    BY <1>5 DEF Matched, Differ
  <2> QED
    BY <1>1, <1>4, <1>5, <2>1
<1>6. ASSUME NEW k \in Differ(a, b), k \in DOMAIN b  PROVE k >= q
  <2>1. ~ (k < q)
    BY <1>6 DEF Matched, Differ
  <2> QED
    BY <1>1, <1>4, <1>6, <2>1
<1>7. \A k \in Differ(a, b) : k \in DOMAIN a \cup DOMAIN b
  BY DEF Differ
<1> QED
  BY <1>1, <1>2, <1>4, <1>5, <1>6, <1>7

\* The first place at which they differ, unless the elements there are equal.
LEMMA FirstDifference ==
    ASSUME NEW a \in MapsOf, NEW b \in MapsOf, NEW p, NEW q, Matched(a, b, p, q)
    PROVE  /\ p < q => /\ p \in DOMAIN a /\ p \notin DOMAIN b /\ p \in Differ(a, b)
                       /\ \A k \in Differ(a, b) : p =< k
           /\ q < p => /\ q \in DOMAIN b /\ q \notin DOMAIN a /\ q \in Differ(a, b)
                       /\ \A k \in Differ(a, b) : q =< k
           /\ p = q /\ p # End /\ a[p] # b[p] =>
                       /\ p \in Differ(a, b) /\ p \in DOMAIN a /\ p \in DOMAIN b
                       /\ \A k \in Differ(a, b) : p =< k
           /\ p = End /\ q = End => a = b
<1>1. /\ p \in Nat /\ q \in Nat /\ End \in Nat /\ p =< End /\ q =< End
      /\ p # End => p \in DOMAIN a /\ p < End
      /\ q # End => q \in DOMAIN b /\ q < End
      /\ \A k \in DOMAIN a \cup DOMAIN b : k \in Nat /\ k < End
      /\ \A k \in Differ(a, b) : k \in Nat /\ (k >= p \/ k >= q)
  BY MatchedFacts
<1>2. ASSUME p < q
      PROVE  /\ p \in DOMAIN a /\ p \notin DOMAIN b /\ p \in Differ(a, b)
             /\ \A k \in Differ(a, b) : p =< k
  <2>1. p \in DOMAIN a
    BY <1>1, <1>2
  <2>2. p \notin DOMAIN b
    BY <1>1, <1>2 DEF Matched
  <2>3. \A k \in Differ(a, b) : p =< k
    BY <1>1, <1>2
  <2> QED
    BY <2>1, <2>2, <2>3 DEF Differ
<1>3. ASSUME q < p
      PROVE  /\ q \in DOMAIN b /\ q \notin DOMAIN a /\ q \in Differ(a, b)
             /\ \A k \in Differ(a, b) : q =< k
  <2>1. q \in DOMAIN b
    BY <1>1, <1>3
  <2>2. q \notin DOMAIN a
    BY <1>1, <1>3 DEF Matched
  <2>3. \A k \in Differ(a, b) : q =< k
    BY <1>1, <1>3
  <2> QED
    BY <2>1, <2>2, <2>3 DEF Differ
<1>4. ASSUME p = q, p # End, a[p] # b[p]
      PROVE  /\ p \in Differ(a, b) /\ p \in DOMAIN a /\ p \in DOMAIN b
             /\ \A k \in Differ(a, b) : p =< k
  BY <1>1, <1>4 DEF Differ
<1>5. ASSUME p = End, q = End  PROVE a = b
  <2>1. \A k \in DOMAIN a \cup DOMAIN b : k < End
    BY <1>1
  <2>2. Differ(a, b) = {}
    BY <1>5, <2>1 DEF Differ, Matched
  <2> QED
    BY <2>2, DifferFacts
<1> QED
  BY <1>2, <1>3, <1>4, <1>5

\* std::lexicographical_compare ends with the right answer.
LEMMA LessDecides ==
    ASSUME NEW a \in MapsOf, NEW b \in MapsOf, NEW p, NEW q, Matched(a, b, p, q)
    PROVE  /\ p # End /\ q # End /\ (p < q \/ (p = q /\ a[p] < b[q])) => M!Precedes(a, b)
           /\ p # End /\ q # End /\ (q < p \/ (p = q /\ b[q] < a[p])) => ~ M!Precedes(a, b)
           /\ p = End \/ q = End => (M!Precedes(a, b) <=> p = End /\ q # End)
<1>1. /\ p \in Nat /\ q \in Nat /\ End \in Nat /\ p =< End /\ q =< End
      /\ p # End => p \in DOMAIN a /\ p < End
      /\ q # End => q \in DOMAIN b /\ q < End
      /\ \A k \in DOMAIN a \cup DOMAIN b : k \in Nat /\ k < End
  BY MatchedFacts
<1>2. ASSUME p < q  PROVE M!Precedes(a, b) <=> \E k \in DOMAIN b : k > p
  BY <1>2, FirstDifference, PrecedesAt
<1>3. ASSUME q < p  PROVE M!Precedes(a, b) <=> \A k \in DOMAIN a : k < q
  BY <1>3, FirstDifference, PrecedesAt
<1>4. ASSUME p = q, p # End, a[p] # b[p]  PROVE M!Precedes(a, b) <=> a[p] < b[p]
  BY <1>4, FirstDifference, PrecedesAt
<1>5. p # End /\ q # End /\ p = q => a[p] \in Nat /\ b[p] \in Nat
  BY <1>1, MapFacts
<1>6. ASSUME p # End, q # End, p < q \/ (p = q /\ a[p] < b[q])  PROVE M!Precedes(a, b)
  <2>1. CASE p < q
    BY <1>1, <1>2, <1>6, <2>1
  <2>2. CASE p = q /\ a[p] < b[q]
    BY <1>4, <1>5, <1>6, <2>2
  <2> QED
    BY <1>6, <2>1, <2>2
<1>7. ASSUME p # End, q # End, q < p \/ (p = q /\ b[q] < a[p])  PROVE ~ M!Precedes(a, b)
  <2>1. CASE q < p
    <3>1. p \in DOMAIN a /\ ~ (p < q)
      BY <1>1, <1>7, <2>1
    <3> QED
      BY <1>3, <2>1, <3>1
  <2>2. CASE p = q /\ b[q] < a[p]
    BY <1>4, <1>5, <1>7, <2>2
  <2> QED
    BY <1>7, <2>1, <2>2
<1>8. ASSUME p = End, q # End  PROVE M!Precedes(a, b)
  <2>1. q < p
    BY <1>1, <1>8
  <2>2. \A k \in DOMAIN a : k < q
    BY <1>1, <1>8 DEF Matched
  <2> QED
    BY <1>3, <2>1, <2>2
<1>9. ASSUME q = End, p # End  PROVE ~ M!Precedes(a, b)
  <2>1. p < q
    BY <1>1, <1>9
  <2>2. \A k \in DOMAIN b : k < p
    BY <1>1, <1>9 DEF Matched
  <2>3. \A k \in DOMAIN b : ~ (k > p)
    BY <1>1, <2>2
  <2> QED
    BY <1>2, <2>1, <2>3
<1>10. ASSUME q = End, p = End  PROVE ~ M!Precedes(a, b)
  BY <1>10, FirstDifference, OrderIsTotal
<1> QED
  BY <1>6, <1>7, <1>8, <1>9, <1>10

\* A turn that finds equal elements goes on to the next ones.
LEMMA MatchedMoves ==
    ASSUME NEW a \in MapsOf, NEW b \in MapsOf, NEW p, NEW q, Matched(a, b, p, q),
           p # End, p = q, a[p] = b[q],
           NEW r \in DOMAIN a \cup {End}, p < r, \A k \in DOMAIN a : p < k => r =< k,
           NEW s \in DOMAIN b \cup {End}, q < s, \A k \in DOMAIN b : q < k => s =< k
    PROVE  Matched(a, b, r, s)
<1>1. /\ p \in Nat /\ p \in DOMAIN a /\ p \in DOMAIN b
      /\ \A k \in DOMAIN a \cup DOMAIN b : k \in Nat
      /\ r \in Nat /\ s \in Nat
  BY MatchedFacts
<1>2. ASSUME NEW k \in DOMAIN a, k < r  PROVE k \in DOMAIN b /\ k < s /\ a[k] = b[k]
  <2>1. k < p \/ k = p
    BY <1>1, <1>2
  <2>2. CASE k < p
    <3>1. k \in DOMAIN b /\ k < q /\ a[k] = b[k]
      BY <2>2 DEF Matched
    <3> QED
      BY <1>1, <3>1
  <2> QED
    BY <1>1, <2>1, <2>2
<1>3. ASSUME NEW k \in DOMAIN b, k < s  PROVE k \in DOMAIN a /\ k < r
  <2>1. k < q \/ k = q
    BY <1>1, <1>3
  <2>2. CASE k < q
    <3>1. k \in DOMAIN a /\ k < p
      BY <2>2 DEF Matched
    <3> QED
      BY <1>1, <3>1
  <2> QED
    BY <1>1, <2>1, <2>2
<1> QED
  BY <1>2, <1>3 DEF Matched

\* std::equal ends with the right answer if the sizes are the same, and does
\* not come to the end of the second container before that of the first.
LEMMA EqualDecides ==
    ASSUME NEW a \in MapsOf, NEW b \in MapsOf, NEW p, NEW q, Matched(a, b, p, q),
           Cardinality(DOMAIN a) = Cardinality(DOMAIN b)
    PROVE  /\ p = End => a = b
           /\ p # End /\ ~ (p = q /\ a[p] = b[q]) => a # b
           /\ p # End => q # End
<1>1. /\ p \in Nat /\ q \in Nat
      /\ p # End => p \in DOMAIN a
      /\ \A k \in DOMAIN a \cup DOMAIN b : k \in Nat /\ k < End
  BY MatchedFacts
<1>2. ASSUME p = End  PROVE a = b
  <2>1. DOMAIN a \subseteq DOMAIN b /\ \A k \in DOMAIN a : a[k] = b[k]
    BY <1>1, <1>2 DEF Matched
  <2>2. IsFiniteSet(DOMAIN b)
    BY MapFacts, FS_Subset, KeysAssumption
  <2>3. DOMAIN a = DOMAIN b
    BY <2>1, <2>2, FS_Subset
  <2> QED
    BY <2>1, <2>3, SameMap
<1>3. ASSUME p # End, ~ (p = q /\ a[p] = b[q])  PROVE a # b
  <2>1. CASE p # q
    <3>1. Differ(a, b) # {}
      BY <1>1, <2>1, FirstDifference
    <3> QED
      BY <3>1, DifferFacts
  <2>2. CASE p = q /\ a[p] # b[q]
    <3>1. Differ(a, b) # {}
      BY <1>3, <2>2, FirstDifference
    <3> QED
      BY <3>1, DifferFacts
  <2> QED
    BY <1>3, <2>1, <2>2
<1>4. ASSUME p # End, q = End  PROVE FALSE
  <2>1. DOMAIN b \subseteq DOMAIN a /\ \A k \in DOMAIN b : k < p
    BY <1>1, <1>4 DEF Matched
  <2>2. IsFiniteSet(DOMAIN a)
    BY MapFacts, FS_Subset, KeysAssumption
  <2>3. DOMAIN a = DOMAIN b
    BY <2>1, <2>2, FS_Subset
  <2> QED
    BY <1>1, <1>4, <2>1, <2>3
<1> QED
  BY <1>2, <1>3, <1>4

-----------------------------------------------------------------------------
(* What a running call has done so far.                                    *)

States == [Containers -> MapsOf]

SubscriptCall ==
    [op : {"subscript"}, asked : Containers \X Keys, on : Containers, was : States, key : Keys]

EqualRangeCall ==
    [op : {"equal_range"}, asked : Containers \X Keys, on : Containers, was : States, key : Keys,
     lower : Positions]

EraseCall ==
    [op : {"erase_range"}, asked : Containers \X Positions \X Positions, on : Containers,
     was : States, first : Positions, last : Positions]

ListCall ==
    [op : {"insert_range", "assign_range"}, asked : Containers \X Lists, on : Containers,
     was : States, todo : Seq(Elements)]

CompareCall ==
    [op : Equalities \cup Orders, asked : Containers \X Containers, on : Containers, was : States,
     with : Containers, first1 : Positions, first2 : Positions]

\* Nothing but what was looked up.
SubscriptFits(c, m) == c \in SubscriptCall /\ m = c.was /\ c.asked = <<c.on, c.key>>

EqualRangeFits(c, m) ==
    /\ c \in EqualRangeCall /\ m = c.was /\ c.asked = <<c.on, c.key>>
    /\ c.lower = Min({j \in DOMAIN m[c.on] : j >= c.key} \cup {End})

\* The elements from the first position asked for to the present one are gone.
EraseFits(c, m) ==
    /\ c \in EraseCall
    /\ c.first \in DOMAIN m[c.on] \cup {End}
    /\ \E p \in DOMAIN c.was[c.on] \cup {End} :
          /\ c.asked = <<c.on, p, c.last>> /\ p =< c.first /\ c.first =< c.last
          /\ c.last \in DOMAIN c.was[c.on] \cup {End}
          /\ DOMAIN m[c.on] = {j \in DOMAIN c.was[c.on] : j < p \/ j >= c.first}
    /\ \A j \in DOMAIN m[c.on] : m[c.on][j] = c.was[c.on][j]

\* What is still to do leads where the whole list would have led.
Filling(c) == IF c.op = "insert_range" THEN c.was[c.on] ELSE M!Empty

ListFits(c, m) ==
    /\ c \in ListCall
    /\ \E L \in Lists : /\ c.asked = <<c.on, L>>
                        /\ M!Filled(m[c.on], c.todo) = M!Filled(Filling(c), L)

\* The elements before the two positions are the same.
CompareFits(c, m) ==
    /\ c \in CompareCall /\ m = c.was
    /\ c.asked = IF c.op \in Swapped THEN <<c.with, c.on>> ELSE <<c.on, c.with>>
    /\ Matched(m[c.on], m[c.with], c.first1, c.first2)

CallFits(c, m) ==
    /\ c.on \in Containers /\ c.was \in States
    /\ \A d \in Containers \ {c.on} : m[d] = c.was[d]
    /\ \/ SubscriptFits(c, m) \/ EqualRangeFits(c, m) \/ EraseFits(c, m)
       \/ ListFits(c, m) \/ CompareFits(c, m)

CallsHold ==
    /\ content \in States
    /\ call # None => answer = NoAnswer /\ CallFits(call, content)

\* What every step has to be for the maps of MapCalls.
MapStep == M!Next \/ (Committed' = Committed /\ answer' = answer)

LEMMA CommittedIs ==
    /\ call = None => Committed = content
    /\ call # None => Committed = call.was
    /\ call' = None => Committed' = content'
    /\ call' # None => Committed' = call'.was
BY DEF Committed

LEMMA StateWritten ==
    ASSUME NEW s \in States, NEW c \in Containers, NEW m \in MapsOf
    PROVE  /\ [s EXCEPT ![c] = m] \in States /\ [s EXCEPT ![c] = m][c] = m
           /\ \A d \in Containers \ {c} : [s EXCEPT ![c] = m][d] = s[d]
           /\ \A t \in States : t[c] = m /\ (\A d \in Containers \ {c} : t[d] = s[d])
                                   => t = [s EXCEPT ![c] = m]
BY DEF States

LEMMA ContentIs ==
    ASSUME CallsHold, NEW c \in Containers
    PROVE  /\ content[c] \in MapsOf /\ Stored(c) = DOMAIN content[c] /\ Stored(c) \subseteq Keys
<1>1. content[c] \in MapsOf
  BY DEF CallsHold, States
<1> QED
  BY <1>1, MapFacts DEF Stored

\* A call that is over.
LEMMA CallsAtRest ==
    ASSUME content' \in States, call' = None
    PROVE  CallsHold'
BY DEF CallsHold

LEMMA MapStepIs ==
    ASSUME NEW c \in Containers, NEW k \in Keys
    PROVE  /\ M!Erase(c, k) \/ M!Subscript(c, k) \/ M!At(c, k) \/ M!Count(c, k)
                 \/ M!EqualRange(c, k) \/ M!Drop(c, k) => MapStep
           /\ \A v \in Values : M!Insert(c, k, v) \/ M!Write(c, k, v) => MapStep
BY DEF MapStep, M!Next

LEMMA MapStepOthers ==
    ASSUME NEW c \in Containers
    PROVE  /\ \A L \in Lists : M!InsertRange(c, L) \/ M!AssignRange(c, L) => MapStep
           /\ \A x \in Containers, o \in Equalities \cup Orders : M!Compare(o, c, x) => MapStep
           /\ M!Read => MapStep
BY DEF MapStep, M!Next, Equalities, Orders

-----------------------------------------------------------------------------
(* Calls of one step.                                                      *)

LEMMA InsertCalls ==
    ASSUME CallsHold, NEW c \in Containers, NEW k \in Keys, NEW v \in Given[k], Insert(c, k, v)
    PROVE  CallsHold' /\ MapStep
<1>1. /\ call = None /\ answer = NoAnswer /\ call' = None
      /\ content' = [content EXCEPT ![c] = Inserted(content[c], k, v)]
      /\ answer' = [op |-> "insert", asked |-> <<c, k, v>>, result |-> k \notin Stored(c)]
  BY DEF Insert, Free, Return
<1>2. v \in Values /\ content \in States /\ content[c] \in MapsOf
  BY KeysAssumption, ContentIs DEF CallsHold
<1>3. Inserted(content[c], k, v) \in MapsOf
  BY <1>2, InsertedIs
<1>4. content' \in States
  BY <1>1, <1>2, <1>3, StateWritten
<1>5. M!Filled(content[c], <<[key |-> k, value |-> v]>>) = Inserted(content[c], k, v)
  BY <1>2, FilledOne
<1>6. M!Insert(c, k, v)
  BY <1>1, <1>5, CommittedIs DEF M!Insert, M!Become, M!Answer, M!NoAnswer, NoAnswer, Stored
<1> QED
  BY <1>1, <1>2, <1>4, <1>6, CallsAtRest, MapStepIs

LEMMA EraseCalls ==
    ASSUME CallsHold, NEW c \in Containers, NEW k \in Keys, Erase(c, k)
    PROVE  CallsHold' /\ MapStep
<1>1. /\ call = None /\ answer = NoAnswer /\ call' = None
      /\ content' = [content EXCEPT ![c] = Erased(content[c], k)]
      /\ answer' = [op |-> "erase", asked |-> <<c, k>>, result |-> IF k \in Stored(c) THEN 1 ELSE 0]
  BY DEF Erase, Free, Return
<1>2. content \in States /\ Erased(content[c], k) \in MapsOf
  BY ContentIs, ErasedIs DEF CallsHold
<1>3. content' \in States
  BY <1>1, <1>2, StateWritten
<1>4. M!Erase(c, k)
  BY <1>1, CommittedIs DEF M!Erase, M!Become, M!Answer, M!NoAnswer, NoAnswer, Stored, Erased
<1> QED
  BY <1>1, <1>3, <1>4, CallsAtRest, MapStepIs

LEMMA WriteCalls ==
    ASSUME CallsHold, NEW c \in Containers, NEW k \in Keys, NEW v \in Given[k], Write(c, k, v)
    PROVE  CallsHold' /\ MapStep
<1>1. /\ call = None /\ call' = None /\ k \in DOMAIN content[c] /\ answer' = answer
      /\ content' = [content EXCEPT ![c] = [content[c] EXCEPT ![k] = v]]
  BY DEF Write, Quiet, Free, Stored
<1>2. v \in Values /\ content \in States /\ content[c] \in MapsOf
  BY KeysAssumption, ContentIs DEF CallsHold
<1>3. [content[c] EXCEPT ![k] = v] \in MapsOf
  <2>1. PICK S \in SUBSET Keys : content[c] \in [S -> Values]
    BY <1>2 DEF MapsOf
  <2>2. [content[c] EXCEPT ![k] = v] \in [S -> Values]
    BY <1>2, <2>1
  <2> QED
    BY <2>2, MapIs
<1>4. content' \in States
  BY <1>1, <1>2, <1>3, StateWritten
<1>5. M!Write(c, k, v)
  BY <1>1, CommittedIs DEF M!Write, M!Become
<1> QED
  BY <1>1, <1>2, <1>4, <1>5, CallsAtRest, MapStepIs

LEMMA LookCalls ==
    ASSUME CallsHold, NEW c \in Containers, NEW k \in Keys, At(c, k) \/ Count(c, k)
    PROVE  CallsHold' /\ MapStep
<1>1. call = None /\ answer = NoAnswer /\ call' = None /\ content' = content
  BY DEF At, Count, Quiet, Free, Return
<1>2. CallsHold'
  BY <1>1, CallsAtRest DEF CallsHold
<1>3. CASE At(c, k)
  <2>1. answer' = [op |-> "at", asked |-> <<c, k>>,
                   result |-> IF k \in DOMAIN content[c] THEN {content[c][k]} ELSE {}]
    BY <1>3 DEF At, Return, Stored
  <2>2. M!At(c, k)
    BY <1>1, <2>1, CommittedIs DEF M!At, M!Answer, M!NoAnswer, NoAnswer
  <2> QED
    BY <1>2, <2>2, MapStepIs
<1>4. CASE Count(c, k)
  <2>1. answer' = [op |-> "count", asked |-> <<c, k>>,
                   result |-> IF k \in DOMAIN content[c] THEN 1 ELSE 0]
    BY <1>4 DEF Count, Return, Stored
  <2>2. k \in DOMAIN content[c] => DOMAIN content[c] \cap {k} = {k}
    OBVIOUS
  <2>3. k \notin DOMAIN content[c] => DOMAIN content[c] \cap {k} = {}
    OBVIOUS
  <2>4. Cardinality({k}) = 1 /\ Cardinality({}) = 0
    BY FS_Singleton, FS_EmptySet
  <2>5. Cardinality(DOMAIN content[c] \cap {k}) = IF k \in DOMAIN content[c] THEN 1 ELSE 0
    BY <2>2, <2>3, <2>4
  <2>6. M!Count(c, k)
    BY <1>1, <2>1, <2>5, CommittedIs
       DEF M!Count, M!Cardinality, Cardinality, M!Answer, M!NoAnswer, NoAnswer
  <2> QED
    BY <1>2, <2>6, MapStepIs
<1> QED
  BY <1>3, <1>4

-----------------------------------------------------------------------------
(* Calls of several steps begin: nothing has happened to the maps.         *)

LEMMA MakeCalls ==
    ASSUME CallsHold, NEW d, Make(d), d # None, d.was = content,
           content' \in States, CallFits(d, content')
    PROVE  CallsHold' /\ MapStep
<1>1. call = None /\ answer = NoAnswer /\ call' = d /\ answer' = answer
  BY DEF Make, Quiet, Free
<1>2. Committed' = Committed
  BY <1>1, CommittedIs
<1> QED
  BY <1>1, <1>2 DEF CallsHold, MapStep

LEMMA LookupBegins ==
    ASSUME CallsHold, NEW c \in Containers, NEW k \in Keys, Subscript(c, k) \/ EqualRange(c, k)
    PROVE  CallsHold' /\ MapStep
<1>1. content \in States /\ content' = content
  BY DEF CallsHold, Subscript, EqualRange
<1>2. CASE Subscript(c, k)
  <2>1. PICK d : d = [op |-> "subscript", asked |-> <<c, k>>, on |-> c, was |-> content, key |-> k]
    OBVIOUS
  <2>2. Make(d)
    BY <1>2, <2>1 DEF Subscript
  <2>3. d \in SubscriptCall /\ d # None /\ d.was = content /\ d.on = c /\ d.asked = <<d.on, d.key>>
    BY <1>1, <2>1 DEF SubscriptCall, None
  <2>4. CallFits(d, content')
    BY <1>1, <2>3 DEF CallFits, SubscriptFits
  <2> QED
    BY <1>1, <2>2, <2>3, <2>4, MakeCalls
<1>3. CASE EqualRange(c, k)
  <2>1. PICK x : x = IF k \in Stored(c) THEN k ELSE Following(c, k)
    OBVIOUS
  <2>2. PICK d : d = [op |-> "equal_range", asked |-> <<c, k>>, on |-> c, was |-> content,
                      key |-> k, lower |-> x]
    OBVIOUS
  <2>3. Make(d)
    BY <1>3, <2>1, <2>2 DEF EqualRange
  <2>4. /\ Stored(c) \subseteq Keys /\ Stored(c) = DOMAIN content[c]
        /\ k \in Nat /\ k < End /\ End \in Nat /\ \A j \in Stored(c) : j \in Nat
    BY ContentIs, EndIsLast
  <2>5. x = Min({j \in Stored(c) : j >= k} \cup {End})
    <3>1. CASE k \in Stored(c)
      <4>1. PICK S : S = {j \in Stored(c) : j >= k} \cup {End}
        OBVIOUS
      <4>2. /\ \A j \in S : j \in Nat /\ k =< j
            /\ k \in S
        <5>1. \A j \in S : (j \in Stored(c) /\ j >= k) \/ j = End
          BY <4>1
        <5>2. k >= k /\ \A j \in Nat : j >= k => k =< j
          BY <2>4
        <5>3. k \in S
          BY <3>1, <4>1, <5>2
        <5> QED
          BY <2>4, <5>1, <5>2, <5>3
      <4>3. Min(S) \in Nat /\ Min(S) =< k /\ k =< Min(S)
        <5>1. S \in SUBSET Nat
          BY <4>2
        <5> QED
          BY <4>2, <5>1, MinOfKeys
      <4>4. Min(S) = k
        BY <2>4, <4>3
      <4> QED
        BY <2>1, <3>1, <4>1, <4>4
    <3>2. CASE k \notin Stored(c)
      <4>1. \A j \in Stored(c) : j >= k <=> j > k
        BY <2>4, <3>2
      <4>2. {j \in Stored(c) : j >= k} = {j \in Stored(c) : j > k}
        BY <4>1
      <4> QED
        BY <2>1, <3>2, <4>2 DEF Following
    <3> QED
      BY <3>1, <3>2
  <2>6. x \in Positions
    <3>1. Following(c, k) \in Stored(c) \cup {End}
      BY <2>4, NextPosition
    <3> QED
      BY <2>1, <2>4, <3>1 DEF Positions
  <2>7. /\ d \in EqualRangeCall /\ d # None /\ d.was = content /\ d.on = c
        /\ d.asked = <<d.on, d.key>> /\ d.lower = x /\ d.key = k
    BY <1>1, <2>2, <2>6 DEF EqualRangeCall, None
  <2>8. EqualRangeFits(d, content')
    BY <1>1, <2>4, <2>5, <2>7 DEF EqualRangeFits
  <2>9. CallFits(d, content')
    BY <1>1, <2>7, <2>8 DEF CallFits
  <2> QED
    BY <1>1, <2>3, <2>7, <2>9, MakeCalls
<1> QED
  BY <1>2, <1>3

LEMMA EraseRangeBegins ==
    ASSUME CallsHold, NEW c \in Containers, NEW p, NEW q, EraseRange(c, p, q)
    PROVE  CallsHold' /\ MapStep
<1>1. content \in States /\ content' = content
  BY DEF CallsHold, EraseRange
<1>2. PICK d : d = [op |-> "erase_range", asked |-> <<c, p, q>>, on |-> c, was |-> content,
                    first |-> p, last |-> q]
  OBVIOUS
<1>3. Make(d) /\ p \in DOMAIN content[c] \cup {End} /\ q \in DOMAIN content[c] \cup {End} /\ p =< q
  BY <1>2 DEF EraseRange, Stored
<1>4. DOMAIN content[c] \subseteq Keys
  BY ContentIs
<1>5. /\ p \in Positions /\ q \in Positions /\ p \in Nat /\ q \in Nat
      /\ DOMAIN content[c] \subseteq Nat
  BY <1>3, <1>4, EndIsLast DEF Positions
<1>6. d \in EraseCall /\ d # None
  BY <1>1, <1>2, <1>5 DEF EraseCall, None
<1>7. /\ d.was = content /\ d.on = c
      /\ d.asked = <<c, p, q>> /\ d.first = p /\ d.last = q
  BY <1>2
<1>8. DOMAIN content[c] = {j \in DOMAIN content[c] : j < p \/ j >= p}
  BY <1>5
<1>9. EraseFits(d, content)
  BY <1>3, <1>5, <1>6, <1>7, <1>8 DEF EraseFits
<1>10. CallFits(d, content')
  BY <1>1, <1>7, <1>9 DEF CallFits
<1> QED
  BY <1>1, <1>3, <1>6, <1>7, <1>10, MakeCalls

LEMMA ListBegins ==
    ASSUME CallsHold, NEW c \in Containers, NEW L \in Lists, InsertRange(c, L) \/ AssignRange(c, L)
    PROVE  CallsHold' /\ MapStep
<1>1. content \in States /\ L \in Seq(Elements)
  BY KeysAssumption DEF CallsHold, Elements
<1>2. CASE InsertRange(c, L)
  <2>1. PICK d : d = [op |-> "insert_range", asked |-> <<c, L>>, on |-> c, was |-> content,
                      todo |-> L]
    OBVIOUS
  <2>2. Make(d) /\ content' = content
    BY <1>2, <2>1 DEF InsertRange
  <2>3. d \in ListCall /\ d # None
    BY <1>1, <2>1 DEF ListCall, None
  <2>4. /\ d.was = content /\ d.on = c /\ d.asked = <<c, L>> /\ d.todo = L
        /\ Filling(d) = content[c]
    BY <2>1 DEF Filling
  <2>5. ListFits(d, content)
    BY <2>3, <2>4 DEF ListFits
  <2>6. CallFits(d, content')
    BY <1>1, <2>2, <2>4, <2>5 DEF CallFits
  <2> QED
    BY <1>1, <2>2, <2>3, <2>4, <2>6, MakeCalls
<1>3. CASE AssignRange(c, L)
  <2>1. PICK d : d = [op |-> "assign_range", asked |-> <<c, L>>, on |-> c, was |-> content,
                      todo |-> L]
    OBVIOUS
  <2>2. Make(d) /\ content' = [content EXCEPT ![c] = M!Empty]
    BY <1>3, <2>1, EmptyIs DEF AssignRange
  <2>3. d \in ListCall /\ d # None
    BY <1>1, <2>1 DEF ListCall, None
  <2>4. /\ d.was = content /\ d.on = c /\ d.asked = <<c, L>> /\ d.todo = L
        /\ Filling(d) = M!Empty
    BY <2>1 DEF Filling
  <2>5. /\ content' \in States /\ content'[c] = M!Empty
        /\ \A e \in Containers \ {c} : content'[e] = content[e]
    <3>1. PICK m \in MapsOf : m = M!Empty
      BY EmptyIs
    <3>2. content' = [content EXCEPT ![c] = m]
      BY <2>2, <3>1
    <3>3. /\ content' \in States /\ content'[c] = m
          /\ \A e \in Containers \ {c} : content'[e] = content[e]
      <4>1. /\ [content EXCEPT ![c] = m] \in States /\ [content EXCEPT ![c] = m][c] = m
            /\ \A e \in Containers \ {c} : [content EXCEPT ![c] = m][e] = content[e]
        BY <1>1, <3>1, StateWritten
      <4> QED
        BY <3>2, <4>1
    <3> QED
      BY <3>1, <3>3
  <2>6. ListFits(d, content')
    BY <2>3, <2>4, <2>5 DEF ListFits
  <2>7. CallFits(d, content')
    BY <1>1, <2>4, <2>5, <2>6 DEF CallFits
  <2> QED
    BY <2>2, <2>3, <2>4, <2>5, <2>7, MakeCalls
<1> QED
  BY <1>2, <1>3

LEMMA CompareBegins ==
    ASSUME CallsHold, NEW c \in Containers, NEW x \in Containers, NEW o \in Equalities \cup Orders,
           Compare(o, c, x)
    PROVE  CallsHold' /\ MapStep
<1>1. content \in States /\ content' = content
  BY DEF CallsHold, Compare
<1>2. PICK l, r : /\ l = IF o \in Swapped THEN x ELSE c
                  /\ r = IF o \in Swapped THEN c ELSE x
  OBVIOUS
<1>3. PICK d : d = [op |-> o, asked |-> <<c, x>>, on |-> l, was |-> content,
                    with |-> r, first1 |-> Begin(l), first2 |-> Begin(r)]
  OBVIOUS
<1>4. Make(d)
  BY <1>2, <1>3 DEF Compare
<1>5. ASSUME NEW e \in Containers
      PROVE  /\ Begin(e) \in DOMAIN content[e] \cup {End} /\ Begin(e) \in Positions
             /\ \A k \in DOMAIN content[e] : ~ (k < Begin(e))
  <2>1. Stored(e) \subseteq Keys /\ Stored(e) = DOMAIN content[e]
    BY ContentIs
  <2>2. Begin(e) \in Stored(e) \cup {End} /\ \A p \in Stored(e) \cup {End} : Begin(e) =< p
    BY <2>1, FirstPosition
  <2>3. Begin(e) \in Nat /\ Stored(e) \subseteq Nat /\ Begin(e) \in Positions
    BY <2>1, <2>2, EndIsLast DEF Positions
  <2> QED
    BY <2>1, <2>2, <2>3
<1>6. l \in Containers /\ r \in Containers
  BY <1>2
<1>7. d \in CompareCall /\ d # None
  BY <1>1, <1>3, <1>5, <1>6 DEF CompareCall, None, Equalities, Orders
<1>8. /\ d.was = content /\ d.on = l /\ d.with = r /\ d.op = o /\ d.asked = <<c, x>>
      /\ d.first1 = Begin(l) /\ d.first2 = Begin(r)
  BY <1>3
<1>9. Matched(content[l], content[r], Begin(l), Begin(r))
  BY <1>5, <1>6 DEF Matched
<1>10. CompareFits(d, content)
  BY <1>2, <1>7, <1>8, <1>9 DEF CompareFits
<1>11. CallFits(d, content')
  BY <1>1, <1>6, <1>8, <1>10 DEF CallFits
<1> QED
  BY <1>1, <1>4, <1>7, <1>8, <1>11, MakeCalls

-----------------------------------------------------------------------------
(* Calls of several steps go on and end.                                   *)

\* What a step of a running call knows.
LEMMA Running ==
    ASSUME CallsHold, call # None
    PROVE  /\ content \in States /\ answer = NoAnswer /\ CallFits(call, content)
           /\ call.on \in Containers /\ call.was \in States /\ Committed = call.was
           /\ \A d \in Containers \ {call.on} : content[d] = call.was[d]
           /\ content[call.on] \in MapsOf /\ call.was[call.on] \in MapsOf
<1>1. content \in States /\ answer = NoAnswer /\ CallFits(call, content)
  BY DEF CallsHold
<1>2. /\ call.on \in Containers /\ call.was \in States
      /\ \A d \in Containers \ {call.on} : content[d] = call.was[d]
  BY <1>1 DEF CallFits
<1>3. content[call.on] \in MapsOf /\ call.was[call.on] \in MapsOf
  BY <1>1, <1>2 DEF States
<1> QED
  BY <1>1, <1>2, <1>3, CommittedIs

LEMMA WhichCall ==
    ASSUME NEW c, NEW m, CallFits(c, m)
    PROVE  /\ c.op = "subscript" => SubscriptFits(c, m)
           /\ c.op = "equal_range" => EqualRangeFits(c, m)
           /\ c.op = "erase_range" => EraseFits(c, m)
           /\ c.op \in {"insert_range", "assign_range"} => ListFits(c, m)
           /\ c.op \in Equalities \cup Orders => CompareFits(c, m)
<1>1. SubscriptFits(c, m) => c.op = "subscript"
  BY DEF SubscriptFits, SubscriptCall
<1>2. EqualRangeFits(c, m) => c.op = "equal_range"
  BY DEF EqualRangeFits, EqualRangeCall
<1>3. EraseFits(c, m) => c.op = "erase_range"
  BY DEF EraseFits, EraseCall
<1>4. ListFits(c, m) => c.op \in {"insert_range", "assign_range"}
  BY DEF ListFits, ListCall
<1>5. CompareFits(c, m) => c.op \in Equalities \cup Orders
  BY DEF CompareFits, CompareCall
<1> QED
  BY <1>1, <1>2, <1>3, <1>4, <1>5 DEF CallFits, Equalities, Orders

\* The result is there: the maps are what the containers hold.
LEMMA CallEnds ==
    ASSUME CallsHold, call # None, content' \in States, NEW r, Return(call.op, call.asked, r)
    PROVE  CallsHold' /\ Committed' = content' /\ M!Answer(call.op, call.asked, r)
<1>1. call' = None /\ answer' = [op |-> call.op, asked |-> call.asked, result |-> r]
  BY DEF Return
<1> QED
  BY <1>1, Running, CallsAtRest, CommittedIs DEF M!Answer, M!NoAnswer, NoAnswer

\* The call goes on: nothing has happened to the maps.
LEMMA CallGoesOn ==
    ASSUME CallsHold, call # None, NEW d, Go(d), d # None, d.was = call.was,
           content' \in States, CallFits(d, content')
    PROVE  CallsHold' /\ MapStep
<1>1. call' = d /\ answer' = answer /\ answer = NoAnswer
  BY Running DEF Go
<1>2. Committed' = Committed
  BY <1>1, CommittedIs
<1> QED
  BY <1>1, <1>2 DEF CallsHold, MapStep

LEMMA SubscriptWorks ==
    ASSUME CallsHold, SubscriptFinds \/ SubscriptAdds
    PROVE  CallsHold' /\ MapStep
<1>0. call.op = "subscript"
  BY DEF SubscriptFinds, SubscriptAdds
<1>1. call # None
  BY <1>0 DEF None
<1>2. PICK c, k : c = call.on /\ k = call.key
  OBVIOUS
<1>3. /\ content \in States /\ c \in Containers /\ content[c] \in MapsOf
      /\ Committed = call.was /\ SubscriptFits(call, content)
  BY <1>0, <1>1, <1>2, Running, WhichCall
<1>4. k \in Keys /\ Committed = content /\ call.asked = <<c, k>>
  BY <1>2, <1>3 DEF SubscriptFits, SubscriptCall
<1>5. Default \in Values
  BY KeysAssumption
<1>6. PICK m : m = M!Filled(content[c], <<[key |-> k, value |-> Default]>>)
  OBVIOUS
<1>7. m = Inserted(content[c], k, Default)
  BY <1>3, <1>4, <1>5, <1>6, FilledOne
<1>8. /\ m \in MapsOf
      /\ \A j \in DOMAIN content[c] : m[j] = content[c][j]
      /\ k \notin DOMAIN content[c] => m[k] = Default
      /\ k \in DOMAIN content[c] => m = content[c]
  <2>1. PICK n \in MapsOf : n = content[c]
    BY <1>3
  <2>2. PICK v \in Values : v = Default
    BY <1>5
  <2>3. /\ Inserted(n, k, v) \in MapsOf
        /\ \A j \in DOMAIN n : Inserted(n, k, v)[j] = n[j]
        /\ k \notin DOMAIN n => Inserted(n, k, v)[k] = v
        /\ k \in DOMAIN n => Inserted(n, k, v) = n
    <3>1. k \in Keys
      BY <1>4
    <3> QED
      BY <3>1, InsertedIs
  <2> QED
    BY <1>7, <2>1, <2>2, <2>3
<1>9. /\ content' = [content EXCEPT ![c] = m]
      /\ Return("subscript", <<c, k>>, m[k])
  <2>1. CASE SubscriptFinds
    <3>1. /\ k \in DOMAIN content[c] /\ content' = content
          /\ Return("subscript", <<c, k>>, content[c][k])
      BY <1>0, <1>2, <1>4, <2>1 DEF SubscriptFinds, Done, Stored
    <3>2. content = [content EXCEPT ![c] = content[c]]
      BY <1>3 DEF States
    <3> QED
      BY <1>8, <3>1, <3>2
  <2>2. CASE SubscriptAdds
    <3>1. /\ k \notin DOMAIN content[c] /\ Return("subscript", <<c, k>>, Default)
          /\ content' = [content EXCEPT ![c] = Inserted(content[c], k, Default)]
      BY <1>2, <1>4, <2>2 DEF SubscriptAdds, Stored
    <3> QED
      BY <1>7, <1>8, <3>1
  <2> QED
    BY <2>1, <2>2
<1>10. content' \in States
  BY <1>3, <1>8, <1>9, StateWritten
<1>11. CallsHold' /\ Committed' = content' /\ M!Answer("subscript", <<c, k>>, m[k])
  <2>1. call.op = "subscript" /\ call.asked = <<c, k>>
    BY <1>0, <1>4
  <2> QED
    BY <1>1, <1>9, <1>10, <2>1, CallEnds
<1>12. M!Subscript(c, k)
  BY <1>4, <1>6, <1>9, <1>11 DEF M!Subscript, M!Become
<1> QED
  BY <1>3, <1>4, <1>11, <1>12, MapStepIs

LEMMA EqualRangeWorks ==
    ASSUME CallsHold, EqualRangeEnds
    PROVE  CallsHold' /\ MapStep
<1>0. call.op = "equal_range"
  BY DEF EqualRangeEnds
<1>1. call # None
  BY <1>0 DEF None
<1>2. PICK c, k : c = call.on /\ k = call.key
  OBVIOUS
<1>3. /\ content \in States /\ c \in Containers
      /\ Committed = call.was /\ EqualRangeFits(call, content)
  BY <1>0, <1>1, <1>2, Running, WhichCall
<1>4. /\ k \in Keys /\ Committed = content /\ call.asked = <<c, k>>
      /\ call.lower = Min({j \in DOMAIN content[c] : j >= k} \cup {End})
  BY <1>2, <1>3 DEF EqualRangeFits, EqualRangeCall
<1>5. PICK p, q : p = call.lower /\ q = Following(c, k)
  OBVIOUS
<1>6. Return("equal_range", <<c, k>>, <<p, q>>) /\ content' = content
  BY <1>0, <1>2, <1>4, <1>5 DEF EqualRangeEnds, Done
<1>7. p = M!AtOrAfter(c, k) /\ q = M!After(c, k)
  BY <1>4, <1>5, SameEnd DEF M!AtOrAfter, M!After, M!Min, Min, Following, Stored
<1>8. CallsHold' /\ Committed' = content' /\ M!Answer("equal_range", <<c, k>>, <<p, q>>)
  <2>1. call.op = "equal_range" /\ call.asked = <<c, k>> /\ content' \in States
    BY <1>0, <1>3, <1>4, <1>6
  <2> QED
    BY <1>1, <1>6, <2>1, CallEnds
<1>9. M!EqualRange(c, k)
  BY <1>4, <1>6, <1>7, <1>8 DEF M!EqualRange
<1> QED
  BY <1>3, <1>4, <1>8, <1>9, MapStepIs

\* A range is erased from its first element on.
LEMMA EraseGoesOn ==
    ASSUME CallsHold, EraseTurn
    PROVE  CallsHold' /\ MapStep
<1>0. call.op = "erase_range" /\ call.first # call.last
  BY DEF EraseTurn
<1>1. call # None
  BY <1>0 DEF None
<1>2. PICK c, f, l : c = call.on /\ f = call.first /\ l = call.last
  OBVIOUS
<1>3. /\ content \in States /\ c \in Containers /\ content[c] \in MapsOf
      /\ call.was \in States /\ EraseFits(call, content) /\ CallFits(call, content)
  BY <1>0, <1>1, <1>2, Running, WhichCall
<1>4. PICK m \in MapsOf, w \in MapsOf : m = content[c] /\ w = call.was[c]
  BY <1>2, <1>3, <1>1, Running
<1>5. /\ call \in EraseCall /\ f \in DOMAIN m \cup {End}
      /\ \A j \in DOMAIN m : m[j] = w[j]
  BY <1>2, <1>3, <1>4 DEF EraseFits
<1>6. PICK p \in DOMAIN w \cup {End} :
         /\ call.asked = <<c, p, l>> /\ p =< f /\ f =< l /\ l \in DOMAIN w \cup {End}
         /\ DOMAIN m = {j \in DOMAIN w : j < p \/ j >= f}
  BY <1>2, <1>3, <1>4 DEF EraseFits
<1>7. /\ Stored(c) = DOMAIN m /\ Stored(c) \subseteq Keys
      /\ \A j \in DOMAIN w : j \in Nat /\ j < End
      /\ \A j \in DOMAIN m : j \in Nat /\ j < End
      /\ End \in Nat /\ p \in Nat /\ f \in Nat /\ l \in Nat
  BY <1>3, <1>4, <1>5, <1>6, ContentIs, MapFacts, EndIsLast
<1>8. f < l /\ f < End /\ f \in DOMAIN m
  BY <1>0, <1>2, <1>5, <1>6, <1>7
<1>9. PICK g : g = Following(c, f)
  OBVIOUS
<1>10. g \in DOMAIN m \cup {End} /\ f < g /\ \A j \in DOMAIN m : f < j => g =< j
  BY <1>7, <1>8, <1>9, NextPosition
<1>11. g \in Nat /\ g =< l
  <2>1. l # End => l \in DOMAIN m
    BY <1>6, <1>7
  <2> QED
    BY <1>7, <1>8, <1>10, <2>1
<1>12. PICK n \in MapsOf : n = Erased(m, f)
  BY ErasedIs
<1>13. DOMAIN n = DOMAIN m \ {f} /\ \A j \in DOMAIN n : n[j] = m[j]
  BY <1>12, ErasedIs
<1>14. DOMAIN n = {j \in DOMAIN w : j < p \/ j >= g}
  <2>1. ASSUME NEW j \in DOMAIN w  PROVE j \in DOMAIN n <=> j < p \/ j >= g
    <3>1. j \in Nat /\ (j \in DOMAIN m <=> j < p \/ j >= f)
      BY <1>6, <1>7
    <3>2. j \in DOMAIN m /\ f < j => g =< j
      BY <1>10
    <3> QED
      BY <1>6, <1>7, <1>10, <1>11, <1>13, <3>1, <3>2
  <2>2. \A j \in DOMAIN n : j \in DOMAIN w
    BY <1>6, <1>13
  <2> QED
    BY <2>1, <2>2
<1>15. /\ content' \in States /\ content'[c] = n
       /\ \A e \in Containers \ {c} : content'[e] = content[e]
  <2>1. content' = [content EXCEPT ![c] = n]
    BY <1>2, <1>4, <1>12 DEF EraseTurn
  <2>2. /\ [content EXCEPT ![c] = n] \in States /\ [content EXCEPT ![c] = n][c] = n
        /\ \A e \in Containers \ {c} : [content EXCEPT ![c] = n][e] = content[e]
    BY <1>3, StateWritten
  <2> QED
    BY <2>1, <2>2
<1>16. PICK d : d = [call EXCEPT !.first = g]
  OBVIOUS
<1>17. Go(d)
  BY <1>2, <1>9, <1>16 DEF EraseTurn
<1>18. g \in Positions
  BY <1>7, <1>10 DEF Positions
<1>19. /\ d \in EraseCall /\ d.op = "erase_range" /\ d.on = c /\ d.was = call.was
       /\ d.first = g /\ d.last = l /\ d.asked = <<c, p, l>>
  BY <1>2, <1>5, <1>6, <1>16, <1>18 DEF EraseCall
<1>20. EraseFits(d, content')
  <2>1. /\ d.first \in DOMAIN content'[d.on] \cup {End}
        /\ \A j \in DOMAIN content'[d.on] : content'[d.on][j] = d.was[d.on][j]
    <3>1. g \in DOMAIN n \cup {End}
      BY <1>7, <1>10, <1>13
    <3>2. \A j \in DOMAIN n : n[j] = w[j]
      BY <1>5, <1>13
    <3> QED
      BY <1>4, <1>15, <1>19, <3>1, <3>2
  <2>2. /\ p \in DOMAIN d.was[d.on] \cup {End}
        /\ d.asked = <<d.on, p, d.last>> /\ p =< d.first /\ d.first =< d.last
        /\ d.last \in DOMAIN d.was[d.on] \cup {End}
        /\ DOMAIN content'[d.on] = {j \in DOMAIN d.was[d.on] : j < p \/ j >= d.first}
    <3>1. p =< g
      BY <1>6, <1>7, <1>10, <1>11
    <3> QED
      BY <1>4, <1>6, <1>11, <1>14, <1>15, <1>19, <3>1
  <2> QED
    BY <1>19, <2>1, <2>2 DEF EraseFits
<1>21. CallFits(d, content')
  <2>1. \A e \in Containers \ {c} : content'[e] = call.was[e]
    BY <1>1, <1>2, <1>15, Running
  <2> QED
    BY <1>3, <1>19, <1>20, <2>1 DEF CallFits
<1>22. d # None
  BY <1>19 DEF None
<1> QED
  BY <1>1, <1>15, <1>17, <1>19, <1>21, <1>22, CallGoesOn

\* What is written in one container only.
LEMMA WrittenOnce ==
    ASSUME NEW s \in States, NEW t \in States, NEW c \in Containers, NEW m, t[c] = m,
           \A d \in Containers \ {c} : t[d] = s[d]
    PROVE  t = [s EXCEPT ![c] = m]
BY DEF States

LEMMA EraseIsOver ==
    ASSUME CallsHold, EraseEnds
    PROVE  CallsHold' /\ MapStep
<1>0. call.op = "erase_range" /\ call.first = call.last
  BY DEF EraseEnds
<1>1. call # None
  BY <1>0 DEF None
<1>2. PICK c, l : c = call.on /\ l = call.last
  OBVIOUS
<1>3. /\ content \in States /\ c \in Containers /\ content[c] \in MapsOf
      /\ call.was \in States /\ EraseFits(call, content) /\ Committed = call.was
      /\ \A d \in Containers \ {c} : content[d] = call.was[d]
  BY <1>0, <1>1, <1>2, Running, WhichCall
<1>4. PICK m \in MapsOf, w \in MapsOf : m = content[c] /\ w = call.was[c]
  BY <1>2, <1>3, <1>1, Running
<1>5. \A j \in DOMAIN m : m[j] = w[j]
  BY <1>2, <1>3, <1>4 DEF EraseFits
<1>6. PICK p \in DOMAIN w \cup {End} :
         /\ call.asked = <<c, p, l>> /\ p =< l /\ l \in DOMAIN w \cup {End}
         /\ DOMAIN m = {j \in DOMAIN w : j < p \/ j >= l}
  BY <1>0, <1>2, <1>3, <1>4 DEF EraseFits
<1>7. m = [k \in {j \in DOMAIN w : j < p \/ j >= l} |-> w[k]]
  <2>1. m = [k \in DOMAIN m |-> m[k]]
    BY MapFacts
  <2> QED
    BY <1>5, <1>6, <2>1
<1>8. content = [call.was EXCEPT ![c] = m]
  BY <1>3, <1>4, WrittenOnce
<1>9. Return("erase_range", <<c, p, l>>, l) /\ content' = content
  BY <1>0, <1>2, <1>6 DEF EraseEnds, Done
<1>10. CallsHold' /\ Committed' = content' /\ M!Answer("erase_range", <<c, p, l>>, l)
  <2>1. call.op = "erase_range" /\ call.asked = <<c, p, l>> /\ content' \in States
    BY <1>0, <1>3, <1>6, <1>9
  <2> QED
    BY <1>1, <1>9, <2>1, CallEnds
<1>11. M!EraseRange(c, p, l)
  <2>1. Committed' = [Committed EXCEPT ![c] = m] /\ Committed[c] = w
    BY <1>3, <1>4, <1>8, <1>9, <1>10
  <2> QED
    BY <1>7, <1>10, <2>1 DEF M!EraseRange, M!Become
<1>12. p \in DOMAIN Committed[c] \cup {M!End} /\ l \in DOMAIN Committed[c] \cup {M!End} /\ p =< l
  BY <1>3, <1>4, <1>6, SameEnd
<1>13. M!Next
  BY <1>3, <1>11, <1>12 DEF M!Next
<1> QED
  BY <1>10, <1>13 DEF MapStep

\* A list is inserted from its first element on.
LEMMA InsertGoesOn ==
    ASSUME CallsHold, InsertTurn
    PROVE  CallsHold' /\ MapStep
<1>0. call.op \in {"insert_range", "assign_range"} /\ call.todo # <<>>
  BY DEF InsertTurn
<1>1. call # None
  BY <1>0 DEF None
<1>2. PICK c, t : c = call.on /\ t = call.todo
  OBVIOUS
<1>3. /\ content \in States /\ c \in Containers /\ content[c] \in MapsOf
      /\ call.was \in States /\ ListFits(call, content)
      /\ \A d \in Containers \ {c} : content[d] = call.was[d]
  BY <1>0, <1>1, <1>2, Running, WhichCall
<1>4. PICK m \in MapsOf : m = content[c]
  BY <1>3
<1>5. call \in ListCall /\ t \in Seq(Elements) /\ t # <<>>
  BY <1>0, <1>2, <1>3 DEF ListFits, ListCall
<1>6. PICK L \in Lists : /\ call.asked = <<c, L>>
                         /\ M!Filled(m, t) = M!Filled(Filling(call), L)
  BY <1>2, <1>3, <1>4 DEF ListFits
<1>7. PICK k, v, T : k = Head(t).key /\ v = Head(t).value /\ T = Tail(t)
  OBVIOUS
<1>8. k \in Keys /\ v \in Values /\ T \in Seq(Elements)
  <2>1. Head(t) \in Elements /\ Tail(t) \in Seq(Elements)
    BY <1>5
  <2> QED
    BY <1>7, <2>1 DEF Elements
<1>9. PICK n \in MapsOf : n = Inserted(m, k, v)
  BY <1>8, InsertedIs
<1>10. M!Filled(n, T) = M!Filled(m, t)
  BY <1>5, <1>7, <1>9, FilledFirst
<1>11. /\ content' \in States /\ content'[c] = n
       /\ \A e \in Containers \ {c} : content'[e] = content[e]
  <2>1. content' = [content EXCEPT ![c] = n]
    BY <1>2, <1>4, <1>7, <1>9 DEF InsertTurn
  <2>2. /\ [content EXCEPT ![c] = n] \in States /\ [content EXCEPT ![c] = n][c] = n
        /\ \A e \in Containers \ {c} : [content EXCEPT ![c] = n][e] = content[e]
    BY <1>3, StateWritten
  <2> QED
    BY <2>1, <2>2
<1>12. PICK d : d = [call EXCEPT !.todo = T]
  OBVIOUS
<1>13. Go(d)
  BY <1>2, <1>7, <1>12 DEF InsertTurn
<1>14. /\ d \in ListCall /\ d.op = call.op /\ d.on = c /\ d.was = call.was
       /\ d.todo = T /\ d.asked = <<c, L>>
  BY <1>2, <1>5, <1>6, <1>8, <1>12 DEF ListCall
<1>15. Filling(d) = Filling(call)
  BY <1>2, <1>14 DEF Filling
<1>16. ListFits(d, content')
  BY <1>6, <1>10, <1>11, <1>14, <1>15 DEF ListFits
<1>17. CallFits(d, content')
  <2>1. \A e \in Containers \ {c} : content'[e] = call.was[e]
    BY <1>3, <1>11
  <2> QED
    BY <1>3, <1>14, <1>16, <2>1 DEF CallFits
<1>18. d # None
  BY <1>0, <1>14 DEF None
<1> QED
  BY <1>1, <1>11, <1>13, <1>14, <1>17, <1>18, CallGoesOn

LEMMA InsertIsOver ==
    ASSUME CallsHold, InsertEnds
    PROVE  CallsHold' /\ MapStep
<1>0. call.op \in {"insert_range", "assign_range"} /\ call.todo = <<>>
  BY DEF InsertEnds
<1>1. call # None
  BY <1>0 DEF None
<1>2. PICK c, o : c = call.on /\ o = call.op
  OBVIOUS
<1>3. /\ content \in States /\ c \in Containers /\ content[c] \in MapsOf
      /\ call.was \in States /\ ListFits(call, content) /\ Committed = call.was
      /\ \A d \in Containers \ {c} : content[d] = call.was[d]
  BY <1>0, <1>1, <1>2, Running, WhichCall
<1>4. PICK m \in MapsOf : m = content[c]
  BY <1>3
<1>5. PICK L \in Lists : /\ call.asked = <<c, L>>
                         /\ M!Filled(m, <<>>) = M!Filled(Filling(call), L)
  BY <1>0, <1>2, <1>3, <1>4 DEF ListFits
<1>6. m = M!Filled(Filling(call), L)
  BY <1>5, FilledNone
<1>7. content = [call.was EXCEPT ![c] = m]
  BY <1>3, <1>4, WrittenOnce
<1>8. Return(o, <<c, L>>, TRUE) /\ content' = content
  BY <1>2, <1>5 DEF InsertEnds, Done
<1>9. CallsHold' /\ Committed' = content' /\ M!Answer(o, <<c, L>>, TRUE)
  <2>1. call.op = o /\ call.asked = <<c, L>> /\ content' \in States
    BY <1>2, <1>3, <1>5, <1>8
  <2> QED
    BY <1>1, <1>8, <2>1, CallEnds
<1>10. Committed' = [Committed EXCEPT ![c] = m]
  BY <1>3, <1>7, <1>8, <1>9
<1>11. CASE o = "insert_range"
  <2>1. m = M!Filled(Committed[c], L)
    BY <1>2, <1>3, <1>6, <1>11 DEF Filling
  <2>2. M!InsertRange(c, L)
    BY <1>9, <1>10, <1>11, <2>1 DEF M!InsertRange, M!Become
  <2> QED
    BY <1>3, <1>5, <1>9, <2>2, MapStepOthers
<1>12. CASE o = "assign_range"
  <2>1. m = M!Filled(M!Empty, L)
    BY <1>2, <1>6, <1>12 DEF Filling
  <2>2. M!AssignRange(c, L)
    BY <1>9, <1>10, <1>12, <2>1 DEF M!AssignRange, M!Become
  <2> QED
    BY <1>3, <1>5, <1>9, <2>2, MapStepOthers
<1> QED
  BY <1>0, <1>2, <1>11, <1>12

-----------------------------------------------------------------------------
(* Comparisons.                                                            *)

\* What a comparison knows: the elements before its two positions are equal.
LEMMA Comparing ==
    ASSUME CallsHold, call.op \in Equalities \cup Orders
    PROVE  /\ call # None /\ call \in CompareCall /\ Committed = content /\ call.was = content
           /\ content \in States /\ CallFits(call, content)
           /\ call.on \in Containers /\ call.with \in Containers
           /\ content[call.on] \in MapsOf /\ content[call.with] \in MapsOf
           /\ call.asked = IF call.op \in Swapped THEN <<call.with, call.on>>
                                                  ELSE <<call.on, call.with>>
           /\ Matched(content[call.on], content[call.with], call.first1, call.first2)
<1>1. call # None
  BY DEF None, Equalities, Orders
<1>2. content \in States /\ CompareFits(call, content) /\ Committed = call.was
      /\ CallFits(call, content)
  BY <1>1, Running, WhichCall
<1>3. call \in CompareCall /\ content = call.was
      /\ call.on \in Containers /\ call.with \in Containers
  BY <1>2 DEF CompareFits, CompareCall
<1>4. content[call.on] \in MapsOf /\ content[call.with] \in MapsOf
  BY <1>2, <1>3 DEF States
<1> QED
  BY <1>1, <1>2, <1>3, <1>4 DEF CompareFits

\* What the operators ask of the two containers they compare element by element.
Asks(o, a, b) == IF o \in Equalities THEN a = b ELSE M!Precedes(a, b)

LEMMA OperatorsAsk ==
    ASSUME NEW o \in Equalities \cup Orders, NEW a \in MapsOf, NEW b \in MapsOf
    PROVE  /\ o \notin Swapped /\ o \notin Negated => (M!Related(o, a, b) <=> Asks(o, a, b))
           /\ o \notin Swapped /\ o \in Negated => (M!Related(o, a, b) <=> ~ Asks(o, a, b))
           /\ o \in Swapped /\ o \notin Negated => (M!Related(o, b, a) <=> Asks(o, a, b))
           /\ o \in Swapped /\ o \in Negated => (M!Related(o, b, a) <=> ~ Asks(o, a, b))
<1>1. PICK P, Q, E \in BOOLEAN :
         (P <=> M!Precedes(a, b)) /\ (Q <=> M!Precedes(b, a)) /\ (E <=> a = b)
  OBVIOUS
<1>2. (~ P <=> Q \/ E) /\ (~ Q <=> P \/ E)
  BY <1>1, OrderIsTotal
<1>3. CASE o = "=="
  BY <1>3 DEF Asks, M!Related, Swapped, Negated, Equalities
<1>4. CASE o = "!="
  BY <1>4 DEF Asks, M!Related, Swapped, Negated, Equalities
<1>5. CASE o = "<"
  BY <1>5 DEF Asks, M!Related, Swapped, Negated, Equalities
<1>6. CASE o = ">"
  BY <1>6 DEF Asks, M!Related, Swapped, Negated, Equalities
<1>7. CASE o = "<="
  <2>1. M!Related(o, b, a) <=> M!Precedes(b, a) \/ b = a
    BY <1>7 DEF M!Related
  <2>2. Asks(o, a, b) <=> M!Precedes(a, b)
    BY <1>7 DEF Asks, Equalities
  <2>3. o \in Swapped /\ o \in Negated
    BY <1>7 DEF Swapped, Negated
  <2> QED
    BY <1>1, <1>2, <2>1, <2>2, <2>3
<1>8. CASE o = ">="
  <2>1. M!Related(o, a, b) <=> M!Precedes(b, a) \/ a = b
    BY <1>8 DEF M!Related
  <2>2. Asks(o, a, b) <=> M!Precedes(a, b)
    BY <1>8 DEF Asks, Equalities
  <2>3. o \notin Swapped /\ o \in Negated
    BY <1>8 DEF Swapped, Negated
  <2> QED
    BY <1>1, <1>2, <2>1, <2>2, <2>3
<1> QED
  BY <1>3, <1>4, <1>5, <1>6, <1>7, <1>8 DEF Equalities, Orders

\* A comparison that has come to its answer.
LEMMA CompareIsOver ==
    ASSUME CallsHold, call.op \in Equalities \cup Orders, NEW b \in BOOLEAN, Outcome(b),
           b <=> Asks(call.op, content[call.on], content[call.with])
    PROVE  CallsHold' /\ MapStep
<1>1. PICK o \in Equalities \cup Orders : o = call.op
  OBVIOUS
<1>2. PICK l \in Containers, r \in Containers : l = call.on /\ r = call.with
  BY Comparing
<1>3. /\ call # None /\ content \in States /\ Committed = content
      /\ call.asked = IF o \in Swapped THEN <<r, l>> ELSE <<l, r>>
  BY <1>1, <1>2, Comparing
<1>4. PICK m \in MapsOf, n \in MapsOf : m = content[l] /\ n = content[r]
  BY <1>2, Comparing
<1>5. b <=> Asks(o, m, n)
  BY <1>1, <1>2, <1>4
<1>6. PICK c \in Containers, x \in Containers :
         /\ c = (IF o \in Swapped THEN r ELSE l) /\ x = (IF o \in Swapped THEN l ELSE r)
  BY <1>2
<1>7. call.asked = <<c, x>>
  BY <1>3, <1>6
<1>8. PICK e \in BOOLEAN : e = IF o \in Negated THEN ~ b ELSE b
  OBVIOUS
<1>9. Return(o, <<c, x>>, e) /\ content' = content
  BY <1>1, <1>7, <1>8 DEF Outcome, Done
<1>10. CallsHold' /\ Committed' = content' /\ M!Answer(o, <<c, x>>, e)
  <2>1. call.op = o /\ call.asked = <<c, x>> /\ content' \in States
    BY <1>1, <1>3, <1>7, <1>9
  <2> QED
    BY <1>3, <1>9, <2>1, CallEnds
<1>11. e <=> M!Related(o, content[c], content[x])
  <2>1. CASE o \in Swapped
    <3>1. content[c] = n /\ content[x] = m
      BY <1>4, <1>6, <2>1
    <3>2. /\ o \notin Negated => (M!Related(o, n, m) <=> Asks(o, m, n))
          /\ o \in Negated => (M!Related(o, n, m) <=> ~ Asks(o, m, n))
      BY <2>1, OperatorsAsk
    <3> QED
      BY <1>5, <1>8, <3>1, <3>2
  <2>2. CASE o \notin Swapped
    <3>1. content[c] = m /\ content[x] = n
      BY <1>4, <1>6, <2>2
    <3>2. /\ o \notin Negated => (M!Related(o, m, n) <=> Asks(o, m, n))
          /\ o \in Negated => (M!Related(o, m, n) <=> ~ Asks(o, m, n))
      BY <2>2, OperatorsAsk
    <3> QED
      BY <1>5, <1>8, <3>1, <3>2
  <2> QED
    BY <2>1, <2>2
<1>12. e = M!Related(o, content[c], content[x])
  <2>1. M!Related(o, content[c], content[x]) \in BOOLEAN
    BY DEF M!Related
  <2> QED
    BY <1>11, <2>1
<1>13. M!Compare(o, c, x)
  <2>1. M!Answer(o, <<c, x>>, M!Related(o, Committed[c], Committed[x]))
    BY <1>3, <1>10, <1>12
  <2>2. Committed' = Committed
    BY <1>3, <1>9, <1>10
  <2> QED
    BY <2>1, <2>2 DEF M!Compare
<1> QED
  BY <1>1, <1>6, <1>10, <1>13, MapStepOthers

\* A comparison that goes on.
LEMMA CompareGoesOn ==
    ASSUME CallsHold, call.op \in Equalities \cup Orders, MoveOn, content' = content,
           call.first1 # End, call.first1 = call.first2,
           content[call.on][call.first1] = content[call.with][call.first2]
    PROVE  CallsHold' /\ MapStep
<1>1. PICK l \in Containers, r \in Containers : l = call.on /\ r = call.with
  BY Comparing
<1>2. PICK m \in MapsOf, n \in MapsOf : m = content[l] /\ n = content[r]
  BY <1>1, Comparing
<1>3. PICK p, q : p = call.first1 /\ q = call.first2
  OBVIOUS
<1>4. /\ Matched(m, n, p, q) /\ p # End /\ p = q /\ m[p] = n[q]
      /\ call # None /\ content \in States /\ call.was = content /\ call \in CompareCall
      /\ CallFits(call, content)
  BY <1>1, <1>2, <1>3, Comparing
<1>5. p \in Nat /\ p < End /\ q \in Nat /\ q < End
  BY <1>4, MatchedFacts
<1>6. /\ Stored(l) \subseteq Keys /\ Stored(l) = DOMAIN m
      /\ Stored(r) \subseteq Keys /\ Stored(r) = DOMAIN n
  BY <1>2, ContentIs
<1>7. PICK s, t : s = Following(l, p) /\ t = Following(r, q)
  OBVIOUS
<1>8. /\ s \in DOMAIN m \cup {End} /\ p < s /\ \A k \in DOMAIN m : p < k => s =< k
      /\ t \in DOMAIN n \cup {End} /\ q < t /\ \A k \in DOMAIN n : q < k => t =< k
  BY <1>5, <1>6, <1>7, NextPosition
<1>9. Matched(m, n, s, t)
  BY <1>4, <1>8, MatchedMoves
<1>10. s \in Positions /\ t \in Positions
  BY <1>6, <1>8 DEF Positions
<1>11. PICK d : d = [call EXCEPT !.first1 = s, !.first2 = t]
  OBVIOUS
<1>12. Go(d)
  BY <1>1, <1>3, <1>7, <1>11 DEF MoveOn
<1>13. /\ d \in CompareCall /\ d.op = call.op /\ d.on = l /\ d.with = r /\ d.was = call.was
       /\ d.asked = call.asked /\ d.first1 = s /\ d.first2 = t
  BY <1>1, <1>4, <1>10, <1>11 DEF CompareCall
<1>14. CompareFits(d, content')
  <2>1. d.asked = IF d.op \in Swapped THEN <<d.with, d.on>> ELSE <<d.on, d.with>>
    BY <1>1, <1>13, Comparing
  <2>2. Matched(content'[d.on], content'[d.with], d.first1, d.first2)
    BY <1>2, <1>9, <1>13
  <2> QED
    BY <1>4, <1>13, <2>1, <2>2 DEF CompareFits
<1>15. CallFits(d, content')
  BY <1>1, <1>4, <1>13, <1>14 DEF CallFits
<1>16. d # None
  BY <1>13 DEF None, Equalities, Orders
<1> QED
  BY <1>4, <1>12, <1>13, <1>15, <1>16, CallGoesOn

LEMMA EqualWorks ==
    ASSUME CallsHold, SizesDiffer \/ EqualTurn \/ EqualEnds
    PROVE  CallsHold' /\ MapStep
<1>0. call.op \in Equalities /\ call.op \in Equalities \cup Orders
  BY DEF SizesDiffer, EqualTurn, EqualEnds
<1>1. PICK l \in Containers, r \in Containers : l = call.on /\ r = call.with
  BY <1>0, Comparing
<1>2. PICK m \in MapsOf, n \in MapsOf : m = content[l] /\ n = content[r]
  BY <1>0, <1>1, Comparing
<1>3. PICK p, q : p = call.first1 /\ q = call.first2
  OBVIOUS
<1>4. Matched(m, n, p, q)
  BY <1>0, <1>1, <1>2, <1>3, Comparing
<1>5. SameSize <=> Cardinality(DOMAIN m) = Cardinality(DOMAIN n)
  BY <1>1, <1>2 DEF SameSize, Stored
<1>6. Asks(call.op, content[call.on], content[call.with]) <=> m = n
  BY <1>0, <1>1, <1>2 DEF Asks
<1>7. CASE SizesDiffer
  <2>1. Outcome(FALSE) /\ m # n
    BY <1>5, <1>7 DEF SizesDiffer
  <2> QED
    BY <1>0, <1>6, <2>1, CompareIsOver
<1>8. CASE EqualEnds
  <2>1. Outcome(TRUE) /\ p = End /\ Cardinality(DOMAIN m) = Cardinality(DOMAIN n)
    BY <1>3, <1>5, <1>8 DEF EqualEnds
  <2>2. m = n
    BY <1>4, <2>1, EqualDecides
  <2> QED
    BY <1>0, <1>6, <2>1, <2>2, CompareIsOver
<1>9. CASE EqualTurn
  <2>1. /\ p # End /\ Cardinality(DOMAIN m) = Cardinality(DOMAIN n)
        /\ Element(call.on, call.first1) = <<p, m[p]>>
        /\ Element(call.with, call.first2) = <<q, n[q]>>
    BY <1>1, <1>2, <1>3, <1>5, <1>9 DEF EqualTurn, Element
  <2>2. CASE <<p, m[p]>> = <<q, n[q]>>
    <3>1. MoveOn /\ content' = content /\ p = q /\ m[p] = n[q]
      BY <1>9, <2>1, <2>2 DEF EqualTurn
    <3> QED
      BY <1>0, <1>1, <1>2, <1>3, <2>1, <3>1, CompareGoesOn
  <2>3. CASE <<p, m[p]>> # <<q, n[q]>>
    <3>1. Outcome(FALSE) /\ ~ (p = q /\ m[p] = n[p])
      BY <1>9, <2>1, <2>3 DEF EqualTurn
    <3>2. m # n
      BY <1>4, <2>1, <3>1, EqualDecides
    <3> QED
      BY <1>0, <1>6, <3>1, <3>2, CompareIsOver
  <2> QED
    BY <2>2, <2>3
<1> QED
  BY <1>7, <1>8, <1>9

LEMMA LessWorks ==
    ASSUME CallsHold, LessTurn \/ LessEnds
    PROVE  CallsHold' /\ MapStep
<1>0. call.op \in Orders /\ call.op \in Equalities \cup Orders /\ call.op \notin Equalities
  BY DEF LessTurn, LessEnds, Orders, Equalities
<1>1. PICK l \in Containers, r \in Containers : l = call.on /\ r = call.with
  BY <1>0, Comparing
<1>2. PICK m \in MapsOf, n \in MapsOf : m = content[l] /\ n = content[r]
  BY <1>0, <1>1, Comparing
<1>3. PICK p, q : p = call.first1 /\ q = call.first2
  OBVIOUS
<1>4. Matched(m, n, p, q)
  BY <1>0, <1>1, <1>2, <1>3, Comparing
<1>5. Asks(call.op, content[call.on], content[call.with]) <=> M!Precedes(m, n)
  BY <1>0, <1>1, <1>2 DEF Asks
<1>6. CASE LessEnds
  <2>1. PICK b \in BOOLEAN : b = (p = End /\ q # End)
    OBVIOUS
  <2>2. Outcome(b) /\ (p = End \/ q = End)
    BY <1>3, <1>6, <2>1 DEF LessEnds
  <2>3. b <=> M!Precedes(m, n)
    <3>1. M!Precedes(m, n) <=> p = End /\ q # End
      BY <1>4, <2>2, LessDecides
    <3>2. b <=> p = End /\ q # End
      BY <2>1
    <3> QED
      BY <3>1, <3>2
  <2> QED
    BY <1>0, <1>5, <2>2, <2>3, CompareIsOver
<1>7. CASE LessTurn
  <2>1. PICK e, f : e = <<p, m[p]>> /\ f = <<q, n[q]>>
    OBVIOUS
  <2>2. /\ p # End /\ q # End
        /\ \/ ElementBefore(e, f) /\ Outcome(TRUE)
           \/ ElementBefore(f, e) /\ Outcome(FALSE)
           \/ e = f /\ MoveOn /\ content' = content
    BY <1>1, <1>2, <1>3, <1>7, <2>1 DEF LessTurn, Element
  <2>3. /\ ElementBefore(e, f) <=> p < q \/ (p = q /\ m[p] < n[q])
        /\ ElementBefore(f, e) <=> q < p \/ (p = q /\ n[q] < m[p])
        /\ e = f => p = q /\ m[p] = n[q]
    BY <2>1 DEF ElementBefore
  <2>4. CASE ElementBefore(e, f) /\ Outcome(TRUE)
    <3>1. M!Precedes(m, n)
      BY <1>4, <2>2, <2>3, <2>4, LessDecides
    <3> QED
      BY <1>0, <1>5, <2>4, <3>1, CompareIsOver
  <2>5. CASE ElementBefore(f, e) /\ Outcome(FALSE)
    <3>1. ~ M!Precedes(m, n)
      BY <1>4, <2>2, <2>3, <2>5, LessDecides
    <3> QED
      BY <1>0, <1>5, <2>5, <3>1, CompareIsOver
  <2>6. CASE e = f /\ MoveOn /\ content' = content
    BY <1>0, <1>1, <1>2, <1>3, <2>2, <2>3, <2>6, CompareGoesOn
  <2> QED
    BY <2>2, <2>4, <2>5, <2>6
<1> QED
  BY <1>6, <1>7

-----------------------------------------------------------------------------
(* Every step.                                                             *)

LEMMA InitCalls == Init => CallsHold /\ M!Init
<1> SUFFICES ASSUME Init  PROVE CallsHold /\ M!Init
  OBVIOUS
<1>1. call = None /\ answer = NoAnswer /\ content = [c \in Containers |-> M!Empty]
  BY EmptyIs DEF Init
<1>2. Committed = content
  BY <1>1, CommittedIs
<1>3. content \in States
  BY <1>1, EmptyIs DEF States
<1> QED
  BY <1>1, <1>2, <1>3 DEF CallsHold, M!Init, M!NoAnswer, NoAnswer

\* The client's loops change the maps only by what they erase.
LEMMA LoopCalls ==
    ASSUME Inv, CallsHold, Loops
    PROVE  CallsHold' /\ MapStep
<1>1. loop # None
  BY DEF Loops, ForwardTurn, BackwardTurn, LoopErases, LoopEnds
<1>2. /\ call = None /\ loop.on \in Containers /\ Stored(loop.on) \in SUBSET Keys
      /\ loop.at \in Stored(loop.on) \cup {End} /\ content \in States
  BY <1>1, LoopFacts DEF CallsHold
<1>3. CASE ForwardTurn \/ BackwardTurn \/ LoopEnds
  <2>1. content' = content /\ call' = call /\ answer' = answer
    BY <1>3 DEF ForwardTurn, BackwardTurn, LoopEnds
  <2> QED
    BY <1>2, <2>1, CommittedIs, CallsAtRest DEF MapStep
<1>4. CASE LoopErases
  <2>0. PICK c, k : c = loop.on /\ k = loop.at
    OBVIOUS
  <2>1. c \in Containers /\ c = loop.on /\ k = loop.at
    BY <1>2, <2>0
  <2>2. /\ content' = [content EXCEPT ![c] = Erased(content[c], k)]
        /\ call' = call /\ answer' = answer
    BY <1>4, <2>1 DEF LoopErases, VisitErasing
  <2>3. k \in Keys
    BY <1>2, <1>4, <2>1 DEF LoopErases, Stop
  <2>4. PICK m \in MapsOf : m = Erased(content[c], k)
    BY ContentIs, ErasedIs, <2>1
  <2>5. content' \in States
    BY <1>2, <2>1, <2>2, <2>4, StateWritten
  <2>6. M!Drop(c, k)
    BY <1>2, <2>2, CommittedIs DEF M!Drop, M!Become, Erased
  <2>7. CallsHold'
    BY <1>2, <2>2, <2>5, CallsAtRest
  <2> QED
    BY <2>1, <2>3, <2>6, <2>7, MapStepIs
<1> QED
  BY <1>3, <1>4 DEF Loops

LEMMA ReadCalls ==
    ASSUME CallsHold, Read
    PROVE  CallsHold' /\ MapStep
<1>1. /\ call = None /\ call' = call /\ content' = content /\ answer' = NoAnswer
      /\ content \in States
  BY DEF CallsHold, Read
<1>2. M!Read
  BY <1>1, CommittedIs DEF M!Read, M!NoAnswer, NoAnswer
<1> QED
  BY <1>1, <1>2, CallsAtRest DEF MapStep, M!Next

LEMMA WorksCalls ==
    ASSUME CallsHold, Works
    PROVE  CallsHold' /\ MapStep
BY SubscriptWorks, EqualRangeWorks, EraseGoesOn, EraseIsOver, InsertGoesOn, InsertIsOver,
   EqualWorks, LessWorks DEF Works

LEMMA NextCalls ==
    ASSUME Inv, CallsHold, [Next]_vars
    PROVE  CallsHold' /\ MapStep
<1>1. CASE UNCHANGED vars
  <2>1. content' = content /\ call' = call /\ answer' = answer
    BY <1>1 DEF vars
  <2> QED
    BY <2>1 DEF CallsHold, MapStep, Committed
<1>2. ASSUME NEW c \in Containers, NEW d \in {"forward", "backward"}, LoopBegins(c, d)
      PROVE  CallsHold' /\ MapStep
  <2>1. content' = content /\ call' = call /\ answer' = answer
    BY <1>2 DEF LoopBegins
  <2> QED
    BY <2>1 DEF CallsHold, MapStep, Committed
<1>3. ASSUME NEW c \in Containers, NEW k \in Keys,
             \/ Erase(c, k) \/ At(c, k) \/ Count(c, k) \/ Subscript(c, k) \/ EqualRange(c, k)
             \/ \E v \in Given[k] : Insert(c, k, v) \/ Write(c, k, v)
      PROVE  CallsHold' /\ MapStep
  <2>1. ASSUME NEW v \in Given[k], Insert(c, k, v) \/ Write(c, k, v)
        PROVE  CallsHold' /\ MapStep
    BY <2>1, InsertCalls, WriteCalls
  <2>2. CASE Erase(c, k)
    BY <2>2, EraseCalls
  <2>3. CASE At(c, k) \/ Count(c, k)
    BY <2>3, LookCalls
  <2>4. CASE Subscript(c, k) \/ EqualRange(c, k)
    BY <2>4, LookupBegins
  <2> QED
    BY <1>3, <2>1, <2>2, <2>3, <2>4
<1>4. ASSUME NEW c \in Containers,
             \/ \E p, q \in Keys \cup {End} : EraseRange(c, p, q)
             \/ \E L \in Lists : InsertRange(c, L) \/ AssignRange(c, L)
             \/ \E x \in Containers, o \in Equalities \cup Orders : Compare(o, c, x)
      PROVE  CallsHold' /\ MapStep
  <2>1. ASSUME NEW p, NEW q, EraseRange(c, p, q)  PROVE CallsHold' /\ MapStep
    BY <2>1, EraseRangeBegins
  <2>2. ASSUME NEW L \in Lists, InsertRange(c, L) \/ AssignRange(c, L)
        PROVE  CallsHold' /\ MapStep
    BY <2>2, ListBegins
  <2>3. ASSUME NEW x \in Containers, NEW o \in Equalities \cup Orders, Compare(o, c, x)
        PROVE  CallsHold' /\ MapStep
    BY <2>3, CompareBegins
  <2> QED
    BY <1>4, <2>1, <2>2, <2>3
<1>5. CASE Works
  BY <1>5, WorksCalls
<1>6. CASE Loops
  BY <1>6, LoopCalls
<1>7. CASE Read
  BY <1>7, ReadCalls
<1> QED
  BY <1>1, <1>2, <1>3, <1>4, <1>5, <1>6, <1>7 DEF Next

-----------------------------------------------------------------------------
(* What the calls promise.                                                 *)

\* What the induction over the calls shows: how far a running call has come.
THEOREM CallsKeepTrack == Spec => []CallsHold
<1>1. Init => CallsHold
  BY InitCalls
<1>2. Inv /\ CallsHold /\ [Next]_vars => CallsHold'
  BY NextCalls
<1> QED
  BY <1>1, <1>2, LoopsKeepTrack, PTL DEF Spec

LEMMA CallsFitType ==
    ASSUME Inv, CallsHold
    PROVE  TypeOK
<1>1. ASSUME NEW c \in Containers
      PROVE  Stored(c) \subseteq Keys /\ Range(content[c]) \subseteq Values
  BY ContentIs, MapFacts DEF Range
<1>2. loop # None => loop.at \in Stored(loop.on) \cup {End} /\ call = None
  BY LoopFacts
<1>3. ASSUME call.op = "erase_range"
      PROVE  /\ call.first \in Stored(call.on) \cup {End}
             /\ call.last \in Stored(call.on) \cup {End}
  <2>1. call # None
    BY <1>3 DEF None
  <2>2. PICK c, f, l : c = call.on /\ f = call.first /\ l = call.last
    OBVIOUS
  <2>3. PICK m \in MapsOf, w \in MapsOf : m = content[c] /\ w = call.was[c]
    BY <2>1, <2>2, Running
  <2>4. EraseFits(call, content)
    BY <1>3, <2>1, Running, WhichCall
  <2>5. f \in DOMAIN m \cup {End}
    BY <2>2, <2>3, <2>4 DEF EraseFits
  <2>6. PICK p \in DOMAIN w \cup {End} :
           /\ f =< l /\ l \in DOMAIN w \cup {End}
           /\ DOMAIN m = {j \in DOMAIN w : j < p \/ j >= f}
    BY <2>2, <2>3, <2>4 DEF EraseFits
  <2>7. f \in Nat /\ l \in Nat
    BY <2>5, <2>6, MapFacts, EndIsLast
  <2>8. l \in DOMAIN m \cup {End}
    BY <2>6, <2>7
  <2> QED
    BY <2>2, <2>3, <2>5, <2>8 DEF Stored
<1>4. ASSUME call.op \in Equalities \cup Orders
      PROVE  /\ call.first1 \in Stored(call.on) \cup {End}
             /\ call.first2 \in Stored(call.with) \cup {End}
  <2>1. Matched(content[call.on], content[call.with], call.first1, call.first2)
    BY <1>4, Comparing
  <2> QED
    BY <2>1 DEF Matched, Stored
<1> QED
  BY <1>1, <1>2, <1>3, <1>4 DEF TypeOK

\* The positions that running calls and loops have come to are those of
\* elements, or end().
THEOREM TypeHolds == Spec => []TypeOK
BY LoopsKeepTrack, CallsKeepTrack, CallsFitType, PTL

\* Each call does at one instant what is promised of it, however many calls of
\* the tree it makes: operator[], equal_range, erase of a range, insertion of
\* a list, assignment of one, and the six comparisons (radix_map.h,
\* radix_set.h, ar_tree.h).
THEOREM ImplementsCalls == Spec => ImplementsMapCalls
<1>1. Init => M!Init
  BY InitCalls
<1>2. Inv /\ CallsHold /\ [Next]_vars => [M!Next]_<<Committed, answer>>
  BY NextCalls DEF MapStep
<1> QED
  BY <1>1, <1>2, LoopsKeepTrack, CallsKeepTrack, PTL DEF Spec, ImplementsMapCalls, M!Spec
=============================================================================
