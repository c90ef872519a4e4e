------------------------------ MODULE RadixMap ------------------------------
(***************************************************************************)
(* The calls of radix_map and radix_set that make several calls of the     *)
(* tree, and loops of the client over a container.  A call of the tree is  *)
(* one step and does what OrderedMap says; that the two trees do so is     *)
(* shown in ArTree and ArPrefixTree (and where their bounds do not, there, *)
(* too).  The algorithms of the standard library that compare containers   *)
(* run over the iterators step by step.                                    *)
(*                                                                         *)
(* During a loop the client may insert, and may erase every element but    *)
(* the one its iterator points to; no other call runs meanwhile.           *)
(***************************************************************************)
EXTENDS Integers, FiniteSetsExt, SequencesExt

CONSTANTS
    Containers,  \* the containers of the client
    Keys,        \* keys, as numbers in the order of their transformed bytes
    Values,      \* mapped values, numbers too
    Given,       \* those the client gives with each key
    Default,     \* mapped_type()
    Loopers,     \* those of them it runs loops over
    Lists        \* the ranges the client passes, sequences of elements

ASSUME KeysAssumption ==
    /\ Keys \subseteq Nat /\ Keys # {} /\ IsFiniteSet(Keys)
    /\ Loopers \subseteq Containers
    /\ Values \subseteq Nat /\ Default \in Values
    /\ Given \in [Keys -> SUBSET Values]
    /\ Lists \subseteq Seq([key : Keys, value : Values])

VARIABLES
    content,  \* the elements of each container
    call,     \* the call that is running, and the elements when it was made
    answer,   \* its result, until the client has read it
    loop      \* the client's loop and the position of its iterator, the keys it
              \* has seen and those that have stayed there all along

vars == <<content, call, answer, loop>>

None == [op |-> "none"]

NoAnswer == [op |-> "none", asked |-> <<>>, result |-> FALSE]

-----------------------------------------------------------------------------
(* Positions and iterators.                                                *)

Stored(c) == DOMAIN content[c]

End == Max(Keys) + 1

Begin(c) == Min(Stored(c) \cup {End})

\* A plausible slip: beyond the last element comes the first.
FollowingWraps(c, p) ==
    LET beyond == {k \in Stored(c) : k > p} IN IF beyond = {} THEN Begin(c) ELSE Min(beyond)

\* ++it.
Following(c, p) == Min({k \in Stored(c) : k > p} \cup {End})

\* --it; before begin() it wraps around.
Preceding(c, p) ==
    LET below == {k \in Stored(c) : k < p} IN Max(IF below = {} THEN Stored(c) ELSE below)

\* *it.
Element(c, p) == <<p, content[c][p]>>

ElementBefore(e, f) == e[1] < f[1] \/ (e[1] = f[1] /\ e[2] < f[2])

Inserted(m, k, v) == [j \in DOMAIN m \cup {k} |-> IF j \in DOMAIN m THEN m[j] ELSE v]

Erased(m, k) == [j \in DOMAIN m \ {k} |-> m[j]]

-----------------------------------------------------------------------------
(* Calls that are one call of the tree.                                    *)

Init ==
    /\ content = [c \in Containers |-> [k \in {} |-> Default]]
    /\ call = None /\ answer = NoAnswer /\ loop = None

\* The client is free to make a call.
Free  == call = None /\ answer = NoAnswer
Quiet == Free /\ loop = None

Looping(c) == loop # None /\ loop.on = c

Return(o, asked, r) == answer' = [op |-> o, asked |-> asked, result |-> r] /\ call' = None

Insert(c, k, v) ==
    /\ Free
    /\ content' = [content EXCEPT ![c] = Inserted(@, k, v)]
    /\ Return("insert", <<c, k, v>>, k \notin Stored(c))
    /\ UNCHANGED loop

Erase(c, k) ==
    /\ Free
    /\ ~(Looping(c) /\ loop.at = k)
    /\ content' = [content EXCEPT ![c] = Erased(@, k)]
    /\ Return("erase", <<c, k>>, IF k \in Stored(c) THEN 1 ELSE 0)
    /\ loop' = IF Looping(c) THEN [loop EXCEPT !.stayed = @ \ {k}] ELSE loop

\* The client writes to what operator[], at or *it refers to.
Write(c, k, v) ==
    /\ Quiet /\ k \in Stored(c) /\ content[c][k] # v
    /\ content' = [content EXCEPT ![c][k] = v]
    /\ UNCHANGED <<call, answer, loop>>

At(c, k) ==
    /\ Quiet
    /\ Return("at", <<c, k>>, IF k \in Stored(c) THEN {content[c][k]} ELSE {})
    /\ UNCHANGED <<content, loop>>

Count(c, k) ==
    /\ Quiet
    /\ Return("count", <<c, k>>, IF k \in Stored(c) THEN 1 ELSE 0)
    /\ UNCHANGED <<content, loop>>

-----------------------------------------------------------------------------
(* Calls that are several.                                                 *)

Make(c) == Quiet /\ call' = c /\ UNCHANGED <<answer, loop>>

Go(c) == call' = c /\ UNCHANGED <<answer, loop>>

Done(r) == Return(call.op, call.asked, r) /\ UNCHANGED <<content, loop>>

\* operator[]: find, and if nothing is found emplace.
Subscript(c, k) ==
    /\ Make([op |-> "subscript", asked |-> <<c, k>>, on |-> c, was |-> content, key |-> k])
    /\ UNCHANGED content

SubscriptFinds ==
    /\ call.op = "subscript" /\ call.key \in Stored(call.on)
    /\ Done(content[call.on][call.key])

SubscriptAdds ==
    /\ call.op = "subscript" /\ call.key \notin Stored(call.on)
    /\ content' = [content EXCEPT ![call.on] = Inserted(@, call.key, Default)]
    /\ Return("subscript", call.asked, Default)
    /\ UNCHANGED loop

\* equal_range: lower_bound, then upper_bound.
EqualRange(c, k) ==
    /\ Make([op |-> "equal_range", asked |-> <<c, k>>, on |-> c, was |-> content, key |-> k,
             lower |-> IF k \in Stored(c) THEN k ELSE Following(c, k)])
    /\ UNCHANGED content

EqualRangeEnds ==
    /\ call.op = "equal_range"
    /\ Done(<<call.lower, Following(call.on, call.key)>>)

\* erase(first, last).
EraseRange(c, p, q) ==
    /\ p \in Stored(c) \cup {End} /\ q \in Stored(c) \cup {End} /\ p <= q
    /\ Make([op |-> "erase_range", asked |-> <<c, p, q>>, on |-> c, was |-> content,
             first |-> p, last |-> q])
    /\ UNCHANGED content

\* A plausible slip: the iterator is not moved on.
EraseTurnInPlace ==
    /\ call.op = "erase_range" /\ call.first # call.last
    /\ content' = [content EXCEPT ![call.on] = Erased(@, call.first)]
    /\ Go(call)

\* The iterator moves on before the element it pointed to is erased.
EraseTurn ==
    /\ call.op = "erase_range" /\ call.first # call.last
    /\ content' = [content EXCEPT ![call.on] = Erased(@, call.first)]
    /\ Go([call EXCEPT !.first = Following(call.on, @)])

EraseEnds ==
    /\ call.op = "erase_range" /\ call.first = call.last
    /\ Done(call.last)

\* insert of a range or a list, and the constructors from them.
InsertRange(c, L) ==
    /\ Make([op |-> "insert_range", asked |-> <<c, L>>, on |-> c, was |-> content, todo |-> L])
    /\ UNCHANGED content

\* Assignment of a list clears first.
AssignRange(c, L) ==
    /\ Make([op |-> "assign_range", asked |-> <<c, L>>, on |-> c, was |-> content, todo |-> L])
    /\ content' = [content EXCEPT ![c] = [k \in {} |-> Default]]

InsertTurn ==
    /\ call.op \in {"insert_range", "assign_range"} /\ call.todo # <<>>
    /\ content' = [content EXCEPT
                      ![call.on] = Inserted(@, Head(call.todo).key, Head(call.todo).value)]
    /\ Go([call EXCEPT !.todo = Tail(@)])

InsertEnds ==
    /\ call.op \in {"insert_range", "assign_range"} /\ call.todo = <<>>
    /\ Done(TRUE)

-----------------------------------------------------------------------------
(* Comparisons.                                                            *)

Equalities == {"==", "!="}
Orders     == {"<", ">", "<=", ">="}

\* x > y and x <= y ask whether y comes before x.
Swapped == {">", "<="}
Negated == {"!=", "<=", ">="}

Compare(o, c, x) ==
    LET l == IF o \in Swapped THEN x ELSE c
        r == IF o \in Swapped THEN c ELSE x
    IN  /\ Make([op |-> o, asked |-> <<c, x>>, on |-> l, was |-> content,
                  with |-> r, first1 |-> Begin(l), first2 |-> Begin(r)])
        /\ UNCHANGED content

Outcome(b) == Done(IF call.op \in Negated THEN ~b ELSE b)

MoveOn == Go([call EXCEPT !.first1 = Following(call.on, @), !.first2 = Following(call.with, @)])

SameSize == Cardinality(Stored(call.on)) = Cardinality(Stored(call.with))

\* Containers of different sizes are not compared any further.
SizesDiffer ==
    /\ call.op \in Equalities /\ ~SameSize
    /\ Outcome(FALSE)

\* std::equal.
EqualTurn ==
    /\ call.op \in Equalities /\ SameSize /\ call.first1 # End
    /\ IF Element(call.on, call.first1) = Element(call.with, call.first2)
       THEN MoveOn /\ UNCHANGED content
       ELSE Outcome(FALSE)

EqualEnds ==
    /\ call.op \in Equalities /\ SameSize /\ call.first1 = End
    /\ Outcome(TRUE)

\* A plausible slip: an element that is greater does not end the comparison.
LessTurnOneSided ==
    /\ call.op \in Orders /\ call.first1 # End /\ call.first2 # End
    /\ IF ElementBefore(Element(call.on, call.first1), Element(call.with, call.first2))
       THEN Outcome(TRUE)
       ELSE MoveOn /\ UNCHANGED content

\* std::lexicographical_compare.
LessTurn ==
    /\ call.op \in Orders /\ call.first1 # End /\ call.first2 # End
    /\ LET e == Element(call.on, call.first1)
           f == Element(call.with, call.first2)
       IN  \/ ElementBefore(e, f) /\ Outcome(TRUE)
           \/ ElementBefore(f, e) /\ Outcome(FALSE)
           \/ e = f /\ MoveOn /\ UNCHANGED content

LessEnds ==
    /\ call.op \in Orders
    /\ call.first1 = End \/ call.first2 = End
    /\ Outcome(call.first1 = End /\ call.first2 # End)

-----------------------------------------------------------------------------
(* Loops of the client.                                                    *)

LoopBegins(c, d) ==
    /\ Quiet /\ c \in Loopers
    /\ loop' = [op |-> "loop", on |-> c, dir |-> d,
                at |-> IF d = "forward" THEN Begin(c) ELSE End,
                seen |-> <<>>, stayed |-> Stored(c)]
    /\ UNCHANGED <<content, call, answer>>

\* The loop looks at the element k and goes on to p.
Visit(k, p) == loop' = [loop EXCEPT !.seen = Append(@, k), !.at = p]

\* So it does, and erases k.
VisitErasing(k, p) ==
    /\ loop' = [loop EXCEPT !.seen = Append(@, k), !.at = p, !.stayed = @ \ {k}]
    /\ content' = [content EXCEPT ![loop.on] = Erased(@, k)]
    /\ UNCHANGED <<call, answer>>

\* A reverse iterator stands behind the element it refers to.
Stop == IF loop.dir = "forward" THEN End ELSE Begin(loop.on)

ForwardTurn ==
    /\ Free /\ loop # None /\ loop.dir = "forward" /\ loop.at # Stop
    /\ Visit(loop.at, Following(loop.on, loop.at))
    /\ UNCHANGED <<content, call, answer>>

\* A plausible slip: a reverse iterator does not step back to look.
BackwardTurnInPlace ==
    /\ Free /\ loop # None /\ loop.dir = "backward" /\ loop.at # Stop
    /\ Visit(loop.at, Preceding(loop.on, loop.at))
    /\ UNCHANGED <<content, call, answer>>

BackwardTurn ==
    /\ Free /\ loop # None /\ loop.dir = "backward" /\ loop.at # Stop
    /\ LET p == Preceding(loop.on, loop.at) IN Visit(p, p)
    /\ UNCHANGED <<content, call, answer>>

\* A plausible slip: erase(position) answers with the first element.
LoopErasesRestarts ==
    /\ Free /\ loop # None /\ loop.dir = "forward" /\ loop.at # Stop
    /\ VisitErasing(loop.at, Min((Stored(loop.on) \ {loop.at}) \cup {End}))

\* it = erase(it).
LoopErases ==
    /\ Free /\ loop # None /\ loop.dir = "forward" /\ loop.at # Stop
    /\ VisitErasing(loop.at, Following(loop.on, loop.at))

LoopEnds ==
    /\ Free /\ loop # None /\ loop.at = Stop
    /\ loop' = None /\ UNCHANGED <<content, call, answer>>

\* The client has read the result.
Read == answer # NoAnswer /\ answer' = NoAnswer /\ UNCHANGED <<content, call, loop>>

-----------------------------------------------------------------------------
Works ==
    \/ SubscriptFinds \/ SubscriptAdds \/ EqualRangeEnds
    \/ EraseTurn \/ EraseEnds \/ InsertTurn \/ InsertEnds
    \/ SizesDiffer \/ EqualTurn \/ EqualEnds \/ LessTurn \/ LessEnds

Loops == ForwardTurn \/ BackwardTurn \/ LoopErases \/ LoopEnds

Next ==
    \/ \E c \in Containers :
          \/ \E k \in Keys :
                \/ Erase(c, k) \/ At(c, k) \/ Count(c, k) \/ Subscript(c, k) \/ EqualRange(c, k)
                \/ \E v \in Given[k] : Insert(c, k, v) \/ Write(c, k, v)
          \/ \E p, q \in Keys \cup {End} : EraseRange(c, p, q)
          \/ \E L \in Lists : InsertRange(c, L) \/ AssignRange(c, L)
          \/ \E x \in Containers, o \in Equalities \cup Orders : Compare(o, c, x)
          \/ \E d \in {"forward", "backward"} : LoopBegins(c, d)
    \/ Works \/ Loops \/ Read

\* A call that runs comes to its next step.  The client reads its results, and
\* the body of its loop makes no calls for ever.
Fairness == WF_vars(Works) /\ WF_vars(Read) /\ SF_vars(Loops)

Spec == Init /\ [][Next]_vars /\ Fairness

-----------------------------------------------------------------------------
(* What must hold.                                                         *)

Positions == Keys \cup {End}

TypeOK ==
    /\ \A c \in Containers : Stored(c) \subseteq Keys /\ Range(content[c]) \subseteq Values
    /\ loop # None => loop.at \in Stored(loop.on) \cup {End} /\ call = None
    /\ call.op = "erase_range" => /\ call.first \in Stored(call.on) \cup {End}
                                  /\ call.last \in Stored(call.on) \cup {End}
    /\ call.op \in Equalities \cup Orders =>
          /\ call.first1 \in Stored(call.on) \cup {End}
          /\ call.first2 \in Stored(call.with) \cup {End}

\* A loop comes by the elements in their order, each once, whatever the client
\* inserts and erases meanwhile.
LoopsInOrder ==
    loop # None =>
       \A i \in 1..(Len(loop.seen) - 1) :
          IF loop.dir = "forward" THEN loop.seen[i] < loop.seen[i + 1]
                                  ELSE loop.seen[i] > loop.seen[i + 1]

\* When it ends it has come by every element that was there all along.
LoopsMissNothing == [][LoopEnds => loop.stayed \subseteq Range(loop.seen)]_vars

Committed == IF call = None THEN content ELSE call.was

M == INSTANCE MapCalls WITH maps <- Committed

\* For the client, who sees the elements before a call and after it, each of
\* these calls does at one instant what is promised of it: a range is erased
\* to the last element and no further, the first of equal keys counts, and
\* the six comparisons are those of the sequences of elements.
ImplementsMapCalls == M!Spec

\* Every call returns, and a loop ends whatever is inserted and erased
\* meanwhile.
CallsReturn ==
    /\ [](call # None => <>(call = None))
    /\ [](loop # None => <>(loop = None))
=============================================================================
