---------------------------- MODULE KeyTransform -----------------------------
(***************************************************************************)
(* key_transform turns a key into chunks whose order as bytes is the order *)
(* of the keys.  An integer of n bytes is the number that its bits stand   *)
(* for without a sign, on a machine that stores it in either byte order; a *)
(* byte has Bits bits.  Two transformed keys are compared chunk by chunk,  *)
(* as value_compare and std::memcmp do.                                    *)
(***************************************************************************)
EXTENDS Integers, FiniteSetsExt, SequencesExt, Bitwise

CONSTANTS
    Bits,      \* bits of a byte: 8 in the code
    Types,     \* the key types, records with fields sort and size
    Keys(_),   \* keys of a type
    MaxSize    \* MAX_SIZE of a string

ASSUME TypesAssumption ==
    /\ Bits \in Nat \ {0, 1} /\ MaxSize \in Nat \ {0}
    /\ \A t \in Types : t.sort \in {"unsigned", "signed", "pair", "string"}

VARIABLES
    type,       \* type of the two keys that are compared
    keys,       \* the keys
    bigEndian,  \* does the machine store the largest byte first?
    chunk,      \* the chunks before this one are equal
    result      \* of the comparison: "" while it runs

vars == <<type, keys, bigEndian, chunk, result>>

Base == 2^Bits

-----------------------------------------------------------------------------
(* Shifts and masks on words of n bytes.                                   *)

Word(n) == Base^n

\* The mask that keeps the bytes of S, counted from the smallest.
Mask(S) == MapThenSumSet(LAMBDA i : (Base - 1) * Base^i, S)

Shl(v, k, n) == (v * Base^k) % Word(n)

Shr(v, k) == v \div Base^k

Negative(v, n) == v >= Word(n) \div 2

\* A signed number is shifted to the right with copies of its sign.
Sar(v, k, n) == Shr(v, k) + IF Negative(v, n) THEN Word(n) - Base^(n - k) ELSE 0

ByteSwap16(v) == Shl(v, 1, 2) | Shr(v, 1)

ByteSwapSigned16(v) == Shl(v, 1, 2) | (Sar(v, 1, 2) & Mask({0}))

ByteSwap32(v) ==
    LET w == (Shl(v, 1, 4) & Mask({1, 3})) | (Shr(v, 1) & Mask({0, 2}))
    IN  Shl(w, 2, 4) | Shr(w, 2)

ByteSwapSigned32(v) ==
    LET w == (Shl(v, 1, 4) & Mask({1, 3})) | (Sar(v, 1, 4) & Mask({0, 2}))
    IN  Shl(w, 2, 4) | (Sar(w, 2, 4) & Mask({0, 1}))

ByteSwap64(v) ==
    LET w == (Shl(v, 1, 8) & Mask({1, 3, 5, 7})) | (Shr(v, 1) & Mask({0, 2, 4, 6}))
        x == (Shl(w, 2, 8) & Mask({2, 3, 6, 7})) | (Shr(w, 2) & Mask({0, 1, 4, 5}))
    IN  Shl(x, 4, 8) | Shr(x, 4)

\* A plausible slip: in the last line the copies of the sign are not masked.
ByteSwapSigned64Unmasked(v) ==
    LET w == (Shl(v, 1, 8) & Mask({1, 3, 5, 7})) | (Sar(v, 1, 8) & Mask({0, 2, 4, 6}))
        x == (Shl(w, 2, 8) & Mask({2, 3, 6, 7})) | (Sar(w, 2, 8) & Mask({0, 1, 4, 5}))
    IN  Shl(x, 4, 8) | Sar(x, 4, 8)

ByteSwapSigned64(v) ==
    LET w == (Shl(v, 1, 8) & Mask({1, 3, 5, 7})) | (Sar(v, 1, 8) & Mask({0, 2, 4, 6}))
        x == (Shl(w, 2, 8) & Mask({2, 3, 6, 7})) | (Sar(w, 2, 8) & Mask({0, 1, 4, 5}))
    IN  Shl(x, 4, 8) | (Sar(x, 4, 8) & Mask({0, 1, 2, 3}))

-----------------------------------------------------------------------------
(* The transformation of each type.                                        *)

Unsigned(v, n, big) ==
    CASE n = 1 \/ big -> v
      [] n = 2 -> ByteSwap16(v)
      [] n = 4 -> ByteSwap32(v)
      [] n = 8 -> ByteSwap64(v)

\* A plausible slip: the sign bit of a byte is left alone.
SignFlippedBeyondByte(v, n) == IF n = 1 THEN v ELSE v ^^ (Word(n) \div 2)

SignFlipped(v, n) == v ^^ (Word(n) \div 2)

Signed(v, n, big) ==
    LET w == SignFlipped(v, n)
    IN  CASE n = 1 \/ big -> w
          [] n = 2 -> ByteSwapSigned16(w)
          [] n = 4 -> ByteSwapSigned32(w)
          [] n = 8 -> ByteSwapSigned64(w)

\* The bytes of a word as they lie in memory.
InMemory(v, n, big) ==
    [i \in 1..n |-> (v \div Base^(IF big THEN n - i ELSE i - 1)) % Base]

IntegerChunks(t, v, big) ==
    InMemory(IF t.sort = "signed" THEN Signed(v % Word(t.size), t.size, big)
                                  ELSE Unsigned(v, t.size, big), t.size, big)

\* A string that is shorter than MAX_SIZE, and zeros behind it.
StringChunks(k) == [i \in 1..MaxSize |-> IF i <= Len(k) THEN k[i] ELSE 0]

Chunks(t, k, big) ==
    CASE t.sort = "string" -> StringChunks(k)
      [] t.sort = "pair" -> IntegerChunks(t.first, k[1], big) \o IntegerChunks(t.second, k[2], big)
      [] OTHER -> IntegerChunks(t, k, big)

-----------------------------------------------------------------------------
(* The comparison of two keys.                                             *)

Init ==
    /\ type \in Types
    /\ keys \in Keys(type) \X Keys(type)
    /\ bigEndian \in BOOLEAN
    /\ chunk = 1 /\ result = ""

X == Chunks(type, keys[1], bigEndian)
Y == Chunks(type, keys[2], bigEndian)

NextChunk ==
    /\ result = "" /\ chunk <= Len(X) /\ X[chunk] = Y[chunk]
    /\ chunk' = chunk + 1
    /\ UNCHANGED <<type, keys, bigEndian, result>>

Decided ==
    /\ result = "" /\ chunk <= Len(X) /\ X[chunk] # Y[chunk]
    /\ result' = IF X[chunk] < Y[chunk] THEN "less" ELSE "greater"
    /\ UNCHANGED <<type, keys, bigEndian, chunk>>

NoDifference ==
    /\ result = "" /\ chunk > Len(X)
    /\ result' = "equal"
    /\ UNCHANGED <<type, keys, bigEndian, chunk>>

Next == NextChunk \/ Decided \/ NoDifference

Spec == Init /\ [][Next]_vars

-----------------------------------------------------------------------------
(* What must hold.                                                         *)

\* The order of the keys themselves.
Before(t, a, b) ==
    CASE t.sort = "pair" -> a[1] < b[1] \/ (a[1] = b[1] /\ a[2] < b[2])
      [] t.sort = "string" ->
            \/ IsStrictPrefix(a, b)
            \/ \E i \in 1..Len(a) : /\ i <= Len(b) /\ a[i] < b[i]
                                    /\ \A j \in 1..(i - 1) : a[j] = b[j]
      [] OTHER -> a < b

\* On every machine the order of the chunks is the order of the keys: at both
\* ends of the range of an integer and around zero, for both parts of a pair,
\* and for a string that begins with another.
OrderIsKept ==
    result # "" => /\ result = "less"    <=> Before(type, keys[1], keys[2])
                   /\ result = "greater" <=> Before(type, keys[2], keys[1])

\* Different keys stay different, or a container would take one for the other.
KeysStayDistinct == result = "equal" <=> result # "" /\ keys[1] = keys[2]
=============================================================================
