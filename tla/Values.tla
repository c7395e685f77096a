------------------------------- MODULE Values -------------------------------
(* Typed values as bytes in memory: what a user types, what is shown, and    *)
(* what the filters compare, for one candidate of a search.  Widths are      *)
(* scaled down; signs, wrap-around, zeros, infinities and NaNs are not.      *)
EXTENDS Integers, Sequences

CONSTANTS Base,      \* number of values of a byte
          Half,      \* bytes in a 32-bit type; a 64-bit type has twice as many
          BytesSeen, \* the values of a byte that occur in memory
          Typed,     \* the texts of numbers a user types
          NotTyped,
          NaN        \* the text of a float that is no number

ASSUME ValuesAssumption ==
    /\ Base \in Nat /\ Base >= 16 /\ Base % 2 = 0 /\ Half \in Nat \ {0}
    /\ BytesSeen \subseteq 0..Base-1
    /\ Typed \subseteq Int \cup {NaN} /\ {NotTyped, NaN} \cap Int = {} /\ NotTyped # NaN

Signed == {"int32", "int64"}
Unsigned == {"uint32", "uint64"}
Floats == {"float32", "float64"}
ValueTypes == Signed \cup Unsigned \cup Floats \cup {"bytes"}

ByteSize(t) ==
    CASE t \in {"int32", "uint32", "float32"} -> Half
      [] t \in {"int64", "uint64", "float64"} -> 2 * Half
      [] OTHER -> 0

\* What a byte is worth with i bytes below it, how many numbers a type has, and
\* a byte sequence as one, little-endian.
Weight[i \in 0 .. 2 * Half] == IF i = 0 THEN 1 ELSE Base * Weight[i-1]
Numbers(t) == Weight[ByteSize(t)]
Number(b, t) ==
    LET upTo[i \in 0..ByteSize(t)] == IF i = 0 THEN 0 ELSE upTo[i-1] + b[i] * Weight[i-1]
    IN  upTo[ByteSize(t)]
BytesOf(n, t) == [i \in 1..ByteSize(t) |-> (n \div Weight[i-1]) % Base]

\* A float is a sign, and a magnitude that orders like its bits: finite numbers,
\* the infinity, then the NaNs.
Infinity(t) == Numbers(t) \div 2 - Numbers(t) \div 8
Negative(n, t) == n >= Numbers(t) \div 2
Magnitude(n, t) == n % (Numbers(t) \div 2)
IsNaN(n, t) == t \in Floats /\ Magnitude(n, t) > Infinity(t)

TwosComplement(n, t) == IF Negative(n, t) THEN n - Numbers(t) ELSE n

-----------------------------------------------------------------------------
(* The text of a value: of an integer, the number.  The decimals a user may  *)
(* type for a float lie between the floats, too: 4 * m is the text of the    *)
(* float of magnitude m, and the next three are decimals a quarter, a half   *)
(* and three quarters of the way to the next float.  Those of negative       *)
(* numbers come before 0 in the same steps, "-0" being -1.                   *)

Between(m, n) == IF m < n THEN n - m ELSE m - n
Quarters(text) == IF text < 0 THEN -1 - text ELSE text

\* Deviation: the rest after the last digit that fits is cut off.
CutOff(quarters) == quarters \div 4

\* How ParseFloat rounds: to the nearest float, half-way to the even one.
Rounded(quarters) ==
    LET below == quarters \div 4 IN
    CASE quarters % 4 < 2 -> below
      [] quarters % 4 = 2 -> below + (below % 2)
      [] quarters % 4 > 2 -> below + 1

\* FormatValue.
FormatValue(b, t) ==
    LET n == Number(b, t)
    IN  CASE t = "bytes" -> b
          [] Len(b) < ByteSize(t) -> "?"
          [] t \in Signed -> TwosComplement(n, t)
          [] t \in Unsigned -> n
          [] IsNaN(n, t) -> NaN
          [] OTHER -> IF Negative(n, t) THEN -1 - 4 * Magnitude(n, t) ELSE 4 * n

\* Deviation: only finite numbers are accepted.
FiniteInRange(text, t) == text # NaN /\ Rounded(Quarters(text)) < Infinity(t)

\* Anything else is an error.  "Inf" and "NaN" are numbers to ParseFloat, but a
\* decimal that would be rounded to the infinity is not.
FloatInRange(text, t) ==
    text # NaN => \/ Quarters(text) = 4 * Infinity(t)
                  \/ Rounded(Quarters(text)) < Infinity(t)

\* Deviation: signed types accept what fits into as many bits without a sign.
InRangeOfWidth(text, t) ==
    IF t \in Floats THEN FloatInRange(text, t)
    ELSE text # NaN /\ -(Numbers(t) \div 2) <= text /\ text < Numbers(t)

InRange(text, t) ==
    CASE t \in Signed -> text # NaN /\ -(Numbers(t) \div 2) <= text /\ text < Numbers(t) \div 2
      [] t \in Unsigned -> text # NaN /\ 0 <= text /\ text < Numbers(t)
      [] t \in Floats -> FloatInRange(text, t)

\* The number whose bytes are stored: for "NaN", that of one of the NaNs.
Stored(text, t) ==
    CASE t \in Floats /\ text = NaN -> Numbers(t) \div 2 - 1
      [] t \in Floats /\ text # NaN ->
            Rounded(Quarters(text)) + (IF text < 0 THEN Numbers(t) \div 2 ELSE 0)
      [] t \notin Floats -> text % Numbers(t)

ParseValue(text, t) == BytesOf(Stored(text, t), t)

-----------------------------------------------------------------------------
(* Comparing and filtering.                                                  *)

Sign(n) == IF n > 0 THEN 1 ELSE IF n < 0 THEN -1 ELSE 0

\* Deviation: every integer is compared with its sign.
PlaceSigned(n, t) ==
    CASE t \in Signed \cup Unsigned -> TwosComplement(n, t)
      [] IsNaN(n, t) -> -Numbers(t)
      [] OTHER -> IF Negative(n, t) THEN -Magnitude(n, t) ELSE n

\* Where cmp.Compare puts a number: NaNs are equal and less than all others, the
\* two zeros are equal.
Place(n, t) ==
    CASE t \in Signed -> TwosComplement(n, t)
      [] t \in Unsigned -> n
      [] IsNaN(n, t) -> -Numbers(t)
      [] OTHER -> IF Negative(n, t) THEN -Magnitude(n, t) ELSE n

CompareValues(a, b, t) ==
    IF t = "bytes" \/ Len(a) < ByteSize(t) \/ Len(b) < ByteSize(t) THEN 0
    ELSE Sign(Place(Number(a, t), t) - Place(Number(b, t), t))

FilterKeep(mode, now, before, target, t) ==
    CASE mode = "changed" -> now # before
      [] mode = "unchanged" -> now = before
      [] mode = "increased" -> CompareValues(now, before, t) > 0
      [] mode = "decreased" -> CompareValues(now, before, t) < 0
      [] mode = "value" -> now = target

-----------------------------------------------------------------------------
(* A candidate: the memory changes, filters keep it or drop it.              *)

VARIABLES vt,      \* the session's type
          prev,    \* the candidate's recorded value
          now,     \* what is in the memory
          typed,   \* the number a user last wrote there, until something else did
          kept     \* whether the candidate is still in the session

valueVars == <<vt, prev, now, typed, kept>>

Samples(len) == [1..len -> BytesSeen]
Width == IF vt = "bytes" THEN Len(prev) ELSE ByteSize(vt)

\* A candidate from a file may be shorter or longer than its type.
ValuesInit ==
    /\ vt \in ValueTypes
    /\ prev \in Samples(Half) \cup Samples(2 * Half)
    /\ now \in Samples(Width)
    /\ typed = NotTyped /\ kept = TRUE

MemoryWrites(b) ==
    /\ kept /\ now' = b /\ typed' = NotTyped
    /\ UNCHANGED <<vt, prev, kept>>

\* A number out of range is refused.
Modify(text) ==
    /\ kept /\ vt # "bytes" /\ InRange(text, vt)
    /\ now' = ParseValue(text, vt) /\ typed' = text
    /\ UNCHANGED <<vt, prev, kept>>

\* Only a filter for a value parses one.
Sought == {now} \cup {ParseValue(n, vt) : n \in {m \in Typed : vt # "bytes" /\ InRange(m, vt)}}

Filter(mode) ==
    /\ kept
    /\ \E target \in IF mode = "value" THEN Sought ELSE {now} :
          kept' = FilterKeep(mode, now, prev, target, vt)
    /\ prev' = IF kept' THEN now ELSE prev
    /\ UNCHANGED <<vt, now, typed>>

FilterModes == {"changed", "unchanged", "increased", "decreased", "value"}

ValuesNext ==
    \/ \E b \in Samples(Width) : MemoryWrites(b)
    \/ \E text \in Typed : Modify(text)
    \/ \E mode \in FilterModes : Filter(mode)

ValuesSpec == ValuesInit /\ [][ValuesNext]_valueVars

-----------------------------------------------------------------------------
(* Properties.                                                               *)

\* The kinds of all variables.  Memory is read at the width of the type.
ValuesTypeOK ==
    /\ vt \in ValueTypes
    /\ Len(prev) \in {Half, 2 * Half} /\ Len(now) = Width
    /\ \A b \in {prev, now} : \A i \in 1..Len(b) : b[i] \in 0..Base-1
    /\ typed \in Typed \cup {NotTyped}
    /\ kept \in BOOLEAN

\* The order of what is shown: "NaN" comes first, "-0" and "0" are one value.
Rank(text) == IF text = NaN THEN -4 * Numbers(vt)
              ELSE IF vt \in Floats /\ text < 0 THEN text + 1 ELSE text

Comparable == vt # "bytes" /\ Len(prev) >= ByteSize(vt)

\* "Increased" keeps a candidate exactly when the value shown for it is greater
\* than the one shown before, "decreased" when it is less: whatever the signs, at
\* the ends of the range, at zeros, infinities and NaNs.  Bytes, and a value too
\* short for its type, are neither (types.go:139 to 161 against 166 to 186).
FiltersFollowShown ==
    LET shown == Rank(FormatValue(now, vt))
        before == Rank(FormatValue(prev, vt))
    IN  /\ FilterKeep("increased", now, prev, now, vt) <=> Comparable /\ shown > before
        /\ FilterKeep("decreased", now, prev, now, vt) <=> Comparable /\ shown < before

\* A number a user wrote is shown as it was typed if the type has it; a decimal
\* between two floats is shown as the nearer one, with its sign.  One out of the
\* range of the type is refused and never wraps (types.go:88 to 134 and 139 to 161).
TypedIsNearest ==
    typed # NotTyped =>
        LET shown == FormatValue(now, vt) IN
        IF vt \notin Floats \/ typed = NaN THEN shown = typed
        ELSE /\ shown # NaN /\ (shown < 0 <=> typed < 0)
             /\ \A m \in 0..Infinity(vt) :
                   Between(Quarters(shown), Quarters(typed)) <= Between(4 * m, Quarters(typed))

\* A user who types what is shown for a candidate finds it: the text is accepted
\* and stands for the same bytes, at the ends of the range, for both zeros and the
\* infinities; NaNs alone, which all look alike, may be missed (types.go:88 to 161).
ShownIsFound ==
    LET shown == FormatValue(now, vt) IN
    vt # "bytes" /\ shown # NaN =>
        InRange(shown, vt) /\ FilterKeep("value", now, prev, ParseValue(shown, vt), vt)

\* Text and bytes agree in both directions: what is typed is what is shown, up to
\* the rounding of a float, and what is shown is what is found (types.go:88 to 161).
TextsAgree == TypedIsNearest /\ ShownIsFound
=============================================================================
